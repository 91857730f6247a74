----------------------------- MODULE MCToolRunner -----------------------------
(* The rounds and trees of the "files" run.                                  *)
EXTENDS ToolRunner

a == <<"a">>
b == <<"b">>
d == <<"d">>
MCPlaces == {Root, a, b, d, <<"c">>, <<"a", "x">>, <<"d", "a">>, <<"d", "b">>,
             <<"d", "e">>, <<"d", "e", "a">>}

Planted(files, dirs) ==
    [p \in MCPlaces |-> IF p \in DOMAIN files THEN files[p]
                        ELSE IF p \in dirs THEN Directory ELSE Absent]
\* Two files and a directory; and a root that nobody has made yet.
MCTrees == {Planted((a :> File(<<"1", "2", "3">>, 1)) @@ (<<"d", "a">> :> File(<<"1">>, 2)),
                    {Root, d}),
            [p \in MCPlaces |-> Absent]}

Call(id, tool, path) ==
    [id |-> id, tool |-> tool, path |-> path, text |-> <<"">>, ops |-> <<>>,
     pattern |-> "**", offset |-> 2, limit |-> 1]
Write(id, path, text) == [Call(id, "write", path) EXCEPT !.text = text]
Grep(id, path, text) == [Call(id, "grep", path) EXCEPT !.text = text, !.pattern = ""]
Patch(id, ops) == [Call(id, "apply_patch", <<>>) EXCEPT !.ops = ops]

PatchOp(kind, path) ==
    [kind |-> kind, path |-> path, moveTo |-> <<>>, body |-> <<"9">>, hunks |-> <<>>]
Update(path, moveTo, hunks) ==
    [PatchOp("update", path) EXCEPT !.moveTo = moveTo, !.hunks = hunks]
Hunk(start, lines) == [start |-> start, lines |-> lines]
Line(op, text) == [op |-> op, text |-> text]
Change(start, old, new) == <<Hunk(start, <<Line("-", old), Line("+", new)>>)>>

\* Every patch of one or two small hunks on the file a.
SmallHunks == [start : 0..5,
          lines : {<<>>, <<Line("-", "1")>>, <<Line(" ", "2"), Line("-", "3")>>,
                   <<Line("+", "9")>>, <<Line("-", "2"), Line("+", "9")>>}]
PatchTexts == {<<Patch("i", <<Update(a, <<>>, h)>>)>> :
                  h \in {<<>>} \cup {<<g>> : g \in SmallHunks} \cup (SmallHunks \X SmallHunks)}

\* A patch that empties the tree first.
Slash == <<"", "">>
Emptying(ops) ==
    Patch("i", <<PatchOp("delete", a), PatchOp("delete", <<"", "d", "a">>), PatchOp("delete", d)>>
               \o ops)

\* Calls that keep out of each other's way.
Apart == {
    <<Patch("i", <<Update(a, <<>>, Change(2, "2", "9")), PatchOp("add", <<"d", "b">>)>>),
      Write("j", <<"..", "b">>, <<"5">>), Call("k", "read", <<"d", "..", "..", "d", "a">>)>>,
    <<Patch("i", <<Update(a, <<"d", "e", "a">>, Change(1, "1", "9"))>>),
      Write("j", b, <<"">>)>>,
    <<Patch("i", <<PatchOp("add", b), PatchOp("delete", <<"c">>), PatchOp("add", <<"c">>)>>),
      Grep("j", d, <<"1">>), Call("k", "read", a)>>,
    <<Patch("i", <<PatchOp("delete", <<"d", "a">>), PatchOp("delete", d)>>),
      Write("j", <<"a", "x">>, <<"5">>), Write("k", <<".">>, <<"5">>)>>,
    <<Write("i", <<"b", "">>, <<"5">>), Write("j", <<"d", "e", "..">>, <<"5">>)>>,
    <<Write("i", <<"", "b">>, <<"5">>), Write("j", <<".", "d", "b">>, <<"5">>)>>,
    <<Write("i", <<".", ".">>, <<"5">>)>>,
    <<[Call("i", "glob", <<".">>) EXCEPT !.pattern = "*"], Call("j", "read", d)>>,
    <<[Grep("i", a, <<"1">>) EXCEPT !.pattern = "*"], Grep("j", <<".">>, <<"">>),
      [Call("k", "glob", d) EXCEPT !.pattern = ""]>>,
    <<Emptying(<<PatchOp("delete", Slash), PatchOp("add", b)>>)>>,
    <<Emptying(<<PatchOp("delete", Slash), PatchOp("add", <<".">>), PatchOp("delete", a)>>)>>}

\* Calls that meet, and calls that fail.
Together == {
    <<Patch("i", <<Update(a, <<>>, Change(1, "1", "8"))>>),
      Patch("i", <<Update(a, <<>>, Change(3, "3", "9"))>>)>>,
    <<Write("i", b, <<"5", "6">>), Write("j", b, <<"7">>), Call("k", "read", b)>>,
    <<Patch("i", <<Update(a, <<".", "a">>, Change(1, "1", "9"))>>), Grep("j", a, <<"1">>)>>,
    <<Patch("i", <<PatchOp("delete", <<"d", "a">>), PatchOp("delete", d)>>),
      Grep("j", <<".">>, <<"1">>), Call("k", "glob", d)>>,
    <<Patch("i", <<Update(a, <<"c">>, Change(1, "1", "9"))>>),
      Patch("j", <<PatchOp("delete", a)>>)>>,
    <<Emptying(<<PatchOp("delete", Slash)>>), Write("j", <<".">>, <<"5">>)>>,
    <<Emptying(<<PatchOp("delete", Slash)>>), Write("j", <<"d", ".", "b">>, <<"5">>),
      Call("k", "read", Slash)>>,
    <<Emptying(<<PatchOp("delete", Slash)>>), Write("j", Slash, <<"5">>)>>,
    <<Call("i", "broken", <<>>), Write("i", b, <<"5">>)>>,
    <<Call("i", "read", <<"">>), Patch("j", <<PatchOp("add", <<>>)>>), Patch("k", <<>>)>>,
    <<Call("i", "unknown", a), Write("j", b, <<"5">>)>>,
    <<Call("", "read", a)>>}

MCRounds == PatchTexts \cup Apart \cup Together
==============================================================================
