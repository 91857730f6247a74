-------------------------------- MODULE FileTree --------------------------------
(***************************************************************************)
(* The data of the file tools (tools/files): the paths a tool may be given *)
(* and what they stand for inside the root directory, the operations of    *)
(* the file system below it, and the text of patches.  All operators are   *)
(* pure; module FileTools runs them.                                       *)
(*                                                                         *)
(* A path as written is the sequence of what stands between its slashes:   *)
(* "d/./a" is <<"d", ".", "a">>, "/b" is <<"", "b">> and "/" is            *)
(* <<"", "">>.  A place is a path in its shortest form, below the root,    *)
(* which is <<>>; the directory the root is in is outside, and is there.   *)
(* A text is the sequence of its lines; the empty text is <<"">>.          *)
(***************************************************************************)
EXTENDS Naturals, Sequences, SequencesExt, FiniteSets

CONSTANTS
    Places      \* the places of the small world, closed under Parent

Root == <<>>
Parent(place) == Front(place)

\* A path in its shortest form.
IsPlace(p) == \A k \in DOMAIN p : p[k] \notin {"", ".", ".."}

ASSUME PlacesAssumption ==
    /\ IsFiniteSet(Places) /\ Places \subseteq Seq(STRING) /\ \A p \in Places : IsPlace(p)
    /\ Root \in Places /\ \A p \in Places \ {Root} : Parent(p) \in Places

\* Mutant of Enter: ".." climbs out of the root.
EnterAnything(place, component) ==
    IF component \in {".", ""} THEN place ELSE Append(place, component)

\* One component further: ".." stops at the root (filepath.Clean).
Enter(place, component) ==
    IF component \in {".", ""} THEN place
    ELSE IF component # ".." THEN Append(place, component)
    ELSE IF place = Root THEN Root ELSE Parent(place)

\* normalizeVirtualPath and hostPath: relative paths start at the root too.
Resolve(path) ==
    LET at[k \in 0..Len(path)] == IF k = 0 THEN Root ELSE Enter(at[k - 1], path[k])
    IN at[Len(path)]

IsBlankPath(path) == path \in {<<>>, <<"">>}

\* filepath.Clean of a relative path: the ".." that lead out of it stay.
Cleaned(path) ==
    LET at[k \in 0..Len(path)] ==
            IF k = 0 THEN <<>>
            ELSE IF path[k] \in {"", "."} THEN at[k - 1]
            ELSE IF path[k] = ".." /\ at[k - 1] # <<>> /\ Last(at[k - 1]) # ".."
            THEN Front(at[k - 1])
            ELSE Append(at[k - 1], path[k])
    IN at[Len(path)]

\* filepath.Dir is not ".".
HasParent(path) == Head(path) = "" \/ Cleaned(Front(path)) # <<>>

-----------------------------------------------------------------------------
(* Nodes.  A file has an inode, by which an open file is known.             *)

Absent == [kind |-> "absent", text |-> <<>>, ino |-> 0]
Directory == [kind |-> "dir", text |-> <<>>, ino |-> 0]
File(text, ino) == [kind |-> "file", text |-> text, ino |-> ino]

Texts == Seq(STRING) \ {<<>>}

\* The empty line is a string: a fact of TLA+ that the provers have to be given.
ASSUME EmptyLineAssumption == "" \in STRING

Nodes == {Absent, Directory} \cup [kind : {"file"}, text : Texts, ino : Nat]

Exists(tree, p) == tree[p].kind # "absent"
IsDir(tree, p) == tree[p].kind = "dir"
IsFile(tree, p) == tree[p].kind = "file"

\* Whatever exists below the root is in a directory.  The root itself may be missing, or
\* a file: it is made, and removed, like any other place.
IsTree(tree) == \A p \in Places \ {Root} : Exists(tree, p) => IsDir(tree, Parent(p))

\* No two files share an inode.
OwnInodes(tree) ==
    \A p, q \in Places : IsFile(tree, p) /\ IsFile(tree, q) /\ p # q
                            => tree[p].ino # tree[q].ino

Children(tree, p) == {c \in Places \ {Root} : Parent(c) = p /\ Exists(tree, c)}
Above(p) == {a \in Places : IsStrictPrefix(a, p)}

\* os.MkdirAll of a directory and those it is in, or an error that leaves the tree as it
\* is.
CanMkdirAll(tree, dirs) == \A a \in dirs : ~IsFile(tree, a)
MkdirAll(tree, dirs) == [a \in Places |-> IF a \in dirs THEN Directory ELSE tree[a]]

\* os.WriteFile is two calls: the file is opened, created or truncated, ...
CanOpen(tree, p) == (p = Root \/ IsDir(tree, Parent(p))) /\ ~IsDir(tree, p)
Inodes(tree) == {tree[p].ino : p \in Places}
Open(tree, p, fresh) ==
    [tree EXCEPT ![p] = File(<<"">>, IF IsFile(tree, p) THEN @.ino ELSE fresh)]

\* ... and written from its start, over what another writer may have put there;
\* a file that is no longer there keeps the data to itself.
Overlay(text, below) ==
    IF text = <<"">> THEN below
    ELSE text \o SubSeq(below, Len(text) + 1, Len(below))

WriteData(tree, p, ino, text) ==
    IF IsFile(tree, p) /\ tree[p].ino = ino
    THEN [tree EXCEPT ![p].text = Overlay(text, @)]
    ELSE tree

\* os.Remove takes a file or an empty directory, the root as well.
CanRemove(tree, p) == Exists(tree, p) /\ Children(tree, p) = {}
Unlinked(tree, p) == [tree EXCEPT ![p] = Absent]

\* strings.Join of no lines is the empty text.
TextOf(lines) == IF lines = <<>> THEN <<"">> ELSE lines

-----------------------------------------------------------------------------
(* Patches.  A hunk is its first line's number and its lines, each kept     *)
(* (" "), deleted ("-") or added ("+").                                     *)

\* Mutant of PatchLine: a deleted line is not compared with the original.
PatchLineUnchecked(original, v, line) ==
    IF line.op = "+" THEN [v EXCEPT !.out = Append(@, line.text)]
    ELSE IF v.cursor >= Len(original) THEN [v EXCEPT !.ok = FALSE]
    ELSE IF line.op = "-" THEN [v EXCEPT !.cursor = @ + 1]
    ELSE IF original[v.cursor + 1] # line.text THEN [v EXCEPT !.ok = FALSE]
    ELSE [v EXCEPT !.cursor = @ + 1, !.out = Append(@, line.text)]

\* A kept or deleted line must be the original's at the cursor.
PatchLine(original, v, line) ==
    IF line.op = "+" THEN [v EXCEPT !.out = Append(@, line.text)]
    ELSE IF v.cursor >= Len(original) \/ original[v.cursor + 1] # line.text
    THEN [v EXCEPT !.ok = FALSE]
    ELSE IF line.op = "-" THEN [v EXCEPT !.cursor = @ + 1]
    ELSE [v EXCEPT !.cursor = @ + 1, !.out = Append(@, line.text)]

\* The lines of a hunk, up to the first that does not fit.
PatchLines(original, v, lines) ==
    LET at[k \in 0..Len(lines)] ==
            IF k = 0 THEN v
            ELSE IF at[k - 1].ok THEN PatchLine(original, at[k - 1], lines[k]) ELSE at[k - 1]
    IN at[Len(lines)]

\* A hunk starts on a line of the original, not before the end of the last one.
PatchHunk(original, v, hunk) ==
    LET start == hunk.start - 1 IN
    IF ~v.ok \/ hunk.start = 0 \/ start > Len(original) \/ start < v.cursor
    THEN [v EXCEPT !.ok = FALSE]
    ELSE PatchLines(original,
                    [v EXCEPT !.out = @ \o SubSeq(original, v.cursor + 1, start),
                              !.cursor = start],
                    hunk.lines)

PatchHunks(original, hunks) ==
    LET at[k \in 0..Len(hunks)] ==
            IF k = 0 THEN [ok |-> hunks # <<>>, out |-> <<>>, cursor |-> 0]
            ELSE PatchHunk(original, at[k - 1], hunks[k])
    IN at[Len(hunks)]

\* applyUnifiedPatch: [ok, text].
ApplyUnifiedPatch(original, hunks) ==
    LET v == PatchHunks(original, hunks)
    IN [ok |-> v.ok,
        text |-> TextOf(v.out \o SubSeq(original, v.cursor + 1, Len(original)))]

-----------------------------------------------------------------------------
(* The reference: what a patch means, without a cursor.                     *)

\* The lines but those of the other side.
Side(lines, op) ==
    LET at[k \in 0..Len(lines)] ==
            IF k = 0 THEN <<>>
            ELSE IF lines[k].op = op THEN at[k - 1] ELSE Append(at[k - 1], lines[k].text)
    IN at[Len(lines)]
Before(hunk) == Side(hunk.lines, "+")
After(hunk) == Side(hunk.lines, "-")

\* The last line of the original that the first k hunks are about.
End(hunks, k) == IF k = 0 THEN 0 ELSE hunks[k].start + Len(Before(hunks[k])) - 1

Fits(original, hunks) ==
    /\ hunks # <<>>
    /\ \A k \in DOMAIN hunks :
          /\ hunks[k].start > End(hunks, k - 1)
          /\ End(hunks, k) <= Len(original)
          /\ SubSeq(original, hunks[k].start, End(hunks, k)) = Before(hunks[k])

\* What is between the hunks, and their new lines.
Parts(original, hunks) ==
    LET at[k \in 0..Len(hunks)] ==
            IF k = 0 THEN <<>>
            ELSE at[k - 1]
                 \o SubSeq(original, End(hunks, k - 1) + 1, hunks[k].start - 1)
                 \o After(hunks[k])
    IN at[Len(hunks)]

Patched(original, hunks) ==
    TextOf(Parts(original, hunks)
           \o SubSeq(original, End(hunks, Len(hunks)) + 1, Len(original)))
===============================================================================
