------------------------------- MODULE FileTools -------------------------------
(***************************************************************************)
(* Calls of the file tools on one sandboxed tree, in parallel: apply_patch *)
(* (tool_patch.go), write, read, glob and grep.  One action is one call of *)
(* the operating system, between which other calls may run; the tools hold *)
(* no lock.  A call never fails as such: what goes wrong is its answer,    *)
(* "error: ...".  "broken" stands for a tool of another kind, whose Call   *)
(* returns an error.                                                       *)
(***************************************************************************)
EXTENDS FileTree

CONSTANTS
    Rounds,     \* the sequences of calls a response may ask for
    Trees       \* the trees there may be at the start

HunkLines == [op : {" ", "-", "+"}, text : STRING]
Hunks == [start : Nat, lines : Seq(HunkLines)]
PatchOps == [kind : {"add", "delete", "update"}, path : Seq(STRING), moveTo : Seq(STRING),
             body : Seq(STRING), hunks : Seq(Hunks)]
\* glob's pattern, and grep's filter for files; "" is none.
Patterns == {"", "*", "**"}
CallRecords == [id : STRING, tool : STRING, path : Seq(STRING), text : Texts,
                ops : Seq(PatchOps), pattern : Patterns, offset : Nat \ {0}, limit : Nat \ {0}]

\* The paths a call may ask for: those it is given, and what write takes for the parent.
Named(call) ==
    {call.path} \cup (IF call.tool = "write" THEN {Front(call.path)} ELSE {})
    \cup UNION {{call.ops[k].path, call.ops[k].moveTo} : k \in DOMAIN call.ops}

\* The small world holds the places the calls name.
ASSUME RoundsAssumption ==
    \A r \in Rounds :
        /\ r \in Seq(CallRecords)
        /\ \A i \in DOMAIN r : \A path \in Named(r[i]) :
              IsPlace(Resolve(path)) => Resolve(path) \in Places

ASSUME TreesAssumption ==
    \A t \in Trees :
        /\ t \in [Places -> Nodes] /\ IsTree(t) /\ OwnInodes(t)
        /\ \A p \in Places : t[p].ino <= Cardinality(Places)

FileTool == {"apply_patch", "write", "read", "glob", "grep"}

VARIABLES
    calls,      \* the calls of the response: [id, tool, path, text, ops, pattern,
                \* offset, limit]
    tree,       \* place -> node
    tree0,      \* the tree before the round, for the properties
    inodes,     \* files created so far
    work        \* call -> where its goroutine is and what it holds

fileVars == <<tree, inodes, work>>

NoResult == [ok |-> FALSE, err |-> FALSE, text |-> <<>>, paths |-> {}]
Idle == [pc |-> "off", op |-> 1, text |-> <<>>, target |-> <<>>, ino |-> 0,
         todo |-> {}, found |-> {}, result |-> NoResult]

Answer(text, paths) == [ok |-> TRUE, err |-> FALSE, text |-> text, paths |-> paths]

FilesInit ==
    /\ calls \in Rounds
    /\ tree \in Trees
    /\ tree0 = tree
    /\ inodes = Cardinality(Places)
    /\ work = [i \in DOMAIN calls |-> Idle]

-----------------------------------------------------------------------------
\* Call i goes on at pc, with the given result if it is over.
Goto(i, pc) == work' = [work EXCEPT ![i].pc = pc]
Finish(i, result) == work' = [work EXCEPT ![i].pc = "done", ![i].result = result]
Fail(i) == Finish(i, NoResult)
Untouched == UNCHANGED <<tree, inodes>>

\* A path, glob's pattern and grep's regular expression, which is the first line of its
\* text and stands for the lines that are equal to it, must not be blank.
LacksArgument(call) ==
    \/ IsBlankPath(call.path)
    \/ call.tool = "glob" /\ call.pattern = ""
    \/ call.tool = "grep" /\ Head(call.text) = ""

\* Arguments are checked before anything else.
StartCall(i) ==
    LET call == calls[i] IN
    /\ work[i].pc = "start"
    /\ IF call.tool = "broken" THEN Finish(i, [NoResult EXCEPT !.err = TRUE])
       ELSE IF call.tool = "apply_patch" THEN IF call.ops = <<>> THEN Fail(i) ELSE Goto(i, "op")
       ELSE IF LacksArgument(call) THEN Fail(i)
       ELSE CASE call.tool = "write" ->
                 work' = [work EXCEPT ![i].pc = IF HasParent(call.path) THEN "parent" ELSE "mkdir",
                                      ![i].target = call.path, ![i].text = call.text]
              [] call.tool = "read" -> Goto(i, "readdir")
              [] OTHER -> work' = [work EXCEPT ![i].pc = "walk",
                              ![i].todo = {[place |-> Resolve(call.path), dir |-> TRUE]}]
    /\ Untouched

-----------------------------------------------------------------------------
(* Writing: write's MkdirAll, then WriteFile's MkdirAll, open and write.    *)

\* The parent of the path as written, and what is above the place it stands for: of the
\* root, that is nothing inside.
DirsOf(i) ==
    IF work[i].pc = "parent"
    THEN LET d == Resolve(Front(work[i].target)) IN Above(d) \cup {d}
    ELSE Above(Resolve(work[i].target))

MakeDirs(i) ==
    /\ work[i].pc \in {"parent", "mkdir"}
    /\ IF CanMkdirAll(tree, DirsOf(i))
       THEN /\ tree' = MkdirAll(tree, DirsOf(i))
            /\ Goto(i, IF work[i].pc = "parent" THEN "mkdir" ELSE "open")
       ELSE Fail(i) /\ UNCHANGED tree
    /\ UNCHANGED inodes

OpenFile(i) ==
    LET p == Resolve(work[i].target) IN
    /\ work[i].pc = "open"
    /\ IF CanOpen(tree, p)
       THEN /\ tree' = Open(tree, p, inodes + 1)
            /\ work' = [work EXCEPT ![i].pc = "data", ![i].ino = tree'[p].ino]
            /\ inodes' = IF IsFile(tree, p) THEN inodes ELSE inodes + 1
       ELSE Fail(i) /\ Untouched

\* The operation the patch is at.
Op(i) == calls[i].ops[work[i].op]
NextOp(i) == work' = [work EXCEPT ![i].pc = "op", ![i].op = @ + 1]

\* Paths are compared as they are written.
IsMove(op) == op.kind = "update" /\ ~IsBlankPath(op.moveTo) /\ op.moveTo # op.path
TargetOf(op) == IF IsMove(op) THEN op.moveTo ELSE op.path

WriteFile(i) ==
    /\ work[i].pc = "data"
    /\ tree' = WriteData(tree, Resolve(work[i].target), work[i].ino, work[i].text)
    /\ IF calls[i].tool = "write" THEN Finish(i, Answer(<<>>, {}))
       ELSE IF IsMove(Op(i)) THEN Goto(i, "unlink")
       ELSE NextOp(i)
    /\ UNCHANGED inodes

-----------------------------------------------------------------------------
(* apply_patch.                                                             *)

RemoveFile(i, path) ==
    LET p == Resolve(path) IN
    IF CanRemove(tree, p) THEN tree' = Unlinked(tree, p) /\ NextOp(i)
    ELSE Fail(i) /\ UNCHANGED tree

\* An update reads the file and computes the new text from what it read.
ReadForUpdate(i) ==
    LET p == Resolve(Op(i).path)
        new == ApplyUnifiedPatch(tree[p].text, Op(i).hunks) IN
    /\ IF IsFile(tree, p) /\ new.ok
       THEN work' = [work EXCEPT ![i].pc = "mkdir", ![i].text = new.text,
                         ![i].target = TargetOf(Op(i))]
       ELSE Fail(i)
    /\ UNCHANGED tree

\* One operation after the other; the first that fails ends the patch, and what
\* the ones before it did stays.
PatchOperation(i) ==
    /\ work[i].pc = "op"
    /\ IF work[i].op > Len(calls[i].ops)
       THEN Finish(i, Answer(<<>>, {})) /\ UNCHANGED tree
       ELSE IF IsBlankPath(Op(i).path) THEN Fail(i) /\ UNCHANGED tree
       ELSE CASE Op(i).kind = "add" ->
                    /\ work' = [work EXCEPT ![i].pc = "mkdir", ![i].target = Op(i).path,
                                            ![i].text = TextOf(Op(i).body)]
                    /\ UNCHANGED tree
              [] Op(i).kind = "delete" -> RemoveFile(i, Op(i).path)
              [] OTHER -> ReadForUpdate(i)
    /\ UNCHANGED inodes

\* The last step of a move.
Unlink(i) ==
    /\ work[i].pc = "unlink"
    /\ RemoveFile(i, Op(i).path)
    /\ UNCHANGED inodes

-----------------------------------------------------------------------------
(* read.                                                                    *)

\* formatReadContent: at most limit lines from line offset on.
Window(text, offset, limit) ==
    SubSeq(text, offset,
           IF offset + limit > Len(text) THEN Len(text) ELSE offset + limit - 1)

ReadDir(i) ==
    LET p == Resolve(calls[i].path) IN
    /\ work[i].pc = "readdir"
    /\ IF IsDir(tree, p) THEN Finish(i, Answer(<<>>, Children(tree, p)))
       ELSE Goto(i, "readfile")
    /\ Untouched

ReadFile(i) ==
    LET p == Resolve(calls[i].path) IN
    /\ work[i].pc = "readfile"
    /\ IF IsFile(tree, p)
       THEN Finish(i, Answer(Window(tree[p].text, calls[i].offset, calls[i].limit), {}))
       ELSE Fail(i)
    /\ Untouched

-----------------------------------------------------------------------------
(* glob and grep walk the tree below their path, one directory at a time.   *)

Base(call) == Resolve(call.path)
Relative(call, p) == SubSeq(p, Len(Base(call)) + 1, Len(p))

\* globMatcher: "*" is one component, or the "." a walk's start is to itself.
Matches(call, p) ==
    \/ call.pattern \in {"", "**"}
    \/ call.pattern = "*" /\ Len(Relative(call, p)) <= 1

\* What a visit of a file adds to the answer.
Hits(call, t, p) ==
    IF ~Matches(call, p) THEN {}
    ELSE IF call.tool = "glob" THEN {p} \ {Base(call)}
    ELSE IF IsFile(t, p) /\ Head(call.text) \in ToSet(t[p].text) THEN {p} ELSE {}

\* A directory is listed, and glob visits what is in it; what is to be listed or
\* (by grep) read next is put down.  A directory that has become a file is
\* visited as one; one that has gone ends the walk.
ListDir(i, e) ==
    LET call == calls[i]
        children == Children(tree, e.place)
        later == IF call.tool = "grep" THEN children
                 ELSE {c \in children : IsDir(tree, c)} IN
    IF IsDir(tree, e.place)
    THEN work' = [work EXCEPT
             ![i].todo = (@ \ {e}) \cup {[place |-> c, dir |-> IsDir(tree, c)] : c \in later},
             ![i].found = @ \cup (IF call.tool = "grep" THEN {}
                                  ELSE UNION {Hits(call, tree, c) : c \in children})]
    ELSE IF IsFile(tree, e.place)
    THEN work' = [work EXCEPT ![i].todo = @ \ {e},
                              ![i].found = @ \cup Hits(call, tree, e.place)]
    ELSE Fail(i)

\* walkFS, in any one order; grep passes over a file it cannot read.
Walk(i) ==
    /\ work[i].pc = "walk"
    /\ IF work[i].todo = {} THEN Finish(i, Answer(<<>>, work[i].found))
       ELSE LET e == CHOOSE e \in work[i].todo : TRUE IN
            IF e.dir THEN ListDir(i, e)
            ELSE work' = [work EXCEPT ![i].todo = @ \ {e},
                              ![i].found = @ \cup Hits(calls[i], tree, e.place)]
    /\ Untouched

FileStep(i) ==
    \/ StartCall(i)
    \/ MakeDirs(i) \/ OpenFile(i) \/ WriteFile(i)
    \/ PatchOperation(i) \/ Unlink(i)
    \/ ReadDir(i) \/ ReadFile(i)
    \/ Walk(i)

-----------------------------------------------------------------------------
(* What a call that runs alone should do: [ok, tree, text, paths].          *)

Outcome(ok, t, text, paths) == [ok |-> ok, tree |-> t, text |-> text, paths |-> paths]

Put(t, path, text) ==
    LET p == Resolve(path)
        made == MkdirAll(t, Above(p)) IN
    IF CanMkdirAll(t, Above(p)) /\ CanOpen(made, p)
    THEN Outcome(TRUE, [made EXCEPT ![p] = File(text, 0)], <<>>, {})
    ELSE Outcome(FALSE, t, <<>>, {})

Take(t, path) ==
    IF CanRemove(t, Resolve(path)) THEN Outcome(TRUE, Unlinked(t, Resolve(path)), <<>>, {})
    ELSE Outcome(FALSE, t, <<>>, {})

\* An operation of a patch as a whole; a move to the same file changes its text.
Perform(t, op) ==
    LET p == Resolve(op.path) IN
    IF IsBlankPath(op.path) THEN Outcome(FALSE, t, <<>>, {})
    ELSE CASE op.kind = "add" -> Put(t, op.path, TextOf(op.body))
           [] op.kind = "delete" -> Take(t, op.path)
           [] OTHER ->
                IF ~IsFile(t, p) \/ ~Fits(t[p].text, op.hunks) THEN Outcome(FALSE, t, <<>>, {})
                ELSE LET put == Put(t, TargetOf(op), Patched(t[p].text, op.hunks)) IN
                     IF put.ok /\ IsMove(op) /\ Resolve(op.moveTo) # p
                     THEN Take(put.tree, op.path) ELSE put

Below(t, p) == {q \in Places : IsPrefix(p, q) /\ Exists(t, q)}

\* A patch: its operations in order, up to the first that fails.
PerformAll(t, ops) ==
    LET at[k \in 0..Len(ops)] ==
            IF k = 0 THEN Outcome(ops # <<>>, t, <<>>, {})
            ELSE IF at[k - 1].ok THEN Perform(at[k - 1].tree, ops[k]) ELSE at[k - 1]
    IN at[Len(ops)]

Alone(t, call) ==
    IF call.tool = "apply_patch" THEN PerformAll(t, call.ops)
    ELSE IF call.tool = "broken" \/ LacksArgument(call) THEN Outcome(FALSE, t, <<>>, {})
    ELSE LET p == Base(call) IN
         CASE call.tool = "write" -> Put(t, call.path, call.text)
           [] call.tool = "read" ->
                Outcome(Exists(t, p), t,
                        IF IsFile(t, p) THEN Window(t[p].text, call.offset, call.limit)
                        ELSE <<>>,
                        Children(t, p))
           [] OTHER -> Outcome(Exists(t, p), t, <<>>,
                               UNION {Hits(call, t, q) : q \in Below(t, p)})

Touches(call) ==
    IF call.tool = "apply_patch"
    THEN {Resolve(call.ops[k].path) : k \in DOMAIN call.ops}
         \cup {Resolve(call.ops[k].moveTo) : k \in {n \in DOMAIN call.ops : IsMove(call.ops[n])}}
    ELSE {Base(call)}

Changes(call) == call.tool \in {"apply_patch", "write"}

\* Do two calls meet in a place, or in one above the other?
Meet(c, d) ==
    /\ Changes(c) \/ Changes(d)
    /\ \E p \in Touches(c), q \in Touches(d) : IsPrefix(p, q) \/ IsPrefix(q, p)

\* A move onto the file itself, under another spelling of its path.
HasAlias(call) ==
    \E k \in DOMAIN call.ops :
        IsMove(call.ops[k]) /\ Resolve(call.ops[k].moveTo) = Resolve(call.ops[k].path)

\* A write to a path that ends in "/", "." or "..": its parent is the place itself or one
\* below it, which is made a directory.
NamesDirectory(call) ==
    call.tool = "write" /\ HasParent(call.path) /\ Last(call.path) \in {"", ".", ".."}

Undisturbed(i) ==
    /\ ~HasAlias(calls[i]) /\ ~NamesDirectory(calls[i])
    /\ \A j \in DOMAIN calls \ {i} : ~Meet(calls[i], calls[j])

SameNode(a, b) == a.kind = b.kind /\ a.text = b.text
===============================================================================
