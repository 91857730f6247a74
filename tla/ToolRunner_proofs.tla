-------------------------- MODULE ToolRunner_proofs --------------------------
(***************************************************************************)
(* Proofs about a round of tool calls: for any calls, as many as there may *)
(* be, and any tree, what goes back to the model are results of the calls, *)
(* the tree stays a tree, and a call that meets no other did what it says. *)
(*                                                                         *)
(* The round comes first: of the file tools it uses only that a step of a  *)
(* call is seen in no other call's work and ends in "done"                 *)
(* (FileStepIsLocal).  Then the steps of the tools, with what module       *)
(* FileTools_proofs shows of paths, patches and trees.  Last, a call that  *)
(* meets no other is followed stage by stage (Stage): what it has done is  *)
(* what it should have done so far alone (CallsInv), because its own steps *)
(* go from stage to stage (FileStepSim) and those of the others keep what  *)
(* it touches and the files on the way there (Elsewhere, StageKept).       *)
(***************************************************************************)
EXTENDS ToolRunner, FileTools_proofs

Fields == {"pc", "op", "text", "target", "ino", "todo", "found", "result"}
Phases == {"build", "announce", "run", "collect", "done", "failed"}
Outputs == [id : IdsOf, result : {work[j].result : j \in Calls}]

\* Where a goroutine is that has left its tool.
Returned == {"emit", "exited"}

\* The types of the variables the argument is about.
WorkOK == DOMAIN work = Calls /\ \A i \in Calls : DOMAIN work[i] = Fields

RoundOK ==
    /\ calls \in Seq(CallRecords)
    /\ WorkOK
    /\ phase \in Phases
    /\ announced \in 0..Len(calls)
    /\ DOMAIN sent = Calls
    /\ outputs \in Seq(Outputs) /\ Len(outputs) <= Len(calls)

\* A call's goroutine exists in the phase that runs it, and is over after it.
PhaseInv ==
    /\ phase \in {"build", "announce"} => \A i \in Calls : work[i].pc = "off"
    /\ phase \in {"run", "collect", "done"} =>
          announced = Len(calls) /\ \A i \in Calls : work[i].pc # "off"
    /\ phase \in {"collect", "done"} => \A i \in Calls : work[i].pc = "exited"
    /\ phase = "failed" =>
          \/ (\A i \in Calls : work[i].pc = "off") /\ \E i \in Calls : ~CanBuild(calls[i])
          \/ /\ \A i \in Calls : work[i].pc = "exited"
             /\ announced = Len(calls)
             /\ \E i \in Calls : work[i].result.err

\* What a goroutine has done of its result.
CallInv(i) ==
    /\ work[i].pc \in Returned => calls[i].id \in DOMAIN byID
    /\ work[i].pc = "emit" => ~work[i].result.err
    /\ work[i].pc # "exited" => sent[i] = 0
    /\ work[i].pc = "exited" => sent[i] = IF work[i].result.err THEN 0 ELSE 1

\* What is noted for an id is the result of a call with that id, which has left its tool.
NotedInv ==
    \A id \in DOMAIN byID :
        \E j \in Calls : /\ calls[j].id = id /\ work[j].pc \in Returned
                         /\ work[j].result = byID[id]

OutputInv(k) ==
    /\ outputs[k].id = calls[k].id
    /\ \E j \in Calls : /\ calls[j].id = calls[k].id /\ work[j].result = outputs[k].result
                        /\ ~work[j].result.err

OutputsInv ==
    /\ phase \in {"build", "announce", "run"} => outputs = <<>>
    /\ phase = "done" => Len(outputs) = Len(calls)
    /\ \A k \in 1..Len(outputs) : OutputInv(k)

\* The inductive invariant.  The property speaks of the outputs; that they are results
\* takes what is noted for the ids while the calls run, and that no call runs, and no
\* result changes, once the outputs are being collected.
RoundInv ==
    /\ RoundOK /\ PhaseInv /\ NotedInv /\ OutputsInv
    /\ \A i \in Calls : CallInv(i)

USE DEF Fields, Phases, Returned

-----------------------------------------------------------------------------
\* A step of a tool changes the work of its own call, which has not returned before the
\* step nor after it.
LEMMA FileStepIsLocal ==
    ASSUME WorkOK, NEW i \in Calls, FileStep(i)
    PROVE  /\ work[i].pc \notin {"off", "done", "emit", "exited"}
           /\ work'[i].pc \notin {"off", "emit", "exited"}
           /\ DOMAIN work' = Calls /\ DOMAIN work'[i] = Fields
           /\ \A j \in Calls \ {i} : work'[j] = work[j]
<1> DEFINE Local == /\ work'[i].pc \notin {"off", "emit", "exited"}
                    /\ DOMAIN work' = Calls /\ DOMAIN work'[i] = Fields
                    /\ \A j \in Calls \ {i} : work'[j] = work[j]
<1>1. ASSUME NEW p, Goto(i, p), p \notin {"off", "emit", "exited"}
      PROVE  Local
  BY <1>1 DEF Goto, WorkOK
<1>2. ASSUME NEW r, Finish(i, r)
      PROVE  Local
  BY <1>2 DEF Finish, WorkOK
<1>3. Fail(i) => Local
  BY <1>2 DEF Fail
<1>4. NextOp(i) => Local
  BY DEF NextOp, WorkOK
<1>5. CASE StartCall(i)
  <2>1. work[i].pc = "start"
    BY <1>5 DEF StartCall
  <2>2. \/ Finish(i, [NoResult EXCEPT !.err = TRUE]) \/ Fail(i)
        \/ Goto(i, "op") \/ Goto(i, "readdir")
        \/ work' = [work EXCEPT ![i].pc = IF HasParent(calls[i].path) THEN "parent" ELSE "mkdir",
                                ![i].target = calls[i].path, ![i].text = calls[i].text]
        \/ work' = [work EXCEPT ![i].pc = "walk",
                         ![i].todo = {[place |-> Resolve(calls[i].path), dir |-> TRUE]}]
    BY <1>5, Zenon DEF StartCall
  <2>3. work' = [work EXCEPT ![i].pc = IF HasParent(calls[i].path) THEN "parent" ELSE "mkdir",
                             ![i].target = calls[i].path, ![i].text = calls[i].text]
        => Local
    BY DEF WorkOK
  <2>4. work' = [work EXCEPT ![i].pc = "walk",
                     ![i].todo = {[place |-> Resolve(calls[i].path), dir |-> TRUE]}]
        => Local
    BY DEF WorkOK
  <2> HIDE DEF Local
  <2>5. Local
    BY <2>2, <2>3, <2>4, <1>1, <1>2, <1>3
  <2> QED
    BY <2>1, <2>5 DEF Local
<1>6. CASE MakeDirs(i)
  <2>1. work[i].pc \in {"parent", "mkdir"} /\ (Fail(i) \/ Goto(i, "mkdir") \/ Goto(i, "open"))
    BY <1>6 DEF MakeDirs
  <2> QED
    BY <2>1, <1>1, <1>3
<1>7. CASE OpenFile(i)
  <2>1. /\ work[i].pc = "open"
        /\ \/ Fail(i)
           \/ work' = [work EXCEPT ![i].pc = "data",
                                   ![i].ino = tree'[Resolve(work[i].target)].ino]
    BY <1>7 DEF OpenFile
  <2> QED
    BY <2>1, <1>3 DEF WorkOK
<1>8. CASE WriteFile(i)
  <2>1. /\ work[i].pc = "data"
        /\ Finish(i, Answer(<<>>, {})) \/ Goto(i, "unlink") \/ NextOp(i)
    BY <1>8 DEF WriteFile
  <2> QED
    BY <2>1, <1>1, <1>2, <1>4
<1>9. CASE PatchOperation(i)
  <2>1. work[i].pc = "op"
    BY <1>9 DEF PatchOperation
  <2>2. \/ Finish(i, Answer(<<>>, {})) \/ Fail(i) \/ NextOp(i)
        \/ work' = [work EXCEPT ![i].pc = "mkdir", ![i].target = Op(i).path,
                                ![i].text = TextOf(Op(i).body)]
        \/ ReadForUpdate(i)
    BY <1>9, Zenon DEF PatchOperation, RemoveFile
  <2>3. work' = [work EXCEPT ![i].pc = "mkdir", ![i].target = Op(i).path,
                             ![i].text = TextOf(Op(i).body)] => Local
    BY DEF WorkOK
  <2>4. ReadForUpdate(i) => Local
    <3> DEFINE new == ApplyUnifiedPatch(tree[Resolve(Op(i).path)].text, Op(i).hunks)
               to == TargetOf(Op(i))
    <3>1. ReadForUpdate(i) =>
             \/ Fail(i)
             \/ work' = [work EXCEPT ![i].pc = "mkdir", ![i].text = new.text, ![i].target = to]
      BY Zenon DEF ReadForUpdate
    <3> HIDE DEF new, to
    <3> QED
      BY <3>1, <1>3 DEF WorkOK
  <2> HIDE DEF Local
  <2>5. Local
    BY <2>2, <2>3, <2>4, <1>2, <1>3, <1>4
  <2> QED
    BY <2>1, <2>5 DEF Local
<1>10. CASE Unlink(i)
  <2>1. work[i].pc = "unlink" /\ (NextOp(i) \/ Fail(i))
    BY <1>10 DEF Unlink, RemoveFile
  <2> QED
    BY <2>1, <1>3, <1>4
<1>11. CASE ReadDir(i) \/ ReadFile(i)
  <2>1. /\ work[i].pc \in {"readdir", "readfile"}
        /\ Fail(i) \/ Goto(i, "readfile") \/ \E r : Finish(i, r)
    BY <1>11 DEF ReadDir, ReadFile
  <2> QED
    BY <2>1, <1>1, <1>2, <1>3
<1>12. CASE Walk(i)
  <2>1. work[i].pc = "walk"
    BY <1>12 DEF Walk
  <2>2. \/ Fail(i) \/ \E r : Finish(i, r)
        \/ \E todo, found : work' = [work EXCEPT ![i].todo = todo, ![i].found = found]
    <3>1. CASE work[i].todo = {}
      BY <1>12, <3>1 DEF Walk
    <3>2. CASE work[i].todo # {}
      <4> DEFINE e == CHOOSE x \in work[i].todo : TRUE
      <4>1. IF e.dir THEN ListDir(i, e)
            ELSE work' = [work EXCEPT ![i].todo = @ \ {e},
                              ![i].found = @ \cup Hits(calls[i], tree, e.place)]
        BY <1>12, <3>2, Zenon DEF Walk
      <4> HIDE DEF e
      <4>2. ListDir(i, e) =>
               \/ Fail(i)
               \/ \E todo, found : work' = [work EXCEPT ![i].todo = todo, ![i].found = found]
        BY Zenon DEF ListDir
      <4> QED
        BY <4>1, <4>2, Zenon
    <3> QED
      BY <3>1, <3>2
  <2>3. ASSUME NEW todo, NEW found, work' = [work EXCEPT ![i].todo = todo, ![i].found = found]
        PROVE  Local
    BY <2>1, <2>3 DEF WorkOK
  <2> HIDE DEF Local
  <2>4. Local
    BY <2>2, <2>3, <1>2, <1>3
  <2> QED
    BY <2>1, <2>4 DEF Local
<1> QED
  BY <1>5, <1>6, <1>7, <1>8, <1>9, <1>10, <1>11, <1>12 DEF FileStep

-----------------------------------------------------------------------------
LEMMA InitHolds == RunnerInit => RoundInv
<1> SUFFICES ASSUME RunnerInit
             PROVE  RoundInv
  OBVIOUS
<1>1. calls \in Seq(CallRecords)
  BY RoundsAssumption DEF RunnerInit, FilesInit
<1>2. /\ work = [i \in Calls |-> Idle] /\ sent = [i \in Calls |-> 0]
      /\ phase = "build" /\ announced = 0 /\ outputs = <<>> /\ DOMAIN byID = {}
  BY DEF RunnerInit, FilesInit, Calls
<1>3. \A i \in Calls : work[i].pc = "off" /\ DOMAIN work[i] = Fields
  BY <1>2 DEF Idle
<1> QED
  BY <1>1, <1>2, <1>3 DEF RoundInv, RoundOK, WorkOK, PhaseInv, NotedInv, OutputsInv, CallInv

\* Nothing of the calls' goroutines moves while the round changes its phase.
LEMMA BuildStep ==
    ASSUME RoundInv, BuildToolCalls
    PROVE  RoundInv'
<1>1. /\ phase = "build"
      /\ phase' \in {"announce", "failed"}
      /\ phase' = "failed" => \E i \in Calls : ~CanBuild(calls[i])
      /\ UNCHANGED <<calls, work, announced, results, byID, sent, outputs>>
  BY DEF BuildToolCalls, fileVars
<1>2. Calls' = Calls /\ Outputs' = Outputs
  BY <1>1 DEF Calls, Outputs, IdsOf
<1>3. RoundOK'
  BY <1>1, <1>2 DEF RoundInv, RoundOK, WorkOK
<1>4. PhaseInv'
  BY <1>1, <1>2 DEF RoundInv, PhaseInv, CanBuild
<1>5. NotedInv' /\ OutputsInv' /\ \A i \in Calls : CallInv(i)'
  BY <1>1, <1>2 DEF RoundInv, NotedInv, OutputsInv, OutputInv, CallInv, PhaseInv
<1> QED
  BY <1>2, <1>3, <1>4, <1>5 DEF RoundInv

LEMMA AnnounceStep ==
    ASSUME RoundInv, Announce
    PROVE  RoundInv'
<1>1. /\ phase = "announce" /\ UNCHANGED <<calls, byID, sent, outputs>>
      /\ \/ /\ announced < Len(calls) /\ announced' = announced + 1
            /\ UNCHANGED <<phase, work>>
         \/ /\ ~(announced < Len(calls)) /\ phase' = "run" /\ UNCHANGED announced
            /\ work' = [i \in Calls |-> [work[i] EXCEPT !.pc = "start"]]
  BY DEF Announce
<1>2. /\ Calls' = Calls /\ announced \in 0..Len(calls) /\ Len(calls) \in Nat
  BY <1>1 DEF Calls, RoundInv, RoundOK
<1>3. \A i \in Calls : work[i].pc = "off" /\ DOMAIN work[i] = Fields /\ sent[i] = 0
  BY <1>1 DEF RoundInv, PhaseInv, CallInv, RoundOK, WorkOK
<1>4. \A id \in DOMAIN byID : FALSE
  BY <1>3 DEF RoundInv, NotedInv
<1>5. \A i \in Calls : /\ work'[i].pc \in {"off", "start"} /\ DOMAIN work'[i] = Fields
                       /\ phase' = "announce" => work'[i].pc = "off"
                       /\ phase' = "run" => work'[i].pc = "start"
  BY <1>1, <1>3
<1>6. DOMAIN work' = Calls /\ announced' \in 0..Len(calls) /\ phase' \in {"announce", "run"}
      /\ (phase' = "run" => announced' = Len(calls))
  BY <1>1, <1>2 DEF RoundInv, RoundOK, WorkOK
<1>7. outputs' = <<>> /\ Len(outputs') = 0
  BY <1>1 DEF RoundInv, OutputsInv
<1>8. RoundOK'
  BY <1>1, <1>2, <1>5, <1>6, <1>7 DEF RoundInv, RoundOK, WorkOK
<1>9. PhaseInv'
  BY <1>2, <1>5, <1>6, <1>1 DEF PhaseInv
<1>10. NotedInv' /\ OutputsInv' /\ \A i \in Calls : CallInv(i)'
  BY <1>1, <1>3, <1>4, <1>5, <1>6, <1>7 DEF NotedInv, OutputsInv, CallInv
<1> QED
  BY <1>2, <1>8, <1>9, <1>10 DEF RoundInv

\* What the steps of one call's goroutine have in common: they happen in the phase
\* "run", leave the other calls alone and no call without its place.
LEMMA OneCall ==
    ASSUME RoundInv, NEW i \in Calls, phase = "run",
           UNCHANGED <<calls, phase, announced, outputs>>,
           DOMAIN work' = Calls, DOMAIN work'[i] = Fields, DOMAIN sent' = Calls,
           \A j \in Calls \ {i} : work'[j] = work[j] /\ sent'[j] = sent[j],
           work'[i].pc # "off",
           \A id \in DOMAIN byID : id \in DOMAIN byID',
           CallInv(i)', NotedInv'
    PROVE  RoundInv'
<1>1. Calls' = Calls
  BY DEF Calls
<1>2. outputs = <<>> /\ outputs' = <<>> /\ Len(outputs') = 0
  BY DEF RoundInv, OutputsInv
<1>3. RoundOK'
  <2>1. WorkOK'
    BY <1>1 DEF WorkOK, RoundInv, RoundOK
  <2> QED
    BY <1>1, <1>2, <2>1 DEF RoundInv, RoundOK
<1>4. PhaseInv'
  BY <1>1 DEF RoundInv, PhaseInv
<1>5. OutputsInv'
  BY <1>2 DEF OutputsInv
<1>6. \A j \in Calls : CallInv(j)'
  BY <1>1 DEF RoundInv, CallInv
<1> QED
  BY <1>1, <1>3, <1>4, <1>5, <1>6 DEF RoundInv

LEMMA RunToolStep ==
    ASSUME RoundInv, NEW i \in Calls, RunTool(i)
    PROVE  RoundInv'
<1>1. phase = "run" /\ FileStep(i) /\ WorkOK
      /\ UNCHANGED <<calls, phase, announced, byID, sent, outputs>>
  BY DEF RunTool, roundVars, RoundInv, RoundOK
<1>2. /\ work[i].pc \notin Returned /\ work'[i].pc \notin {"off", "emit", "exited"}
      /\ DOMAIN work' = Calls /\ DOMAIN work'[i] = Fields
      /\ \A j \in Calls \ {i} : work'[j] = work[j]
  BY <1>1, FileStepIsLocal
<1>3. DOMAIN sent = Calls
  BY DEF RoundInv, RoundOK
<1>4. CallInv(i)'
  BY <1>1, <1>2 DEF RoundInv, CallInv
<1>5. NotedInv'
  <2>1. Calls' = Calls
    BY <1>1 DEF Calls
  <2> SUFFICES ASSUME NEW id \in DOMAIN byID
               PROVE  \E j \in Calls : /\ calls'[j].id = id /\ work'[j].pc \in Returned
                                       /\ work'[j].result = byID'[id]
    BY <1>1, <2>1 DEF NotedInv
  <2>2. PICK j \in Calls : /\ calls[j].id = id /\ work[j].pc \in Returned
                           /\ work[j].result = byID[id]
    BY DEF RoundInv, NotedInv
  <2>3. j # i
    BY <1>2, <2>2
  <2> QED
    BY <1>1, <1>2, <2>2, <2>3
<1> QED
  BY <1>1, <1>2, <1>3, <1>4, <1>5, OneCall

LEMMA RecordStep ==
    ASSUME RoundInv, NEW i \in Calls, Record(i)
    PROVE  RoundInv'
<1> DEFINE next == IF work[i].result.err THEN "exited" ELSE "emit"
<1>1. /\ work[i].pc = "done" /\ WorkOK /\ DOMAIN sent = Calls
      /\ byID' = [id \in DOMAIN byID \cup {calls[i].id} |->
                      IF id = calls[i].id THEN work[i].result ELSE byID[id]]
      /\ work' = [work EXCEPT ![i].pc = next]
      /\ UNCHANGED <<calls, phase, announced, sent, outputs>>
  BY DEF Record, Goto, RoundInv, RoundOK
<1>2. phase = "run"
  BY <1>1 DEF RoundInv, PhaseInv, RoundOK
<1>3. /\ DOMAIN work' = Calls /\ DOMAIN work'[i] = Fields
      /\ \A j \in Calls \ {i} : work'[j] = work[j]
      /\ work'[i].pc = next /\ work'[i].result = work[i].result
  BY <1>1 DEF WorkOK
<1>4. CallInv(i)'
  BY <1>1, <1>3 DEF RoundInv, CallInv
<1>5. NotedInv'
  <2>1. Calls' = Calls
    BY <1>1 DEF Calls
  <2> SUFFICES ASSUME NEW id \in DOMAIN byID'
               PROVE  \E j \in Calls : /\ calls'[j].id = id /\ work'[j].pc \in Returned
                                       /\ work'[j].result = byID'[id]
    BY <2>1 DEF NotedInv
  <2>2. CASE id = calls[i].id
    BY <1>1, <1>3, <2>2
  <2>3. CASE id # calls[i].id
    <3>1. id \in DOMAIN byID /\ byID'[id] = byID[id]
      BY <1>1, <2>3
    <3>2. PICK j \in Calls : /\ calls[j].id = id /\ work[j].pc \in Returned
                             /\ work[j].result = byID[id]
      BY <3>1 DEF RoundInv, NotedInv
    <3> QED
      BY <1>1, <1>3, <3>1, <3>2
  <2> QED
    BY <2>2, <2>3
<1> QED
  BY <1>1, <1>2, <1>3, <1>4, <1>5, OneCall

LEMMA EmitStep ==
    ASSUME RoundInv, NEW i \in Calls, Emit(i)
    PROVE  RoundInv'
<1>1. /\ work[i].pc = "emit" /\ WorkOK /\ DOMAIN sent = Calls
      /\ sent' = [sent EXCEPT ![i] = @ + 1]
      /\ work' = [work EXCEPT ![i].pc = "exited"]
      /\ UNCHANGED <<calls, phase, announced, byID, outputs>>
  BY DEF Emit, Goto, RoundInv, RoundOK
<1>2. phase = "run"
  BY <1>1 DEF RoundInv, PhaseInv, RoundOK
<1>3. /\ DOMAIN work' = Calls /\ DOMAIN work'[i] = Fields
      /\ \A j \in Calls \ {i} : work'[j] = work[j]
      /\ work'[i].pc = "exited" /\ work'[i].result = work[i].result
  BY <1>1 DEF WorkOK
<1>4. CallInv(i)'
  <2>1. sent[i] = 0 /\ ~work[i].result.err /\ calls[i].id \in DOMAIN byID
    BY <1>1 DEF RoundInv, CallInv
  <2>2. sent'[i] = 1
    BY <1>1, <2>1
  <2> QED
    BY <1>1, <1>3, <2>1, <2>2 DEF CallInv
<1>5. NotedInv'
  BY <1>1, <1>3 DEF RoundInv, NotedInv, Calls
<1> QED
  BY <1>1, <1>2, <1>3, <1>4, <1>5, OneCall

LEMMA WaitStep ==
    ASSUME RoundInv, Wait
    PROVE  RoundInv'
<1>1. /\ phase = "run" /\ phase' = "collect" /\ \A i \in Calls : work[i].pc = "exited"
      /\ UNCHANGED <<calls, work, announced, byID, sent, outputs>>
  BY DEF Wait, fileVars
<1>2. Calls' = Calls /\ Outputs' = Outputs
  BY <1>1 DEF Calls, Outputs, IdsOf
<1>3. RoundOK'
  BY <1>1, <1>2 DEF RoundInv, RoundOK, WorkOK
<1>4. PhaseInv'
  BY <1>1, <1>2 DEF RoundInv, PhaseInv
<1>5. NotedInv' /\ OutputsInv' /\ \A i \in Calls : CallInv(i)'
  BY <1>1, <1>2 DEF RoundInv, NotedInv, OutputsInv, OutputInv, CallInv
<1> QED
  BY <1>2, <1>3, <1>4, <1>5 DEF RoundInv

LEMMA CollectStep ==
    ASSUME RoundInv, Collect
    PROVE  RoundInv'
<1> DEFINE k == Len(outputs) + 1
<1>1. /\ phase = "collect" /\ announced = Len(calls) /\ Len(calls) \in Nat
      /\ outputs \in Seq(Outputs) /\ Len(outputs) \in 0..Len(calls)
      /\ Calls = 1..Len(calls) /\ \A i \in Calls : work[i].pc = "exited"
      /\ UNCHANGED <<calls, work, announced, byID, sent>>
  BY DEF Collect, RoundInv, RoundOK, PhaseInv, Calls, fileVars
<1>2. Calls' = Calls /\ Outputs' = Outputs
  BY <1>1 DEF Calls, Outputs, IdsOf
<1>3. NotedInv' /\ WorkOK' /\ \A i \in Calls : CallInv(i)'
  BY <1>1, <1>2 DEF RoundInv, RoundOK, NotedInv, CallInv, WorkOK
<1>4. \A i \in Calls : \E j \in Calls : /\ calls[j].id = calls[i].id
                                        /\ work[j].result = ResultOf(i)
  BY <1>1 DEF RoundInv, NotedInv, CallInv, ResultOf
<1>5. CASE Len(outputs) = Len(calls)
  <2>1. phase' = "done" /\ outputs' = outputs
    BY <1>5 DEF Collect
  <2>2. RoundOK'
    BY <1>1, <1>2, <1>3, <2>1 DEF RoundInv, RoundOK
  <2>3. PhaseInv'
    BY <1>1, <1>2, <2>1 DEF PhaseInv
  <2>4. OutputsInv'
    BY <1>1, <1>2, <1>5, <2>1 DEF RoundInv, OutputsInv, OutputInv
  <2> QED
    BY <1>2, <1>3, <2>2, <2>3, <2>4 DEF RoundInv
<1>6. CASE Len(outputs) # Len(calls) /\ ResultOf(k).err
  <2>1. phase' = "failed" /\ outputs' = <<>> /\ Len(outputs') = 0 /\ k \in Calls
    BY <1>1, <1>6 DEF Collect
  <2>2. RoundOK'
    BY <1>1, <1>2, <1>3, <2>1 DEF RoundInv, RoundOK
  <2>3. \E j \in Calls : work[j].result.err
    BY <1>4, <1>6, <2>1
  <2>4. PhaseInv'
    BY <1>1, <1>2, <2>1, <2>3 DEF PhaseInv
  <2>5. OutputsInv'
    BY <2>1 DEF OutputsInv
  <2> QED
    BY <1>2, <1>3, <2>2, <2>4, <2>5 DEF RoundInv
<1>7. CASE Len(outputs) # Len(calls) /\ ~ResultOf(k).err
  <2> DEFINE new == [id |-> calls[k].id, result |-> ResultOf(k)]
  <2>1. phase' = phase /\ outputs' = Append(outputs, new) /\ k \in Calls
    BY <1>1, <1>7 DEF Collect
  <2>2. PICK j \in Calls : calls[j].id = calls[k].id /\ work[j].result = ResultOf(k)
    BY <1>4, <2>1
  <2>3. new \in Outputs
    BY <2>1, <2>2 DEF Outputs, IdsOf
  <2>4. /\ outputs' \in Seq(Outputs) /\ Len(outputs') = k /\ outputs'[k] = new
        /\ \A n \in 1..Len(outputs) : outputs'[n] = outputs[n]
    <3> HIDE DEF new
    <3> QED
      BY <1>1, <2>1, <2>3
  <2>5. RoundOK'
    BY <1>1, <1>2, <1>3, <2>1, <2>4 DEF RoundInv, RoundOK
  <2>6. PhaseInv'
    BY <1>1, <1>2, <2>1 DEF PhaseInv
  <2>7. ASSUME NEW n \in 1..Len(outputs')
        PROVE  OutputInv(n)'
    <3>1. CASE n = k
      BY <1>1, <1>2, <1>7, <2>2, <2>4, <3>1 DEF OutputInv
    <3>2. CASE n # k
      <4>1. n \in 1..Len(outputs)
        BY <1>1, <2>4, <3>2
      <4>2. OutputInv(n)
        BY <4>1 DEF RoundInv, OutputsInv
      <4> QED
        BY <1>1, <1>2, <2>4, <4>1, <4>2 DEF OutputInv
    <3> QED
      BY <3>1, <3>2
  <2>8. OutputsInv'
    BY <1>1, <2>1, <2>7 DEF OutputsInv
  <2> QED
    BY <1>2, <1>3, <2>5, <2>6, <2>8 DEF RoundInv
<1> QED
  BY <1>5, <1>6, <1>7

LEMMA StutterStep ==
    ASSUME RoundInv, UNCHANGED runnerVars
    PROVE  RoundInv'
<1>1. UNCHANGED <<calls, work, phase, announced, byID, sent, outputs>>
  BY DEF runnerVars, roundVars, fileVars
<1>2. Calls' = Calls /\ Outputs' = Outputs
  BY <1>1 DEF Calls, Outputs, IdsOf
<1>3. RoundOK'
  BY <1>1, <1>2 DEF RoundInv, RoundOK, WorkOK
<1>4. PhaseInv'
  BY <1>1, <1>2 DEF RoundInv, PhaseInv, CanBuild
<1>5. NotedInv' /\ OutputsInv' /\ \A i \in Calls : CallInv(i)'
  BY <1>1, <1>2 DEF RoundInv, NotedInv, OutputsInv, OutputInv, CallInv
<1> QED
  BY <1>2, <1>3, <1>4, <1>5 DEF RoundInv

LEMMA RoundInvariant == RunnerSpec => []RoundInv
<1>1. RoundInv /\ [RunnerNext]_runnerVars => RoundInv'
  BY BuildStep, AnnounceStep, RunToolStep, RecordStep, EmitStep, WaitStep, CollectStep,
     StutterStep DEF RunnerNext
<1> QED
  BY <1>1, InitHolds, PTL DEF RunnerSpec

-----------------------------------------------------------------------------
\* What goes back to the model is one output for each call, in order, each a result of a
\* call of its id, and a round fails only if a call could not be built or failed.
THEOREM OutputsAnswer == RunnerSpec => []OutputsAnswerTheirCalls
<1>1. RoundInv => OutputsAnswerTheirCalls
  <2> SUFFICES ASSUME RoundInv
               PROVE  OutputsAnswerTheirCalls
    OBVIOUS
  <2>1. \A i \in Calls : work[i].pc # "off" => announced = Len(calls)
    BY DEF RoundInv, PhaseInv, RoundOK
  <2>2. ASSUME phase = "done"
        PROVE  /\ Len(outputs) = Len(calls)
               /\ \A i \in Calls : OutputInv(i) /\ sent[i] = IF work[i].result.err THEN 0 ELSE 1
    <3>1. Calls = 1..Len(calls) /\ Len(outputs) = Len(calls)
      BY <2>2 DEF RoundInv, RoundOK, OutputsInv, Calls
    <3> QED
      BY <2>2, <3>1 DEF RoundInv, OutputsInv, PhaseInv, CallInv
  <2>3. phase = "failed" => \E i \in Calls : ~CanBuild(calls[i]) \/ work[i].result.err
    BY DEF RoundInv, PhaseInv
  <2> QED
    BY <2>1, <2>2, <2>3 DEF OutputsAnswerTheirCalls, OutputInv
<1> QED
  BY <1>1, RoundInvariant, PTL
-----------------------------------------------------------------------------
(* The tools. *)

Writing == {"mkdir", "open", "data"}
USE DEF Writing

\* What a call is to write to.
TargetFor(i) == IF calls[i].tool = "write" THEN calls[i].path ELSE TargetOf(Op(i))

\* What a call's goroutine goes by: the places it is to change are in the tree, what it is
\* to write is a text, the paths of a patch are those of its operations.
WorkInv(i) ==
    LET w == work[i] IN
    /\ w.op \in Nat \ {0}
    /\ Resolve(w.target) \in Places
    /\ w.pc = "parent" => calls[i].tool = "write" /\ Resolve(Front(w.target)) \in Places
    /\ w.pc \in {"op", "unlink"} => calls[i].tool = "apply_patch"
    /\ w.pc \in Writing => calls[i].tool \in {"write", "apply_patch"}
    /\ w.pc \in Writing \cup {"parent"} => w.text \in Texts /\ w.target = TargetFor(i)
    /\ calls[i].tool = "apply_patch" /\ w.pc \in {"mkdir", "open", "data", "unlink"} =>
          w.op <= Len(calls[i].ops)

FilesInv ==
    /\ calls \in Rounds
    /\ inodes \in Nat
    /\ TreeOK(tree, inodes)
    /\ \A i \in Calls : WorkInv(i)

\* A call is of its type.
LEMMA CallIsTyped ==
    ASSUME FilesInv, NEW i \in Calls
    PROVE  /\ calls[i] \in CallRecords
           /\ calls[i].path \in Seq(STRING) /\ calls[i].text \in Texts
           /\ calls[i].ops \in Seq(PatchOps) /\ Len(calls[i].ops) \in Nat
           /\ DOMAIN calls[i].ops = 1..Len(calls[i].ops)
           /\ \A k \in 1..Len(calls[i].ops) :
                 /\ calls[i].ops[k] \in PatchOps
                 /\ calls[i].ops[k].path \in Seq(STRING)
                 /\ calls[i].ops[k].moveTo \in Seq(STRING)
                 /\ calls[i].ops[k].body \in Seq(STRING)
                 /\ calls[i].ops[k].hunks \in Seq(Hunks)
<1>1. calls \in Seq(CallRecords) /\ i \in DOMAIN calls
  BY RoundsAssumption DEF FilesInv, Calls
<1>2. calls[i] \in CallRecords
  <2> DEFINE S == CallRecords
  <2>1. calls \in Seq(S)
    BY <1>1
  <2> HIDE DEF S
  <2>2. calls[i] \in S
    BY <1>1, <2>1
  <2> QED
    BY <2>2 DEF S
<1>3. /\ calls[i].path \in Seq(STRING) /\ calls[i].text \in Texts
      /\ calls[i].ops \in Seq(PatchOps)
  BY <1>2, Zenon DEF CallRecords
<1> DEFINE ops == calls[i].ops
<1>4. Len(ops) \in Nat /\ DOMAIN ops = 1..Len(ops) /\ \A k \in 1..Len(ops) : ops[k] \in PatchOps
  <2> DEFINE S == PatchOps
  <2>1. ops \in Seq(S)
    BY <1>3
  <2> HIDE DEF S, ops
  <2>2. Len(ops) \in Nat /\ DOMAIN ops = 1..Len(ops) /\ \A k \in 1..Len(ops) : ops[k] \in S
    BY <2>1
  <2> QED
    BY <2>2 DEF S
<1>5. \A x \in PatchOps : /\ x.path \in Seq(STRING) /\ x.moveTo \in Seq(STRING)
                          /\ x.body \in Seq(STRING) /\ x.hunks \in Seq(Hunks)
  BY Zenon DEF PatchOps
<1> QED
  BY <1>2, <1>3, <1>4, <1>5, Zenon DEF ops

\* The places a call names are of the tree: a path does not lead out of the root.
LEMMA NamedPlaces ==
    ASSUME FilesInv, NEW i \in Calls
    PROVE  /\ Resolve(calls[i].path) \in Places
           /\ calls[i].tool = "write" => Resolve(Front(calls[i].path)) \in Places
           /\ \A k \in 1..Len(calls[i].ops) : /\ Resolve(calls[i].ops[k].path) \in Places
                                              /\ Resolve(calls[i].ops[k].moveTo) \in Places
<1>1. \A path \in Named(calls[i]) : IsPlace(Resolve(path)) => Resolve(path) \in Places
  BY RoundsAssumption DEF FilesInv, Calls
<1>2. ASSUME NEW path \in Seq(STRING)
      PROVE  Front(path) \in Seq(STRING)
  <2> DEFINE S == STRING
  <2>1. path \in Seq(S)
    OBVIOUS
  <2> HIDE DEF S
  <2>2. SubSeq(path, 1, Len(path) - 1) \in Seq(S)
    BY <2>1
  <2> QED
    BY <2>2 DEF S, Front
<1>3. /\ calls[i].path \in Named(calls[i])
      /\ calls[i].tool = "write" => Front(calls[i].path) \in Named(calls[i])
      /\ \A k \in 1..Len(calls[i].ops) :
            {calls[i].ops[k].path, calls[i].ops[k].moveTo} \subseteq Named(calls[i])
  <2>1. DOMAIN calls[i].ops = 1..Len(calls[i].ops)
    BY CallIsTyped
  <2> QED
    BY <2>1 DEF Named
<1>4. \A path \in Named(calls[i]) : path \in Seq(STRING) => Resolve(path) \in Places
  BY <1>1, PathsStayInside
<1> QED
  BY <1>2, <1>3, <1>4, CallIsTyped

\* No path at all stands for the root.
LEMMA RootResolved == Resolve(<<>>) \in Places
<1> DEFINE e == <<>>
<1>1. e \in Seq(STRING) /\ Len(e) = 0
  OBVIOUS
<1> HIDE DEF e
<1>2. PICK at \in [0..Len(e) -> Seq(STRING)] : at[0] = Root /\ Resolve(e) = at[Len(e)]
  BY <1>1, Way
<1>3. Resolve(e) = Root
  BY <1>1, <1>2
<1> QED
  BY <1>3, PlacesAssumption DEF e

\* At the start nothing is to be written.
LEMMA FilesInitHolds == RunnerInit => FilesInv
<1> SUFFICES ASSUME RunnerInit
             PROVE  FilesInv
  OBVIOUS
<1>1. calls \in Rounds /\ tree \in Trees /\ inodes = Cardinality(Places)
      /\ \A i \in Calls : work[i] = Idle
  BY DEF RunnerInit, FilesInit, Calls
<1>2. inodes \in Nat
  BY <1>1, PlacesAssumption, FS_CardinalityType
<1>3. TreeOK(tree, inodes)
  <2>1. /\ tree \in [Places -> Nodes] /\ IsTree(tree) /\ OwnInodes(tree)
        /\ \A p \in Places : tree[p].ino <= inodes
    BY <1>1, TreesAssumption
  <2>2. ASSUME NEW p \in Places, IsFile(tree, p)
        PROVE  tree[p].ino \in Nat
    <3>1. tree[p] \in Nodes /\ tree[p].kind = "file"
      BY <2>1, <2>2 DEF IsFile
    <3> QED
      BY <3>1, NodesAreKinds
  <2> QED
    BY <1>2, <2>1, <2>2 DEF TreeOK
<1>4. \A i \in Calls : WorkInv(i)
  BY <1>1, RootResolved DEF WorkInv, Idle
<1> QED
  BY <1>1, <1>2, <1>3, <1>4 DEF FilesInv

-----------------------------------------------------------------------------
(* A step of a call: what it does to its own work, in general. *)

\* A call whose goroutine moves on.
LEMMA GotoOK ==
    ASSUME WorkOK, NEW i \in Calls, WorkInv(i), calls' = calls, NEW p, Goto(i, p),
           p # "parent",
           p \in {"op", "unlink"} => calls[i].tool = "apply_patch",
           p \in Writing => work[i].pc \in Writing \cup {"parent"},
           calls[i].tool = "apply_patch" /\ p \in {"mkdir", "open", "data", "unlink"}
              => work[i].op <= Len(calls[i].ops)
    PROVE  WorkInv(i)'
<1>1. /\ work'[i].pc = p /\ work'[i].op = work[i].op /\ work'[i].target = work[i].target
      /\ work'[i].text = work[i].text
  BY DEF Goto, WorkOK
<1> QED
  BY <1>1 DEF WorkInv, TargetFor, Op

\* A call that is over.
LEMMA FinishOK ==
    ASSUME WorkOK, NEW i \in Calls, WorkInv(i), calls' = calls, NEW r, Finish(i, r)
    PROVE  WorkInv(i)'
<1>1. /\ work'[i].pc = "done" /\ work'[i].op = work[i].op /\ work'[i].target = work[i].target
  BY DEF Finish, WorkOK
<1> QED
  BY <1>1 DEF WorkInv

LEMMA FailOK ==
    ASSUME WorkOK, NEW i \in Calls, WorkInv(i), calls' = calls, Fail(i)
    PROVE  WorkInv(i)'
  BY FinishOK DEF Fail

\* A patch that goes on.
LEMMA NextOpOK ==
    ASSUME WorkOK, NEW i \in Calls, WorkInv(i), calls' = calls, NextOp(i),
           calls[i].tool = "apply_patch"
    PROVE  WorkInv(i)'
<1>1. work'[i].pc = "op" /\ work'[i].op = work[i].op + 1 /\ work'[i].target = work[i].target
  BY DEF NextOp, WorkOK
<1> QED
  BY <1>1 DEF WorkInv

\* A call that is to write somewhere.
LEMMA ToWriteOK ==
    ASSUME WorkOK, NEW i \in Calls, WorkInv(i), calls' = calls,
           NEW p \in {"parent", "mkdir"}, NEW target, NEW text \in Texts,
           work' = [work EXCEPT ![i].pc = p, ![i].target = target, ![i].text = text],
           Resolve(target) \in Places, target = TargetFor(i),
           p = "parent" => calls[i].tool = "write" /\ Resolve(Front(target)) \in Places,
           p = "mkdir" => \/ calls[i].tool = "write"
                          \/ calls[i].tool = "apply_patch" /\ work[i].op <= Len(calls[i].ops)
    PROVE  WorkInv(i)'
<1>1. /\ work'[i].pc = p /\ work'[i].op = work[i].op /\ work'[i].target = target
      /\ work'[i].text = text
  BY DEF WorkOK
<1> QED
  BY <1>1 DEF WorkInv, TargetFor, Op

\* What is left of the step if the tree stays.
LEMMA Unchanged ==
    ASSUME FilesInv, UNCHANGED <<tree, inodes>>
    PROVE  TreeOK(tree', inodes') /\ inodes' \in Nat
  BY DEF FilesInv

\* What a step of call i has to keep.
StepOK(i) == TreeOK(tree', inodes') /\ inodes' \in Nat /\ WorkInv(i)'

LEMMA StartCallOK ==
    ASSUME FilesInv, WorkOK, NEW i \in Calls, calls' = calls, StartCall(i)
    PROVE  StepOK(i)
<1>1. WorkInv(i) /\ TreeOK(tree', inodes') /\ inodes' \in Nat
  BY DEF FilesInv, StartCall, Untouched
<1> DEFINE first == IF HasParent(calls[i].path) THEN "parent" ELSE "mkdir"
           root == {[place |-> Resolve(calls[i].path), dir |-> TRUE]}
<1>2. \/ Finish(i, [NoResult EXCEPT !.err = TRUE]) \/ Fail(i)
      \/ calls[i].tool = "apply_patch" /\ Goto(i, "op")
      \/ /\ calls[i].tool = "write"
         /\ work' = [work EXCEPT ![i].pc = first, ![i].target = calls[i].path,
                                 ![i].text = calls[i].text]
      \/ Goto(i, "readdir")
      \/ work' = [work EXCEPT ![i].pc = "walk", ![i].todo = root]
  BY Zenon DEF StartCall
<1>3. CASE Finish(i, [NoResult EXCEPT !.err = TRUE])
  BY <1>1, <1>3, FinishOK DEF StepOK
<1>4. CASE Fail(i)
  BY <1>1, <1>4, FailOK DEF StepOK
<1>5. CASE calls[i].tool = "apply_patch" /\ Goto(i, "op")
  BY <1>1, <1>5, GotoOK DEF StepOK
<1>6. CASE /\ calls[i].tool = "write"
           /\ work' = [work EXCEPT ![i].pc = first, ![i].target = calls[i].path,
                                   ![i].text = calls[i].text]
  <2>1. first \in {"parent", "mkdir"}
    OBVIOUS
  <2> HIDE DEF first
  <2> QED
    BY <1>1, <1>6, <2>1, NamedPlaces, CallIsTyped, ToWriteOK DEF StepOK, TargetFor
<1>7. CASE Goto(i, "readdir")
  BY <1>1, <1>7, GotoOK DEF StepOK
<1>8. CASE work' = [work EXCEPT ![i].pc = "walk", ![i].todo = root]
  <2>1. work'[i].pc = "walk" /\ work'[i].op = work[i].op /\ work'[i].target = work[i].target
    BY <1>8 DEF WorkOK
  <2> QED
    BY <1>1, <2>1 DEF StepOK, WorkInv
<1> QED
  BY <1>2, <1>3, <1>4, <1>5, <1>6, <1>7, <1>8

LEMMA MakeDirsOK ==
    ASSUME FilesInv, WorkOK, NEW i \in Calls, calls' = calls, MakeDirs(i)
    PROVE  StepOK(i)
<1>1. /\ WorkInv(i) /\ TreeOK(tree, inodes) /\ inodes \in Nat
      /\ inodes' = inodes /\ work[i].pc \in {"parent", "mkdir"}
  BY DEF FilesInv, MakeDirs
<1>2. Climbs(DirsOf(i))
  BY <1>1, AboveClimbs DEF WorkInv, DirsOf
<1>3. CASE CanMkdirAll(tree, DirsOf(i))
  <2>1. tree' = MkdirAll(tree, DirsOf(i))
        /\ Goto(i, IF work[i].pc = "parent" THEN "mkdir" ELSE "open")
    BY <1>3 DEF MakeDirs
  <2>2. TreeOK(tree', inodes')
    BY <1>1, <1>2, <2>1, MkdirAllOK
  <2>3. /\ calls[i].tool \in {"write", "apply_patch"} /\ work[i].text \in Texts
        /\ calls[i].tool = "apply_patch" => work[i].op <= Len(calls[i].ops)
    BY <1>1 DEF WorkInv
  <2>4. CASE work[i].pc = "parent"
    BY <1>1, <2>1, <2>2, <2>3, <2>4, GotoOK DEF StepOK
  <2>5. CASE work[i].pc = "mkdir"
    BY <1>1, <2>1, <2>2, <2>3, <2>5, GotoOK DEF StepOK
  <2> QED
    BY <1>1, <2>4, <2>5
<1>4. CASE ~CanMkdirAll(tree, DirsOf(i))
  BY <1>1, <1>4, FailOK DEF MakeDirs, StepOK
<1> QED
  BY <1>3, <1>4

LEMMA OpenFileOK ==
    ASSUME FilesInv, WorkOK, NEW i \in Calls, calls' = calls, OpenFile(i)
    PROVE  StepOK(i)
<1> DEFINE p == Resolve(work[i].target)
<1>1. /\ WorkInv(i) /\ TreeOK(tree, inodes) /\ inodes \in Nat /\ p \in Places
      /\ work[i].pc = "open"
  BY DEF FilesInv, OpenFile, WorkInv
<1>2. CASE CanOpen(tree, p)
  <2>1. /\ tree' = Open(tree, p, inodes + 1)
        /\ work' = [work EXCEPT ![i].pc = "data", ![i].ino = tree'[p].ino]
        /\ inodes' = IF IsFile(tree, p) THEN inodes ELSE inodes + 1
    BY <1>2 DEF OpenFile
  <2>2. TreeOK(tree', inodes') /\ inodes' \in Nat
    BY <1>1, <1>2, <2>1, OpenOK
  <2>3. /\ work'[i].pc = "data" /\ work'[i].op = work[i].op
        /\ work'[i].target = work[i].target /\ work'[i].text = work[i].text
    BY <2>1 DEF WorkOK
  <2>4. WorkInv(i)'
    BY <1>1, <2>3 DEF WorkInv, TargetFor, Op
  <2> QED
    BY <2>2, <2>4 DEF StepOK
<1>3. CASE ~CanOpen(tree, p)
  BY <1>1, <1>3, FailOK, Unchanged DEF OpenFile, Untouched, StepOK
<1> QED
  BY <1>2, <1>3

LEMMA WriteFileOK ==
    ASSUME FilesInv, WorkOK, NEW i \in Calls, calls' = calls, WriteFile(i)
    PROVE  StepOK(i)
<1> DEFINE p == Resolve(work[i].target)
<1>1. /\ WorkInv(i) /\ TreeOK(tree, inodes) /\ inodes \in Nat /\ p \in Places
      /\ work[i].pc = "data" /\ work[i].text \in Texts /\ inodes' = inodes
      /\ tree' = WriteData(tree, p, work[i].ino, work[i].text)
  BY DEF FilesInv, WriteFile, WorkInv
<1>2. TreeOK(tree', inodes')
  BY <1>1, WriteDataOK
<1>3. CASE calls[i].tool = "write"
  BY <1>1, <1>2, <1>3, FinishOK DEF WriteFile, StepOK
<1>4. CASE calls[i].tool # "write" /\ IsMove(Op(i))
  <2>1. calls[i].tool = "apply_patch" /\ work[i].op <= Len(calls[i].ops)
    BY <1>1, <1>4 DEF WorkInv
  <2>2. Goto(i, "unlink")
    BY <1>4 DEF WriteFile
  <2> QED
    BY <1>1, <1>2, <2>1, <2>2, GotoOK DEF StepOK
<1>5. CASE calls[i].tool # "write" /\ ~IsMove(Op(i))
  <2>1. calls[i].tool = "apply_patch"
    BY <1>1, <1>5 DEF WorkInv
  <2> QED
    BY <1>1, <1>2, <1>5, <2>1, NextOpOK DEF WriteFile, StepOK
<1> QED
  BY <1>3, <1>4, <1>5

\* A patch takes away one file, if it can.
LEMMA RemoveFileOK ==
    ASSUME FilesInv, WorkOK, NEW i \in Calls, calls' = calls, inodes' = inodes,
           NEW path, Resolve(path) \in Places, calls[i].tool = "apply_patch",
           RemoveFile(i, path)
    PROVE  StepOK(i)
<1>1. WorkInv(i) /\ TreeOK(tree, inodes) /\ inodes \in Nat
  BY DEF FilesInv
<1>2. CASE CanRemove(tree, Resolve(path))
  <2>1. tree' = Unlinked(tree, Resolve(path)) /\ NextOp(i)
    BY <1>2 DEF RemoveFile
  <2> QED
    BY <1>1, <1>2, <2>1, UnlinkedOK, NextOpOK DEF StepOK
<1>3. CASE ~CanRemove(tree, Resolve(path))
  BY <1>1, <1>3, FailOK DEF RemoveFile, StepOK
<1> QED
  BY <1>2, <1>3

LEMMA PatchOperationOK ==
    ASSUME FilesInv, WorkOK, NEW i \in Calls, calls' = calls, PatchOperation(i)
    PROVE  StepOK(i)
<1>1. /\ WorkInv(i) /\ TreeOK(tree, inodes) /\ inodes \in Nat /\ inodes' = inodes
      /\ work[i].op \in Nat \ {0} /\ calls[i].tool = "apply_patch"
  BY DEF FilesInv, PatchOperation, WorkInv
<1>2. CASE work[i].op > Len(calls[i].ops)
  BY <1>1, <1>2, FinishOK DEF PatchOperation, StepOK
<1>3. CASE ~(work[i].op > Len(calls[i].ops))
  <2>1. /\ Len(calls[i].ops) \in Nat
        /\ work[i].op <= Len(calls[i].ops) /\ work[i].op \in 1..Len(calls[i].ops)
    <3>1. Len(calls[i].ops) \in Nat
      BY CallIsTyped
    <3> QED
      BY <1>1, <1>3, <3>1
  <2>2. Resolve(Op(i).path) \in Places /\ Resolve(Op(i).moveTo) \in Places
    BY <2>1, NamedPlaces DEF Op
  <2> DEFINE p == Resolve(Op(i).path)
             new == ApplyUnifiedPatch(tree[p].text, Op(i).hunks)
             to == TargetOf(Op(i))
  <2>3. \/ Fail(i) /\ tree' = tree
        \/ /\ tree' = tree /\ Op(i).kind = "add"
           /\ work' = [work EXCEPT ![i].pc = "mkdir", ![i].target = Op(i).path,
                                   ![i].text = TextOf(Op(i).body)]
        \/ RemoveFile(i, Op(i).path)
        \/ ReadForUpdate(i)
    BY <1>3, Zenon DEF PatchOperation
  <2>4. CASE Fail(i) /\ tree' = tree
    BY <1>1, <2>4, FailOK DEF StepOK
  <2>5. CASE /\ tree' = tree /\ Op(i).kind = "add"
             /\ work' = [work EXCEPT ![i].pc = "mkdir", ![i].target = Op(i).path,
                                     ![i].text = TextOf(Op(i).body)]
    <3>1. TextOf(Op(i).body) \in Texts
      BY <2>1, CallIsTyped, TextOfIsText DEF Op
    <3>2. Op(i).path = TargetFor(i)
      BY <1>1, <2>5 DEF TargetFor, TargetOf, IsMove
    <3> QED
      BY <1>1, <2>1, <2>2, <2>5, <3>1, <3>2, ToWriteOK DEF StepOK
  <2>6. CASE RemoveFile(i, Op(i).path)
    BY <1>1, <2>2, <2>6, RemoveFileOK
  <2>7. CASE ReadForUpdate(i)
    <3>1. /\ tree' = tree
          /\ \/ Fail(i)
             \/ /\ IsFile(tree, p) /\ new.ok
                /\ work' = [work EXCEPT ![i].pc = "mkdir", ![i].text = new.text,
                                        ![i].target = to]
      BY <2>7, Zenon DEF ReadForUpdate
    <3>2. Resolve(to) \in Places
      BY <2>2 DEF TargetOf
    <3>5. ASSUME IsFile(tree, p), new.ok
          PROVE  new.text \in Texts
      <4>1. tree[p] \in Nodes /\ tree[p].kind = "file"
        BY <1>1, <2>2, <3>5 DEF TreeOK, IsFile
      <4>2. tree[p].text \in Seq(STRING)
        BY <4>1, NodesAreKinds DEF Texts
      <4>3. Op(i).hunks \in Seq(Hunks)
        BY <2>1, CallIsTyped DEF Op
      <4> QED
        BY <3>5, <4>2, <4>3, PatchMakesText
    <3> HIDE DEF new, to, p
    <3>3. CASE Fail(i)
      BY <1>1, <3>1, <3>3, FailOK DEF StepOK
    <3>4. CASE /\ IsFile(tree, p) /\ new.ok
               /\ work' = [work EXCEPT ![i].pc = "mkdir", ![i].text = new.text,
                                       ![i].target = to]
      <4>1. /\ work'[i].pc = "mkdir" /\ work'[i].op = work[i].op
            /\ work'[i].text = new.text /\ work'[i].target = to
        BY <3>4 DEF WorkOK
      <4>2. new.text \in Texts
        BY <3>4, <3>5
      <4>3. to = TargetFor(i) /\ TargetFor(i)' = TargetFor(i)
        BY <1>1, <4>1 DEF to, TargetFor, Op
      <4> QED
        BY <1>1, <2>1, <3>1, <3>2, <4>1, <4>2, <4>3 DEF StepOK, WorkInv
    <3> QED
      BY <3>1, <3>3, <3>4
  <2> QED
    BY <2>3, <2>4, <2>5, <2>6, <2>7
<1> QED
  BY <1>2, <1>3

LEMMA UnlinkOK ==
    ASSUME FilesInv, WorkOK, NEW i \in Calls, calls' = calls, Unlink(i)
    PROVE  StepOK(i)
<1>1. /\ WorkInv(i) /\ inodes' = inodes /\ work[i].pc = "unlink"
      /\ RemoveFile(i, Op(i).path)
  BY DEF FilesInv, Unlink
<1>2. calls[i].tool = "apply_patch" /\ work[i].op \in 1..Len(calls[i].ops)
  <2>1. Len(calls[i].ops) \in Nat
    BY CallIsTyped
  <2> QED
    BY <1>1, <2>1 DEF WorkInv
<1>3. Resolve(Op(i).path) \in Places
  BY <1>2, NamedPlaces DEF Op
<1> QED
  BY <1>1, <1>2, <1>3, RemoveFileOK

\* The calls that only look leave the tree alone.
LEMMA LookOK ==
    ASSUME FilesInv, WorkOK, NEW i \in Calls, calls' = calls,
           ReadDir(i) \/ ReadFile(i) \/ Walk(i)
    PROVE  StepOK(i)
<1>1. WorkInv(i) /\ TreeOK(tree', inodes') /\ inodes' \in Nat
  BY Unchanged DEF FilesInv, ReadDir, ReadFile, Walk, Untouched
<1>2. ASSUME NEW r, Finish(i, r)
      PROVE  StepOK(i)
  BY <1>1, <1>2, FinishOK DEF StepOK
<1>3. Fail(i) => StepOK(i)
  BY <1>1, FailOK DEF StepOK
<1>4. Goto(i, "readfile") => StepOK(i)
  BY <1>1, GotoOK DEF StepOK
<1>5. ASSUME work[i].pc = "walk", NEW todo, NEW found,
             work' = [work EXCEPT ![i].todo = todo, ![i].found = found]
      PROVE  StepOK(i)
  <2>1. work'[i].pc = "walk" /\ work'[i].op = work[i].op /\ work'[i].target = work[i].target
    BY <1>5 DEF WorkOK
  <2> QED
    BY <1>1, <2>1 DEF StepOK, WorkInv
<1>6. CASE ReadDir(i)
  BY <1>2, <1>4, <1>6 DEF ReadDir
<1>7. CASE ReadFile(i)
  BY <1>2, <1>3, <1>7 DEF ReadFile
<1>8. CASE Walk(i)
  <2>1. work[i].pc = "walk"
        /\ \/ \E r : Finish(i, r)
           \/ Fail(i)
           \/ \E todo, found : work' = [work EXCEPT ![i].todo = todo, ![i].found = found]
    <3> DEFINE e == CHOOSE e \in work[i].todo : TRUE
               looked == [work EXCEPT ![i].todo = @ \ {e},
                                      ![i].found = @ \cup Hits(calls[i], tree, e.place)]
    <3>1. work[i].pc = "walk" /\ (Finish(i, Answer(<<>>, work[i].found)) \/ ListDir(i, e)
                                   \/ work' = looked)
      BY <1>8, Zenon DEF Walk
    <3>2. work' = looked =>
            \E todo, found : work' = [work EXCEPT ![i].todo = todo, ![i].found = found]
      OBVIOUS
    <3>3. ListDir(i, e) =>
            \/ Fail(i)
            \/ \E todo, found : work' = [work EXCEPT ![i].todo = todo, ![i].found = found]
      BY DEF ListDir
    <3> QED
      BY <3>1, <3>2, <3>3
  <2> QED
    BY <2>1, <1>2, <1>3, <1>5
<1> QED
  BY <1>6, <1>7, <1>8

LEMMA FileStepOK ==
    ASSUME FilesInv, WorkOK, NEW i \in Calls, calls' = calls, FileStep(i)
    PROVE  StepOK(i)
  BY StartCallOK, MakeDirsOK, OpenFileOK, WriteFileOK, PatchOperationOK, UnlinkOK, LookOK
     DEF FileStep

\* The steps of the round leave the tree alone, and the goroutines where no tool is.
LEMMA RoundStepOK ==
    ASSUME FilesInv, WorkOK, UNCHANGED <<calls, tree, inodes>>,
           \A i \in Calls : \/ work'[i] = work[i]
                           \/ /\ work'[i].op = work[i].op /\ work'[i].target = work[i].target
                              /\ work'[i].pc \in {"start", "emit", "exited"}
    PROVE  FilesInv'
<1>1. Calls' = Calls
  BY DEF Calls
<1>2. ASSUME NEW i \in Calls
      PROVE  WorkInv(i)'
  <2>1. WorkInv(i)
    BY DEF FilesInv
  <2>2. CASE work'[i] = work[i]
    BY <2>1, <2>2 DEF WorkInv, TargetFor, Op
  <2>3. CASE /\ work'[i].op = work[i].op /\ work'[i].target = work[i].target
             /\ work'[i].pc \in {"start", "emit", "exited"}
    BY <2>1, <2>3 DEF WorkInv
  <2> QED
    BY <2>2, <2>3
<1> QED
  BY <1>1, <1>2 DEF FilesInv

\* A step of the round keeps the invariant of the files, given that of the round.
LEMMA FilesNext ==
    ASSUME RoundInv, FilesInv, [RunnerNext]_runnerVars
    PROVE  FilesInv'
<1>1. WorkOK
  BY DEF RoundInv, RoundOK
<1>2. CASE BuildToolCalls \/ Wait \/ Collect \/ UNCHANGED runnerVars
  <2>1. UNCHANGED <<calls, tree, inodes, work>>
    BY <1>2 DEF BuildToolCalls, Wait, Collect, runnerVars, fileVars
  <2> QED
    BY <1>1, <2>1, RoundStepOK
<1>3. CASE Announce
  <2>1. UNCHANGED <<calls, tree, inodes>>
        /\ (work' = work \/ work' = [i \in Calls |-> [work[i] EXCEPT !.pc = "start"]])
    BY <1>3 DEF Announce
  <2>2. \A i \in Calls : [work[i] EXCEPT !.pc = "start"].pc = "start"
                        /\ [work[i] EXCEPT !.pc = "start"].op = work[i].op
                        /\ [work[i] EXCEPT !.pc = "start"].target = work[i].target
    BY <1>1 DEF WorkOK
  <2> QED
    BY <1>1, <2>1, <2>2, RoundStepOK
<1>4. ASSUME NEW i \in Calls, Record(i) \/ Emit(i)
      PROVE  FilesInv'
  <2>1. PICK p \in {"emit", "exited"} : Goto(i, p)
    BY <1>4 DEF Record, Emit
  <2>2. UNCHANGED <<calls, tree, inodes>>
    BY <1>4 DEF Record, Emit
  <2>3. /\ work'[i].op = work[i].op /\ work'[i].target = work[i].target /\ work'[i].pc = p
        /\ \A j \in Calls \ {i} : work'[j] = work[j]
    BY <1>1, <2>1 DEF Goto, WorkOK
  <2> QED
    BY <1>1, <2>2, <2>3, RoundStepOK
<1>5. ASSUME NEW i \in Calls, RunTool(i)
      PROVE  FilesInv'
  <2>1. FileStep(i) /\ calls' = calls /\ Calls' = Calls
    BY <1>5 DEF RunTool, Calls
  <2>2. TreeOK(tree', inodes') /\ inodes' \in Nat /\ WorkInv(i)'
    BY <1>1, <2>1, FileStepOK DEF StepOK
  <2>3. ASSUME NEW j \in Calls, j # i
        PROVE  WorkInv(j)'
    <3>1. work'[j] = work[j] /\ WorkInv(j)
      BY <1>1, <2>1, <2>3, FileStepIsLocal DEF FilesInv
    <3> QED
      BY <2>1, <3>1 DEF WorkInv, TargetFor, Op
  <2> QED
    BY <2>1, <2>2, <2>3 DEF FilesInv
<1> QED
  BY <1>2, <1>3, <1>4, <1>5 DEF RunnerNext

\* The invariant of the files holds, whatever the calls are.
LEMMA FilesInvariant == RunnerSpec => []FilesInv
<1>1. RoundInv /\ FilesInv /\ [RunnerNext]_runnerVars => FilesInv'
  BY FilesNext
<1> QED
  BY <1>1, FilesInitHolds, RoundInvariant, PTL DEF RunnerSpec

\* Whatever calls a response makes at once, and wherever a patch stops: what the tools
\* leave behind is a file tree, no call changes anything outside the root, and nothing
\* is noted or sent but for the calls (tools/files, chroot_fs.go 97-134).
THEOREM TreeStaysATree == RunnerSpec => []RunnerTypeOK
<1>1. RoundInv /\ FilesInv => RunnerTypeOK
  <2> SUFFICES ASSUME RoundInv, FilesInv
               PROVE  RunnerTypeOK
    OBVIOUS
  <2>1. /\ tree \in [Places -> Nodes] /\ IsTree(tree) /\ OwnInodes(tree)
        /\ \A i \in Calls : Resolve(work[i].target) \in Places
    BY DEF FilesInv, TreeOK, WorkInv
  <2>2. DOMAIN byID \subseteq IdsOf
    BY DEF RoundInv, NotedInv, IdsOf
  <2>3. \A i \in Calls : sent[i] \in {0, 1}
    BY DEF RoundInv, CallInv
  <2>4. phase \in Phases /\ announced \in 0..Len(calls) /\ Len(outputs) <= Len(calls)
    BY DEF RoundInv, RoundOK
  <2> QED
    BY <2>1, <2>2, <2>3, <2>4 DEF RunnerTypeOK
<1> QED
  BY <1>1, RoundInvariant, FilesInvariant, PTL

\* What a call of a response touches is in the small world.
LEMMA TouchedPlaces ==
    ASSUME FilesInv, NEW i \in Calls
    PROVE  /\ Touches(calls[i]) \in SUBSET Places
           /\ calls[i].tool # "apply_patch" => Touches(calls[i]) = {Base(calls[i])}
           /\ calls[i].tool = "apply_patch" =>
                 \A k \in 1..Len(calls[i].ops) :
                    /\ Resolve(calls[i].ops[k].path) \in Touches(calls[i])
                    /\ Resolve(TargetOf(calls[i].ops[k])) \in Touches(calls[i])
<1>1. DOMAIN calls[i].ops = 1..Len(calls[i].ops)
  BY CallIsTyped
<1>2. /\ Resolve(calls[i].path) \in Places
      /\ \A k \in 1..Len(calls[i].ops) : /\ Resolve(calls[i].ops[k].path) \in Places
                                         /\ Resolve(calls[i].ops[k].moveTo) \in Places
  BY NamedPlaces
<1>3. Touches(calls[i]) \in SUBSET Places
  BY <1>1, <1>2 DEF Touches, Base
<1>4. ASSUME calls[i].tool = "apply_patch", NEW k \in 1..Len(calls[i].ops)
      PROVE  /\ Resolve(calls[i].ops[k].path) \in Touches(calls[i])
             /\ Resolve(TargetOf(calls[i].ops[k])) \in Touches(calls[i])
  BY <1>1, <1>4 DEF Touches, TargetOf
<1> QED
  BY <1>3, <1>4 DEF Touches

\* What is written to is touched.
LEMMA TargetTouched ==
    ASSUME FilesInv, NEW i \in Calls, work[i].pc \in Writing \cup {"parent"}
    PROVE  /\ Changes(calls[i]) /\ Resolve(work[i].target) \in Touches(calls[i])
           /\ calls[i].tool = "apply_patch" => work[i].op \in 1..Len(calls[i].ops)
<1>1. WorkInv(i) /\ Len(calls[i].ops) \in Nat
  BY CallIsTyped DEF FilesInv
<1>2. calls[i].tool \in {"write", "apply_patch"} /\ work[i].target = TargetFor(i)
  BY <1>1 DEF WorkInv
<1>3. calls[i].tool = "apply_patch" => work[i].op \in 1..Len(calls[i].ops)
  BY <1>1 DEF WorkInv
<1>4. CASE calls[i].tool = "write"
  BY <1>2, <1>4, TouchedPlaces DEF TargetFor, Base, Changes
<1>5. CASE calls[i].tool = "apply_patch"
  BY <1>2, <1>3, <1>5, TouchedPlaces DEF TargetFor, Op, Changes
<1> QED
  BY <1>2, <1>3, <1>4, <1>5

\* What a step of a call changes of the tree are directories made on the way to one place,
\* which is above its target or below it, or one place that it touches.
ChangesAt(i) ==
    \E q \in Touches(calls[i]) :
        \/ \E d \in Places : \E new \in SUBSET {a \in Places : IsPrefix(a, d)} :
              /\ IsPrefix(d, q) \/ IsPrefix(q, d)
              /\ CanMkdirAll(tree, new) /\ tree' = MkdirAll(tree, new)
        \/ \A a \in Places \ {q} : tree'[a] = tree[a]

\* Only a call that changes files changes the tree, at its own places.
LEMMA StepChanges ==
    ASSUME FilesInv, WorkOK, NEW i \in Calls, FileStep(i), tree' # tree
    PROVE  Changes(calls[i]) /\ ChangesAt(i)
<1> DEFINE p == Resolve(work[i].target)
<1>1. WorkInv(i) /\ tree \in [Places -> Nodes] /\ Places \subseteq Seq(STRING)
  BY PlacesAssumption DEF FilesInv, TreeOK
<1>2. ASSUME NEW path, RemoveFile(i, path), Resolve(path) \in Touches(calls[i])
      PROVE  ChangesAt(i)
  <2>1. tree' = Unlinked(tree, Resolve(path))
    BY <1>2 DEF RemoveFile
  <2>2. \A a \in Places \ {Resolve(path)} : tree'[a] = tree[a]
    BY <1>1, <2>1 DEF Unlinked
  <2> QED
    BY <1>2, <2>2 DEF ChangesAt
<1>3. CASE MakeDirs(i)
  <2>1. /\ work[i].pc \in {"parent", "mkdir"}
        /\ CanMkdirAll(tree, DirsOf(i)) /\ tree' = MkdirAll(tree, DirsOf(i))
    BY <1>3 DEF MakeDirs
  <2>2. Changes(calls[i]) /\ p \in Touches(calls[i]) /\ p \in Places
    BY <2>1, TargetTouched, TouchedPlaces
  <2>3. CASE work[i].pc = "parent"
    <3> DEFINE d == Resolve(Front(work[i].target))
    <3>1. work[i].target = calls[i].path /\ DirsOf(i) = Above(d) \cup {d} /\ d \in Places
      BY <1>1, <2>3 DEF WorkInv, TargetFor, DirsOf
    <3>2. work[i].target \in Seq(STRING)
      BY <3>1, CallIsTyped
    <3>3. IsPrefix(d, p) \/ IsPrefix(p, d)
      <4>1. CASE work[i].target # <<>>
        BY <3>1, <3>2, <4>1, ParentMade
      <4>2. CASE work[i].target = <<>>
        <5>1. Front(<<>>) = <<>>
          BY DEF Front
        <5> QED
          BY <1>1, <2>2, <3>1, <4>2, <5>1, PrefixOrder
      <4> QED
        BY <4>1, <4>2
    <3>4. DirsOf(i) \in SUBSET {a \in Places : IsPrefix(a, d)}
      BY <3>1, AboveParent
    <3> HIDE DEF d, p
    <3> QED
      BY <2>1, <2>2, <3>1, <3>3, <3>4 DEF ChangesAt
  <2>4. CASE work[i].pc = "mkdir"
    <3>1. DirsOf(i) = Above(p)
      BY <2>4 DEF DirsOf
    <3>2. DirsOf(i) \in SUBSET {a \in Places : IsPrefix(a, p)} /\ IsPrefix(p, p)
      BY <1>1, <2>2, <3>1, AboveParent, PrefixOrder
    <3> HIDE DEF p
    <3> QED
      BY <2>1, <2>2, <3>2 DEF ChangesAt
  <2> QED
    BY <2>1, <2>2, <2>3, <2>4
<1>4. CASE OpenFile(i)
  <2>1. work[i].pc = "open" /\ tree' = Open(tree, p, inodes + 1)
    BY <1>4 DEF OpenFile, Untouched
  <2>2. Changes(calls[i]) /\ p \in Touches(calls[i])
    BY <2>1, TargetTouched
  <2>3. \A a \in Places \ {p} : tree'[a] = tree[a]
    BY <1>1, <2>1 DEF Open
  <2> QED
    BY <2>2, <2>3 DEF ChangesAt
<1>5. CASE WriteFile(i)
  <2>1. work[i].pc = "data" /\ tree' = WriteData(tree, p, work[i].ino, work[i].text)
    BY <1>5 DEF WriteFile
  <2>2. Changes(calls[i]) /\ p \in Touches(calls[i])
    BY <2>1, TargetTouched
  <2>3. \A a \in Places \ {p} : tree'[a] = tree[a]
    BY <1>1, <2>1 DEF WriteData
  <2> QED
    BY <2>2, <2>3 DEF ChangesAt
<1>6. CASE PatchOperation(i)
  <2>1. /\ work[i].pc = "op" /\ ~(work[i].op > Len(calls[i].ops))
        /\ RemoveFile(i, Op(i).path)
    BY <1>6, Zenon DEF PatchOperation, ReadForUpdate
  <2>2. calls[i].tool = "apply_patch" /\ work[i].op \in 1..Len(calls[i].ops)
    BY <1>1, <2>1, CallIsTyped DEF WorkInv
  <2> QED
    BY <1>2, <2>1, <2>2, TouchedPlaces DEF Op, Changes
<1>7. CASE Unlink(i)
  <2>1. work[i].pc = "unlink" /\ RemoveFile(i, Op(i).path)
    BY <1>7 DEF Unlink
  <2>2. calls[i].tool = "apply_patch" /\ work[i].op \in 1..Len(calls[i].ops)
    BY <1>1, <2>1, CallIsTyped DEF WorkInv
  <2> QED
    BY <1>2, <2>1, <2>2, TouchedPlaces DEF Op, Changes
<1>8. CASE StartCall(i) \/ ReadDir(i) \/ ReadFile(i) \/ Walk(i)
  BY <1>8 DEF StartCall, ReadDir, ReadFile, Walk, Untouched
<1> QED
  BY <1>3, <1>4, <1>5, <1>6, <1>7, <1>8 DEF FileStep

\* A step of another call, which does not meet this one.
LEMMA Elsewhere ==
    ASSUME FilesInv, WorkOK, NEW i \in Calls, NEW j \in Calls, ~Meet(calls[i], calls[j]),
           FileStep(j)
    PROVE  Keeps(Touches(calls[i]), tree, tree')
<1> DEFINE T == Touches(calls[i])
<1>1. T \in SUBSET Places /\ Touches(calls[j]) \in SUBSET Places
  BY TouchedPlaces
<1>2. CASE tree' = tree
  BY <1>2, KeepsSame
<1>3. CASE tree' # tree
  <2>1. Changes(calls[j]) /\ ChangesAt(j)
    BY <1>3, StepChanges
  <2>2. PICK q \in Touches(calls[j]) :
           \/ \E d \in Places : \E new \in SUBSET {a \in Places : IsPrefix(a, d)} :
                 /\ IsPrefix(d, q) \/ IsPrefix(q, d)
                 /\ CanMkdirAll(tree, new) /\ tree' = MkdirAll(tree, new)
           \/ \A a \in Places \ {q} : tree'[a] = tree[a]
    BY <2>1 DEF ChangesAt
  <2>3. Apart(T, q) /\ q \in Places
    BY <1>1, <2>1 DEF Meet, Apart
  <2> HIDE DEF T
  <2>4. ASSUME NEW d \in Places, NEW new \in SUBSET {a \in Places : IsPrefix(a, d)},
               IsPrefix(d, q) \/ IsPrefix(q, d), CanMkdirAll(tree, new),
               tree' = MkdirAll(tree, new)
        PROVE  Keeps(T, tree, tree')
    BY <1>1, <2>3, <2>4, KeepsMade
  <2>5. ASSUME \A a \in Places \ {q} : tree'[a] = tree[a]
        PROVE  Keeps(T, tree, tree')
    BY <1>1, <2>3, <2>5, KeepsOther
  <2> QED
    BY <2>2, <2>4, <2>5 DEF T
<1> QED
  BY <1>2, <1>3

-----------------------------------------------------------------------------
(* A call that nothing disturbs, stage by stage. *)

\* What is left to do of a call is to put a text at a place, and after that to take away
\* what a move leaves behind: k is the operation a patch is at, t the tree at the start.
NowOf(call, t, k) ==
    IF call.tool = "apply_patch" THEN Performed(t, call.ops)[k - 1].tree ELSE t
WantOf(call, t, w) == Put(NowOf(call, t, w.op), w.target, w.text)

Job(call, t, w) ==
    LET want == WantOf(call, t, w) IN
    /\ Resolve(w.target) \in Touches(call) /\ w.text \in Texts
    /\ IF call.tool = "write" THEN Alone(t, call) = want /\ w.target = call.path
       ELSE /\ call.tool = "apply_patch" /\ w.op \in 1..Len(call.ops)
            /\ Performed(t, call.ops)[w.op - 1].ok
            /\ Performed(t, call.ops)[w.op] =
                  IF want.ok /\ IsMove(call.ops[w.op]) THEN Take(want.tree, call.ops[w.op].path)
                  ELSE want

\* A call that is over did what it says.
Over(call, t0, t, result) ==
    LET alone == Alone(t0, call) IN
    /\ result.ok = alone.ok
    /\ result.ok => result.text = alone.text /\ result.paths = alone.paths
    /\ Changes(call) => Agree(Touches(call), t, alone.tree)

\* Where a walk is: what it found is to be found, and the rest is below what it has put
\* down.
WalkOK(call, t, w) ==
    LET b == Base(call) IN
    /\ w.todo = {} => Exists(t, b)
    /\ Exists(t, b) =>
          /\ w.found \subseteq UNION {Hits(call, t, q) : q \in Below(t, b)}
          /\ \A e \in w.todo : /\ e.place \in Below(t, b)
                               /\ e.dir = IsDir(t, e.place) \/ e.place = b
                               /\ ~e.dir => ~IsDir(t, e.place)
                               /\ call.tool = "glob" => Hits(call, t, e.place) \subseteq w.found
          /\ \A q \in Below(t, b) : \/ Hits(call, t, q) \subseteq w.found
                                    \/ \E e \in w.todo : IsPrefix(e.place, q)
    /\ ~Exists(t, b) => w.todo = {[place |-> b, dir |-> TRUE]}

WritingStage(call, t0, t, w) ==
    LET p == Resolve(w.target)
        now == NowOf(call, t0, w.op)
        want == WantOf(call, t0, w)
        T == Touches(call) IN
    /\ Job(call, t0, w)
    /\ w.pc \in {"parent", "mkdir"} => Agree(T, t, now)
    /\ w.pc = "parent" => call.tool = "write" /\ HasParent(call.path) /\ call.path # <<>>
    /\ w.pc = "open" => /\ CanMkdirAll(now, Above(p)) /\ Agree(T, t, MkdirAll(now, Above(p)))
                        /\ IsDir(t, p) => Agree(T, t, now)
    /\ w.pc = "data" => /\ want.ok /\ t[p] = File(<<"">>, w.ino)
                        /\ Agree(T, t, [want.tree EXCEPT ![p] = File(<<"">>, 0)])
    /\ w.pc = "unlink" => /\ call.tool = "apply_patch" /\ IsMove(call.ops[w.op])
                          /\ want.ok /\ Agree(T, t, want.tree)

PatchStage(call, t0, t, w) ==
    /\ call.tool = "apply_patch" /\ call.ops # <<>> /\ w.op \in 1..(Len(call.ops) + 1)
    /\ Performed(t0, call.ops)[w.op - 1].ok
    /\ Agree(Touches(call), t, Performed(t0, call.ops)[w.op - 1].tree)

LookStage(call, t0, t, w) ==
    /\ ~LacksArgument(call) /\ Agree(Touches(call), t, t0)
    /\ w.pc \in {"readdir", "readfile"} => call.tool = "read"
    /\ w.pc = "readfile" => ~IsDir(t0, Base(call))
    /\ w.pc = "walk" => call.tool \in {"glob", "grep"} /\ WalkOK(call, t0, w)

Unstarted == {"off", "start"}
Puts == {"parent", "mkdir", "open", "data", "unlink"}
Looks == {"readdir", "readfile", "walk"}
Ended == {"done", "emit", "exited"}

Stage(call, t0, t, w) ==
    \/ w.pc \in Unstarted /\ w.op = 1 /\ w.found = {} /\ Agree(Touches(call), t, t0)
    \/ w.pc \in Puts /\ WritingStage(call, t0, t, w)
    \/ w.pc = "op" /\ PatchStage(call, t0, t, w)
    \/ w.pc \in Looks /\ LookStage(call, t0, t, w)
    \/ w.pc \in Ended /\ Over(call, t0, t, w.result)

\* What others do leaves the stage as it is.
LEMMA StageKept ==
    ASSUME NEW call, Touches(call) \in SUBSET Places, NEW t0, NEW t, NEW w,
           Stage(call, t0, t, w), NEW t2, Keeps(Touches(call), t, t2)
    PROVE  Stage(call, t0, t2, w)
<1> DEFINE T == Touches(call)
           p == Resolve(w.target)
<1>1. \A u : Agree(T, t, u) => Agree(T, t2, u)
  BY AgreeKept
<1>2. p \in T => t2[p] = t[p]
  BY PlacesAssumption, PrefixOrder DEF Keeps, Under
<1>3. WritingStage(call, t0, t, w) => WritingStage(call, t0, t2, w)
  <2> SUFFICES ASSUME WritingStage(call, t0, t, w)
               PROVE  WritingStage(call, t0, t2, w)
    OBVIOUS
  <2>1. t2[p] = t[p] /\ (IsDir(t2, p) <=> IsDir(t, p))
    BY <1>2 DEF WritingStage, Job, IsDir
  <2> QED
    BY <1>1, <2>1, Zenon DEF WritingStage
<1>4. PatchStage(call, t0, t, w) => PatchStage(call, t0, t2, w)
  BY <1>1 DEF PatchStage
<1>5. LookStage(call, t0, t, w) => LookStage(call, t0, t2, w)
  BY <1>1 DEF LookStage
<1>6. Over(call, t0, t, w.result) => Over(call, t0, t2, w.result)
  BY <1>1 DEF Over
<1> QED
  BY <1>1, <1>3, <1>4, <1>5, <1>6 DEF Stage

\* A call that nothing disturbs, in the small world.
CallOK(call) ==
    /\ CanBuild(call)
    /\ call.path \in Seq(STRING) /\ call.text \in Texts
    /\ call.ops \in Seq(PatchOps) /\ \A k \in 1..Len(call.ops) : OpInPlaces(call.ops[k])
    /\ Touches(call) \in SUBSET Places
    /\ call.tool # "apply_patch" => Touches(call) = {Base(call)}
    /\ call.tool = "apply_patch" =>
          \A k \in 1..Len(call.ops) : /\ Resolve(call.ops[k].path) \in Touches(call)
                                      /\ Resolve(TargetOf(call.ops[k])) \in Touches(call)
    /\ \A k \in 1..Len(call.ops) :
          IsMove(call.ops[k]) => Resolve(call.ops[k].moveTo) # Resolve(call.ops[k].path)
    /\ ~NamesDirectory(call)

\* A call of a response that nothing disturbs is such a one.
LEMMA CallIsOK ==
    ASSUME FilesInv, NEW i \in Calls, Undisturbed(i), CanBuild(calls[i])
    PROVE  CallOK(calls[i])
<1>1. /\ calls[i].path \in Seq(STRING) /\ calls[i].text \in Texts
      /\ calls[i].ops \in Seq(PatchOps) /\ DOMAIN calls[i].ops = 1..Len(calls[i].ops)
      /\ \A k \in 1..Len(calls[i].ops) : calls[i].ops[k] \in PatchOps
  BY CallIsTyped
<1>2. \A k \in 1..Len(calls[i].ops) : OpInPlaces(calls[i].ops[k])
  BY <1>1, NamedPlaces DEF OpInPlaces
<1>3. \A k \in 1..Len(calls[i].ops) :
         IsMove(calls[i].ops[k])
            => Resolve(calls[i].ops[k].moveTo) # Resolve(calls[i].ops[k].path)
  BY <1>1 DEF Undisturbed, HasAlias
<1>4. ~NamesDirectory(calls[i])
  BY DEF Undisturbed
<1> QED
  BY <1>1, <1>2, <1>3, <1>4, TouchedPlaces DEF CallOK

\* Trees of files.
World(t) == t \in [Places -> Nodes] /\ IsTree(t)

\* The operations of a patch.
LEMMA PatchSteps ==
    ASSUME NEW call, CallOK(call), NEW t, World(t), call.tool = "apply_patch"
    PROVE  /\ Len(call.ops) \in Nat
           /\ Performed(t, call.ops)[0] = Outcome(call.ops # <<>>, t, <<>>, {})
           /\ Alone(t, call) = Performed(t, call.ops)[Len(call.ops)]
           /\ \A k \in 0..Len(call.ops) :
                 /\ Performed(t, call.ops)[k] \in Outcomes
                 /\ ~Performed(t, call.ops)[k].ok => Alone(t, call) = Performed(t, call.ops)[k]
           /\ \A k \in 1..Len(call.ops) :
                 /\ k - 1 \in 0..Len(call.ops) /\ k \in 0..Len(call.ops)
                 /\ Performed(t, call.ops)[k - 1].ok =>
                       Performed(t, call.ops)[k]
                          = Perform(Performed(t, call.ops)[k - 1].tree, call.ops[k])
<1> DEFINE ops == call.ops
           at == Performed(t, ops)
<1>1. /\ ops \in Seq(PatchOps) /\ \A k \in 1..Len(ops) : OpInPlaces(ops[k])
      /\ t \in [Places -> Nodes] /\ Alone(t, call) = PerformAll(t, ops)
  BY DEF CallOK, World, Alone
<1>2. Len(ops) \in Nat
  <2> DEFINE S == PatchOps
  <2>1. ops \in Seq(S)
    BY <1>1
  <2> HIDE DEF S, ops
  <2> QED
    BY <2>1
<1>3. /\ at \in [0..Len(ops) -> Outcomes]
      /\ at[0] = Outcome(ops # <<>>, t, <<>>, {})
      /\ \A k \in 1..Len(ops) : at[k] = IF at[k - 1].ok THEN Perform(at[k - 1].tree, ops[k])
                                        ELSE at[k - 1]
      /\ PerformAll(t, ops) = at[Len(ops)]
  BY <1>1, PerformedSteps
<1>4. \A k \in 0..Len(ops) : ~at[k].ok => PerformAll(t, ops) = at[k]
  BY <1>1, PerformedStops
<1> HIDE DEF ops, at
<1>5. \A k \in 1..Len(ops) : k - 1 \in 0..Len(ops) /\ k \in 0..Len(ops)
  BY <1>2
<1>6. \A k \in 0..Len(ops) : at[k] \in Outcomes
  BY <1>3
<1> QED
  BY <1>1, <1>2, <1>3, <1>4, <1>5, <1>6, Zenon DEF ops, at

\* What a failed operation leaves is what the patch leaves.
LEMMA PatchFails ==
    ASSUME NEW call, CallOK(call), NEW t0, World(t0), call.tool = "apply_patch",
           NEW k \in 0..Len(call.ops), ~Performed(t0, call.ops)[k].ok,
           NEW t, Agree(Touches(call), t, Performed(t0, call.ops)[k].tree)
    PROVE  Over(call, t0, t, NoResult)
<1>1. Alone(t0, call) = Performed(t0, call.ops)[k]
      /\ Performed(t0, call.ops)[k].ok \in BOOLEAN
  BY PatchSteps DEF Outcomes
<1>2. NoResult.ok = FALSE
  BY DEF NoResult
<1> QED
  BY <1>1, <1>2 DEF Over

\* What the job starts from is a tree, as far as types go.
LEMMA NowTyped ==
    ASSUME NEW call, CallOK(call), NEW t0, World(t0), NEW w, Job(call, t0, w)
    PROVE  /\ NowOf(call, t0, w.op) \in [Places -> Nodes]
           /\ Resolve(w.target) \in Places
           /\ WantOf(call, t0, w) \in Outcomes
<1>1. Resolve(w.target) \in Places /\ w.text \in Texts
  BY DEF Job, CallOK
<1>2. NowOf(call, t0, w.op) \in [Places -> Nodes]
  <2>1. CASE call.tool = "apply_patch"
    <3>1. w.op - 1 \in 0..Len(call.ops)
      BY <2>1, PatchSteps DEF Job
    <3>2. Performed(t0, call.ops)[w.op - 1] \in Outcomes
      BY <2>1, <3>1, PatchSteps
    <3> QED
      BY <2>1, <3>2 DEF NowOf, Outcomes
  <2>2. CASE call.tool # "apply_patch"
    BY <2>2 DEF NowOf, World
  <2> QED
    BY <2>1, <2>2
<1> QED
  BY <1>1, <1>2, PutTyped DEF WantOf

\* A job that cannot be done leaves everything as it was.
LEMMA JobFails ==
    ASSUME NEW call, CallOK(call), NEW t0, World(t0), NEW w, Job(call, t0, w),
           ~WantOf(call, t0, w).ok, NEW t, Agree(Touches(call), t, NowOf(call, t0, w.op))
    PROVE  Over(call, t0, t, NoResult)
<1> DEFINE now == NowOf(call, t0, w.op)
           want == WantOf(call, t0, w)
<1>1. want.tree = now /\ want.ok \in BOOLEAN
  <2>1. \/ want.ok = TRUE
        \/ want = Outcome(FALSE, now, <<>>, {})
    BY DEF WantOf, Put, Outcome
  <2> QED
    BY <2>1, NowTyped DEF Outcome, Outcomes
<1>2. CASE call.tool = "write"
  <2>1. Alone(t0, call) = want /\ NoResult.ok = FALSE
    BY <1>2 DEF Job, NoResult
  <2> QED
    BY <1>1, <2>1 DEF Over
<1>3. CASE call.tool # "write"
  <2>1. call.tool = "apply_patch" /\ w.op \in 1..Len(call.ops)
        /\ Performed(t0, call.ops)[w.op] = want
    BY <1>3 DEF Job
  <2>2. w.op \in 0..Len(call.ops)
    BY <2>1, PatchSteps
  <2> QED
    BY <1>1, <2>1, <2>2, PatchFails
<1> QED
  BY <1>2, <1>3

USE DEF Unstarted, Puts, Looks, Ended

\* If the text can be put there, and what comes of it.
CanPut(t, p) == CanMkdirAll(t, Above(p)) /\ ~IsDir(t, p)
PutIn(t, p, text) == [MkdirAll(t, Above(p)) EXCEPT ![p] = File(text, 0)]

\* Where a job puts its text.
LEMMA PutsWhere ==
    ASSUME NEW now, NEW path, NEW text, Resolve(path) \in Places
    PROVE  /\ CanPut(now, Resolve(path)) =>
                 /\ Put(now, path, text).ok
                 /\ Put(now, path, text).tree = PutIn(now, Resolve(path), text)
           /\ ~CanPut(now, Resolve(path)) =>
                 ~Put(now, path, text).ok /\ Put(now, path, text).tree = now
<1> DEFINE p == Resolve(path)
<1>1. CanOpen(MkdirAll(now, Above(p)), p) <=> ~IsDir(now, p)
  BY OpenedIfMade
<1> QED
  BY <1>1 DEF Put, CanPut, PutIn, Outcome

\* write makes the parent first, which makes nothing that its WriteFile would not.
LEMMA ParentStep ==
    ASSUME NEW call, CallOK(call), NEW t0, World(t0), NEW t, World(t), NEW w, NEW w2,
           Stage(call, t0, t, w), w.pc = "parent",
           w2.op = w.op, w2.target = w.target, w2.text = w.text
    PROVE  /\ Resolve(Front(w.target)) \in Places
           /\ Above(Resolve(Front(w.target))) \cup {Resolve(Front(w.target))}
                 = Above(Resolve(w.target))
           /\ CanMkdirAll(t, Above(Resolve(w.target))) /\ w2.pc = "mkdir" =>
                 Stage(call, t0, MkdirAll(t, Above(Resolve(w.target))), w2)
<1> DEFINE p == Resolve(w.target)
           now == NowOf(call, t0, w.op)
           T == Touches(call)
           new == Above(p)
           t2 == MkdirAll(t, Above(p))
<1>1. /\ Job(call, t0, w) /\ call.tool = "write" /\ HasParent(call.path)
      /\ call.path # <<>> /\ Agree(T, t, now)
  BY DEF Stage, WritingStage
<1>2. w.target = call.path /\ call.path \in Seq(STRING) /\ p \in T /\ T = {p} /\ p \in Places
  BY <1>1 DEF Job, CallOK
<1>3. Last(call.path) \notin {"", ".", ".."}
  <2>1. ~NamesDirectory(call)
    BY Zenon DEF CallOK
  <2> QED
    BY <1>1, <2>1, Zenon DEF NamesDirectory
<1>4. p # Root /\ Parent(p) = Resolve(Front(w.target))
  BY <1>1, <1>2, <1>3, ParentMade
<1>5. Parent(p) \in Places /\ Above(Parent(p)) \cup {Parent(p)} = Above(p)
  BY <1>2, <1>4, AboveParent
<1>6. ASSUME CanMkdirAll(t, Above(p)), w2.pc = "mkdir"
      PROVE  Stage(call, t0, t2, w2)
  <2>2. \A a \in new : a \notin Under(T) /\ ~IsFile(t, a)
    <3>1. \A a \in Above(p) : ~IsPrefix(p, a)
      BY <1>2, PlacesAssumption, PrefixOrder DEF Above, IsStrictPrefix
    <3> QED
      BY <1>2, <1>6, <3>1 DEF Under, CanMkdirAll
  <2>3. \A a \in Places : /\ a \in new => t2[a] = Directory
                          /\ a \notin new => t2[a] = t[a]
    BY DEF MkdirAll
  <2> HIDE DEF new, t2, now, T
  <2>4. \A a \in Under(T) : SameNode(t2[a], now[a])
    BY <1>1, <2>2, <2>3 DEF Agree, Under
  <2>5. ASSUME NEW a \in OnTheWay(T)
        PROVE  (IsFile(t2, a) <=> IsFile(now, a)) /\ (IsDir(now, a) => IsDir(t2, a))
    <3>1. (IsFile(t, a) <=> IsFile(now, a)) /\ (IsDir(now, a) => IsDir(t, a)) /\ a \in Places
      BY <1>1 DEF Agree, OnTheWay
    <3>2. CASE a \in new
      BY <2>2, <2>3, <3>1, <3>2, NodesAreKinds DEF IsFile, IsDir
    <3>3. CASE a \notin new
      BY <2>3, <3>1, <3>3 DEF IsFile, IsDir
    <3> QED
      BY <3>2, <3>3
  <2>6. Agree(T, t2, now)
    BY <2>4, <2>5 DEF Agree
  <2>7. Job(call, t0, w2)
    BY <1>1 DEF Job, WantOf, NowOf
  <2> QED
    BY <1>6, <2>6, <2>7 DEF Stage, WritingStage, now, T
<1> QED
  BY <1>4, <1>5, <1>6

\* WriteFile's MkdirAll.
LEMMA MkdirStep ==
    ASSUME NEW call, CallOK(call), NEW t0, World(t0), NEW t, World(t), NEW w, NEW w2,
           Stage(call, t0, t, w), w.pc = "mkdir",
           w2.op = w.op, w2.target = w.target, w2.text = w.text, w2.pc = "open",
           CanMkdirAll(t, Above(Resolve(w.target)))
    PROVE  Stage(call, t0, MkdirAll(t, Above(Resolve(w.target))), w2)
<1> DEFINE p == Resolve(w.target)
           now == NowOf(call, t0, w.op)
           T == Touches(call)
           t2 == MkdirAll(t, Above(p))
<1>1. Job(call, t0, w) /\ Agree(T, t, now)
  BY DEF Stage, WritingStage
<1>2. p \in T /\ T \in SUBSET Places /\ p \in Places
  BY <1>1 DEF Job, CallOK
<1>3. CanMkdirAll(now, Above(p)) /\ Agree(T, t2, MkdirAll(now, Above(p)))
  BY <1>1, <1>2, AgreeSeen, AgreeMade
<1>4. ASSUME IsDir(t2, p)
      PROVE  Agree(T, t2, now)
  <2>1. IsDir(t, p)
    <3>1. p \notin Above(p)
      BY DEF Above, IsStrictPrefix
    <3>2. t2[p] = t[p]
      BY <1>2, <3>1 DEF MkdirAll
    <3> QED
      BY <1>4, <3>2 DEF IsDir
  <2>2. t2 = t
    BY <1>2, <2>1, NothingMade DEF World
  <2> QED
    BY <1>1, <2>2
<1>5. Job(call, t0, w2)
  BY <1>1 DEF Job, WantOf, NowOf
<1> QED
  BY <1>3, <1>4, <1>5 DEF Stage, WritingStage

\* The directory cannot be made: the call, or the patch, ends here.
LEMMA MkdirFails ==
    ASSUME NEW call, CallOK(call), NEW t0, World(t0), NEW t, World(t), NEW w,
           Stage(call, t0, t, w), w.pc \in {"parent", "mkdir"},
           ~CanMkdirAll(t, Above(Resolve(w.target)))
    PROVE  Over(call, t0, t, NoResult)
<1> DEFINE p == Resolve(w.target)
           now == NowOf(call, t0, w.op)
           T == Touches(call)
<1>1. Job(call, t0, w) /\ Agree(T, t, now)
  BY DEF Stage, WritingStage
<1>2. p \in T /\ T \in SUBSET Places /\ p \in Places
  BY <1>1 DEF Job, CallOK
<1>3. ~CanMkdirAll(now, Above(p))
  BY <1>1, <1>2, AgreeSeen
<1>4. ~CanPut(now, p)
  BY <1>3 DEF CanPut
<1>5. ~WantOf(call, t0, w).ok
  BY <1>2, <1>4, PutsWhere DEF WantOf
<1> QED
  BY <1>1, <1>5, JobFails

\* Nodes of files that are alike.
LEMMA FilesAlike ==
    \A x, m, n : /\ SameNode(File(x, m), File(x, n))
                 /\ File(x, m).ino = m /\ File(x, m).text = x /\ File(x, m).kind = "file"
                 /\ \A y : [File(x, m) EXCEPT !.text = y] = File(y, m)
  BY DEF SameNode, File

\* The file is opened: made, or emptied.
LEMMA OpenStep ==
    ASSUME NEW call, CallOK(call), NEW t0, World(t0), NEW t, World(t), NEW w, NEW w2,
           Stage(call, t0, t, w), w.pc = "open",
           w2.op = w.op, w2.target = w.target, w2.text = w.text, w2.pc = "data",
           CanOpen(t, Resolve(w.target)), NEW n,
           w2.ino = Open(t, Resolve(w.target), n)[Resolve(w.target)].ino
    PROVE  Stage(call, t0, Open(t, Resolve(w.target), n), w2)
<1> DEFINE p == Resolve(w.target)
           now == NowOf(call, t0, w.op)
           made == MkdirAll(now, Above(p))
           T == Touches(call)
           node == File(<<"">>, IF IsFile(t, p) THEN t[p].ino ELSE n)
           none == File(<<"">>, 0)
           full == File(w.text, 0)
<1>1. Job(call, t0, w) /\ CanMkdirAll(now, Above(p)) /\ Agree(T, t, made)
  BY DEF Stage, WritingStage
<1>2. /\ p \in T /\ T \in SUBSET Places /\ p \in Places
      /\ now \in [Places -> Nodes] /\ t \in [Places -> Nodes]
  BY <1>1, NowTyped DEF Job, CallOK, World
<1>3. ~IsDir(t, p)
  BY DEF CanOpen
<1>4. made[p] = now[p] /\ DOMAIN made = Places
  <2>1. p \notin Above(p)
    BY DEF Above, IsStrictPrefix
  <2> QED
    BY <1>2, <2>1 DEF MkdirAll
<1>5. ~IsDir(now, p)
  <2>1. ~IsDir(made, p)
    BY <1>1, <1>2, <1>3, AgreeSeen
  <2> QED
    BY <1>4, <2>1 DEF IsDir
<1>6. WantOf(call, t0, w).ok /\ WantOf(call, t0, w).tree = PutIn(now, p, w.text)
  <2>1. CanPut(now, p)
    BY <1>1, <1>5 DEF CanPut
  <2> QED
    BY <1>2, <2>1, PutsWhere DEF WantOf
<1>15. PutIn(now, p, w.text) = [made EXCEPT ![p] = full]
  BY DEF PutIn
<1>7. Open(t, p, n) = [t EXCEPT ![p] = node]
  BY <1>2 DEF Open
<1>8. SameNode(node, none)
  BY FilesAlike, Zenon
<1>9. WantOf(call, t0, w2) = WantOf(call, t0, w) /\ Job(call, t0, w2)
  BY <1>1 DEF Job, WantOf, NowOf
<1>12. node = File(<<"">>, w2.ino)
  <2> DEFINE m == IF IsFile(t, p) THEN t[p].ino ELSE n
             e == <<"">>
  <2>1. node = File(e, m)
    OBVIOUS
  <2> HIDE DEF m, e
  <2> HIDE DEF node
  <2>2. w2.ino = node.ino
    BY <1>2, <1>7
  <2>3. File(e, m).ino = m
    BY DEF File
  <2>4. w2.ino = m
    BY <2>1, <2>2, <2>3
  <2> QED
    BY <2>1, <2>4 DEF e
<1> HIDE DEF made, now, node, none, full, T
<1>10. Agree(T, Open(t, p, n), [made EXCEPT ![p] = none])
  <2>1. DOMAIN t = Places
    BY <1>2
  <2>2. Agree(T, [t EXCEPT ![p] = node], [made EXCEPT ![p] = none])
    BY <1>1, <1>2, <1>4, <1>8, <2>1, AgreePut
  <2> QED
    BY <1>7, <2>2
<1>11. [[made EXCEPT ![p] = full] EXCEPT ![p] = none] = [made EXCEPT ![p] = none]
  BY <1>2, <1>4
<1>13. Open(t, p, n)[p] = node
  BY <1>2, <1>7
<1>14. /\ WantOf(call, t0, w2).ok
       /\ WantOf(call, t0, w2).tree = [made EXCEPT ![p] = full]
  BY <1>6, <1>9, <1>15
<1> QED
  BY <1>9, <1>10, <1>11, <1>12, <1>13, <1>14 DEF Stage, WritingStage, T, none

\* The file cannot be opened: there is a directory, and so nothing was made.
LEMMA OpenFails ==
    ASSUME NEW call, CallOK(call), NEW t0, World(t0), NEW t, World(t), NEW w,
           Stage(call, t0, t, w), w.pc = "open", ~CanOpen(t, Resolve(w.target))
    PROVE  Over(call, t0, t, NoResult)
<1> DEFINE p == Resolve(w.target)
           now == NowOf(call, t0, w.op)
           made == MkdirAll(now, Above(p))
           T == Touches(call)
<1>1. /\ Job(call, t0, w) /\ CanMkdirAll(now, Above(p)) /\ Agree(T, t, made)
      /\ IsDir(t, p) => Agree(T, t, now)
  BY DEF Stage, WritingStage
<1>2. p \in T /\ T \in SUBSET Places /\ p \in Places
  BY <1>1 DEF Job, CallOK
<1>3. p # Root => IsDir(t, Parent(p))
  <2> SUFFICES ASSUME p # Root
               PROVE  IsDir(t, Parent(p))
    OBVIOUS
  <2>1. Parent(p) \in Above(p) /\ Parent(p) \in Places /\ IsPrefix(Parent(p), p)
    BY <1>2, ParentIsAbove, PlacesAssumption, PrefixOfParent DEF Above
  <2>2. made[Parent(p)] = Directory
    BY <2>1 DEF MkdirAll
  <2>3. Parent(p) \in Under(T) \cup OnTheWay(T)
    BY <1>2, <2>1 DEF OnTheWay
  <2> QED
    BY <1>1, <2>2, <2>3, NodesAreKinds DEF Agree, SameNode, IsDir
<1>4. IsDir(t, p)
  BY <1>3 DEF CanOpen
<1>5. Agree(T, t, now)
  BY <1>1, <1>4
<1>6. IsDir(now, p)
  BY <1>2, <1>4, <1>5, AgreeSeen
<1>7. ~CanPut(now, p)
  BY <1>6 DEF CanPut
<1>8. ~WantOf(call, t0, w).ok
  BY <1>2, <1>7, PutsWhere DEF WantOf
<1> QED
  BY <1>1, <1>5, <1>8, JobFails

\* The text is written over an empty file.
LEMMA DataWritten ==
    ASSUME NEW call, CallOK(call), NEW t0, World(t0), NEW t, World(t), NEW w,
           Stage(call, t0, t, w), w.pc = "data"
    PROVE  /\ Job(call, t0, w) /\ WantOf(call, t0, w).ok
           /\ Agree(Touches(call), WriteData(t, Resolve(w.target), w.ino, w.text),
                    WantOf(call, t0, w).tree)
<1> DEFINE p == Resolve(w.target)
           now == NowOf(call, t0, w.op)
           made == MkdirAll(now, Above(p))
           want == WantOf(call, t0, w)
           T == Touches(call)
           none == File(<<"">>, 0)
           full == File(w.text, 0)
           u == [want.tree EXCEPT ![p] = none]
<1>1. Job(call, t0, w) /\ want.ok /\ t[p] = File(<<"">>, w.ino) /\ Agree(T, t, u)
  BY DEF Stage, WritingStage
<1>2. /\ p \in T /\ T \in SUBSET Places /\ p \in Places
      /\ now \in [Places -> Nodes] /\ t \in [Places -> Nodes] /\ w.text \in Texts
  BY <1>1, NowTyped DEF Job, CallOK, World
<1>3. want.tree = [made EXCEPT ![p] = full]
  <2>1. want = Put(now, w.target, w.text)
    BY DEF WantOf
  <2>3. PutIn(now, p, w.text) = [made EXCEPT ![p] = full]
    BY DEF PutIn
  <2> HIDE DEF now, want, made, full
  <2>2. want.tree = PutIn(now, p, w.text)
    <3>1. want.ok /\ p \in Places
      BY <1>1, <1>2
    <3>2. want = Put(now, w.target, w.text) => (want.ok => CanPut(now, p))
      BY <3>1, PutsWhere
    <3> QED
      BY <2>1, <3>1, <3>2, PutsWhere
  <2> QED
    BY <2>2, <2>3
<1>4. /\ DOMAIN want.tree = Places /\ want.tree[p] = full
      /\ [want.tree EXCEPT ![p] = full] = want.tree
  <2>1. DOMAIN made = Places
    BY DEF MkdirAll
  <2> HIDE DEF made, full, want
  <2> QED
    BY <1>2, <1>3, <2>1
<1>5. Overlay(w.text, <<"">>) = w.text
  <2> DEFINE S == STRING
             e == <<"">>
  <2>1. w.text \in Seq(S) /\ e \in Seq(S) /\ Len(e) = 1 /\ w.text # <<>>
    <3> DEFINE c == ""
    <3>1. c \in S
      BY EmptyLineAssumption, Zenon
    <3>2. w.text \in Seq(S) /\ w.text # <<>>
      BY <1>2 DEF Texts
    <3> HIDE DEF S
    <3>3. e = <<c>>
      OBVIOUS
    <3> HIDE DEF e, c
    <3>4. e \in Seq(S) /\ Len(e) = 1
      BY <3>1, <3>3
    <3> QED
      BY <3>2, <3>4
  <2> HIDE DEF S, e
  <2>2. SubSeq(e, Len(w.text) + 1, Len(e)) = <<>>
    BY <2>1
  <2>3. w.text \o <<>> = w.text
    BY <2>1
  <2> QED
    BY <2>2, <2>3 DEF Overlay, e
<1>6. WriteData(t, p, w.ino, w.text) = [t EXCEPT ![p] = File(w.text, w.ino)]
  <2> DEFINE x == t[p]
             e == <<"">>
  <2>4. x = File(e, w.ino)
    BY <1>1
  <2> HIDE DEF x, e
  <2>5. /\ x.kind = "file" /\ x.ino = w.ino /\ x.text = e
        /\ [x EXCEPT !.text = w.text] = File(w.text, w.ino)
    BY <2>4, FilesAlike
  <2>1. IsFile(t, p) /\ t[p].ino = w.ino /\ t[p].text = <<"">>
    BY <2>5 DEF IsFile, x, e
  <2>2. [t[p] EXCEPT !.text = w.text] = File(w.text, w.ino)
    BY <2>5 DEF x
  <2>3. WriteData(t, p, w.ino, w.text) = [t EXCEPT ![p] = [t[p] EXCEPT !.text = w.text]]
    BY <1>2, <1>5, <2>1 DEF WriteData
  <2> QED
    BY <2>2, <2>3
<1>7. SameNode(File(w.text, w.ino), full)
  BY FilesAlike, Zenon
<1>8. DOMAIN u = Places /\ [u EXCEPT ![p] = full] = want.tree
  <2> HIDE DEF want, full, none
  <2> QED
    BY <1>2, <1>4
<1> HIDE DEF u, full, want, T
<1>9. Agree(T, [t EXCEPT ![p] = File(w.text, w.ino)], [u EXCEPT ![p] = full])
  BY <1>1, <1>2, <1>7, <1>8, AgreePut
<1> QED
  BY <1>1, <1>6, <1>8, <1>9 DEF want, T

\* What a call answers that has nothing to say.
LEMMA NothingToSay ==
    \A x \in Outcomes : x.ok => /\ Answer(<<>>, {}).ok = x.ok
                                /\ Answer(<<>>, {}).text = x.text
                                /\ Answer(<<>>, {}).paths = x.paths
  BY DEF Outcomes, Answer

\* The text is written, and the call of write is over.
LEMMA WriteOver ==
    ASSUME NEW call, CallOK(call), NEW t0, World(t0), NEW t, World(t), NEW w,
           Stage(call, t0, t, w), w.pc = "data", call.tool = "write"
    PROVE  Over(call, t0, WriteData(t, Resolve(w.target), w.ino, w.text), Answer(<<>>, {}))
<1>1. /\ Job(call, t0, w) /\ WantOf(call, t0, w).ok
      /\ Agree(Touches(call), WriteData(t, Resolve(w.target), w.ino, w.text),
               WantOf(call, t0, w).tree)
  BY DataWritten
<1>2. Alone(t0, call) = WantOf(call, t0, w) /\ WantOf(call, t0, w) \in Outcomes
  BY <1>1, NowTyped DEF Job
<1> QED
  BY <1>1, <1>2, NothingToSay DEF Over

\* The file an operation of a patch writes is written: a move goes on, the patch goes on.
LEMMA DataStep ==
    ASSUME NEW call, CallOK(call), NEW t0, World(t0), NEW t, World(t), NEW w, NEW w2,
           Stage(call, t0, t, w), w.pc = "data", call.tool # "write",
           IF IsMove(call.ops[w.op])
           THEN w2.pc = "unlink" /\ w2.op = w.op /\ w2.target = w.target /\ w2.text = w.text
           ELSE w2.pc = "op" /\ w2.op = w.op + 1
    PROVE  Stage(call, t0, WriteData(t, Resolve(w.target), w.ino, w.text), w2)
<1> DEFINE t2 == WriteData(t, Resolve(w.target), w.ino, w.text)
           want == WantOf(call, t0, w)
<1>1. Job(call, t0, w) /\ want.ok /\ Agree(Touches(call), t2, want.tree)
  BY DataWritten
<1>2. call.tool = "apply_patch" /\ w.op \in 1..Len(call.ops)
  BY <1>1 DEF Job
<1>3. Len(call.ops) \in Nat
  BY <1>2, PatchSteps
<1>4. CASE IsMove(call.ops[w.op])
  <2>1. w2.pc = "unlink" /\ w2.op = w.op /\ w2.target = w.target /\ w2.text = w.text
    BY <1>4
  <2>2. WantOf(call, t0, w2) = want /\ Job(call, t0, w2)
    BY <1>1, <2>1 DEF Job, WantOf, NowOf
  <2> HIDE DEF t2, want
  <2> QED
    BY <1>1, <1>2, <1>4, <2>1, <2>2 DEF Stage, WritingStage, t2
<1>5. CASE ~IsMove(call.ops[w.op])
  <2>1. w2.pc = "op" /\ w2.op = w.op + 1
    BY <1>5
  <2>2. Performed(t0, call.ops)[w.op] = want
    BY <1>1, <1>2, <1>5 DEF Job
  <2>3. w2.op - 1 = w.op /\ w2.op \in 1..(Len(call.ops) + 1) /\ Len(call.ops) # 0
    BY <1>2, <1>3, <2>1
  <2>4. call.ops # <<>>
    BY <2>3
  <2> HIDE DEF t2, want
  <2> QED
    BY <1>1, <1>2, <2>1, <2>2, <2>3, <2>4 DEF Stage, PatchStage, t2
<1> QED
  BY <1>4, <1>5

\* An operation is done: the patch goes on.
LEMMA OpDone ==
    ASSUME NEW call, CallOK(call), NEW t0, World(t0), NEW t, call.tool = "apply_patch",
           NEW k \in 1..Len(call.ops), Performed(t0, call.ops)[k].ok,
           Agree(Touches(call), t, Performed(t0, call.ops)[k].tree),
           NEW w2, w2.pc = "op", w2.op = k + 1
    PROVE  Stage(call, t0, t, w2)
<1>1. Len(call.ops) \in Nat
  BY PatchSteps
<1>2. w2.op - 1 = k /\ w2.op \in 1..(Len(call.ops) + 1) /\ Len(call.ops) # 0
  BY <1>1
<1>3. call.ops # <<>>
  BY <1>2
<1> QED
  BY <1>2, <1>3 DEF Stage, PatchStage

\* Taking a file away, in trees that are alike.
LEMMA TakeAgrees ==
    ASSUME NEW T \in SUBSET Places, NEW t, NEW u, Agree(T, t, u),
           t \in [Places -> Nodes], u \in [Places -> Nodes],
           NEW path, Resolve(path) \in T
    PROVE  /\ CanRemove(t, Resolve(path)) =>
                 /\ Take(u, path).ok
                 /\ Agree(T, Unlinked(t, Resolve(path)), Take(u, path).tree)
           /\ ~CanRemove(t, Resolve(path)) =>
                 ~Take(u, path).ok /\ Take(u, path).tree = u
<1> DEFINE p == Resolve(path)
<1>1. CanRemove(t, p) <=> CanRemove(u, p)
  BY AgreeSeen
<1>2. DOMAIN t = Places /\ DOMAIN u = Places /\ SameNode(Absent, Absent)
  BY DEF SameNode
<1>3. Agree(T, [t EXCEPT ![p] = Absent], [u EXCEPT ![p] = Absent])
  BY <1>2, AgreePut
<1>4. Agree(T, Unlinked(t, p), Unlinked(u, p))
  BY <1>3 DEF Unlinked
<1>5. /\ CanRemove(u, p) => Take(u, path).ok /\ Take(u, path).tree = Unlinked(u, p)
      /\ ~CanRemove(u, p) => ~Take(u, path).ok /\ Take(u, path).tree = u
  BY DEF Take, Outcome
<1> QED
  BY <1>1, <1>4, <1>5

\* The patch is at its end.
LEMMA PatchOver ==
    ASSUME NEW call, CallOK(call), NEW t0, World(t0), NEW t, World(t), NEW w,
           Stage(call, t0, t, w), w.pc = "op", w.op > Len(call.ops)
    PROVE  Over(call, t0, t, Answer(<<>>, {}))
<1>1. PatchStage(call, t0, t, w)
  BY DEF Stage
<1>2. call.tool = "apply_patch" /\ w.op \in 1..(Len(call.ops) + 1) /\ Len(call.ops) \in Nat
  BY <1>1, PatchSteps DEF PatchStage
<1>3. w.op - 1 = Len(call.ops) /\ Len(call.ops) \in 0..Len(call.ops)
  BY <1>2
<1> DEFINE last == Performed(t0, call.ops)[Len(call.ops)]
<1>4. last.ok /\ Agree(Touches(call), t, last.tree) /\ last \in Outcomes
  BY <1>1, <1>2, <1>3, PatchSteps DEF PatchStage
<1>5. Alone(t0, call) = last
  BY <1>2, PatchSteps
<1> HIDE DEF last
<1> QED
  BY <1>4, <1>5, NothingToSay DEF Over

\* An operation is to be performed.
LEMMA AtOp ==
    ASSUME NEW call, CallOK(call), NEW t0, World(t0), NEW t, World(t), NEW w,
           Stage(call, t0, t, w), w.pc = "op", ~(w.op > Len(call.ops))
    PROVE  /\ call.tool = "apply_patch" /\ w.op \in 1..Len(call.ops)
           /\ w.op - 1 \in 0..Len(call.ops) /\ w.op \in 0..Len(call.ops)
           /\ OpInPlaces(call.ops[w.op]) /\ call.ops[w.op] \in PatchOps
           /\ Resolve(call.ops[w.op].path) \in Touches(call)
           /\ Resolve(TargetOf(call.ops[w.op])) \in Touches(call)
           /\ Performed(t0, call.ops)[w.op - 1].ok
           /\ Performed(t0, call.ops)[w.op - 1].tree \in [Places -> Nodes]
           /\ NowOf(call, t0, w.op) = Performed(t0, call.ops)[w.op - 1].tree
           /\ Performed(t0, call.ops)[w.op]
                 = Perform(Performed(t0, call.ops)[w.op - 1].tree, call.ops[w.op])
           /\ Agree(Touches(call), t, Performed(t0, call.ops)[w.op - 1].tree)
<1>1. PatchStage(call, t0, t, w)
  BY DEF Stage
<1>2. call.tool = "apply_patch" /\ w.op \in 1..(Len(call.ops) + 1) /\ Len(call.ops) \in Nat
  BY <1>1, PatchSteps DEF PatchStage
<1>3. w.op \in 1..Len(call.ops)
  BY <1>2
<1>4. w.op - 1 \in 0..Len(call.ops) /\ w.op \in 0..Len(call.ops)
  BY <1>2, <1>3
<1>5. OpInPlaces(call.ops[w.op]) /\ call.ops[w.op] \in PatchOps
  BY <1>3 DEF CallOK, OpInPlaces
<1>6. Resolve(call.ops[w.op].path) \in Touches(call)
      /\ Resolve(TargetOf(call.ops[w.op])) \in Touches(call)
  BY <1>2, <1>3 DEF CallOK
<1>7. Performed(t0, call.ops)[w.op - 1].ok
      /\ Agree(Touches(call), t, Performed(t0, call.ops)[w.op - 1].tree)
  BY <1>1 DEF PatchStage
<1>8. Performed(t0, call.ops)[w.op - 1] \in Outcomes
  BY <1>2, <1>4, PatchSteps
<1>9. Performed(t0, call.ops)[w.op]
         = Perform(Performed(t0, call.ops)[w.op - 1].tree, call.ops[w.op])
  BY <1>2, <1>3, <1>7, PatchSteps
<1>10. Performed(t0, call.ops)[w.op - 1].tree \in [Places -> Nodes]
  BY <1>8 DEF Outcomes
<1>11. NowOf(call, t0, w.op) = Performed(t0, call.ops)[w.op - 1].tree
  BY <1>2 DEF NowOf
<1> QED
  BY <1>2, <1>3, <1>4, <1>5, <1>6, <1>7, <1>9, <1>10, <1>11

\* An operation without a path ends the patch.
LEMMA BlankFails ==
    ASSUME NEW call, CallOK(call), NEW t0, World(t0), NEW t, World(t), NEW w,
           Stage(call, t0, t, w), w.pc = "op", ~(w.op > Len(call.ops)),
           IsBlankPath(call.ops[w.op].path)
    PROVE  Over(call, t0, t, NoResult)
<1> DEFINE now == Performed(t0, call.ops)[w.op - 1].tree
           op == call.ops[w.op]
<1>1. /\ call.tool = "apply_patch" /\ w.op \in 0..Len(call.ops) /\ Agree(Touches(call), t, now)
      /\ Performed(t0, call.ops)[w.op] = Perform(now, op)
  BY AtOp
<1>2. ~Perform(now, op).ok /\ Perform(now, op).tree = now
  BY DEF Perform, Outcome
<1> HIDE DEF now, op
<1>3. /\ ~Performed(t0, call.ops)[w.op].ok
      /\ Agree(Touches(call), t, Performed(t0, call.ops)[w.op].tree)
  BY <1>1, <1>2
<1> QED
  BY <1>1, <1>3, PatchFails

\* An added file is to be written.
LEMMA AddStep ==
    ASSUME NEW call, CallOK(call), NEW t0, World(t0), NEW t, World(t), NEW w, NEW w2,
           Stage(call, t0, t, w), w.pc = "op", ~(w.op > Len(call.ops)),
           ~IsBlankPath(call.ops[w.op].path), call.ops[w.op].kind = "add",
           w2.pc = "mkdir", w2.op = w.op, w2.target = call.ops[w.op].path,
           w2.text = TextOf(call.ops[w.op].body)
    PROVE  Stage(call, t0, t, w2)
<1> DEFINE now == Performed(t0, call.ops)[w.op - 1].tree
           op == call.ops[w.op]
           T == Touches(call)
<1>1. /\ call.tool = "apply_patch" /\ w.op \in 1..Len(call.ops) /\ Agree(T, t, now)
      /\ Performed(t0, call.ops)[w.op - 1].ok
      /\ Performed(t0, call.ops)[w.op] = Perform(now, op) /\ Resolve(op.path) \in T
      /\ op \in PatchOps /\ NowOf(call, t0, w.op) = now
  BY AtOp
<1>2. Perform(now, op) = Put(now, op.path, TextOf(op.body)) /\ ~IsMove(op)
  BY DEF Perform, IsMove
<1>3. WantOf(call, t0, w2) = Put(now, op.path, TextOf(op.body)) /\ NowOf(call, t0, w2.op) = now
  BY <1>1 DEF WantOf
<1>4. w2.text \in Texts
  <2>1. op.body \in Seq(STRING)
    BY <1>1, Zenon DEF PatchOps
  <2> QED
    BY <2>1, TextOfIsText
<1> HIDE DEF now, T
<1>5. Job(call, t0, w2)
  BY <1>1, <1>2, <1>3, <1>4 DEF Job, T
<1> QED
  BY <1>1, <1>3, <1>5 DEF Stage, WritingStage, T

\* A file is to be deleted, or what a move leaves behind.
LEMMA DeleteStep ==
    ASSUME NEW call, CallOK(call), NEW t0, World(t0), NEW t, World(t), NEW w, NEW w2,
           Stage(call, t0, t, w), w2.pc = "op", w2.op = w.op + 1,
           \/ /\ w.pc = "op" /\ ~(w.op > Len(call.ops))
              /\ ~IsBlankPath(call.ops[w.op].path) /\ call.ops[w.op].kind = "delete"
           \/ w.pc = "unlink"
    PROVE  LET p == Resolve(call.ops[w.op].path) IN
           /\ CanRemove(t, p) => Stage(call, t0, Unlinked(t, p), w2)
           /\ ~CanRemove(t, p) => Over(call, t0, t, NoResult)
<1> DEFINE op == call.ops[w.op]
           p == Resolve(op.path)
           T == Touches(call)
           at == Performed(t0, call.ops)
<1>1. PICK u \in [Places -> Nodes] :
         /\ Agree(T, t, u) /\ at[w.op] = Take(u, op.path)
         /\ call.tool = "apply_patch" /\ w.op \in 1..Len(call.ops)
  <2>1. CASE w.pc = "op"
    <3>1. Perform(at[w.op - 1].tree, op) = Take(at[w.op - 1].tree, op.path)
      BY <2>1 DEF Perform
    <3>2. /\ call.tool = "apply_patch" /\ w.op \in 1..Len(call.ops)
          /\ at[w.op - 1].tree \in [Places -> Nodes] /\ Agree(T, t, at[w.op - 1].tree)
          /\ at[w.op] = Perform(at[w.op - 1].tree, op)
      BY <2>1, AtOp
    <3> QED
      BY <3>1, <3>2
  <2>2. CASE w.pc = "unlink"
    <3> DEFINE want == WantOf(call, t0, w)
    <3>1. /\ Job(call, t0, w) /\ call.tool = "apply_patch" /\ IsMove(op)
          /\ want.ok /\ Agree(T, t, want.tree)
      BY <2>2 DEF Stage, WritingStage
    <3>2. w.op \in 1..Len(call.ops) /\ at[w.op] = Take(want.tree, op.path)
      BY <3>1 DEF Job
    <3>3. want.tree \in [Places -> Nodes]
      BY <3>1, NowTyped DEF Outcomes
    <3> QED
      BY <3>1, <3>2, <3>3
  <2> QED
    BY <2>1, <2>2
<1>2. T \in SUBSET Places /\ p \in T /\ t \in [Places -> Nodes] /\ w.op \in 0..Len(call.ops)
  BY <1>1, PatchSteps DEF CallOK, World
<1>3. /\ CanRemove(t, p) => at[w.op].ok /\ Agree(T, Unlinked(t, p), at[w.op].tree)
      /\ ~CanRemove(t, p) => ~at[w.op].ok /\ Agree(T, t, at[w.op].tree)
  BY <1>1, <1>2, TakeAgrees
<1>4. CanRemove(t, p) => Stage(call, t0, Unlinked(t, p), w2)
  BY <1>1, <1>3, OpDone
<1>5. ~CanRemove(t, p) => Over(call, t0, t, NoResult)
  BY <1>1, <1>2, <1>3, PatchFails
<1> QED
  BY <1>4, <1>5

\* An update reads the file it is to change.
LEMMA UpdateStep ==
    ASSUME NEW call, CallOK(call), NEW t0, World(t0), NEW t, World(t), NEW w,
           Stage(call, t0, t, w), w.pc = "op", ~(w.op > Len(call.ops)),
           ~IsBlankPath(call.ops[w.op].path), call.ops[w.op].kind \notin {"add", "delete"}
    PROVE  LET op == call.ops[w.op]
               p == Resolve(op.path)
               new == ApplyUnifiedPatch(t[p].text, op.hunks) IN
           /\ IsFile(t, p) /\ new.ok =>
                 \A w2 : /\ w2.pc = "mkdir" /\ w2.op = w.op
                         /\ w2.target = TargetOf(op) /\ w2.text = new.text
                         => Stage(call, t0, t, w2)
           /\ ~(IsFile(t, p) /\ new.ok) => Over(call, t0, t, NoResult)
<1> DEFINE op == call.ops[w.op]
           p == Resolve(op.path)
           new == ApplyUnifiedPatch(t[p].text, op.hunks)
           now == Performed(t0, call.ops)[w.op - 1].tree
           T == Touches(call)
           Change == IsFile(now, p) /\ Fits(now[p].text, op.hunks)
           text == Patched(now[p].text, op.hunks)
           put == Put(now, TargetOf(op), text)
<1>1. /\ call.tool = "apply_patch" /\ w.op \in 1..Len(call.ops) /\ w.op \in 0..Len(call.ops)
      /\ op \in PatchOps /\ p \in T /\ Resolve(TargetOf(op)) \in T
      /\ Performed(t0, call.ops)[w.op - 1].ok /\ now \in [Places -> Nodes]
      /\ NowOf(call, t0, w.op) = now
      /\ Performed(t0, call.ops)[w.op] = Perform(now, op) /\ Agree(T, t, now)
  BY AtOp
<1>2. T \in SUBSET Places /\ t \in [Places -> Nodes] /\ op.hunks \in Seq(Hunks)
  <2>1. op.hunks \in Seq(Hunks)
    BY <1>1, Zenon DEF PatchOps
  <2> QED
    BY <2>1 DEF CallOK, World
<1>3. IsMove(op) => Resolve(op.moveTo) # p
  BY <1>1 DEF CallOK
<1>4. /\ ~Change => ~Perform(now, op).ok /\ Perform(now, op).tree = now
      /\ Change => Perform(now, op) = IF put.ok /\ IsMove(op) THEN Take(put.tree, op.path) ELSE put
  <2>1. Perform(now, op) =
           IF ~IsFile(now, p) \/ ~Fits(now[p].text, op.hunks) THEN Outcome(FALSE, now, <<>>, {})
           ELSE IF put.ok /\ IsMove(op) /\ Resolve(op.moveTo) # p
                THEN Take(put.tree, op.path) ELSE put
    BY DEF Perform
  <2>2. ASSUME ~Change
        PROVE  ~Perform(now, op).ok /\ Perform(now, op).tree = now
    <3>1. Perform(now, op) = Outcome(FALSE, now, <<>>, {})
      BY <2>1, <2>2, Zenon
    <3> HIDE DEF now, op
    <3> QED
      BY <3>1 DEF Outcome
  <2>3. ASSUME Change
        PROVE  Perform(now, op) = IF put.ok /\ IsMove(op) THEN Take(put.tree, op.path) ELSE put
    <3>1. Perform(now, op) = IF put.ok /\ IsMove(op) /\ Resolve(op.moveTo) # p
                             THEN Take(put.tree, op.path) ELSE put
      BY <2>1, <2>3, Zenon
    <3> QED
      BY <1>3, <3>1, Zenon
  <2> HIDE DEF put, Change
  <2> QED
    BY <2>2, <2>3
<1>5. (IsFile(t, p) <=> IsFile(now, p)) /\ t[p].text = now[p].text
  BY <1>1, <1>2, AgreeSeen DEF SameNode
<1>6. ASSUME IsFile(t, p)
      PROVE  /\ new.ok <=> Change
             /\ Change => new.text = text /\ text \in Texts
  <2>1. t[p] \in Nodes /\ t[p].kind = "file"
    BY <1>1, <1>2, <1>6 DEF IsFile
  <2>2. t[p].text \in Seq(STRING)
    BY <2>1, NodesAreKinds DEF Texts
  <2>3. /\ new.ok <=> Fits(t[p].text, op.hunks)
        /\ Fits(t[p].text, op.hunks) => new.text = Patched(t[p].text, op.hunks)
    BY <1>2, <2>2, PatchesMeanWhatTheySay
  <2>4. new.ok => new.text \in Texts
    BY <1>2, <2>2, PatchMakesText
  <2> HIDE DEF new
  <2> QED
    BY <1>5, <1>6, <2>3, <2>4
<1> HIDE DEF new, text, now, T
<1>7. ASSUME IsFile(t, p), new.ok, NEW w2, w2.pc = "mkdir", w2.op = w.op,
             w2.target = TargetOf(op), w2.text = new.text
      PROVE  Stage(call, t0, t, w2)
  <2>1. Change /\ w2.text = text /\ text \in Texts
    BY <1>6, <1>7
  <2>2. WantOf(call, t0, w2) = put /\ NowOf(call, t0, w2.op) = now
    BY <1>1, <1>7, <2>1 DEF WantOf
  <2> HIDE DEF put, Change
  <2>3. Job(call, t0, w2)
    BY <1>1, <1>4, <1>7, <2>1, <2>2 DEF Job, T
  <2> QED
    BY <1>1, <1>7, <2>2, <2>3 DEF Stage, WritingStage, T
<1>8. ASSUME ~(IsFile(t, p) /\ new.ok)
      PROVE  Over(call, t0, t, NoResult)
  <2>1. ~Change
    BY <1>5, <1>6, <1>8
  <2> HIDE DEF Change
  <2>2. /\ ~Performed(t0, call.ops)[w.op].ok
        /\ Agree(Touches(call), t, Performed(t0, call.ops)[w.op].tree)
    BY <1>1, <1>4, <2>1 DEF T
  <2> QED
    BY <1>1, <2>2, PatchFails
<1> QED
  BY <1>7, <1>8 DEF new

\* A call that is not made as it should, and answers so.
LEMMA StartFails ==
    ASSUME NEW call, CallOK(call), NEW t0, World(t0), NEW t, NEW w,
           Stage(call, t0, t, w), w.pc = "start", NEW result, result.ok = FALSE,
           \/ call.tool = "broken"
           \/ call.tool = "apply_patch" /\ call.ops = <<>>
           \/ call.tool # "apply_patch" /\ LacksArgument(call)
    PROVE  Over(call, t0, t, result)
<1>1. Agree(Touches(call), t, t0)
  BY DEF Stage
<1>2. CASE call.tool = "apply_patch" /\ call.ops = <<>>
  <2>1. /\ Alone(t0, call) = Performed(t0, call.ops)[Len(call.ops)] /\ Len(call.ops) = 0
        /\ Performed(t0, call.ops)[0] = Outcome(call.ops # <<>>, t0, <<>>, {})
    BY <1>2, PatchSteps
  <2>2. Outcome(call.ops # <<>>, t0, <<>>, {}).ok = FALSE
        /\ Outcome(call.ops # <<>>, t0, <<>>, {}).tree = t0
    BY <1>2 DEF Outcome
  <2> QED
    BY <1>1, <2>1, <2>2 DEF Over
<1>3. CASE call.tool # "apply_patch" /\ (call.tool = "broken" \/ LacksArgument(call))
  <2>1. Alone(t0, call) = Outcome(FALSE, t0, <<>>, {})
    BY <1>3 DEF Alone
  <2>2. Outcome(FALSE, t0, <<>>, {}).ok = FALSE /\ Outcome(FALSE, t0, <<>>, {}).tree = t0
    BY DEF Outcome
  <2> QED
    BY <1>1, <2>1, <2>2 DEF Over
<1> QED
  BY <1>2, <1>3

\* A patch begins.
LEMMA StartPatch ==
    ASSUME NEW call, CallOK(call), NEW t0, World(t0), NEW t, NEW w, NEW w2,
           Stage(call, t0, t, w), w.pc = "start",
           call.tool = "apply_patch", call.ops # <<>>, w2.pc = "op", w2.op = w.op
    PROVE  Stage(call, t0, t, w2)
<1>1. Agree(Touches(call), t, t0) /\ w2.op = 1
  BY DEF Stage
<1>2. /\ Performed(t0, call.ops)[0] = Outcome(call.ops # <<>>, t0, <<>>, {})
      /\ Len(call.ops) \in Nat
  BY PatchSteps
<1>3. /\ Outcome(call.ops # <<>>, t0, <<>>, {}).ok
      /\ Outcome(call.ops # <<>>, t0, <<>>, {}).tree = t0
  BY DEF Outcome
<1>4. w2.op - 1 = 0 /\ w2.op \in 1..(Len(call.ops) + 1)
  BY <1>1, <1>2
<1> QED
  BY <1>1, <1>2, <1>3, <1>4 DEF Stage, PatchStage

\* A write begins.
LEMMA StartWrite ==
    ASSUME NEW call, CallOK(call), NEW t0, World(t0), NEW t, NEW w, NEW w2,
           Stage(call, t0, t, w), w.pc = "start",
           call.tool = "write", ~LacksArgument(call),
           w2.pc = IF HasParent(call.path) THEN "parent" ELSE "mkdir",
           w2.op = w.op, w2.target = call.path, w2.text = call.text
    PROVE  Stage(call, t0, t, w2)
<1>1. Agree(Touches(call), t, t0)
  BY DEF Stage
<1>2. Alone(t0, call) = Put(t0, call.path, call.text)
  BY DEF Alone
<1>3. NowOf(call, t0, w2.op) = t0 /\ WantOf(call, t0, w2) = Put(t0, call.path, call.text)
  BY DEF NowOf, WantOf
<1>4. Resolve(w2.target) \in Touches(call) /\ w2.text \in Texts
  BY DEF CallOK, Base
<1>5. Job(call, t0, w2)
  BY <1>2, <1>3, <1>4 DEF Job
<1>6. /\ w2.pc \in {"parent", "mkdir"}
      /\ w2.pc = "parent" => HasParent(call.path) /\ call.path # <<>>
  BY DEF LacksArgument, IsBlankPath
<1> QED
  BY <1>1, <1>3, <1>5, <1>6 DEF Stage, WritingStage

\* A read begins.
LEMMA StartRead ==
    ASSUME NEW call, CallOK(call), NEW t0, World(t0), NEW t, NEW w, NEW w2,
           Stage(call, t0, t, w), w.pc = "start",
           call.tool = "read", ~LacksArgument(call), w2.pc = "readdir"
    PROVE  Stage(call, t0, t, w2)
  BY DEF Stage, LookStage

\* The base of a call that walks is nothing it could find, unless it is a file.
LEMMA StartWalk ==
    ASSUME NEW call, CallOK(call), NEW t0, World(t0), NEW t, NEW w, NEW w2,
           Stage(call, t0, t, w), w.pc = "start",
           call.tool \in {"glob", "grep"}, ~LacksArgument(call),
           w2.pc = "walk", w2.found = w.found,
           w2.todo = {[place |-> Resolve(call.path), dir |-> TRUE]}
    PROVE  Stage(call, t0, t, w2)
<1> DEFINE b == Base(call)
           e == [place |-> b, dir |-> TRUE]
<1>1. Agree(Touches(call), t, t0) /\ w2.found = {}
  BY DEF Stage
<1>2. w2.todo = {e} /\ e.place = b /\ e.dir = TRUE
  BY DEF Base
<1>3. b \in Places
  BY DEF CallOK
<1>4. Exists(t0, b) => b \in Below(t0, b)
  BY <1>3, PlacesAssumption, PrefixOrder DEF Below
<1>5. call.tool = "glob" => Hits(call, t0, b) = {}
  BY DEF Hits
<1>6. \A q \in Below(t0, b) : IsPrefix(b, q)
  BY DEF Below
<1> HIDE DEF e
<1>7. WalkOK(call, t0, w2)
  <2>1. Exists(t0, b) =>
          /\ w2.found \subseteq UNION {Hits(call, t0, q) : q \in Below(t0, b)}
          /\ \A x \in w2.todo : /\ x.place \in Below(t0, b)
                                /\ x.dir = IsDir(t0, x.place) \/ x.place = b
                                /\ ~x.dir => ~IsDir(t0, x.place)
                                /\ call.tool = "glob" => Hits(call, t0, x.place) \subseteq w2.found
          /\ \A q \in Below(t0, b) : \/ Hits(call, t0, q) \subseteq w2.found
                                     \/ \E x \in w2.todo : IsPrefix(x.place, q)
    BY <1>1, <1>2, <1>4, <1>5, <1>6
  <2> QED
    BY <1>2, <2>1 DEF WalkOK, e
<1> QED
  BY <1>1, <1>7 DEF Stage, LookStage

\* A call that only looks sees below its path what there was at the start.
LEMMA SeenBelow ==
    ASSUME NEW call, CallOK(call), NEW t0, NEW t, NEW w, LookStage(call, t0, t, w),
           call.tool # "apply_patch", NEW q \in Places, IsPrefix(Base(call), q)
    PROVE  /\ Exists(t, q) <=> Exists(t0, q)
           /\ IsDir(t, q) <=> IsDir(t0, q)
           /\ IsFile(t, q) <=> IsFile(t0, q)
           /\ t[q].text = t0[q].text
           /\ Children(t, q) = Children(t0, q)
           /\ Hits(call, t, q) = Hits(call, t0, q)
<1> DEFINE b == Base(call)
<1>1. Touches(call) = {b} /\ b \in Places /\ Agree({b}, t, t0)
  BY DEF CallOK, LookStage
<1>2. \A r \in Places : IsPrefix(b, r) => SameNode(t[r], t0[r])
  BY <1>1 DEF Agree, Under
<1>3. ASSUME NEW c \in Places \ {Root}, Parent(c) = q
      PROVE  Exists(t, c) <=> Exists(t0, c)
  <2>1. IsPrefix(q, c)
    BY <1>3, PlacesAssumption, PrefixOfParent
  <2>2. IsPrefix(b, c)
    BY <1>1, <2>1, PlacesAssumption, PrefixOrder
  <2> QED
    BY <1>2, <2>2 DEF SameNode, Exists
<1>4. Children(t, q) = Children(t0, q)
  BY <1>3 DEF Children
<1>5. SameNode(t[q], t0[q])
  BY <1>2
<1>6. (IsFile(t, q) <=> IsFile(t0, q)) /\ t[q].text = t0[q].text
  BY <1>5 DEF SameNode, IsFile
<1>7. Hits(call, t, q) = Hits(call, t0, q)
  BY <1>6 DEF Hits
<1> QED
  BY <1>4, <1>5, <1>6, <1>7 DEF SameNode, IsDir, Exists

\* What a place holds is nothing, a directory or a file.
LEMMA ThreeKinds ==
    ASSUME NEW t \in [Places -> Nodes], NEW p \in Places
    PROVE  /\ ~Exists(t, p) <=> ~IsDir(t, p) /\ ~IsFile(t, p)
           /\ ~(IsDir(t, p) /\ IsFile(t, p))
<1>1. \A x \in Nodes : x.kind \in {"absent", "dir", "file"}
  BY DEF Nodes, Absent, Directory
<1> QED
  BY <1>1 DEF Exists, IsDir, IsFile

\* Nothing is in a file.
LEMMA FileIsEmpty ==
    ASSUME NEW t, World(t), NEW p \in Places, ~IsDir(t, p)
    PROVE  Children(t, p) = {} /\ \A q \in Below(t, p) : q = p
<1>1. ASSUME NEW q \in Below(t, p), q # p
      PROVE  FALSE
  <2>1. q \in Places /\ Exists(t, q) /\ IsStrictPrefix(p, q) /\ p \in Seq(STRING)
    BY <1>1, PlacesAssumption DEF Below, IsStrictPrefix
  <2> QED
    BY <2>1, ChildToward DEF World
<1>2. Children(t, p) = {}
  BY DEF Children, World, IsTree
<1> QED
  BY <1>1, <1>2

\* What read finds is a directory, or it goes on to read a file.
LEMMA ReadDirStep ==
    ASSUME NEW call, CallOK(call), NEW t0, World(t0), NEW t, World(t), NEW w,
           Stage(call, t0, t, w), w.pc = "readdir"
    PROVE  LET p == Resolve(call.path) IN
           /\ IsDir(t, p) => Over(call, t0, t, Answer(<<>>, Children(t, p)))
           /\ ~IsDir(t, p) => \A w2 : w2.pc = "readfile" => Stage(call, t0, t, w2)
<1> DEFINE b == Base(call)
<1>1. LookStage(call, t0, t, w) /\ call.tool = "read" /\ ~LacksArgument(call)
  BY DEF Stage, LookStage
<1>2. b \in Places /\ IsPrefix(b, b) /\ t0 \in [Places -> Nodes] /\ t \in [Places -> Nodes]
  BY <1>1, PlacesAssumption, PrefixOrder DEF CallOK, World
<1>3. (IsDir(t, b) <=> IsDir(t0, b)) /\ Children(t, b) = Children(t0, b)
  BY <1>1, <1>2, SeenBelow
<1>4. ASSUME IsDir(t, b)
      PROVE  Over(call, t0, t, Answer(<<>>, Children(t, b)))
  <2>1. Exists(t0, b) /\ ~IsFile(t0, b)
    BY <1>2, <1>3, <1>4, ThreeKinds
  <2>2. Alone(t0, call) = Outcome(Exists(t0, b), t0, <<>>, Children(t0, b))
    BY <1>1, <2>1 DEF Alone
  <2>3. /\ Alone(t0, call).ok = TRUE /\ Alone(t0, call).text = <<>>
        /\ Alone(t0, call).paths = Children(t0, b)
    BY <2>1, <2>2 DEF Outcome
  <2> QED
    BY <1>1, <1>3, <2>3 DEF Over, Answer, Changes
<1>5. ASSUME ~IsDir(t, b), NEW w2, w2.pc = "readfile"
      PROVE  Stage(call, t0, t, w2)
  BY <1>1, <1>3, <1>5 DEF Stage, LookStage
<1> QED
  BY <1>4, <1>5 DEF Base

\* read reads the file, if there is one.
LEMMA ReadFileStep ==
    ASSUME NEW call, CallOK(call), NEW t0, World(t0), NEW t, World(t), NEW w,
           Stage(call, t0, t, w), w.pc = "readfile"
    PROVE  LET p == Resolve(call.path) IN
           /\ IsFile(t, p) =>
                 Over(call, t0, t, Answer(Window(t[p].text, call.offset, call.limit), {}))
           /\ ~IsFile(t, p) => Over(call, t0, t, NoResult)
<1> DEFINE b == Base(call)
           seen == Window(t0[b].text, call.offset, call.limit)
<1>1. /\ LookStage(call, t0, t, w) /\ call.tool = "read" /\ ~LacksArgument(call)
      /\ ~IsDir(t0, b)
  BY DEF Stage, LookStage
<1>2. b \in Places /\ IsPrefix(b, b) /\ t0 \in [Places -> Nodes] /\ t \in [Places -> Nodes]
  BY <1>1, PlacesAssumption, PrefixOrder DEF CallOK, World
<1>3. (IsFile(t, b) <=> IsFile(t0, b)) /\ t[b].text = t0[b].text
  BY <1>1, <1>2, SeenBelow
<1>4. Children(t0, b) = {}
  BY <1>1, <1>2, FileIsEmpty
<1>5. Alone(t0, call) = Outcome(Exists(t0, b), t0, IF IsFile(t0, b) THEN seen ELSE <<>>, {})
  BY <1>1, <1>4 DEF Alone
<1>6. Exists(t0, b) <=> IsFile(t0, b)
  BY <1>1, <1>2, ThreeKinds
<1> HIDE DEF seen
<1>7. ASSUME IsFile(t, b)
      PROVE  Over(call, t0, t, Answer(seen, {}))
  <2>1. /\ Alone(t0, call).ok = TRUE /\ Alone(t0, call).text = seen
        /\ Alone(t0, call).paths = {}
    BY <1>3, <1>5, <1>6, <1>7 DEF Outcome
  <2> QED
    BY <1>1, <2>1 DEF Over, Answer, Changes
<1>8. ASSUME ~IsFile(t, b)
      PROVE  Over(call, t0, t, NoResult)
  <2>1. Alone(t0, call).ok = FALSE
    BY <1>3, <1>5, <1>6, <1>8 DEF Outcome
  <2> QED
    BY <1>1, <2>1 DEF Over, NoResult, Changes
<1> QED
  BY <1>3, <1>7, <1>8 DEF Base, seen

\* A walk is over: it found everything.
LEMMA WalkOver ==
    ASSUME NEW call, CallOK(call), NEW t0, World(t0), NEW t, NEW w,
           Stage(call, t0, t, w), w.pc = "walk", w.todo = {}
    PROVE  Over(call, t0, t, Answer(<<>>, w.found))
<1> DEFINE b == Base(call)
           all == UNION {Hits(call, t0, q) : q \in Below(t0, b)}
<1>1. call.tool \in {"glob", "grep"} /\ WalkOK(call, t0, w) /\ ~LacksArgument(call)
  BY DEF Stage, LookStage
<1>2. Exists(t0, b) /\ w.found \subseteq all
      /\ \A q \in Below(t0, b) : Hits(call, t0, q) \subseteq w.found
  BY <1>1 DEF WalkOK
<1>3. w.found = all
  BY <1>2
<1>4. Alone(t0, call) = Outcome(Exists(t0, b), t0, <<>>, all)
  BY <1>1 DEF Alone
<1> HIDE DEF all
<1>5. /\ Alone(t0, call).ok = TRUE /\ Alone(t0, call).text = <<>>
      /\ Alone(t0, call).paths = all
  BY <1>2, <1>4 DEF Outcome
<1> QED
  BY <1>1, <1>3, <1>5 DEF Over, Answer, Changes

\* What a walk has put down.
LEMMA PutDown ==
    ASSUME NEW call, CallOK(call), NEW t0, World(t0), NEW w, WalkOK(call, t0, w),
           NEW e \in w.todo, call.tool # "apply_patch"
    PROVE  /\ e.place \in Places /\ IsPrefix(Base(call), e.place)
           /\ Exists(t0, Base(call)) => e.place \in Below(t0, Base(call))
           /\ ~Exists(t0, Base(call)) => e.place = Base(call) /\ e.dir = TRUE
<1> DEFINE b == Base(call)
<1>1. b \in Places /\ IsPrefix(b, b)
  BY PlacesAssumption, PrefixOrder DEF CallOK
<1>2. CASE Exists(t0, b)
  BY <1>2 DEF WalkOK, Below
<1>3. CASE ~Exists(t0, b)
  <2>1. e = [place |-> b, dir |-> TRUE]
    BY <1>3 DEF WalkOK
  <2> QED
    BY <1>1, <1>3, <2>1
<1> QED
  BY <1>2, <1>3

\* A directory is listed.
LEMMA WalkDir ==
    ASSUME NEW call, CallOK(call), NEW t0, World(t0), NEW w, WalkOK(call, t0, w),
           NEW e \in w.todo, call.tool \in {"glob", "grep"}, IsDir(t0, e.place),
           NEW later,
           later = IF call.tool = "grep" THEN Children(t0, e.place)
                   ELSE {c \in Children(t0, e.place) : IsDir(t0, c)},
           NEW w2,
           w2.todo = (w.todo \ {e}) \cup {[place |-> c, dir |-> IsDir(t0, c)] : c \in later},
           w2.found = w.found \cup
               (IF call.tool = "grep" THEN {}
                ELSE UNION {Hits(call, t0, c) : c \in Children(t0, e.place)})
    PROVE  WalkOK(call, t0, w2)
<1> DEFINE b == Base(call)
           d == e.place
           children == Children(t0, d)
           Entry(c) == [place |-> c, dir |-> IsDir(t0, c)]
           H(q) == Hits(call, t0, q)
<1>1. d \in Places /\ IsPrefix(b, d) /\ b \in Places
  BY PutDown DEF CallOK
<1>2. Exists(t0, b)
  <2>1. Exists(t0, d)
    BY DEF IsDir, Exists
  <2> QED
    BY <2>1, PutDown
<1>3. d \in Below(t0, b)
  BY <1>2, PutDown
<1>4. \A c \in children : /\ c \in Below(t0, b) /\ IsPrefix(d, c)
  <2> SUFFICES ASSUME NEW c \in children
               PROVE  c \in Below(t0, b) /\ IsPrefix(d, c)
    OBVIOUS
  <2>1. c \in Places \ {Root} /\ Parent(c) = d /\ Exists(t0, c)
    BY DEF Children
  <2>2. IsPrefix(d, c)
    BY <2>1, PlacesAssumption, PrefixOfParent
  <2>3. IsPrefix(b, c)
    BY <1>1, <2>1, <2>2, PlacesAssumption, PrefixOrder
  <2> QED
    BY <2>1, <2>2, <2>3 DEF Below
<1>5. /\ later \subseteq children
      /\ w2.found = w.found \cup (IF call.tool = "grep" THEN {} ELSE UNION {H(c) : c \in children})
      /\ w2.todo = (w.todo \ {e}) \cup {Entry(c) : c \in later}
      /\ \A c : Entry(c).place = c /\ Entry(c).dir = IsDir(t0, c)
  OBVIOUS
<1>6. /\ w.found \subseteq UNION {H(q) : q \in Below(t0, b)}
      /\ \A x \in w.todo : /\ x.place \in Below(t0, b)
                           /\ x.dir = IsDir(t0, x.place) \/ x.place = b
                           /\ ~x.dir => ~IsDir(t0, x.place)
                           /\ call.tool = "glob" => H(x.place) \subseteq w.found
      /\ \A q \in Below(t0, b) : \/ H(q) \subseteq w.found
                                 \/ \E x \in w.todo : IsPrefix(x.place, q)
  BY <1>2 DEF WalkOK
<1>7. call.tool = "grep" => H(d) = {}
  <2>1. ~IsFile(t0, d)
    BY DEF IsDir, IsFile
  <2> QED
    BY <2>1 DEF Hits
<1> HIDE DEF H, Entry, children
<1>8. w2.found \subseteq UNION {H(q) : q \in Below(t0, b)}
  BY <1>4, <1>5, <1>6
<1>9. ASSUME NEW x \in w2.todo
      PROVE  /\ x.place \in Below(t0, b)
             /\ x.dir = IsDir(t0, x.place) \/ x.place = b
             /\ ~x.dir => ~IsDir(t0, x.place)
             /\ call.tool = "glob" => H(x.place) \subseteq w2.found
  <2>1. CASE x \in w.todo
    BY <1>5, <1>6, <2>1
  <2>2. CASE x \notin w.todo
    <3>1. PICK c \in later : x = Entry(c)
      BY <1>5, <1>9, <2>2
    <3>2. x.place = c /\ x.dir = IsDir(t0, c) /\ c \in children
      BY <1>5, <3>1
    <3>3. call.tool = "glob" => H(c) \subseteq w2.found
      BY <1>5, <3>2
    <3> QED
      BY <1>4, <3>2, <3>3
  <2> QED
    BY <2>1, <2>2
<1>10. ASSUME NEW q \in Below(t0, b)
       PROVE  \/ H(q) \subseteq w2.found
              \/ \E x \in w2.todo : IsPrefix(x.place, q)
  <2>1. CASE H(q) \subseteq w.found
    BY <1>5, <2>1
  <2>2. CASE \E x \in w.todo \ {e} : IsPrefix(x.place, q)
    BY <1>5, <2>2
  <2>3. CASE IsPrefix(d, q)
    <3>1. CASE q = d
      <4>1. CASE call.tool = "grep"
        BY <1>7, <3>1, <4>1
      <4>2. CASE call.tool = "glob"
        BY <1>5, <1>6, <3>1, <4>2
      <4> QED
        BY <4>1, <4>2
    <3>2. CASE q # d
      <4>1. q \in Places /\ Exists(t0, q) /\ IsStrictPrefix(d, q) /\ d \in Seq(STRING)
        BY <1>1, <2>3, <3>2, PlacesAssumption DEF Below, IsStrictPrefix
      <4>2. PICK c \in Places \ {Root} : Parent(c) = d /\ IsPrefix(c, q) /\ Exists(t0, c)
        BY <4>1, ChildToward DEF World
      <4>3. c \in children
        BY <4>2 DEF Children, children
      <4>4. CASE c \in later
        <5>1. Entry(c) \in w2.todo /\ Entry(c).place = c
          BY <1>5, <4>4
        <5> QED
          BY <4>2, <5>1
      <4>5. CASE c \notin later
        <5>1. call.tool # "grep" /\ ~IsDir(t0, c)
          BY <4>3, <4>5 DEF children
        <5>2. q = c
          BY <4>1, <4>2, <5>1, FileIsEmpty DEF Below
        <5> QED
          BY <1>5, <4>3, <5>1, <5>2
      <4> QED
        BY <4>4, <4>5
    <3> QED
      BY <3>1, <3>2
  <2> QED
    BY <1>6, <2>1, <2>2, <2>3
<1> QED
  BY <1>2, <1>8, <1>9, <1>10 DEF WalkOK, H

\* A file is visited.
LEMMA WalkFile ==
    ASSUME NEW call, CallOK(call), NEW t0, World(t0), NEW w, WalkOK(call, t0, w),
           NEW e \in w.todo, call.tool \in {"glob", "grep"}, IsFile(t0, e.place),
           NEW w2, w2.todo = w.todo \ {e}, w2.found = w.found \cup Hits(call, t0, e.place)
    PROVE  WalkOK(call, t0, w2)
<1> DEFINE b == Base(call)
           d == e.place
           H(q) == Hits(call, t0, q)
<1>1. d \in Places /\ IsPrefix(b, d) /\ b \in Places /\ ~IsDir(t0, d)
  BY PutDown DEF CallOK, IsFile, IsDir
<1>2. Exists(t0, b)
  <2>1. Exists(t0, d)
    BY DEF IsFile, Exists
  <2> QED
    BY <2>1, PutDown
<1>3. d \in Below(t0, b)
  BY <1>2, PutDown
<1>4. /\ w.found \subseteq UNION {H(q) : q \in Below(t0, b)}
      /\ \A x \in w.todo : /\ x.place \in Below(t0, b)
                           /\ x.dir = IsDir(t0, x.place) \/ x.place = b
                           /\ ~x.dir => ~IsDir(t0, x.place)
                           /\ call.tool = "glob" => H(x.place) \subseteq w.found
      /\ \A q \in Below(t0, b) : \/ H(q) \subseteq w.found
                                 \/ \E x \in w.todo : IsPrefix(x.place, q)
  BY <1>2 DEF WalkOK
<1>5. w2.found = w.found \cup H(d)
  OBVIOUS
<1>6. \A q \in Below(t0, b) : IsPrefix(d, q) => q = d
  BY <1>1, FileIsEmpty DEF Below
<1> HIDE DEF H
<1>7. w2.found \subseteq UNION {H(q) : q \in Below(t0, b)}
  BY <1>3, <1>4, <1>5
<1>8. \A x \in w2.todo : /\ x.place \in Below(t0, b)
                         /\ x.dir = IsDir(t0, x.place) \/ x.place = b
                         /\ ~x.dir => ~IsDir(t0, x.place)
                         /\ call.tool = "glob" => H(x.place) \subseteq w2.found
  BY <1>4, <1>5
<1>9. ASSUME NEW q \in Below(t0, b)
      PROVE  \/ H(q) \subseteq w2.found
             \/ \E x \in w2.todo : IsPrefix(x.place, q)
  <2>1. CASE IsPrefix(d, q)
    BY <1>5, <1>6, <2>1
  <2>2. CASE ~IsPrefix(d, q)
    BY <1>4, <1>5, <2>2
  <2> QED
    BY <2>1, <2>2
<1> QED
  BY <1>2, <1>7, <1>8, <1>9 DEF WalkOK, H

\* A walk whose base is not there ends there.
LEMMA WalkFails ==
    ASSUME NEW call, CallOK(call), NEW t0, World(t0), NEW t, NEW w,
           Stage(call, t0, t, w), w.pc = "walk", NEW e \in w.todo, ~Exists(t0, e.place)
    PROVE  Over(call, t0, t, NoResult)
<1> DEFINE b == Base(call)
           all == UNION {Hits(call, t0, q) : q \in Below(t0, b)}
<1>1. call.tool \in {"glob", "grep"} /\ WalkOK(call, t0, w) /\ ~LacksArgument(call)
  BY DEF Stage, LookStage
<1>2. ~Exists(t0, b)
  BY <1>1, PutDown DEF Below
<1>3. Alone(t0, call) = Outcome(Exists(t0, b), t0, <<>>, all)
  BY <1>1 DEF Alone
<1> HIDE DEF all
<1>4. Alone(t0, call).ok = FALSE
  BY <1>2, <1>3 DEF Outcome
<1> QED
  BY <1>1, <1>4 DEF Over, NoResult, Changes

\* How the work of a call changes.
LEMMA Moves ==
    ASSUME WorkOK, NEW i \in Calls
    PROVE  /\ \A p : Goto(i, p) =>
                 /\ work'[i].pc = p /\ work'[i].op = work[i].op
                 /\ work'[i].text = work[i].text /\ work'[i].target = work[i].target
                 /\ work'[i].todo = work[i].todo /\ work'[i].found = work[i].found
                 /\ work'[i].result = work[i].result
           /\ \A r : Finish(i, r) => work'[i].pc = "done" /\ work'[i].result = r
           /\ Fail(i) => work'[i].pc = "done" /\ work'[i].result = NoResult
           /\ NextOp(i) => work'[i].pc = "op" /\ work'[i].op = work[i].op + 1
<1>1. ASSUME NEW p, Goto(i, p)
      PROVE  /\ work'[i].pc = p /\ work'[i].op = work[i].op
             /\ work'[i].text = work[i].text /\ work'[i].target = work[i].target
             /\ work'[i].todo = work[i].todo /\ work'[i].found = work[i].found
             /\ work'[i].result = work[i].result
  BY <1>1 DEF Goto, WorkOK
<1>2. ASSUME NEW r, Finish(i, r)
      PROVE  work'[i].pc = "done" /\ work'[i].result = r
  BY <1>2 DEF Finish, WorkOK
<1>3. NextOp(i) => work'[i].pc = "op" /\ work'[i].op = work[i].op + 1
  BY DEF NextOp, WorkOK
<1> QED
  BY <1>1, <1>2, <1>3 DEF Fail

\* What has come of a call, as far as it is gone.
SimOf(i, t) == Stage(calls[i], tree0, t, work[i])
Step(i) == Stage(calls[i], tree0, tree', work'[i])

\* What a step of a call goes by.
Ready(i) ==
    /\ FilesInv /\ WorkOK /\ i \in Calls /\ Undisturbed(i) /\ CanBuild(calls[i])
    /\ World(tree0) /\ SimOf(i, tree)

\* What follows for the lemmas above.
LEMMA ReadyIs ==
    ASSUME NEW i \in Calls, Ready(i)
    PROVE  /\ CallOK(calls[i]) /\ World(tree0) /\ World(tree)
           /\ Stage(calls[i], tree0, tree, work[i])
           /\ WorkOK /\ WorkInv(i) /\ calls[i].tool \in FileTool \cup {"broken"}
  BY CallIsOK DEF Ready, SimOf, World, FilesInv, TreeOK, CanBuild

\* A call that ends as it should.
LEMMA EndsWell ==
    ASSUME NEW i \in Calls, Ready(i), NEW r,
           Finish(i, r) \/ (Fail(i) /\ r = NoResult), Over(calls[i], tree0, tree', r)
    PROVE  Step(i)
  BY ReadyIs, Moves DEF Step, Stage

\* The call begins.
LEMMA StartCallSim ==
    ASSUME NEW i \in Calls, Ready(i), StartCall(i)
    PROVE  Step(i)
<1> DEFINE call == calls[i]
           first == IF HasParent(call.path) THEN "parent" ELSE "mkdir"
           root == {[place |-> Resolve(call.path), dir |-> TRUE]}
           broken == [NoResult EXCEPT !.err = TRUE]
<1>1. /\ CallOK(call) /\ World(tree0) /\ World(tree) /\ Stage(call, tree0, tree, work[i])
      /\ WorkOK /\ call.tool \in FileTool \cup {"broken"} /\ work[i].pc = "start"
      /\ tree' = tree
  BY ReadyIs DEF StartCall, Untouched
<1>2. CASE call.tool = "broken"
  <2>1. Finish(i, broken)
    BY <1>2 DEF StartCall
  <2>2. broken.ok = FALSE
    BY DEF NoResult
  <2> QED
    BY <1>1, <1>2, <2>1, <2>2, StartFails, EndsWell
<1>3. CASE call.tool = "apply_patch"
  <2>1. CASE call.ops = <<>>
    <3>1. Fail(i) /\ NoResult.ok = FALSE
      BY <1>3, <2>1 DEF StartCall, NoResult
    <3> QED
      BY <1>1, <1>3, <2>1, <3>1, StartFails, EndsWell
  <2>2. CASE call.ops # <<>>
    <3>1. Goto(i, "op")
      BY <1>3, <2>2 DEF StartCall
    <3>2. work'[i].pc = "op" /\ work'[i].op = work[i].op
      BY <1>1, <3>1, Moves
    <3> QED
      BY <1>1, <1>3, <2>2, <3>2, StartPatch DEF Step
  <2> QED
    BY <2>1, <2>2
<1>4. CASE call.tool \notin {"broken", "apply_patch"} /\ LacksArgument(call)
  <2>1. Fail(i) /\ NoResult.ok = FALSE
    BY <1>4 DEF StartCall, NoResult
  <2> QED
    BY <1>1, <1>4, <2>1, StartFails, EndsWell
<1>5. CASE call.tool = "write" /\ ~LacksArgument(call)
  <2>1. work' = [work EXCEPT ![i].pc = first, ![i].target = call.path, ![i].text = call.text]
    BY <1>5, Zenon DEF StartCall
  <2>2. /\ work'[i].pc = first /\ work'[i].op = work[i].op
        /\ work'[i].target = call.path /\ work'[i].text = call.text
    <3> HIDE DEF first, call
    <3> QED
      BY <1>1, <2>1 DEF WorkOK
  <2> QED
    BY <1>1, <1>5, <2>2, StartWrite DEF Step
<1>6. CASE call.tool = "read" /\ ~LacksArgument(call)
  <2>1. Goto(i, "readdir")
    BY <1>6 DEF StartCall
  <2>2. work'[i].pc = "readdir"
    BY <1>1, <2>1, Moves
  <2> QED
    BY <1>1, <1>6, <2>2, StartRead DEF Step
<1>7. CASE call.tool \in {"glob", "grep"} /\ ~LacksArgument(call)
  <2>1. work' = [work EXCEPT ![i].pc = "walk", ![i].todo = root]
    BY <1>7 DEF StartCall
  <2>2. work'[i].pc = "walk" /\ work'[i].todo = root /\ work'[i].found = work[i].found
    <3> HIDE DEF root
    <3> QED
      BY <1>1, <2>1 DEF WorkOK
  <2> QED
    BY <1>1, <1>7, <2>2, StartWalk DEF Step
<1> QED
  BY <1>1, <1>2, <1>3, <1>4, <1>5, <1>6, <1>7 DEF FileTool

\* MkdirAll, once or twice.
LEMMA MakeDirsSim ==
    ASSUME NEW i \in Calls, Ready(i), MakeDirs(i)
    PROVE  Step(i)
<1> DEFINE p == Resolve(work[i].target)
<1>1. /\ CallOK(calls[i]) /\ World(tree0) /\ World(tree)
      /\ Stage(calls[i], tree0, tree, work[i])
      /\ WorkOK /\ work[i].pc \in {"parent", "mkdir"}
  BY ReadyIs DEF MakeDirs
<1>2. DirsOf(i) = Above(p)
  <2>1. CASE work[i].pc = "parent"
    <3> DEFINE d == Resolve(Front(work[i].target))
    <3>1. Above(d) \cup {d} = Above(p)
      BY <1>1, <2>1, ParentStep
    <3> QED
      BY <2>1, <3>1 DEF DirsOf
  <2>2. CASE work[i].pc = "mkdir"
    BY <2>2 DEF DirsOf
  <2> QED
    BY <1>1, <2>1, <2>2
<1>3. CASE CanMkdirAll(tree, Above(p))
  <2>1. /\ tree' = MkdirAll(tree, Above(p))
        /\ Goto(i, IF work[i].pc = "parent" THEN "mkdir" ELSE "open")
    BY <1>2, <1>3 DEF MakeDirs
  <2>2. /\ work'[i].pc = IF work[i].pc = "parent" THEN "mkdir" ELSE "open"
        /\ work'[i].op = work[i].op /\ work'[i].text = work[i].text
        /\ work'[i].target = work[i].target
    BY <1>1, <2>1, Moves
  <2>3. CASE work[i].pc = "parent"
    BY <1>1, <1>3, <2>1, <2>2, <2>3, ParentStep DEF Step
  <2>4. CASE work[i].pc = "mkdir"
    BY <1>1, <1>3, <2>1, <2>2, <2>4, MkdirStep DEF Step
  <2> QED
    BY <1>1, <2>3, <2>4
<1>4. CASE ~CanMkdirAll(tree, Above(p))
  <2>1. Fail(i) /\ tree' = tree
    BY <1>2, <1>4 DEF MakeDirs
  <2>2. Over(calls[i], tree0, tree, NoResult)
    BY <1>1, <1>4, MkdirFails
  <2> QED
    BY <2>1, <2>2, EndsWell
<1> QED
  BY <1>3, <1>4

\* The file is opened.
LEMMA OpenFileSim ==
    ASSUME NEW i \in Calls, Ready(i), OpenFile(i)
    PROVE  Step(i)
<1> DEFINE p == Resolve(work[i].target)
<1>1. /\ CallOK(calls[i]) /\ World(tree0) /\ World(tree)
      /\ Stage(calls[i], tree0, tree, work[i])
      /\ WorkOK /\ work[i].pc = "open"
  BY ReadyIs DEF OpenFile
<1>2. CASE CanOpen(tree, p)
  <2>1. /\ tree' = Open(tree, p, inodes + 1)
        /\ work' = [work EXCEPT ![i].pc = "data", ![i].ino = tree'[p].ino]
    BY <1>2 DEF OpenFile
  <2>2. /\ work'[i].pc = "data" /\ work'[i].op = work[i].op /\ work'[i].text = work[i].text
        /\ work'[i].target = work[i].target /\ work'[i].ino = tree'[p].ino
    BY <1>1, <2>1 DEF WorkOK
  <2> DEFINE n == inodes + 1
  <2>3. tree' = Open(tree, p, n) /\ work'[i].ino = Open(tree, p, n)[p].ino
    BY <2>1, <2>2
  <2> HIDE DEF n
  <2> QED
    BY <1>1, <1>2, <2>2, <2>3, OpenStep DEF Step
<1>3. CASE ~CanOpen(tree, p)
  <2>1. Fail(i) /\ tree' = tree
    BY <1>3 DEF OpenFile, Untouched
  <2>2. Over(calls[i], tree0, tree, NoResult)
    BY <1>1, <1>3, OpenFails
  <2> QED
    BY <2>1, <2>2, EndsWell
<1> QED
  BY <1>2, <1>3

\* The text is written.
LEMMA WriteFileSim ==
    ASSUME NEW i \in Calls, Ready(i), WriteFile(i)
    PROVE  Step(i)
<1> DEFINE t2 == WriteData(tree, Resolve(work[i].target), work[i].ino, work[i].text)
<1>1. /\ CallOK(calls[i]) /\ World(tree0) /\ World(tree)
      /\ Stage(calls[i], tree0, tree, work[i])
      /\ WorkOK /\ work[i].pc = "data" /\ tree' = t2
  BY ReadyIs DEF WriteFile
<1> HIDE DEF t2
<1>2. CASE calls[i].tool = "write"
  <2>1. Finish(i, Answer(<<>>, {}))
    BY <1>2 DEF WriteFile
  <2>2. Over(calls[i], tree0, tree', Answer(<<>>, {}))
    BY <1>1, <1>2, WriteOver DEF t2
  <2> QED
    BY <2>1, <2>2, EndsWell
<1>3. CASE calls[i].tool # "write"
  <2>1. CASE IsMove(Op(i))
    <3>1. Goto(i, "unlink")
      BY <1>3, <2>1 DEF WriteFile
    <3>2. /\ work'[i].pc = "unlink" /\ work'[i].op = work[i].op
          /\ work'[i].text = work[i].text /\ work'[i].target = work[i].target
      BY <1>1, <3>1, Moves
    <3> QED
      BY <1>1, <1>3, <2>1, <3>2, DataStep DEF Step, Op, t2
  <2>2. CASE ~IsMove(Op(i))
    <3>1. NextOp(i)
      BY <1>3, <2>2 DEF WriteFile
    <3>2. work'[i].pc = "op" /\ work'[i].op = work[i].op + 1
      BY <1>1, <3>1, Moves
    <3> QED
      BY <1>1, <1>3, <2>2, <3>2, DataStep DEF Step, Op, t2
  <2> QED
    BY <2>1, <2>2
<1> QED
  BY <1>2, <1>3

\* A file is taken away, as an operation or as the end of a move.
LEMMA RemoveFileSim ==
    ASSUME NEW i \in Calls, Ready(i), RemoveFile(i, Op(i).path),
           \/ /\ work[i].pc = "op" /\ ~(work[i].op > Len(calls[i].ops))
              /\ ~IsBlankPath(Op(i).path) /\ Op(i).kind = "delete"
           \/ work[i].pc = "unlink"
    PROVE  Step(i)
<1> DEFINE p == Resolve(Op(i).path)
           w2 == [pc |-> "op", op |-> work[i].op + 1]
<1>1. /\ CallOK(calls[i]) /\ World(tree0) /\ World(tree)
      /\ Stage(calls[i], tree0, tree, work[i]) /\ WorkOK
  BY ReadyIs
<1>2. CASE CanRemove(tree, p)
  <2>1. tree' = Unlinked(tree, p) /\ NextOp(i)
    BY <1>2 DEF RemoveFile
  <2>2. work'[i].pc = "op" /\ work'[i].op = work[i].op + 1
    BY <1>1, <2>1, Moves
  <2> QED
    BY <1>1, <1>2, <2>1, <2>2, DeleteStep DEF Step, Op
<1>3. CASE ~CanRemove(tree, p)
  <2>1. Fail(i) /\ tree' = tree
    BY <1>3 DEF RemoveFile
  <2>2. w2.pc = "op" /\ w2.op = work[i].op + 1
    OBVIOUS
  <2> HIDE DEF w2
  <2>3. Over(calls[i], tree0, tree, NoResult)
    BY <1>1, <1>3, <2>2, DeleteStep DEF Op
  <2> QED
    BY <2>1, <2>3, EndsWell
<1> QED
  BY <1>2, <1>3

\* The end of a move.
LEMMA UnlinkSim ==
    ASSUME NEW i \in Calls, Ready(i), Unlink(i)
    PROVE  Step(i)
BY RemoveFileSim DEF Unlink

\* The next operation of a patch, or its end.
LEMMA PatchOperationSim ==
    ASSUME NEW i \in Calls, Ready(i), PatchOperation(i)
    PROVE  Step(i)
<1>1. /\ CallOK(calls[i]) /\ World(tree0) /\ World(tree)
      /\ Stage(calls[i], tree0, tree, work[i]) /\ WorkOK /\ work[i].pc = "op"
  BY ReadyIs DEF PatchOperation
<1>2. CASE work[i].op > Len(calls[i].ops)
  <2>1. Finish(i, Answer(<<>>, {})) /\ tree' = tree
    BY <1>2 DEF PatchOperation
  <2>2. Over(calls[i], tree0, tree, Answer(<<>>, {}))
    BY <1>1, <1>2, PatchOver
  <2> QED
    BY <2>1, <2>2, EndsWell
<1>3. CASE ~(work[i].op > Len(calls[i].ops)) /\ IsBlankPath(Op(i).path)
  <2>1. Fail(i) /\ tree' = tree
    BY <1>3 DEF PatchOperation
  <2>2. Over(calls[i], tree0, tree, NoResult)
    BY <1>1, <1>3, BlankFails DEF Op
  <2> QED
    BY <2>1, <2>2, EndsWell
<1>4. CASE ~(work[i].op > Len(calls[i].ops)) /\ ~IsBlankPath(Op(i).path)
  <2>1. CASE Op(i).kind = "add"
    <3> DEFINE to == Op(i).path
               text == TextOf(Op(i).body)
    <3>1. /\ work' = [work EXCEPT ![i].pc = "mkdir", ![i].target = to, ![i].text = text]
          /\ tree' = tree
      BY <1>4, <2>1 DEF PatchOperation
    <3> HIDE DEF to, text
    <3>2. /\ work'[i].pc = "mkdir" /\ work'[i].op = work[i].op
          /\ work'[i].target = to /\ work'[i].text = text
      BY <1>1, <3>1 DEF WorkOK
    <3> QED
      BY <1>1, <1>4, <2>1, <3>1, <3>2, AddStep DEF Step, Op, to, text
  <2>2. CASE Op(i).kind = "delete"
    <3>1. RemoveFile(i, Op(i).path)
      BY <1>4, <2>2 DEF PatchOperation
    <3> QED
      BY <1>1, <1>4, <2>2, <3>1, RemoveFileSim
  <2>3. CASE Op(i).kind \notin {"add", "delete"}
    <3> DEFINE p == Resolve(Op(i).path)
               new == ApplyUnifiedPatch(tree[p].text, Op(i).hunks)
               to == TargetOf(Op(i))
    <3>1. /\ IF IsFile(tree, p) /\ new.ok
             THEN work' = [work EXCEPT ![i].pc = "mkdir", ![i].text = new.text,
                                       ![i].target = to]
             ELSE Fail(i)
          /\ tree' = tree
      <4>1. ReadForUpdate(i)
        BY <1>4, <2>3, Zenon DEF PatchOperation
      <4> QED
        BY <4>1, Zenon DEF ReadForUpdate
    <3>2. /\ IsFile(tree, p) /\ new.ok =>
                \A w2 : /\ w2.pc = "mkdir" /\ w2.op = work[i].op
                        /\ w2.target = to /\ w2.text = new.text
                        => Stage(calls[i], tree0, tree, w2)
          /\ ~(IsFile(tree, p) /\ new.ok) => Over(calls[i], tree0, tree, NoResult)
      BY <1>1, <1>4, <2>3, UpdateStep, Zenon DEF Op
    <3> HIDE DEF p, new, to
    <3>3. CASE IsFile(tree, p) /\ new.ok
      <4>1. work' = [work EXCEPT ![i].pc = "mkdir", ![i].text = new.text, ![i].target = to]
        BY <3>1, <3>3, Zenon
      <4>2. /\ work'[i].pc = "mkdir" /\ work'[i].op = work[i].op
            /\ work'[i].target = to /\ work'[i].text = new.text
        BY <1>1, <4>1 DEF WorkOK
      <4> QED
        BY <3>1, <3>2, <3>3, <4>2, Zenon DEF Step
    <3>4. CASE ~(IsFile(tree, p) /\ new.ok)
      BY <3>1, <3>2, <3>4, EndsWell, Zenon
    <3> QED
      BY <3>3, <3>4
  <2> QED
    BY <2>1, <2>2, <2>3
<1> QED
  BY <1>2, <1>3, <1>4

\* read looks for a directory, ...
LEMMA ReadDirSim ==
    ASSUME NEW i \in Calls, Ready(i), ReadDir(i)
    PROVE  Step(i)
<1> DEFINE p == Resolve(calls[i].path)
<1>1. /\ CallOK(calls[i]) /\ World(tree0) /\ World(tree)
      /\ Stage(calls[i], tree0, tree, work[i])
      /\ WorkOK /\ work[i].pc = "readdir" /\ tree' = tree
  BY ReadyIs DEF ReadDir, Untouched
<1>2. /\ IsDir(tree, p) => Over(calls[i], tree0, tree, Answer(<<>>, Children(tree, p)))
      /\ ~IsDir(tree, p) => \A w2 : w2.pc = "readfile" => Stage(calls[i], tree0, tree, w2)
  BY <1>1, ReadDirStep, Zenon
<1>3. CASE IsDir(tree, p)
  <2>1. Finish(i, Answer(<<>>, Children(tree, p)))
    BY <1>3 DEF ReadDir
  <2> QED
    BY <1>1, <1>2, <1>3, <2>1, EndsWell
<1>4. CASE ~IsDir(tree, p)
  <2>1. Goto(i, "readfile")
    BY <1>4 DEF ReadDir
  <2>2. work'[i].pc = "readfile"
    BY <1>1, <2>1, Moves
  <2> QED
    BY <1>1, <1>2, <1>4, <2>2, Zenon DEF Step
<1> QED
  BY <1>3, <1>4

\* ... and for a file.
LEMMA ReadFileSim ==
    ASSUME NEW i \in Calls, Ready(i), ReadFile(i)
    PROVE  Step(i)
<1> DEFINE p == Resolve(calls[i].path)
           r == Answer(Window(tree[p].text, calls[i].offset, calls[i].limit), {})
<1>1. /\ CallOK(calls[i]) /\ World(tree0) /\ World(tree)
      /\ Stage(calls[i], tree0, tree, work[i])
      /\ WorkOK /\ work[i].pc = "readfile" /\ tree' = tree
  BY ReadyIs DEF ReadFile, Untouched
<1>2. /\ IsFile(tree, p) => Over(calls[i], tree0, tree, r)
      /\ ~IsFile(tree, p) => Over(calls[i], tree0, tree, NoResult)
  BY <1>1, ReadFileStep, Zenon
<1>3. IF IsFile(tree, p) THEN Finish(i, r) ELSE Fail(i)
  BY DEF ReadFile
<1> HIDE DEF r
<1> QED
  BY <1>1, <1>2, <1>3, EndsWell

\* A walk goes on.
LEMMA WalkOn ==
    ASSUME NEW i \in Calls, Ready(i), work[i].pc = "walk", tree' = tree,
           NEW todo, NEW found,
           work' = [work EXCEPT ![i].todo = todo, ![i].found = found],
           \A w2 : w2.todo = todo /\ w2.found = found => WalkOK(calls[i], tree0, w2)
    PROVE  Step(i)
<1>1. Stage(calls[i], tree0, tree, work[i]) /\ WorkOK
  BY ReadyIs
<1>2. /\ work'[i].pc = "walk" /\ work'[i].todo = todo /\ work'[i].found = found
  BY <1>1 DEF WorkOK
<1>3. LookStage(calls[i], tree0, tree, work[i])
  BY <1>1 DEF Stage
<1>4. LookStage(calls[i], tree0, tree, work'[i])
  BY <1>2, <1>3 DEF LookStage
<1> QED
  BY <1>2, <1>4 DEF Step, Stage

\* A step of a walk: the tree below its place is as it was at the start.
LEMMA WalkSim ==
    ASSUME NEW i \in Calls, Ready(i), Walk(i)
    PROVE  Step(i)
<1> DEFINE call == calls[i]
<1>1. /\ CallOK(call) /\ World(tree0) /\ World(tree)
      /\ Stage(call, tree0, tree, work[i])
      /\ WorkOK /\ work[i].pc = "walk" /\ tree' = tree
  BY ReadyIs DEF Walk, Untouched
<1>2. LookStage(call, tree0, tree, work[i])
  BY <1>1 DEF Stage
<1>3. call.tool \in {"glob", "grep"} /\ call.tool # "apply_patch" /\ WalkOK(call, tree0, work[i])
  BY <1>1, <1>2 DEF LookStage
<1>4. CASE work[i].todo = {}
  <2>1. Finish(i, Answer(<<>>, work[i].found))
    BY <1>4 DEF Walk
  <2>2. Over(call, tree0, tree, Answer(<<>>, work[i].found))
    BY <1>1, <1>4, WalkOver
  <2> QED
    BY <1>1, <2>1, <2>2, EndsWell
<1>5. CASE work[i].todo # {}
  <2> DEFINE e == CHOOSE x \in work[i].todo : TRUE
             q == e.place
             visited == work[i].found \cup Hits(call, tree, q)
             rest == work[i].todo \ {e}
  <2>1. e \in work[i].todo
    BY <1>5
  <2>2. IF e.dir THEN ListDir(i, e)
        ELSE work' = [work EXCEPT ![i].todo = rest, ![i].found = visited]
    BY <1>1, <1>5, Zenon DEF Walk
  <2> HIDE DEF e
  <2>3. /\ q \in Places /\ IsPrefix(Base(call), q)
        /\ Exists(tree0, Base(call)) => q \in Below(tree0, Base(call))
        /\ ~Exists(tree0, Base(call)) => q = Base(call) /\ e.dir = TRUE
    BY <1>1, <1>3, <2>1, PutDown
  <2>4. /\ Exists(tree, q) <=> Exists(tree0, q)
        /\ IsDir(tree, q) <=> IsDir(tree0, q)
        /\ IsFile(tree, q) <=> IsFile(tree0, q)
        /\ Children(tree, q) = Children(tree0, q)
        /\ Hits(call, tree, q) = Hits(call, tree0, q)
    BY <1>1, <1>2, <1>3, <2>3, SeenBelow
  <2>5. CASE IsFile(tree0, q) /\ work' = [work EXCEPT ![i].todo = rest, ![i].found = visited]
    <3>1. ASSUME NEW w2, w2.todo = rest, w2.found = visited
          PROVE  WalkOK(call, tree0, w2)
      BY <1>1, <1>3, <2>1, <2>4, <2>5, <3>1, WalkFile
    <3> HIDE DEF rest, visited
    <3> QED
      BY <1>1, <2>5, <3>1, WalkOn
  <2>6. CASE ~e.dir
    <3>1. Exists(tree0, q) /\ ~IsDir(tree0, q)
      <4>1. Exists(tree0, Base(call))
        BY <2>3, <2>6
      <4>2. q \in Below(tree0, Base(call)) /\ ~IsDir(tree0, q)
        BY <1>3, <2>1, <2>6, <4>1 DEF WalkOK
      <4> QED
        BY <4>2 DEF Below
    <3>2. IsFile(tree0, q)
      BY <1>1, <2>3, <3>1, ThreeKinds DEF World
    <3> QED
      BY <2>2, <2>5, <2>6, <3>2
  <2>7. CASE e.dir
    <3> DEFINE children == Children(tree0, q)
               later == IF call.tool = "grep" THEN children
                        ELSE {c \in children : IsDir(tree0, c)}
               todo == rest \cup {[place |-> c, dir |-> IsDir(tree0, c)] : c \in later}
               found == work[i].found \cup
                            (IF call.tool = "grep" THEN {}
                             ELSE UNION {Hits(call, tree0, c) : c \in children})
    <3>1. CASE IsDir(tree0, q)
      <4>1. \A c \in children : /\ IsDir(tree, c) = IsDir(tree0, c)
                                /\ Hits(call, tree, c) = Hits(call, tree0, c)
        <5> SUFFICES ASSUME NEW c \in children
                     PROVE  /\ IsDir(tree, c) = IsDir(tree0, c)
                            /\ Hits(call, tree, c) = Hits(call, tree0, c)
          OBVIOUS
        <5>1. c \in Places /\ c # Root /\ Parent(c) = q
          BY DEF Children
        <5>2. IsPrefix(q, c)
          BY <5>1, PlacesAssumption, PrefixOfParent
        <5>3. IsPrefix(Base(call), c)
          <6>1. Base(call) \in Seq(STRING) /\ q \in Seq(STRING) /\ c \in Seq(STRING)
            BY <1>1, <1>3, <2>3, <5>1, PlacesAssumption DEF CallOK
          <6> QED
            BY <2>3, <5>2, <6>1, PrefixOrder
        <5>4. /\ IsDir(tree, c) <=> IsDir(tree0, c)
              /\ Hits(call, tree, c) = Hits(call, tree0, c)
          BY <1>1, <1>2, <1>3, <5>1, <5>3, SeenBelow
        <5> QED
          BY <5>4 DEF IsDir
      <4>2. work' = [work EXCEPT ![i].todo = todo, ![i].found = found]
        <5> DEFINE seen == Children(tree, q)
                   after == IF call.tool = "grep" THEN seen ELSE {c \in seen : IsDir(tree, c)}
                   more == {[place |-> c, dir |-> IsDir(tree, c)] : c \in after}
                   hits == IF call.tool = "grep" THEN {}
                           ELSE UNION {Hits(call, tree, c) : c \in seen}
        <5>1. work' = [work EXCEPT ![i].todo = rest \cup more,
                                   ![i].found = work[i].found \cup hits]
          BY <1>1, <2>2, <2>4, <2>7, <3>1, Zenon DEF ListDir
        <5>2. seen = children /\ after = later
          BY <2>4, <4>1
        <5>3. more = {[place |-> c, dir |-> IsDir(tree0, c)] : c \in later}
          BY <4>1, <5>2
        <5>4. {Hits(call, tree, c) : c \in seen} = {Hits(call, tree0, c) : c \in children}
          BY <4>1, <5>2
        <5> QED
          BY <5>1, <5>3, <5>4, Zenon
      <4>3. ASSUME NEW w2, w2.todo = todo, w2.found = found
            PROVE  WalkOK(call, tree0, w2)
        <5>1. later = IF call.tool = "grep" THEN Children(tree0, e.place)
                      ELSE {c \in Children(tree0, e.place) : IsDir(tree0, c)}
          OBVIOUS
        <5> QED
          BY <1>1, <1>3, <2>1, <3>1, <4>3, <5>1, WalkDir, Zenon
      <4> HIDE DEF todo, found
      <4> QED
        BY <1>1, <4>2, <4>3, WalkOn
    <3>2. CASE ~IsDir(tree0, q) /\ IsFile(tree0, q)
      <4>1. work' = [work EXCEPT ![i].todo = rest, ![i].found = visited]
        BY <2>2, <2>4, <2>7, <3>2, Zenon DEF ListDir
      <4> QED
        BY <2>5, <3>2, <4>1
    <3>3. CASE ~IsDir(tree0, q) /\ ~IsFile(tree0, q)
      <4>1. Fail(i)
        BY <2>2, <2>4, <2>7, <3>3, Zenon DEF ListDir
      <4>2. ~Exists(tree0, q)
        BY <1>1, <2>3, <3>3, ThreeKinds DEF World
      <4>3. Over(call, tree0, tree, NoResult)
        BY <1>1, <2>1, <4>2, WalkFails
      <4> QED
        BY <1>1, <4>1, <4>3, EndsWell
    <3> QED
      BY <3>1, <3>2, <3>3
  <2> QED
    BY <2>6, <2>7
<1> QED
  BY <1>4, <1>5

\* Every step of a call does what is next to be done of it.
LEMMA FileStepSim ==
    ASSUME NEW i \in Calls, Ready(i), FileStep(i)
    PROVE  Step(i)
BY StartCallSim, MakeDirsSim, OpenFileSim, WriteFileSim, PatchOperationSim, UnlinkSim,
   ReadDirSim, ReadFileSim, WalkSim DEF FileStep

-----------------------------------------------------------------------------
(* The round: what the others do leaves a call that meets none of them where it is. *)

CallsInv ==
    /\ World(tree0)
    /\ phase \in {"announce", "run", "collect", "done"} => \A i \in Calls : CanBuild(calls[i])
    /\ \A i \in Calls : Undisturbed(i) /\ CanBuild(calls[i]) => SimOf(i, tree)

\* At the start a call finds the tree as it is.
LEMMA CallsInitHolds == RunnerInit => CallsInv
<1> SUFFICES ASSUME RunnerInit
             PROVE  CallsInv
  OBVIOUS
<1>1. tree \in Trees /\ tree0 = tree /\ phase = "build" /\ \A i \in Calls : work[i] = Idle
  BY DEF RunnerInit, FilesInit, Calls
<1>2. World(tree0)
  BY <1>1, TreesAssumption DEF World
<1>3. \A T : Agree(T, tree, tree0)
  BY <1>1 DEF Agree, SameNode
<1>4. ASSUME NEW i \in Calls
      PROVE  SimOf(i, tree)
  <2>1. work[i].pc = "off" /\ work[i].op = 1 /\ work[i].found = {}
    BY <1>1 DEF Idle
  <2> QED
    BY <1>3, <2>1 DEF SimOf, Stage
<1> QED
  BY <1>1, <1>2, <1>4 DEF CallsInv

\* A call that is started, or whose result is noted and sent, is where it was.
LEMMA StageOnward ==
    ASSUME NEW call, NEW t0, NEW t, NEW w, NEW w2, Stage(call, t0, t, w),
           \/ w2 = w
           \/ /\ w.pc \in Unstarted /\ w2.pc \in Unstarted
              /\ w2.op = w.op /\ w2.found = w.found
           \/ w.pc \in Ended /\ w2.pc \in Ended /\ w2.result = w.result
    PROVE  Stage(call, t0, t, w2)
<1>1. CASE w2 = w
  BY <1>1
<1>2. CASE /\ w.pc \in Unstarted /\ w2.pc \in Unstarted
           /\ w2.op = w.op /\ w2.found = w.found
  BY <1>2 DEF Stage
<1>3. CASE w.pc \in Ended /\ w2.pc \in Ended /\ w2.result = w.result
  BY <1>3 DEF Stage
<1> QED
  BY <1>1, <1>2, <1>3

\* A step of the round that moves no call.
LEMMA CallsStay ==
    ASSUME CallsInv, UNCHANGED <<calls, tree0, tree>>,
           phase' \in {"announce", "run", "collect", "done"}
              => \A i \in Calls : CanBuild(calls[i]),
           \A i \in Calls :
              \/ work'[i] = work[i]
              \/ /\ work[i].pc \in Unstarted /\ work'[i].pc \in Unstarted
                 /\ work'[i].op = work[i].op /\ work'[i].found = work[i].found
              \/ /\ work[i].pc \in Ended /\ work'[i].pc \in Ended
                 /\ work'[i].result = work[i].result
    PROVE  CallsInv'
<1>1. Calls' = Calls /\ World(tree0)'
  BY DEF Calls, CallsInv, World
<1>2. ASSUME NEW i \in Calls, Undisturbed(i)', CanBuild(calls[i])
      PROVE  SimOf(i, tree)'
  <2>1. Undisturbed(i)
    BY <1>2 DEF Undisturbed
  <2>2. Stage(calls[i], tree0, tree, work[i])
    BY <1>2, <2>1 DEF CallsInv, SimOf
  <2>3. Stage(calls[i], tree0, tree, work'[i])
    BY <2>2, StageOnward
  <2> QED
    BY <2>3 DEF SimOf
<1>3. \A i \in Calls : CanBuild(calls[i])' <=> CanBuild(calls[i])
  BY DEF CanBuild
<1> QED
  BY <1>1, <1>2, <1>3 DEF CallsInv

\* A step of a tool: of the call's own, or of one it does not meet.
LEMMA CallsRun ==
    ASSUME WorkOK, FilesInv, CallsInv, NEW j \in Calls, RunTool(j)
    PROVE  CallsInv'
<1>1. /\ FileStep(j) /\ UNCHANGED <<calls, tree0, phase>> /\ Calls' = Calls
  BY DEF RunTool, roundVars, Calls
<1>2. ASSUME NEW i \in Calls, Undisturbed(i)', CanBuild(calls[i])
      PROVE  SimOf(i, tree)'
  <2>1. Undisturbed(i)
    BY <1>1, <1>2 DEF Undisturbed
  <2>2. Ready(i)
    BY <1>2, <2>1 DEF Ready, CallsInv
  <2>3. CASE i = j
    BY <1>1, <2>2, <2>3, FileStepSim DEF Step, SimOf
  <2>4. CASE i # j
    <3>1. ~Meet(calls[i], calls[j])
      BY <2>1, <2>4 DEF Undisturbed, Calls
    <3>2. Keeps(Touches(calls[i]), tree, tree')
      BY <1>1, <3>1, Elsewhere
    <3>3. work'[i] = work[i]
      BY <1>1, <2>4, FileStepIsLocal
    <3>4. Stage(calls[i], tree0, tree, work[i]) /\ Touches(calls[i]) \in SUBSET Places
      BY <2>2, ReadyIs DEF CallOK
    <3>5. Stage(calls[i], tree0, tree', work[i])
      BY <3>2, <3>4, StageKept
    <3> QED
      BY <1>1, <3>3, <3>5 DEF SimOf
  <2> QED
    BY <2>3, <2>4
<1>3. \A i \in Calls : CanBuild(calls[i])' <=> CanBuild(calls[i])
  BY <1>1 DEF CanBuild
<1> QED
  BY <1>1, <1>2, <1>3 DEF CallsInv, World

\* A step of the round keeps the calls at their stages.
LEMMA CallsNext ==
    ASSUME RoundInv, FilesInv, CallsInv, [RunnerNext]_runnerVars
    PROVE  CallsInv'
<1>1. WorkOK
  BY DEF RoundInv, RoundOK
<1>2. CASE BuildToolCalls
  <2>1. /\ UNCHANGED <<calls, tree0, tree, work>>
        /\ phase' = IF \A i \in Calls : CanBuild(calls[i]) THEN "announce" ELSE "failed"
    BY <1>2 DEF BuildToolCalls, fileVars
  <2> QED
    BY <2>1, CallsStay
<1>3. CASE Wait \/ Collect \/ UNCHANGED runnerVars
  <2>1. /\ UNCHANGED <<calls, tree0, tree, work>>
        /\ phase' \in {"announce", "run", "collect", "done"}
              => phase \in {"announce", "run", "collect", "done"}
    BY <1>3 DEF Wait, Collect, runnerVars, fileVars, roundVars
  <2> QED
    BY <2>1, CallsStay DEF CallsInv
<1>4. CASE Announce
  <2>1. /\ UNCHANGED <<calls, tree0, tree>> /\ phase = "announce"
        /\ (work' = work \/ work' = [i \in Calls |-> [work[i] EXCEPT !.pc = "start"]])
    BY <1>4 DEF Announce
  <2>2. \A i \in Calls : /\ work[i].pc = "off"
                        /\ [work[i] EXCEPT !.pc = "start"].pc = "start"
                        /\ [work[i] EXCEPT !.pc = "start"].op = work[i].op
                        /\ [work[i] EXCEPT !.pc = "start"].found = work[i].found
    BY <1>1, <2>1 DEF WorkOK, RoundInv, PhaseInv
  <2>3. \A i \in Calls :
              \/ work'[i] = work[i]
              \/ /\ work[i].pc \in Unstarted /\ work'[i].pc \in Unstarted
                 /\ work'[i].op = work[i].op /\ work'[i].found = work[i].found
    BY <2>1, <2>2
  <2> QED
    BY <2>1, <2>3, CallsStay DEF CallsInv
<1>5. ASSUME NEW i \in Calls, Record(i) \/ Emit(i)
      PROVE  CallsInv'
  <2>1. PICK p \in {"emit", "exited"} : Goto(i, p)
    BY <1>5 DEF Record, Emit
  <2>2. UNCHANGED <<calls, tree0, tree, phase>> /\ work[i].pc \in Ended
    BY <1>5 DEF Record, Emit
  <2>3. /\ work'[i].pc = p /\ work'[i].result = work[i].result
        /\ \A j \in Calls \ {i} : work'[j] = work[j]
    BY <1>1, <2>1 DEF Goto, WorkOK
  <2> QED
    BY <2>2, <2>3, CallsStay DEF CallsInv
<1>6. ASSUME NEW i \in Calls, RunTool(i)
      PROVE  CallsInv'
  BY <1>1, <1>6, CallsRun
<1> QED
  BY <1>2, <1>3, <1>4, <1>5, <1>6 DEF RunnerNext

\* However the calls of a round are interleaved and however many they are, one that meets
\* no other did what it says (tool_patch.go 68-233, tool_list.go 239-258).
THEOREM UndisturbedCalls == RunnerSpec => []UndisturbedCallsDoWhatTheySay
<1>1. RoundInv /\ FilesInv /\ CallsInv => UndisturbedCallsDoWhatTheySay
  <2> SUFFICES ASSUME RoundInv, FilesInv, CallsInv, phase \in {"collect", "done"},
                      NEW i \in Calls, Undisturbed(i)
               PROVE  LET alone == Alone(tree0, calls[i])
                          result == work[i].result IN
                      /\ result.ok = alone.ok
                      /\ result.ok => result.text = alone.text /\ result.paths = alone.paths
                      /\ Changes(calls[i]) =>
                            \A p \in Touches(calls[i]) : SameNode(tree[p], alone.tree[p])
    BY DEF UndisturbedCallsDoWhatTheySay
  <2>1. work[i].pc = "exited" /\ CanBuild(calls[i])
    BY DEF RoundInv, PhaseInv, CallsInv
  <2>2. Stage(calls[i], tree0, tree, work[i])
    BY <2>1 DEF CallsInv, SimOf
  <2>3. Over(calls[i], tree0, tree, work[i].result)
    BY <2>1, <2>2 DEF Stage
  <2>4. Touches(calls[i]) \in SUBSET Places
    BY TouchedPlaces
  <2>5. Changes(calls[i]) =>
           \A p \in Touches(calls[i]) : SameNode(tree[p], Alone(tree0, calls[i]).tree[p])
    BY <2>3, <2>4, AgreeSeen DEF Over
  <2> QED
    BY <2>3, <2>5 DEF Over
<1>2. RunnerSpec => []CallsInv
  <2>1. RoundInv /\ FilesInv /\ CallsInv /\ [RunnerNext]_runnerVars => CallsInv'
    BY CallsNext
  <2> QED
    BY <2>1, CallsInitHolds, RoundInvariant, FilesInvariant, PTL DEF RunnerSpec
<1> QED
  BY <1>1, <1>2, RoundInvariant, FilesInvariant, PTL
===============================================================================
