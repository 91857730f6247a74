------------------------------- MODULE ToolRunner -------------------------------
(***************************************************************************)
(* One round of tool calls of a response: providers/tool_runner.go and its *)
(* two callers, toolOutputsFromResponse (openai.go) and runToolCalls       *)
(* (openrouter.go), which are alike.  The calls are looked up, announced   *)
(* on the stream, run in a goroutine each - here the file tools of module  *)
(* FileTools -, and their outputs collected by call id once all are done.  *)
(***************************************************************************)
EXTENDS FileTools

VARIABLES
    phase,      \* "build", "announce", "run", "collect", "done", "failed"
    announced,  \* ToolCall messages sent
    results,    \* call -> its place in the results slice, or NoResult
    byID,       \* resultsByID: call id -> result
    sent,       \* call -> ToolResult messages sent for it
    outputs     \* what goes back to the model: [id, result]

roundVars == <<phase, announced, results, byID, sent, outputs>>
runnerVars == <<calls, tree0, fileVars, roundVars>>

Calls == DOMAIN calls
IdsOf == {calls[i].id : i \in Calls}

RunnerInit ==
    /\ FilesInit
    /\ phase = "build"
    /\ announced = 0
    /\ results = [i \in Calls |-> NoResult]
    /\ byID = [id \in {} |-> NoResult]
    /\ sent = [i \in Calls |-> 0]
    /\ outputs = <<>>

\* buildToolCalls: one call that cannot be run is an error of them all.
CanBuild(call) == call.tool \in FileTool \cup {"broken"} /\ call.id # ""

BuildToolCalls ==
    /\ phase = "build"
    /\ phase' = IF \A i \in Calls : CanBuild(calls[i]) THEN "announce" ELSE "failed"
    /\ UNCHANGED <<calls, tree0, fileVars, announced, results, byID, sent, outputs>>

\* The ToolCall messages, in order, before any tool runs.
Announce ==
    /\ phase = "announce"
    /\ IF announced < Len(calls)
       THEN announced' = announced + 1 /\ UNCHANGED <<phase, work>>
       ELSE /\ phase' = "run"
            /\ work' = [i \in Calls |-> [work[i] EXCEPT !.pc = "start"]]
            /\ UNCHANGED announced
    /\ UNCHANGED <<calls, tree0, tree, inodes, results, byID, sent, outputs>>

RunTool(i) ==
    /\ phase = "run"
    /\ FileStep(i)
    /\ UNCHANGED <<calls, tree0, roundVars>>

\* Mutant of Record: the goroutine of a failed call forgets to say that it is over.
RecordWithoutDone(i) ==
    /\ work[i].pc = "done"
    /\ results' = [results EXCEPT ![i] = work[i].result]
    /\ byID' = [id \in DOMAIN byID \cup {calls[i].id} |->
                    IF id = calls[i].id THEN work[i].result ELSE byID[id]]
    /\ Goto(i, IF work[i].result.err THEN "off" ELSE "emit")
    /\ UNCHANGED <<calls, tree0, tree, inodes, phase, announced, sent, outputs>>

\* A call is back: its goroutine keeps its result, twice, ...
Record(i) ==
    /\ work[i].pc = "done"
    /\ results' = [results EXCEPT ![i] = work[i].result]
    /\ byID' = [id \in DOMAIN byID \cup {calls[i].id} |->
                    IF id = calls[i].id THEN work[i].result ELSE byID[id]]
    /\ Goto(i, IF work[i].result.err THEN "exited" ELSE "emit")
    /\ UNCHANGED <<calls, tree0, tree, inodes, phase, announced, sent, outputs>>

\* ... and sends it, unless the call failed.
Emit(i) ==
    /\ work[i].pc = "emit"
    /\ sent' = [sent EXCEPT ![i] = @ + 1]
    /\ Goto(i, "exited")
    /\ UNCHANGED <<calls, tree0, tree, inodes, phase, announced, results, byID, outputs>>

\* wg.Wait.
Wait ==
    /\ phase = "run"
    /\ \A i \in Calls : work[i].pc = "exited"
    /\ phase' = "collect"
    /\ UNCHANGED <<calls, tree0, fileVars, announced, results, byID, sent, outputs>>

\* Mutant of ResultOf: the results are read one place off.
ResultBefore(i) == IF i = 1 THEN results[1] ELSE results[i - 1]

\* The result of a call: the one noted for its id.
ResultOf(i) == IF calls[i].id \in DOMAIN byID THEN byID[calls[i].id] ELSE results[i]

\* The outputs, in the order of the calls, up to a failed one.
Collect ==
    /\ phase = "collect"
    /\ IF Len(outputs) = Len(calls)
       THEN phase' = "done" /\ UNCHANGED outputs
       ELSE LET i == Len(outputs) + 1 IN
            IF ResultOf(i).err THEN phase' = "failed" /\ outputs' = <<>>
            ELSE /\ outputs' = Append(outputs, [id |-> calls[i].id, result |-> ResultOf(i)])
                 /\ UNCHANGED phase
    /\ UNCHANGED <<calls, tree0, fileVars, announced, results, byID, sent>>

-----------------------------------------------------------------------------
RunnerNext ==
    \/ BuildToolCalls \/ Announce \/ Wait \/ Collect
    \/ \E i \in Calls : RunTool(i) \/ Record(i) \/ Emit(i)

\* Goroutines run, system calls return and the stream's reader reads.
RunnerFairness ==
    /\ WF_runnerVars(BuildToolCalls \/ Announce \/ Wait \/ Collect)
    /\ \A i \in 1..3 : WF_runnerVars(i \in Calls /\ (RunTool(i) \/ Record(i) \/ Emit(i)))

RunnerSpec == RunnerInit /\ [][RunnerNext]_runnerVars /\ RunnerFairness

-----------------------------------------------------------------------------
(* Properties.                                                              *)

\* The variables have their types, and the tree is one, though the root itself may be
\* removed and made again (os_fs.go 20-34): whatever exists below it is in a directory,
\* no two files share an inode, and no call writes outside the root.
RunnerTypeOK ==
    /\ phase \in {"build", "announce", "run", "collect", "done", "failed"}
    /\ announced \in 0..Len(calls) /\ Len(outputs) <= Len(calls)
    /\ DOMAIN byID \subseteq IdsOf
    /\ tree \in [Places -> Nodes] /\ IsTree(tree) /\ OwnInodes(tree)
    /\ \A i \in Calls : sent[i] \in {0, 1} /\ Resolve(work[i].target) \in Places

\* A call that meets no other one of its round did exactly what it says when the
\* round is over: the answer is that of the call alone on the tree as it was, and so
\* is every place it names, however the calls were interleaved and wherever a patch
\* stopped (tool_patch.go 68-77, 139-175 and 182-233, tool_list.go 239-258).
UndisturbedCallsDoWhatTheySay ==
    phase \in {"collect", "done"} =>
        \A i \in Calls : Undisturbed(i) =>
            LET alone == Alone(tree0, calls[i])
                result == work[i].result IN
            /\ result.ok = alone.ok
            /\ result.ok => result.text = alone.text /\ result.paths = alone.paths
            /\ Changes(calls[i]) =>
                  \A p \in Touches(calls[i]) : SameNode(tree[p], alone.tree[p])

\* What goes back to the model is one output for each call, in order, each a result of
\* a call of its id and so, if no other call has that id, its own; every call was announced
\* before it ran, and every result but that of a failed call was sent once.  A round fails
\* only if a call could not be built or failed, and a failed call fails it unless another
\* one has its id (openai.go 444-496, openrouter.go 476-533, tool_runner.go 37-54).
OutputsAnswerTheirCalls ==
    /\ \A i \in Calls : work[i].pc # "off" => announced = Len(calls)
    /\ phase = "done" =>
          /\ Len(outputs) = Len(calls)
          /\ \A i \in Calls :
                /\ outputs[i].id = calls[i].id
                /\ sent[i] = IF work[i].result.err THEN 0 ELSE 1
                /\ \E j \in Calls : /\ calls[j].id = calls[i].id
                                    /\ work[j].result = outputs[i].result
                                    /\ ~work[j].result.err
    /\ phase = "failed" =>
          \E i \in Calls : ~CanBuild(calls[i]) \/ work[i].result.err

\* The round comes to its end.
RoundEnds == <>(phase \in {"done", "failed"})
===============================================================================
