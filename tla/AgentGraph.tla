------------------------------ MODULE AgentGraph ------------------------------
(***************************************************************************)
(* AgentGraphOrchestrator.run: a worker drafts a task, the invigilator      *)
(* approves it or sends it back with a reason, an approved draft is signed, *)
(* executed behind the signature gate of layer 2, and judged. Sessions of   *)
(* several processes append to one audit file and share nothing else; no    *)
(* line names its session, and a verdict does not name its task.            *)
(***************************************************************************)
EXTENDS Integers, Sequences, Functions

CONSTANTS
  Sessions,       \* calls of run
  MaxIterations,  \* AgentState.max_iterations
  MaxAborts       \* bound: sessions that die

ASSUME GraphAssumption == MaxIterations \in Nat \ {0} /\ MaxAborts \in Nat

VARIABLES
  goal,     \* each session: the kind of task its goal asks for, and the target it names
  sess,     \* each session: AgentState and the step it is at
  audit,    \* audit_log.jsonl: the lines about drafts, verdicts and tasks
  aborts    \* sessions that died

graphVars == <<goal, sess, audit, aborts>>

Kinds == {"data_cleaning", "system_inspection", "transformation"}
Targets == {"localhost", "elsewhere"}
ALLOWED_TARGETS == {"localhost"}
Reasons == {"none", "unauthorized target", "iterations"}
NoDraft == [task |-> <<>>, kind |-> "none", target |-> "none"]
Fresh == [step |-> "start", status |-> "pending", iteration |-> 0, draft |-> NoDraft,
          approved |-> FALSE, reason |-> "none", signed |-> NoDraft, result |-> "none"]

GraphInit ==
  /\ goal \in [Sessions -> [kind : Kinds, target : Targets]]
  /\ sess = [s \in Sessions |-> Fresh]
  /\ audit = <<>> /\ aborts = 0

At(s, step) == sess[s].step = step

\* log_event, and the details run gives it for each event. The lines that say when a
\* session started, failed, was judged or finished name no draft and are left out.
Log(line) == audit' = Append(audit, line)
Drafted(iteration, draft) ==
  [event |-> "WORKER_DRAFT_CREATED", iteration |-> iteration, task_draft |-> draft]
Checked(iteration, approved, reason) ==
  [event |-> "INVIGILATOR_CHECKED", iteration |-> iteration, approved |-> approved,
   reason |-> reason]
Signed(task) == [event |-> "PAYLOAD_SIGNED", task_id |-> task]
Executed(task) == [event |-> "TASK_EXECUTED", task_id |-> task]

Becomes(s, state) == sess' = [sess EXCEPT ![s] = state]

\* The while condition.
Over(state) == state.status \in {"completed", "failed"}
Loop(state) == [state EXCEPT !.step = IF Over(state) THEN "finish" ELSE "work"]

StartSession(s) ==
  /\ At(s, "start")
  /\ Becomes(s, Loop(sess[s]))
  /\ UNCHANGED <<goal, audit, aborts>>

\* A draft takes the target of the goal, or localhost once a target was refused.
DraftTarget(s) ==
  IF sess[s].reason = "unauthorized target" THEN "localhost" ELSE goal[s].target

\* Mistake, not part of GraphSpec: the worker drafts for pending sessions, and not again
\* for one that was refused.
DraftOnce(s) ==
  LET draft == [task |-> <<s, 1>>, kind |-> goal[s].kind, target |-> DraftTarget(s)]
  IN /\ At(s, "work") /\ sess[s].status = "pending"
     /\ Becomes(s, [sess[s] EXCEPT !.step = "check", !.status = "working",
                                   !.iteration = 1, !.draft = draft])
     /\ Log(Drafted(1, draft))
     /\ UNCHANGED <<goal, aborts>>

\* WorkerNode.process. The task_id of a draft is a new uuid: no other draft has it, and
\* nothing can be read from it.
DraftTask(s) ==
  LET n == sess[s].iteration + 1
      draft == [task |-> <<s, n>>, kind |-> goal[s].kind, target |-> DraftTarget(s)]
  IN /\ At(s, "work")
     /\ Becomes(s, [sess[s] EXCEPT !.step = "check", !.status = "working",
                                   !.iteration = n, !.draft = draft])
     /\ Log(Drafted(n, draft))
     /\ UNCHANGED <<goal, aborts>>

Permitted(draft) == draft.kind = "system_inspection" => draft.target \in ALLOWED_TARGETS

\* Why InvigilatorNode.process refuses the draft: the cap first, then the target.
Verdict(s) ==
  IF sess[s].iteration > MaxIterations THEN "iterations" ELSE
  IF ~Permitted(sess[s].draft) THEN "unauthorized target" ELSE "none"

Judged(s, why) ==
  [sess[s] EXCEPT !.approved = (why = "none"), !.reason = why,
     !.status = CASE why = "none" -> "approved"
                  [] why = "iterations" -> "failed"
                  [] OTHER -> "rejected"]

\* Mistake, not part of GraphSpec: run leaves only for a session that was given up, and
\* signs the draft that was refused.
InvigilateLoosely(s) ==
  LET why == Verdict(s)
      judged == Judged(s, why)
  IN /\ At(s, "check")
     /\ Becomes(s, IF why # "iterations" THEN [judged EXCEPT !.step = "sign"]
                   ELSE Loop(judged))
     /\ Log(Checked(sess[s].iteration, why = "none", why))
     /\ UNCHANGED <<goal, aborts>>

\* InvigilatorNode.process: approve, send back, or give the session up.
Invigilate(s) ==
  LET why == Verdict(s)
      judged == Judged(s, why)
  IN /\ At(s, "check")
     /\ Becomes(s, IF why = "none" THEN [judged EXCEPT !.step = "sign"] ELSE Loop(judged))
     /\ Log(Checked(sess[s].iteration, why = "none", why))
     /\ UNCHANGED <<goal, aborts>>

\* Layer 4 signs the approved draft.
Sign(s) ==
  /\ At(s, "sign")
  /\ Becomes(s, [sess[s] EXCEPT !.step = "execute", !.status = "executing",
                                !.signed = sess[s].draft])
  /\ Log(Signed(sess[s].draft.task))
  /\ UNCHANGED <<goal, aborts>>

\* execute_task verifies the signature over the draft it is given; for another one it
\* raises, and run with it.
Execute(s) ==
  /\ At(s, "execute")
  /\ IF sess[s].signed = sess[s].draft
     THEN /\ Becomes(s, [sess[s] EXCEPT !.step = "evaluate", !.result = "completed"])
          /\ Log(Executed(sess[s].draft.task))
     ELSE Becomes(s, [sess[s] EXCEPT !.step = "over"]) /\ UNCHANGED audit
  /\ UNCHANGED <<goal, aborts>>

\* EvaluatorNode.process: an incomplete result goes around again.
Evaluate(s) ==
  LET judged == [sess[s] EXCEPT !.status =
                   IF sess[s].result = "completed" THEN "completed" ELSE "rejected"]
  IN At(s, "evaluate") /\ Becomes(s, Loop(judged)) /\ UNCHANGED <<goal, audit, aborts>>

FinishSession(s) ==
  /\ At(s, "finish")
  /\ Becomes(s, [sess[s] EXCEPT !.step = "over"])
  /\ UNCHANGED <<goal, audit, aborts>>

\* The process stops, or the audit file cannot be written.
Abort(s) ==
  /\ sess[s].step \notin {"start", "over"} /\ aborts < MaxAborts
  /\ Becomes(s, [sess[s] EXCEPT !.step = "over"])
  /\ aborts' = aborts + 1
  /\ UNCHANGED <<goal, audit>>

Advance(s) ==
  \/ StartSession(s) \/ DraftTask(s) \/ Invigilate(s) \/ Sign(s)
  \/ Execute(s) \/ Evaluate(s) \/ FinishSession(s)

GraphNext == \E s \in Sessions : Advance(s) \/ Abort(s)

GraphSpec == GraphInit /\ [][GraphNext]_graphVars

-------------------------------------------------------------------------------
(* Properties.                                                               *)

TaskIds == Sessions \X Nat
Draft == [task : TaskIds, kind : Kinds, target : Targets] \cup {NoDraft}
AgentState ==
  [step : {"start", "work", "check", "sign", "execute", "evaluate", "finish", "over"},
   status : {"pending", "working", "approved", "rejected", "failed", "executing",
             "completed"},
   iteration : Nat, draft : Draft, approved : BOOLEAN, reason : Reasons,
   signed : Draft, result : {"none", "completed"}]
Lines ==
  [event : {"WORKER_DRAFT_CREATED"}, iteration : Nat, task_draft : Draft]
    \cup [event : {"INVIGILATOR_CHECKED"}, iteration : Nat, approved : BOOLEAN,
          reason : Reasons]
    \cup [event : {"PAYLOAD_SIGNED", "TASK_EXECUTED"}, task_id : TaskIds]
GraphTypeOK ==
  /\ goal \in [Sessions -> [kind : Kinds, target : Targets]]
  /\ sess \in [Sessions -> AgentState]
  /\ audit \in Seq(Lines)
  /\ aborts \in 0..MaxAborts

Of(event) == {i \in DOMAIN audit : audit[i].event = event}
SignedTasks == {audit[j].task_id : j \in Of("PAYLOAD_SIGNED")}

\* Line a can be the approval of task x: it is one, of the iteration the task was drafted
\* in before, for an allowed target, and before the task was signed.
Approves(a, x) ==
  /\ a \in Of("INVIGILATOR_CHECKED") /\ audit[a].approved
  /\ \E i \in 1..(a - 1) :
       /\ i \in Of("WORKER_DRAFT_CREATED") /\ audit[i].task_draft.task = x
       /\ audit[i].iteration = audit[a].iteration /\ Permitted(audit[i].task_draft)
  /\ \A j \in DOMAIN audit : audit[j] = Signed(x) => a < j

\* What the one file shows of all sessions, though a verdict in it names neither its
\* session nor its task: nothing runs twice or unsigned, and there are enough approvals
\* for all that was signed, each at its place between the draft of a permitted task and
\* its signature, none used for two tasks, however the lines of the sessions fall
\* between each other and whatever was refused or cut short (run, InvigilatorNode,
\* execute_task).
ExecutedWasApproved ==
  /\ \A k \in Of("TASK_EXECUTED") :
       /\ \E j \in 1..(k - 1) : audit[j] = Signed(audit[k].task_id)
       /\ \A m \in Of("TASK_EXECUTED") : audit[m].task_id = audit[k].task_id => m = k
  /\ \E approval \in Injection(SignedTasks, DOMAIN audit) :
       \A x \in SignedTasks : Approves(approval[x], x)

\* A session that starts ends: worker and invigilator do not send a draft around
\* forever (the iteration cap, and the target the worker falls back to).
SessionsEnd == (\E s \in Sessions : At(s, "work")) ~> (\A s \in Sessions : At(s, "over"))
===============================================================================
