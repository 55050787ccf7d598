---------------------------- MODULE HistoryProofs -----------------------------
(***************************************************************************)
(* Three services that keep a history which is only added to: the commit    *)
(* DAG, the audit log of an agent session, and the trail of an enterprise   *)
(* task. What a handler learned from it between two steps stays true, since *)
(* nothing is removed.                                                      *)
(*                                                                         *)
(* The DAG: the ids that are stored are 1..k (Packed), so a new commit is   *)
(* later than its parents. Parents that were found are still commits of the *)
(* organization, and the seedling of a task has no sapling while the task,  *)
(* which alone has that seedling as its source, is at work.                 *)
(***************************************************************************)
EXTENDS CommitDag, AgentGraph, TaskStore, TLAPS

Packed == \E k \in 0..MaxNodes : Stored = 1..k

\* What a handler knows of the commits it holds.
Holds(job) ==
  /\ job.step # "idle" => job.org \in Orgs /\ job.project \in Projects
  /\ job.step = "ask" => job.source # 0
  /\ job.step = "store" =>
       \A p \in job.wanted : \E m \in nodes : m.id = p /\ m.org = job.org
  /\ job.source # 0 =>
       /\ job.step \in {"find", "store"} => job.role = "sapling" /\ job.wanted = {job.source}
       /\ \E m \in nodes : m.id = job.source /\ m.role = "seedling" /\ m.project = job.project
       /\ \A n \in nodes : n.source # job.source
TasksApart ==
  \A h, k \in Handlers :
    jobs[h].source # 0 /\ jobs[h].source = jobs[k].source => h = k
JobsInv == TasksApart /\ \A h \in Handlers : Holds(jobs[h])

DagInv == DagTypeOK /\ Packed /\ JobsInv /\ DagSound

\* There is no commit and no request at the start.
LEMMA DagInitInv == DagInit => DagInv
<1> SUFFICES ASSUME DagInit PROVE DagInv
  OBVIOUS
<1> USE DagAssumption DEF DagInit
<1>1. NoJob \in Job BY DEF NoJob, Job, Roles, Ids
<1>2. DagTypeOK BY <1>1 DEF DagTypeOK
<1>3. Packed
  <2>1. Stored = 1..0 BY DEF Stored
  <2> QED BY <2>1 DEF Packed
<1>4. JobsInv BY DEF JobsInv, TasksApart, Holds, NoJob
<1>5. DagSound BY DEF DagSound, EdgesStayInside, OneSapling, ViewsStayInside
<1> QED BY <1>2, <1>3, <1>4, <1>5 DEF DagInv

-------------------------------------------------------------------------------
(* Steps that store nothing.                                                 *)

\* A handler goes on with another job, of the same source or of none.
LEMMA JobChanged ==
  ASSUME DagInv, NEW h \in Handlers, NEW job \in Job,
         UNCHANGED <<nodes, views>>, jobs' = [jobs EXCEPT ![h] = job],
         Holds(job), job.source \in {0, jobs[h].source},
         tries' \in Nat, faults' \in Nat, lost' \subseteq Ids
  PROVE  DagInv'
<1> USE DEF DagInv
<1>1. DagTypeOK' BY DEF DagTypeOK
<1>2. Packed' BY DEF Packed, Stored
<1>3. TasksApart' BY DEF DagTypeOK, JobsInv, TasksApart
<1>4. \A k \in Handlers : Holds(jobs[k])' BY DEF DagTypeOK, JobsInv, Holds
<1>5. DagSound' BY DEF DagSound, EdgesStayInside, OneSapling, ViewsStayInside, Own
<1> QED BY <1>1, <1>2, <1>3, <1>4, <1>5 DEF JobsInv

\* A handler at rest holds no commit.
LEMMA NoJobHolds == NoJob \in Job /\ NoJob.source = 0 /\ Holds(NoJob)
BY DagAssumption DEF NoJob, Job, Roles, Ids, Holds

\* A background task knows its seedling.
LEMMA TaskSources == DagTypeOK => \A h \in Tasks : jobs[h].source \in Ids
BY DagAssumption DEF DagTypeOK, Tasks, Job, Ids

\* A request, a search for parents and a question to the model store nothing.
LEMMA QuietStep ==
  ASSUME DagInv, NEW h \in Handlers,
         \/ \E org \in Orgs, project \in Projects, role \in Roles, wanted \in SUBSET Ids :
              Request(h, org, project, role, wanted)
         \/ \E repeats \in BOOLEAN : FindParents(h, repeats)
         \/ AskModel(h)
         \/ Raise(h)
  PROVE  DagInv'
<1> USE DagAssumption DEF DagInv, DagTypeOK
<1>0. jobs[h] \in Job /\ Holds(jobs[h]) BY DEF JobsInv
<1>1. ASSUME NEW org \in Orgs, NEW project \in Projects, NEW role \in Roles,
             NEW wanted \in SUBSET Ids, Request(h, org, project, role, wanted)
      PROVE  DagInv'
  <2> DEFINE job == [step |-> "find", org |-> org, project |-> project, role |-> role,
                     wanted |-> wanted, source |-> 0]
  <2>1. job \in Job BY DEF Job
  <2>2. Holds(job) BY DEF Holds
  <2>3. jobs' = [jobs EXCEPT ![h] = job] /\ tries' \in Nat
        /\ UNCHANGED <<nodes, views, faults, lost>> /\ job.source = 0
    BY <1>1 DEF Request, Set
  <2> HIDE DEF job
  <2> QED BY <2>1, <2>2, <2>3, JobChanged
<1>2. ASSUME NEW repeats \in BOOLEAN, FindParents(h, repeats) PROVE DagInv'
  <2> DEFINE job == [jobs[h] EXCEPT !.step = "store"]
  <2>1. jobs[h].step = "find" /\ UNCHANGED <<nodes, views, tries, faults, lost>>
    BY <1>2 DEF FindParents
  <2>2. CASE jobs[h].wanted \subseteq Own(jobs[h].org) /\ ~repeats
    <3>1. job \in Job BY <1>0 DEF Job
    <3>2. Holds(job) BY <1>0, <2>1, <2>2 DEF Holds, Own, Job
    <3>3. jobs' = [jobs EXCEPT ![h] = job] BY <1>2, <2>2 DEF FindParents, Set
    <3>4. job.source = jobs[h].source BY <1>0 DEF Job
    <3> HIDE DEF job
    <3> QED BY <2>1, <3>1, <3>2, <3>3, <3>4, JobChanged
  <2>3. CASE ~(jobs[h].wanted \subseteq Own(jobs[h].org) /\ ~repeats)
    <3>1. jobs' = [jobs EXCEPT ![h] = NoJob] BY <1>2, <2>3 DEF FindParents, Set
    <3> QED BY <2>1, <3>1, NoJobHolds, JobChanged
  <2> QED BY <2>2, <2>3
<1>3. ASSUME AskModel(h) PROVE DagInv'
  <2> DEFINE job == [jobs[h] EXCEPT !.step = "find", !.role = "sapling",
                                    !.wanted = {jobs[h].source}]
  <2>1. jobs[h].step = "ask" /\ jobs' = [jobs EXCEPT ![h] = job]
        /\ UNCHANGED <<nodes, views, tries, faults, lost>>
    BY <1>3 DEF AskModel, Set
  <2>2. jobs[h].source # 0 => jobs[h].source \in Ids BY <1>0 DEF Job, Ids
  <2>3. job \in Job BY <1>0, <2>1, <2>2 DEF Job, Holds, Roles
  <2>4. Holds(job) /\ job.source = jobs[h].source BY <1>0, <2>1 DEF Holds, Job
  <2> HIDE DEF job
  <2> QED BY <2>1, <2>3, <2>4, JobChanged
<1>4. ASSUME Raise(h) PROVE DagInv'
  <2>1. jobs' = [jobs EXCEPT ![h] = NoJob] /\ faults' \in Nat
        /\ UNCHANGED <<nodes, views, tries>>
    BY <1>4 DEF Raise, Set
  <2>2. lost' = lost \cup {jobs[k].source : k \in Tasks \cap {h}} BY <1>4 DEF Raise
  <2>3. lost' \subseteq Ids BY <2>2, TaskSources
  <2> QED BY <2>1, <2>3, NoJobHolds, JobChanged
<1> QED BY <1>1, <1>2, <1>3, <1>4

\* A restart forgets every job, and a read keeps what it showed.
LEMMA WideStep ==
  ASSUME DagInv, Restart \/ \E org \in Orgs, project \in Projects : Read(org, project)
  PROVE  DagInv'
<1> USE DagAssumption DEF DagInv, DagTypeOK
<1>1. CASE Restart
  <2>1. \A h \in Handlers : jobs'[h] = NoJob BY <1>1 DEF Restart
  <2>2. DagTypeOK'
    <3>1. lost' \subseteq Ids BY <1>1, TaskSources DEF Restart
    <3>2. jobs' \in [Handlers -> Job] BY <1>1, NoJobHolds DEF Restart
    <3> QED BY <1>1, <3>1, <3>2 DEF Restart
  <2>3. JobsInv' BY <2>1 DEF JobsInv, TasksApart, Holds, NoJob
  <2>4. Packed' /\ DagSound'
    BY <1>1 DEF Restart, Packed, Stored, DagSound, EdgesStayInside, OneSapling,
                ViewsStayInside, Own
  <2> QED BY <2>2, <2>3, <2>4
<1>2. ASSUME NEW org \in Orgs, NEW project \in Projects, Read(org, project) PROVE DagInv'
  <2> DEFINE mine == {n \in nodes : n.org = org /\ n.project = project}
             edges == UNION {{<<p, n.id>> : p \in n.parents} : n \in mine}
             view == [org |-> org, commits |-> {n.id : n \in mine}, edges |-> edges]
  <2>1. views' = {view} /\ UNCHANGED <<nodes, jobs, tries, faults, lost>>
    BY <1>2 DEF Read
  <2>2. \A e \in edges : \E n \in mine : \E p \in n.parents : e = <<p, n.id>>
    OBVIOUS
  <2>3. edges \subseteq Ids \X Ids BY <2>2 DEF DagNode
  <2>4. view.commits \subseteq Own(org) /\ view.commits \subseteq Ids BY DEF Own, DagNode
  <2>5. \A e \in edges : e[1] \in Own(org)
    BY <2>2 DEF DagSound, EdgesStayInside, Own
  <2>6. DagTypeOK' BY <2>1, <2>3, <2>4
  <2>7. ViewsStayInside'
    <3> HIDE DEF edges
    <3> QED BY <2>1, <2>4, <2>5 DEF ViewsStayInside, Own
  <2>8. JobsInv' /\ Packed' /\ EdgesStayInside' /\ OneSapling'
    BY <2>1 DEF JobsInv, TasksApart, Holds, Packed, Stored, DagSound, EdgesStayInside,
                OneSapling
  <2> QED BY <2>6, <2>7, <2>8 DEF DagSound
<1> QED BY <1>1, <1>2

-------------------------------------------------------------------------------
(* The step that stores a commit.                                            *)

\* A new commit is later than its parents, in the organization of its request.
LEMMA StoreStep ==
  ASSUME DagInv, NEW h \in Handlers, Store(h)
  PROVE  DagInv'
<1> DEFINE job == jobs[h]
           id == CHOOSE i \in Ids : i \notin Stored /\ \A k \in Ids \ Stored : i <= k
           node == [id |-> id, org |-> job.org, project |-> job.project, role |-> job.role,
                    parents |-> job.wanted, source |-> job.source]
           next == IF job.role = "seedling"
                   THEN [job EXCEPT !.step = "ask", !.source = id] ELSE NoJob
<1>1. job.step = "store" /\ Ids \ Stored # {} /\ nodes' = nodes \cup {node}
      /\ jobs' = [jobs EXCEPT ![h] = next] /\ UNCHANGED <<tries, faults, lost, views>>
  BY DEF Store, Set
<1>2. PICK k \in 0..MaxNodes : Stored = 1..k BY DEF DagInv, Packed
<1>3. id = k + 1 /\ id \in Ids
  <2>1. k + 1 \in Ids /\ k + 1 \notin Stored BY <1>1, <1>2, DagAssumption DEF Ids
  <2>2. \A i \in Ids \ Stored : k + 1 <= i BY <1>2, DagAssumption DEF Ids
  <2>3. id \in Ids /\ id \notin Stored /\ \A i \in Ids \ Stored : id <= i BY <2>1, <2>2
  <2> HIDE DEF id
  <2> QED BY <2>1, <2>2, <2>3 DEF Ids
<1> HIDE DEF id
<1>4. job \in Job /\ Holds(job) /\ jobs \in [Handlers -> Job]
      /\ \A g \in Handlers : Holds(jobs[g])
  BY DEF DagInv, DagTypeOK, JobsInv
<1>5. \A n \in nodes : n \in DagNode /\ n.id \in 1..k /\ n.id # id /\ n.source # id
  <2>1. nodes \subseteq DagNode BY DEF DagInv, DagTypeOK
  <2>2. \A n \in nodes : n.id \in 1..k BY <1>2 DEF Stored
  <2>3. \A n \in nodes : n.source # 0 => \E m \in nodes : m.id = n.source
    BY DEF DagInv, DagSound, OneSapling
  <2> QED BY <1>3, <2>1, <2>2, <2>3
<1>6. node \in DagNode
  BY <1>1, <1>3, <1>4 DEF Job, DagNode, Holds
<1>7. node.id = id /\ node.org = job.org /\ node.project = job.project
      /\ node.role = job.role /\ node.parents = job.wanted /\ node.source = job.source
  OBVIOUS
<1> HIDE DEF node
<1>8. next \in Job
  <2>1. id \in 0..MaxNodes BY <1>3, DagAssumption DEF Ids
  <2>2. [job EXCEPT !.step = "ask", !.source = id] \in Job BY <1>4, <2>1 DEF Job
  <2> QED BY <2>2, NoJobHolds
<1>9. DagTypeOK'
  BY <1>1, <1>6, <1>8 DEF DagInv, DagTypeOK
<1>10. Packed'
  <2>1. Stored' = Stored \cup {id} BY <1>1, <1>7 DEF Stored
  <2>2. Stored' = 1..(k + 1) BY <1>2, <1>3, <2>1
  <2> QED BY <1>3, <2>2 DEF Packed, Ids
<1>11. EdgesStayInside'
  <2>1. \A p \in node.parents : \E m \in nodes : m.id = p /\ m.org = node.org
    BY <1>1, <1>4, <1>7 DEF Holds
  <2>2. \A p \in node.parents : p < node.id BY <1>3, <1>5, <1>7, <2>1
  <2> QED BY <1>1, <2>1, <2>2 DEF DagInv, DagSound, EdgesStayInside
<1>12. OneSapling'
  <2>1. node.source # 0 =>
          /\ node.role = "sapling" /\ node.parents = {node.source}
          /\ \E m \in nodes : m.id = node.source /\ m.role = "seedling"
                             /\ m.project = node.project
          /\ \A n \in nodes : n.source # node.source
    BY <1>1, <1>4, <1>7 DEF Holds
  <2> QED BY <1>1, <2>1 DEF DagInv, DagSound, OneSapling
<1>13. ViewsStayInside'
  BY <1>1 DEF DagInv, DagSound, ViewsStayInside, Own
<1>14. \A g \in Handlers : jobs[g].source # id
  <2> TAKE g \in Handlers
  <2>1. jobs[g].source # 0 => \E m \in nodes : m.id = jobs[g].source BY <1>4 DEF Holds
  <2> QED BY <1>3, <1>5, <2>1
<1>15. next.source \in {0, id}
  BY <1>4, NoJobHolds DEF Job
<1>16. TasksApart'
  <2>1. \A g \in Handlers \ {h} : jobs'[g] = jobs[g] BY <1>1
  <2>2. jobs'[h] = next BY <1>1, <1>4
  <2> HIDE DEF next
  <2> QED BY <1>14, <1>15, <2>1, <2>2 DEF DagInv, JobsInv, TasksApart
<1>17. ASSUME NEW g \in Handlers PROVE Holds(jobs[g])'
  <2>1. CASE g # h
    <3>1. jobs'[g] = jobs[g] BY <1>1, <2>1
    <3>2. jobs[g].source # 0 => node.source # jobs[g].source
      BY <1>7, <2>1 DEF DagInv, JobsInv, TasksApart
    <3>3. Holds(jobs[g]) /\ nodes \subseteq nodes' BY <1>1, <1>4
    <3>4. jobs[g].source # 0 => \A n \in nodes' : n.source # jobs[g].source
      BY <1>1, <3>2, <3>3 DEF Holds
    <3> QED BY <3>1, <3>3, <3>4 DEF Holds
  <2>2. CASE g = h /\ job.role = "seedling"
    <3>1. jobs'[g] = [job EXCEPT !.step = "ask", !.source = id] BY <1>1, <1>4, <2>2
    <3>2. jobs'[g].step = "ask" /\ jobs'[g].source = id /\ jobs'[g].org = job.org
          /\ jobs'[g].project = job.project
      BY <1>4, <3>1 DEF Job
    <3>3. job.source = 0 BY <1>1, <1>4, <2>2 DEF Holds
    <3>4. node.source # id BY <1>3, <1>7, <3>3
    <3> QED BY <1>1, <1>3, <1>4, <1>5, <1>7, <2>2, <3>2, <3>4 DEF Holds, Ids
  <2>3. CASE g = h /\ job.role # "seedling"
    <3>1. jobs'[g] = NoJob BY <1>1, <1>4, <2>3
    <3> QED BY <3>1 DEF Holds, NoJob
  <2> QED BY <2>1, <2>2, <2>3
<1> QED BY <1>9, <1>10, <1>11, <1>12, <1>13, <1>16, <1>17 DEF DagInv, DagSound, JobsInv

-------------------------------------------------------------------------------


\* The invariant of the commit DAG.
LEMMA DagInvariance == DagSpec => []DagInv
<1>1. DagInv /\ [DagNext]_dagVars => DagInv'
  <2> SUFFICES ASSUME DagInv, [DagNext]_dagVars PROVE DagInv'
    OBVIOUS
  <2>1. ASSUME NEW h \in Handlers, Work(h) PROVE DagInv'
    BY <2>1, QuietStep, StoreStep DEF Work
  <2>2. CASE UNCHANGED dagVars
    BY <2>2 DEF dagVars, DagInv, DagTypeOK, Packed, Stored, JobsInv, TasksApart, Holds,
                DagSound, EdgesStayInside, OneSapling, ViewsStayInside, Own
  <2> QED BY <2>1, <2>2, QuietStep, WideStep DEF DagNext
<1> QED BY DagInitInv, <1>1, PTL DEF DagSpec

\* create_commit, process_seedling_commit and get_project_dag, any number of them at
\* once: edges lead back inside the organization, a seedling has one sapling at most,
\* and a project shows nothing of another organization.
THEOREM DagIsSound == DagSpec => []DagSound
<1>1. DagInv => DagSound BY DEF DagInv
<1> QED BY <1>1, DagInvariance, PTL

-------------------------------------------------------------------------------
(* Sessions of agents. A verdict in the file does not name its task, so the   *)
(* proof keeps an assignment of verdicts to tasks (Assigned): an approval is  *)
(* given to its task when it is written, at a line no other task has, and     *)
(* lines are only appended. A task runs once because its session leaves the   *)
(* steps on the way to layer 2 and drafts under a new id (Ended).             *)

\* What the file shows of the draft a session has on its way to layer 2.
OnItsWay(s) ==
  /\ sess[s].step \in {"check", "sign", "execute"} =>
       sess[s].draft.task = <<s, sess[s].iteration>>
  /\ At(s, "check") =>
       \E i \in DOMAIN audit : audit[i] = Drafted(sess[s].iteration, sess[s].draft)
  /\ At(s, "execute") => \E j \in DOMAIN audit : audit[j] = Signed(sess[s].draft.task)

\* The tasks that need an approval: signed, or about to be.
Backed ==
  SignedTasks \cup {sess[s].draft.task : s \in {t \in Sessions : sess[t].step = "sign"}}
Assigned ==
  \E approval \in Injection(Backed, DOMAIN audit) :
    \A x \in Backed : Approves(approval[x], x)

\* A task is behind its session.
Ended(x) ==
  /\ x[2] <= sess[x[1]].iteration
  /\ x[2] = sess[x[1]].iteration => sess[x[1]].step \notin {"check", "sign", "execute"}
RunsOnce ==
  \A k \in Of("TASK_EXECUTED") :
    /\ Ended(audit[k].task_id)
    /\ \E j \in 1..(k - 1) : audit[j] = Signed(audit[k].task_id)
    /\ \A m \in Of("TASK_EXECUTED") : audit[m].task_id = audit[k].task_id => m = k

GraphInv ==
  GraphTypeOK /\ (\A s \in Sessions : OnItsWay(s)) /\ Assigned /\ RunsOnce

\* Nothing is drafted at the start.
LEMMA GraphInitInv == GraphInit => GraphInv
<1> SUFFICES ASSUME GraphInit PROVE GraphInv
  OBVIOUS
<1>1. Fresh \in AgentState BY DEF Fresh, AgentState, Draft, Reasons
<1>2. GraphTypeOK BY <1>1, GraphAssumption DEF GraphInit, GraphTypeOK
<1>3. \A s \in Sessions : sess[s].step = "start" BY DEF GraphInit, Fresh
<1>4. \A s \in Sessions : OnItsWay(s) BY <1>3 DEF OnItsWay, At
<1>5. DOMAIN audit = {} /\ \A event : Of(event) = {} BY DEF GraphInit, Of
<1>6. Backed = {} BY <1>3, <1>5 DEF Backed, SignedTasks, At
<1>7. Assigned
  <2>1. [x \in {} |-> 0] \in Injection({}, {}) BY DEF Injection, IsInjective
  <2> QED BY <1>5, <1>6, <2>1 DEF Assigned
<1>8. RunsOnce BY <1>5 DEF RunsOnce
<1> QED BY <1>2, <1>4, <1>7, <1>8 DEF GraphInv

\* The file after a step that writes one line, or none.
Appended(line) ==
  /\ audit' \in Seq(Lines)
  /\ \A i \in DOMAIN audit : i \in DOMAIN audit' /\ audit'[i] = audit[i]
  /\ \A i \in DOMAIN audit' \ DOMAIN audit :
       audit'[i] = line /\ \A j \in DOMAIN audit : j < i
  /\ \A i, j \in DOMAIN audit' \ DOMAIN audit : i = j
LEMMA Writes ==
  ASSUME audit \in Seq(Lines), NEW line \in Lines,
         UNCHANGED audit \/ Log(line)
  PROVE  /\ Appended(line)
         /\ Log(line) => \E n \in DOMAIN audit' \ DOMAIN audit : audit'[n] = line
<1>1. CASE UNCHANGED audit /\ ~Log(line) BY <1>1 DEF Appended
<1>2. CASE Log(line)
  <2> DEFINE n == Len(audit) + 1
  <2>1. /\ audit' \in Seq(Lines) /\ DOMAIN audit = 1..Len(audit) /\ Len(audit) \in Nat
        /\ DOMAIN audit' = 1..n /\ audit'[n] = line
        /\ \A i \in 1..Len(audit) : audit'[i] = audit[i]
    BY <1>2 DEF Log
  <2> QED BY <2>1 DEF Appended
<1> QED BY <1>1, <1>2

\* The sessions are of their types, and what the file showed of a draft it still shows.
LEMMA SessionSteps ==
  ASSUME GraphInv, NEW s \in Sessions, NEW state \in AgentState, NEW line \in Lines,
         Becomes(s, state), UNCHANGED goal, aborts' \in 0..MaxAborts, Appended(line),
         OnItsWay(s)'
  PROVE  GraphTypeOK' /\ \A t \in Sessions : OnItsWay(t)'
<1>1. sess \in [Sessions -> AgentState] /\ sess' = [sess EXCEPT ![s] = state]
  BY DEF GraphInv, GraphTypeOK, Becomes
<1>2. GraphTypeOK' BY <1>1 DEF GraphInv, GraphTypeOK, Appended
<1>3. ASSUME NEW t \in Sessions, t # s PROVE OnItsWay(t)'
  <2>1. sess'[t] = sess[t] BY <1>1, <1>3
  <2>2. OnItsWay(t) BY DEF GraphInv
  <2>3. \A i \in DOMAIN audit : i \in DOMAIN audit' /\ audit'[i] = audit[i] BY DEF Appended
  <2> QED BY <2>1, <2>2, <2>3 DEF OnItsWay, At, Drafted, Signed
<1> QED BY <1>2, <1>3

\* The tasks that need an approval after a step: one more at most, which is signed or
\* about to be.
LEMMA BackedGrows ==
  ASSUME GraphInv, NEW s \in Sessions, NEW state \in AgentState, NEW line \in Lines,
         Becomes(s, state), Appended(line), NEW y \in Backed'
  PROVE  \/ y \in Backed
         \/ line.event = "PAYLOAD_SIGNED" /\ y = line.task_id
         \/ state.step = "sign" /\ y = state.draft.task
<1>1. sess \in [Sessions -> AgentState] /\ sess' = [sess EXCEPT ![s] = state]
  BY DEF GraphInv, GraphTypeOK, Becomes
<1>2. CASE y \in SignedTasks'
  <2>1. PICK j \in DOMAIN audit' : audit'[j].event = "PAYLOAD_SIGNED" /\ y = audit'[j].task_id
    BY <1>2 DEF SignedTasks, Of
  <2>2. CASE j \in DOMAIN audit
    <3>1. audit[j] = audit'[j] BY <2>2 DEF Appended
    <3> QED BY <2>1, <2>2, <3>1 DEF Backed, SignedTasks, Of
  <2>3. CASE j \notin DOMAIN audit BY <2>1, <2>3 DEF Appended
  <2> QED BY <2>2, <2>3
<1>3. CASE y \notin SignedTasks'
  <2>1. PICK t \in Sessions : sess'[t].step = "sign" /\ y = sess'[t].draft.task
    BY <1>3 DEF Backed, At
  <2>2. CASE t = s BY <1>1, <2>1, <2>2
  <2>3. CASE t # s
    <3>1. sess'[t] = sess[t] BY <1>1, <2>3
    <3> QED BY <2>1, <3>1 DEF Backed, At
  <2> QED BY <2>2, <2>3
<1> QED BY <1>2, <1>3

\* An approval that was assigned stays at its place.
LEMMA ApprovalStays ==
  ASSUME NEW line, Appended(line), NEW x, NEW a \in DOMAIN audit, Approves(a, x)
  PROVE  Approves(a, x)'
<1>1. a \in DOMAIN audit' /\ audit'[a] = audit[a] BY DEF Appended
<1>2. a \in Of("INVIGILATOR_CHECKED")' /\ audit'[a].approved BY <1>1 DEF Approves, Of
<1>3. \E i \in 1..(a - 1) :
        /\ i \in Of("WORKER_DRAFT_CREATED")' /\ audit'[i].task_draft.task = x
        /\ audit'[i].iteration = audit'[a].iteration /\ Permitted(audit'[i].task_draft)
  BY <1>1 DEF Approves, Of, Appended
<1>4. \A j \in DOMAIN audit' : audit'[j] = Signed(x) => a < j BY DEF Approves, Appended
<1> QED BY <1>2, <1>3, <1>4 DEF Approves, Signed, Permitted

\* A step after which no other task needs an approval.
LEMMA StaysAssigned ==
  ASSUME Assigned, NEW line, Appended(line), Backed' \subseteq Backed
  PROVE  Assigned'
<1>1. PICK f \in Injection(Backed, DOMAIN audit) : \A x \in Backed : Approves(f[x], x)
  BY DEF Assigned
<1>2. PICK g : g = [x \in Backed' |-> f[x]] OBVIOUS
<1>3. g \in Injection(Backed', DOMAIN audit') BY <1>1, <1>2 DEF Injection, IsInjective, Appended
<1>4. ASSUME NEW x \in Backed' PROVE Approves(g[x], x)'
  <2>1. f[x] \in DOMAIN audit /\ Approves(f[x], x) /\ g[x] = f[x]
    BY <1>1, <1>2, <1>4 DEF Injection
  <2>2. PICK a \in DOMAIN audit : a = g[x] BY <2>1
  <2>3. Approves(a, x)' BY <2>1, <2>2, ApprovalStays
  <2> QED BY <2>2, <2>3
<1> QED BY <1>3, <1>4 DEF Assigned

\* An approval that is written is given to the task of the draft it follows.
LEMMA NewlyAssigned ==
  ASSUME GraphInv, NEW line \in Lines, Appended(line),
         line.event = "INVIGILATOR_CHECKED", line.approved,
         NEW a \in DOMAIN audit' \ DOMAIN audit,
         NEW i \in DOMAIN audit, NEW draft,
         audit[i] = Drafted(line.iteration, draft), Permitted(draft),
         Backed' \subseteq Backed \cup {draft.task}
  PROVE  Assigned'
<1>1. CASE draft.task \in Backed BY <1>1, StaysAssigned DEF GraphInv
<1>2. CASE draft.task \notin Backed
  <2>1. PICK f \in Injection(Backed, DOMAIN audit) : \A x \in Backed : Approves(f[x], x)
    BY DEF GraphInv, Assigned
  <2>0. PICK g : g = [x \in Backed' |-> IF x = draft.task THEN a ELSE f[x]] OBVIOUS
  <2>2. \A x \in Backed' : x # draft.task =>
          x \in Backed /\ g[x] = f[x] /\ f[x] \in DOMAIN audit /\ Approves(f[x], x)
    BY <2>1, <2>0 DEF Injection
  <2>3. g \in [Backed' -> DOMAIN audit'] BY <2>2, <2>0 DEF Appended
  <2>4. g \in Injection(Backed', DOMAIN audit')
    BY <2>1, <2>2, <2>3, <2>0 DEF Injection, IsInjective
  <2>5. ASSUME NEW x \in Backed', x # draft.task PROVE Approves(g[x], x)'
    <3>1. PICK c \in DOMAIN audit : c = g[x] BY <2>2, <2>5
    <3>2. Approves(c, x)' BY <2>2, <2>5, <3>1, ApprovalStays
    <3> QED BY <3>1, <3>2
  <2>6. Approves(a, draft.task)'
    <3>1. audit'[a] = line /\ a \in Of("INVIGILATOR_CHECKED")' BY DEF Appended, Of
    <3>2. i < a /\ audit'[i] = audit[i] /\ i \in DOMAIN audit' /\ audit \in Seq(Lines)
          /\ a \in Nat
      BY DEF Appended, GraphInv, GraphTypeOK
    <3>3. i \in 1..(a - 1) /\ i \in Of("WORKER_DRAFT_CREATED")'
          /\ audit'[i].task_draft = draft /\ audit'[i].iteration = line.iteration
      BY <3>2 DEF Of, Drafted
    <3>4. ASSUME NEW j \in DOMAIN audit', audit'[j] = Signed(draft.task) PROVE FALSE
      <4>1. audit'[j].event = "PAYLOAD_SIGNED" /\ audit'[j].task_id = draft.task
        BY <3>4 DEF Signed
      <4>2. j \in DOMAIN audit /\ audit[j] = audit'[j] BY <4>1 DEF Appended
      <4> QED BY <1>2, <4>1, <4>2 DEF Backed, SignedTasks, Of
    <3>5. audit'[i].task_draft.task = draft.task /\ Permitted(audit'[i].task_draft) BY <3>3
    <3>6. audit'[a].approved /\ audit'[i].iteration = audit'[a].iteration BY <3>1, <3>3
    <3> QED BY <3>1, <3>3, <3>4, <3>5, <3>6 DEF Approves
  <2>7. ASSUME NEW x \in Backed' PROVE Approves(g[x], x)'
    <3>1. CASE x = draft.task
      <4>1. g[x] = a BY <2>0, <2>7, <3>1
      <4> QED BY <2>6, <3>1, <4>1
    <3>2. CASE x # draft.task BY <2>5, <2>7, <3>2
    <3> QED BY <3>1, <3>2
  <2> QED BY <2>4, <2>7 DEF Assigned
<1> QED BY <1>1, <1>2

\* A session does not go back to a task it is past.
LEMMA EndedStays ==
  ASSUME GraphInv, NEW s \in Sessions, NEW state \in AgentState, Becomes(s, state),
         \/ state.iteration > sess[s].iteration
         \/ /\ state.iteration = sess[s].iteration
            /\ state.step \in {"check", "sign", "execute"} =>
                 sess[s].step \in {"check", "sign", "execute"},
         NEW x \in TaskIds, Ended(x)
  PROVE  Ended(x)'
<1>1. sess \in [Sessions -> AgentState] /\ sess' = [sess EXCEPT ![s] = state]
  BY DEF GraphInv, GraphTypeOK, Becomes
<1>2. x[1] \in Sessions /\ x[2] \in Nat BY DEF TaskIds
<1>3. sess[s].iteration \in Nat /\ state.iteration \in Nat BY <1>1 DEF AgentState
<1>4. CASE x[1] = s
  <2>1. sess'[x[1]] = state BY <1>1, <1>4
  <2> QED BY <1>2, <1>3, <1>4, <2>1 DEF Ended
<1>5. CASE x[1] # s
  <2>1. sess'[x[1]] = sess[x[1]] BY <1>1, <1>2, <1>5
  <2> QED BY <2>1 DEF Ended
<1> QED BY <1>4, <1>5

\* A step that executes nothing.
LEMMA StillOnce ==
  ASSUME GraphInv, NEW line \in Lines, Appended(line),
         line.event # "TASK_EXECUTED" \/ UNCHANGED audit,
         \A x \in TaskIds : Ended(x) => Ended(x)'
  PROVE  RunsOnce'
<1>1. ASSUME NEW k \in Of("TASK_EXECUTED")'
      PROVE  k \in Of("TASK_EXECUTED") /\ audit'[k] = audit[k] /\ audit[k].task_id \in TaskIds
  <2>1. k \in DOMAIN audit' /\ audit'[k].event = "TASK_EXECUTED" BY <1>1 DEF Of
  <2>2. k \in DOMAIN audit /\ audit'[k] = audit[k] BY <2>1 DEF Appended
  <2>3. audit[k] \in Lines BY <2>2 DEF GraphInv, GraphTypeOK
  <2> QED BY <2>1, <2>2, <2>3 DEF Of, Lines
<1>2. ASSUME NEW k \in Of("TASK_EXECUTED")'
      PROVE  /\ Ended(audit[k].task_id)'
             /\ \E j \in 1..(k - 1) : audit'[j] = Signed(audit[k].task_id)
  <2>1. PICK x \in TaskIds : x = audit[k].task_id BY <1>1, <1>2
  <2>2. Ended(x) /\ \E j \in 1..(k - 1) : audit[j] = Signed(x)
    BY <1>1, <1>2, <2>1 DEF GraphInv, RunsOnce
  <2>3. \A j \in 1..(k - 1) : audit'[j] = audit[j]
    <3>1. k \in DOMAIN audit /\ audit \in Seq(Lines) BY <1>1, <1>2 DEF GraphInv, GraphTypeOK, Of
    <3>2. \A j \in 1..(k - 1) : j \in DOMAIN audit BY <3>1
    <3> QED BY <3>2 DEF Appended
  <2>4. Ended(x)' BY <2>2
  <2>5. audit'[k].task_id = x BY <1>1, <1>2, <2>1
  <2> QED BY <2>1, <2>2, <2>3, <2>4, <2>5 DEF Ended
<1>3. ASSUME NEW k \in Of("TASK_EXECUTED")'
      PROVE  /\ Ended(audit[k].task_id)'
             /\ \E j \in 1..(k - 1) : (audit[j] = Signed(audit[k].task_id))'
  BY <1>1, <1>2 DEF Ended, Signed
<1>4. ASSUME NEW k \in Of("TASK_EXECUTED")', NEW m \in Of("TASK_EXECUTED")',
             audit'[m].task_id = audit'[k].task_id
      PROVE  m = k
  <2>1. /\ m \in Of("TASK_EXECUTED") /\ k \in Of("TASK_EXECUTED")
        /\ audit[m].task_id = audit[k].task_id
    BY <1>1, <1>4
  <2> QED BY <2>1 DEF GraphInv, RunsOnce
<1> QED BY <1>3, <1>4 DEF RunsOnce

\* The steps that write nothing leave no draft on its way.
LEMMA QuietSteps ==
  ASSUME GraphInv, NEW s \in Sessions, NEW state \in AgentState, Becomes(s, state),
         state.step \notin {"check", "sign", "execute"},
         state.iteration = sess[s].iteration,
         UNCHANGED <<goal, audit>>, aborts' \in 0..MaxAborts
  PROVE  GraphInv'
<1>0. sess \in [Sessions -> AgentState] /\ sess' = [sess EXCEPT ![s] = state]
      /\ audit \in Seq(Lines)
  BY DEF GraphInv, GraphTypeOK, Becomes
<1>1. PICK line \in Lines : line.event = "INVIGILATOR_CHECKED"
  <2>1. Checked(0, TRUE, "none") \in Lines BY DEF Lines, Checked, Reasons
  <2> QED BY <2>1 DEF Checked
<1>2. Appended(line) BY <1>0 DEF Appended
<1>3. OnItsWay(s)' BY <1>0 DEF OnItsWay, At
<1>4. GraphTypeOK' /\ \A t \in Sessions : OnItsWay(t)' BY <1>2, <1>3, SessionSteps
<1>5. Backed' \subseteq Backed BY <1>1, <1>2, BackedGrows
<1>6. Assigned' BY <1>2, <1>5, StaysAssigned DEF GraphInv
<1>7. RunsOnce' BY <1>2, EndedStays, StillOnce
<1> QED BY <1>4, <1>6, <1>7 DEF GraphInv

\* The worker drafts.
LEMMA DraftStep == ASSUME GraphInv, NEW s \in Sessions, DraftTask(s) PROVE GraphInv'
<1>0. sess[s] \in AgentState /\ sess \in [Sessions -> AgentState] /\ audit \in Seq(Lines)
      /\ goal \in [Sessions -> [kind : Kinds, target : Targets]] /\ aborts \in 0..MaxAborts
  BY DEF GraphInv, GraphTypeOK
<1> DEFINE n == sess[s].iteration + 1
           draft == [task |-> <<s, n>>, kind |-> goal[s].kind, target |-> DraftTarget(s)]
           state == [sess[s] EXCEPT !.step = "check", !.status = "working",
                                    !.iteration = n, !.draft = draft]
           line == Drafted(n, draft)
<1>1. At(s, "work") /\ Becomes(s, state) /\ Log(line) /\ UNCHANGED <<goal, aborts>>
  BY DEF DraftTask
<1>2. n \in Nat /\ n > sess[s].iteration BY <1>0 DEF AgentState
<1>3. draft \in Draft /\ draft.task = <<s, n>>
  BY <1>0, <1>2 DEF Draft, DraftTarget, Targets, TaskIds
<1> HIDE DEF n, draft
<1>4. /\ state \in AgentState /\ state.step = "check" /\ state.iteration = n
      /\ state.draft = draft
  BY <1>0, <1>2, <1>3 DEF AgentState
<1>5. line \in Lines /\ line.event = "WORKER_DRAFT_CREATED" BY <1>2, <1>3 DEF Lines, Drafted
<1> HIDE DEF state, line
<1>6. Appended(line) /\ \E i \in DOMAIN audit' : audit'[i] = line BY <1>0, <1>1, <1>5, Writes
<1>7. sess'[s] = state BY <1>0, <1>1 DEF Becomes
<1>8. OnItsWay(s)' BY <1>3, <1>4, <1>6, <1>7 DEF OnItsWay, At, line
<1>9. GraphTypeOK' /\ \A t \in Sessions : OnItsWay(t)'
  BY <1>0, <1>1, <1>4, <1>5, <1>6, <1>8, SessionSteps
<1>10. Backed' \subseteq Backed BY <1>1, <1>4, <1>5, <1>6, BackedGrows
<1>11. Assigned' BY <1>6, <1>10, StaysAssigned DEF GraphInv
<1>12. RunsOnce' BY <1>1, <1>2, <1>4, <1>5, <1>6, EndedStays, StillOnce
<1> QED BY <1>9, <1>11, <1>12 DEF GraphInv

\* The invigilator judges: an approval is the one of the draft it looked at.
LEMMA CheckStep == ASSUME GraphInv, NEW s \in Sessions, Invigilate(s) PROVE GraphInv'
<1>0. sess[s] \in AgentState /\ sess \in [Sessions -> AgentState] /\ audit \in Seq(Lines)
      /\ aborts \in 0..MaxAborts
  BY DEF GraphInv, GraphTypeOK
<1> DEFINE why == Verdict(s)
           judged == Judged(s, why)
           state == IF why = "none" THEN [judged EXCEPT !.step = "sign"] ELSE Loop(judged)
           line == Checked(sess[s].iteration, why = "none", why)
<1>1. At(s, "check") /\ Becomes(s, state) /\ Log(line) /\ UNCHANGED <<goal, aborts>>
  BY DEF Invigilate
<1>2. why \in Reasons /\ (why = "none" => Permitted(sess[s].draft))
  BY DEF Verdict, Reasons
<1> HIDE DEF why
<1>3. /\ judged \in AgentState /\ judged.draft = sess[s].draft
      /\ judged.iteration = sess[s].iteration
  BY <1>0, <1>2 DEF AgentState, Judged
<1> HIDE DEF judged
<1>4. /\ state \in AgentState /\ state.draft = sess[s].draft
      /\ state.iteration = sess[s].iteration
      /\ state.step \in {"sign", "work", "finish"}
      /\ state.step = "sign" => why = "none"
  BY <1>3 DEF Loop, AgentState
<1>5. /\ line \in Lines /\ line.event = "INVIGILATOR_CHECKED"
      /\ line.iteration = sess[s].iteration /\ line.approved = (why = "none")
  BY <1>0, <1>2 DEF Lines, Checked, AgentState
<1> HIDE DEF state, line
<1>6. Appended(line) BY <1>0, <1>1, <1>5, Writes
<1>7. PICK a \in DOMAIN audit' \ DOMAIN audit : audit'[a] = line
  BY <1>0, <1>1, <1>5, Writes
<1>8. sess'[s] = state BY <1>0, <1>1 DEF Becomes
<1>9. sess[s].step = "check" /\ sess[s].draft.task = <<s, sess[s].iteration>>
  BY <1>1 DEF GraphInv, OnItsWay, At
<1>10. OnItsWay(s)' BY <1>4, <1>8, <1>9 DEF OnItsWay, At
<1>11. GraphTypeOK' /\ \A t \in Sessions : OnItsWay(t)'
  BY <1>0, <1>1, <1>4, <1>5, <1>6, <1>10, SessionSteps
<1>12. Assigned'
  <2>1. CASE why = "none"
    <3>1. PICK i \in DOMAIN audit : audit[i] = Drafted(sess[s].iteration, sess[s].draft)
      BY <1>1 DEF GraphInv, OnItsWay
    <3>2. Backed' \subseteq Backed \cup {sess[s].draft.task}
      BY <1>1, <1>4, <1>5, <1>6, BackedGrows
    <3> QED BY <1>2, <1>5, <1>6, <1>7, <2>1, <3>1, <3>2, NewlyAssigned
  <2>2. CASE why # "none"
    <3>1. Backed' \subseteq Backed BY <1>1, <1>4, <1>5, <1>6, <2>2, BackedGrows
    <3> QED BY <1>6, <3>1, StaysAssigned DEF GraphInv
  <2> QED BY <2>1, <2>2
<1>13. RunsOnce' BY <1>1, <1>4, <1>5, <1>6, <1>9, EndedStays, StillOnce
<1> QED BY <1>11, <1>12, <1>13 DEF GraphInv

\* Layer 4 signs a task that has its approval.
LEMMA SignStep == ASSUME GraphInv, NEW s \in Sessions, Sign(s) PROVE GraphInv'
<1>0. sess[s] \in AgentState /\ sess \in [Sessions -> AgentState] /\ audit \in Seq(Lines)
      /\ aborts \in 0..MaxAborts
  BY DEF GraphInv, GraphTypeOK
<1> DEFINE state == [sess[s] EXCEPT !.step = "execute", !.status = "executing",
                                    !.signed = sess[s].draft]
           line == Signed(sess[s].draft.task)
<1>1. At(s, "sign") /\ Becomes(s, state) /\ Log(line) /\ UNCHANGED <<goal, aborts>>
  BY DEF Sign
<1>2. sess[s].step = "sign" /\ sess[s].draft.task = <<s, sess[s].iteration>>
  BY <1>1 DEF GraphInv, OnItsWay, At
<1>3. /\ state \in AgentState /\ state.step = "execute"
      /\ state.iteration = sess[s].iteration /\ state.draft = sess[s].draft
  BY <1>0 DEF AgentState
<1>4. /\ line \in Lines /\ line.event = "PAYLOAD_SIGNED"
      /\ line.task_id = sess[s].draft.task
  BY <1>0, <1>2 DEF Lines, Signed, TaskIds, AgentState
<1> HIDE DEF state, line
<1>5. Appended(line) /\ \E j \in DOMAIN audit' : audit'[j] = line BY <1>0, <1>1, <1>4, Writes
<1>6. sess'[s] = state BY <1>0, <1>1 DEF Becomes
<1>7. OnItsWay(s)' BY <1>2, <1>3, <1>5, <1>6 DEF OnItsWay, At, line, Signed
<1>8. GraphTypeOK' /\ \A t \in Sessions : OnItsWay(t)'
  BY <1>0, <1>1, <1>3, <1>4, <1>5, <1>7, SessionSteps
<1>9. sess[s].draft.task \in Backed BY <1>2 DEF Backed
<1>10. Backed' \subseteq Backed BY <1>1, <1>3, <1>4, <1>5, <1>9, BackedGrows
<1>11. Assigned' BY <1>5, <1>10, StaysAssigned DEF GraphInv
<1>12. RunsOnce' BY <1>1, <1>2, <1>3, <1>4, <1>5, EndedStays, StillOnce
<1> QED BY <1>8, <1>11, <1>12 DEF GraphInv

\* Layer 2 executes a task that was signed and has not run.
LEMMA ExecuteStep ==
  ASSUME GraphInv, NEW s \in Sessions, Execute(s), sess[s].signed = sess[s].draft
  PROVE  GraphInv'
<1>0. sess[s] \in AgentState /\ sess \in [Sessions -> AgentState] /\ audit \in Seq(Lines)
      /\ aborts \in 0..MaxAborts
  BY DEF GraphInv, GraphTypeOK
<1> DEFINE state == [sess[s] EXCEPT !.step = "evaluate", !.result = "completed"]
           line == Executed(sess[s].draft.task)
<1>1. At(s, "execute") /\ Becomes(s, state) /\ Log(line) /\ UNCHANGED <<goal, aborts>>
  BY DEF Execute
<1>x. PICK x : x = sess[s].draft.task OBVIOUS
<1>2. /\ sess[s].step = "execute" /\ x = <<s, sess[s].iteration>>
      /\ \E j \in DOMAIN audit : audit[j] = Signed(x)
  BY <1>1, <1>x DEF GraphInv, OnItsWay, At
<1>3. /\ state \in AgentState /\ state.step = "evaluate"
      /\ state.iteration = sess[s].iteration
  BY <1>0 DEF AgentState
<1>4. /\ line \in Lines /\ line.event = "TASK_EXECUTED" /\ line.task_id = x
      /\ x \in TaskIds /\ x[1] = s /\ x[2] = sess[s].iteration
  BY <1>0, <1>2, <1>x DEF Lines, Executed, TaskIds, AgentState
<1> HIDE DEF state, line
<1>5. Appended(line) BY <1>0, <1>1, <1>4, Writes
<1>6. sess'[s] = state BY <1>0, <1>1 DEF Becomes
<1>7. OnItsWay(s)' BY <1>3, <1>6 DEF OnItsWay, At
<1>8. GraphTypeOK' /\ \A t \in Sessions : OnItsWay(t)'
  BY <1>0, <1>1, <1>3, <1>4, <1>5, <1>7, SessionSteps
<1>9. Backed' \subseteq Backed BY <1>1, <1>3, <1>4, <1>5, BackedGrows
<1>10. Assigned' BY <1>5, <1>9, StaysAssigned DEF GraphInv
<1>11. \A y \in TaskIds : Ended(y) => Ended(y)' BY <1>1, <1>2, <1>3, EndedStays
<1>12. ~Ended(x) /\ Ended(x)' BY <1>0, <1>2, <1>3, <1>4, <1>6 DEF Ended, AgentState
<1>13. ASSUME NEW k \in Of("TASK_EXECUTED"), NEW y, y = audit[k].task_id
       PROVE  y \in TaskIds /\ Ended(y) /\ y # x
  <2>1. k \in DOMAIN audit /\ audit[k].event = "TASK_EXECUTED" BY <1>13 DEF Of
  <2>2. audit[k] \in Lines BY <1>0, <2>1
  <2>3. y \in TaskIds BY <1>13, <2>1, <2>2 DEF Lines
  <2>4. Ended(y) BY <1>13 DEF GraphInv, RunsOnce, Ended
  <2> QED BY <1>12, <2>3, <2>4
<1>14. ASSUME NEW k \in Of("TASK_EXECUTED")'
       PROVE  /\ Ended(audit[k].task_id)'
              /\ \E j \in 1..(k - 1) : audit'[j] = Signed(audit'[k].task_id)
              /\ \A m \in Of("TASK_EXECUTED")' :
                   audit'[m].task_id = audit'[k].task_id => m = k
  <2>1. k \in DOMAIN audit' /\ audit'[k].event = "TASK_EXECUTED" BY <1>14 DEF Of
  <2>2. \A m \in Of("TASK_EXECUTED")' :
          \/ m \in Of("TASK_EXECUTED") /\ audit'[m] = audit[m]
          \/ m \notin DOMAIN audit /\ audit'[m].task_id = x
    BY <1>4, <1>5 DEF Of, Appended
  <2>3. CASE k \in Of("TASK_EXECUTED")
    <3>1. k \in DOMAIN audit /\ audit'[k] = audit[k] BY <1>5, <2>3 DEF Of, Appended
    <3>2. PICK y \in TaskIds : y = audit[k].task_id /\ Ended(y) /\ y # x BY <1>13, <2>3
    <3>3. Ended(y)' BY <1>11, <3>2
    <3>4. \E j \in 1..(k - 1) : audit[j] = Signed(y)
      BY <2>3, <3>2 DEF GraphInv, RunsOnce
    <3>5. \A j \in 1..(k - 1) : audit'[j] = audit[j]
      <4>1. \A j \in 1..(k - 1) : j \in DOMAIN audit BY <1>0, <3>1
      <4> QED BY <1>5, <4>1 DEF Appended
    <3>6. \A m \in Of("TASK_EXECUTED") : audit[m].task_id = y => m = k
      BY <2>3, <3>2 DEF GraphInv, RunsOnce
    <3> QED BY <2>2, <3>1, <3>2, <3>3, <3>4, <3>5, <3>6 DEF Ended
  <2>4. CASE k \notin Of("TASK_EXECUTED")
    <3>1. k \notin DOMAIN audit /\ audit'[k].task_id = x BY <1>14, <2>2, <2>4
    <3>2. PICK j \in DOMAIN audit : audit[j] = Signed(x) BY <1>2
    <3>3. j < k /\ audit'[j] = Signed(x) BY <1>5, <2>1, <3>1, <3>2 DEF Appended
    <3>4. j \in 1..(k - 1)
      <4>1. j \in Nat /\ j >= 1 BY <1>0, <3>2
      <4>2. k \in Nat BY <1>5, <2>1 DEF Appended
      <4> QED BY <3>3, <4>1, <4>2
    <3>5. ASSUME NEW m \in Of("TASK_EXECUTED")', audit'[m].task_id = x PROVE m = k
      <4>1. m \notin Of("TASK_EXECUTED") \/ audit'[m] # audit[m] BY <1>13, <3>5
      <4>2. m \notin DOMAIN audit /\ m \in DOMAIN audit' BY <2>2, <3>5, <4>1 DEF Of
      <4> QED BY <1>5, <2>1, <3>1, <4>2 DEF Appended
    <3> QED BY <1>12, <3>1, <3>3, <3>4, <3>5 DEF Ended
  <2> QED BY <2>3, <2>4
<1>15. RunsOnce' BY <1>14 DEF RunsOnce, Ended, Signed
<1> QED BY <1>8, <1>10, <1>15 DEF GraphInv

\* The steps that write nothing.
LEMMA SilentSteps ==
  ASSUME GraphInv, NEW s \in Sessions,
         \/ StartSession(s) \/ Evaluate(s) \/ FinishSession(s) \/ Abort(s)
         \/ Execute(s) /\ sess[s].signed # sess[s].draft
  PROVE  GraphInv'
<1>0. sess[s] \in AgentState /\ aborts \in 0..MaxAborts /\ MaxAborts \in Nat
  BY GraphAssumption DEF GraphInv, GraphTypeOK
<1>1. ASSUME NEW state \in AgentState, state.iteration = sess[s].iteration
      PROVE  /\ Loop(state) \in AgentState /\ Loop(state).iteration = sess[s].iteration
             /\ Loop(state).step \notin {"check", "sign", "execute"}
  BY <1>1 DEF Loop, AgentState
<1> DEFINE over == [sess[s] EXCEPT !.step = "over"]
<1>2. over \in AgentState /\ over.iteration = sess[s].iteration /\ over.step = "over"
  BY <1>0 DEF AgentState
<1> HIDE DEF over
<1>3. CASE StartSession(s)
  <2>1. Becomes(s, Loop(sess[s])) /\ UNCHANGED <<goal, audit, aborts>>
    BY <1>3 DEF StartSession
  <2> QED BY <1>0, <1>1, <2>1, QuietSteps
<1>4. CASE Evaluate(s)
  <2> DEFINE judged == [sess[s] EXCEPT !.status =
                          IF sess[s].result = "completed" THEN "completed" ELSE "rejected"]
  <2>1. Becomes(s, Loop(judged)) /\ UNCHANGED <<goal, audit, aborts>>
    BY <1>4 DEF Evaluate
  <2>2. judged \in AgentState /\ judged.iteration = sess[s].iteration
    BY <1>0 DEF AgentState
  <2> HIDE DEF judged
  <2> QED BY <1>0, <1>1, <2>1, <2>2, QuietSteps
<1>5. CASE FinishSession(s) \/ Abort(s) \/ (Execute(s) /\ sess[s].signed # sess[s].draft)
  <2>1. Becomes(s, over) /\ UNCHANGED <<goal, audit>> /\ aborts' \in 0..MaxAborts
    BY <1>0, <1>5 DEF FinishSession, Abort, Execute, over
  <2> QED BY <1>2, <2>1, QuietSteps
<1> QED BY <1>3, <1>4, <1>5

\* The invariant of the agent sessions.
LEMMA GraphInvariance == GraphSpec => []GraphInv
<1>1. GraphInv /\ [GraphNext]_graphVars => GraphInv'
  <2> SUFFICES ASSUME GraphInv, [GraphNext]_graphVars PROVE GraphInv'
    OBVIOUS
  <2>1. ASSUME NEW s \in Sessions, Advance(s) \/ Abort(s) PROVE GraphInv'
    BY <2>1, SilentSteps, DraftStep, CheckStep, SignStep, ExecuteStep DEF Advance
  <2>2. CASE UNCHANGED graphVars
    <3> USE <2>2 DEF graphVars
    <3>1. GraphTypeOK' BY DEF GraphInv, GraphTypeOK
    <3>2. \A s \in Sessions : OnItsWay(s)' BY DEF GraphInv, OnItsWay, At, Drafted, Signed
    <3>3. Assigned'
      <4>1. Backed' = Backed BY DEF Backed, SignedTasks, Of
      <4>2. \A a, x : Approves(a, x) => Approves(a, x)' BY DEF Approves, Of
      <4> QED BY <4>1, <4>2 DEF GraphInv, Assigned
    <3>4. RunsOnce' BY DEF GraphInv, RunsOnce, Of, Ended, Signed
    <3> QED BY <3>1, <3>2, <3>3, <3>4 DEF GraphInv
  <2> QED BY <2>1, <2>2 DEF GraphNext
<1> QED BY GraphInitInv, <1>1, PTL DEF GraphSpec

\* The audit file of all sessions shows an approval for every signed task, of its
\* iteration and at its place, no approval for two, and no task that ran twice or
\* unsigned, whatever was refused, redrafted or cut short in between (run,
\* InvigilatorNode, execute_task).
THEOREM ExecutionsApproved == GraphSpec => []ExecutedWasApproved
<1>1. GraphInv => ExecutedWasApproved
  <2> SUFFICES ASSUME GraphInv PROVE ExecutedWasApproved
    OBVIOUS
  <2>1. PICK f \in Injection(Backed, DOMAIN audit) : \A x \in Backed : Approves(f[x], x)
    BY DEF GraphInv, Assigned
  <2> DEFINE g == [x \in SignedTasks |-> f[x]]
  <2>2. SignedTasks \subseteq Backed BY DEF Backed
  <2>3. g \in Injection(SignedTasks, DOMAIN audit)
    BY <2>1, <2>2 DEF Injection, IsInjective
  <2>4. \A x \in SignedTasks : Approves(g[x], x) BY <2>1, <2>2
  <2> HIDE DEF g
  <2> QED BY <2>3, <2>4 DEF ExecutedWasApproved, GraphInv, RunsOnce
<1> QED BY <1>1, GraphInvariance, PTL

-------------------------------------------------------------------------------
(* The task store. Row and trail of a task change together, so at each step  *)
(* of a call both are known (Committed), and so is what the open transaction *)
(* would write (OpenWrite).                                                  *)

\* What is committed of a task: nothing, its creation, or that and the outcome its call
\* decided on.
Unwritten(q) == rows[q] = NoTask /\ trail[q] = <<>>
Created(q) ==
  /\ rows[q] = [status |-> "INGRESS", tool |-> "none"]
  /\ Len(trail[q]) = 1 /\ trail[q][1] = "INGRESS"
Decided(q) ==
  \/ task[q].status = "REJECTED"
  \/ task[q].status = "SUCCESS" /\ task[q].tool \in ALLOWED_TOOLS
Closed(q) ==
  /\ Decided(q)
  /\ rows[q] = [status |-> task[q].status, tool |-> task[q].tool]
  /\ Len(trail[q]) = 2 /\ trail[q][1] = "INGRESS" /\ trail[q][2] = task[q].status

\* How far the store is at each step of a request's call.
Committed(q) ==
  /\ task[q].step = "create" => Unwritten(q) /\ task[q] = Ready
  /\ task[q].step \in {"parse", "gate", "update"} => Created(q)
  /\ task[q].step = "update" => Decided(q)
  /\ task[q].step = "answer" => Closed(q)
  /\ task[q].step = "over" => Unwritten(q) \/ Created(q) \/ Closed(q)
  /\ task[q].answer # "none" =>
       task[q].step = "over" /\ Closed(q) /\ task[q].answer = task[q].status
OpenWrite ==
  writer # Nobody =>
    /\ task[writer].step \in {"create", "update"}
    /\ draftRow = [status |-> task[writer].status, tool |-> task[writer].tool]
StoreInv == StoreTypeOK /\ OpenWrite /\ \A q \in Inquiries : Committed(q)

\* Nothing is stored at the start.
LEMMA StoreInitInv == StoreInit => StoreInv
<1> SUFFICES ASSUME StoreInit PROVE StoreInv
  OBVIOUS
<1> USE StoreAssumption DEF StoreInit, Ready, NoTask
<1>1. StoreTypeOK BY DEF StoreTypeOK
<1>2. \A q \in Inquiries : Committed(q) BY DEF Committed, Unwritten
<1> QED BY <1>1, <1>2 DEF StoreInv, OpenWrite

StoreCall ==
  [step : {"create", "parse", "gate", "update", "answer", "over"},
   status : {"INGRESS"} \cup Outcomes, tool : Tools \cup {"none"},
   answer : {"none"} \cup Outcomes]

\* A call that goes on changes its own task, and of the store the lock at most.
LEMMA CallGoesOn ==
  ASSUME StoreInv, NEW q \in Inquiries, NEW call \in StoreCall,
         task' = [task EXCEPT ![q] = call], UNCHANGED <<rows, trail>>,
         mishaps' \in 0..MaxMishaps, writer' \in Inquiries \cup {Nobody},
         Committed(q)', OpenWrite'
  PROVE  StoreInv'
<1>1. task \in [Inquiries -> StoreCall] BY DEF StoreInv, StoreTypeOK, StoreCall
<1>2. \A p \in Inquiries \ {q} : task'[p] = task[p] BY <1>1
<1>3. StoreTypeOK' BY <1>1 DEF StoreInv, StoreTypeOK, StoreCall
<1>4. \A p \in Inquiries \ {q} : Committed(p)'
  BY <1>2 DEF StoreInv, Committed, Unwritten, Created, Decided, Closed
<1> QED BY <1>3, <1>4 DEF StoreInv

\* The steps of a call between its transactions.
LEMMA CallStep ==
  ASSUME StoreInv, NEW q \in Inquiries,
         BeginWrite(q) \/ ParseIntent(q) \/ Gate(q) \/ Answer(q) \/ Mishap(q)
  PROVE  StoreInv'
<1> DEFINE now == task[q]
<1> USE StoreAssumption
<1>1. task \in [Inquiries -> StoreCall] /\ mishaps \in 0..MaxMishaps
      /\ writer \in Inquiries \cup {Nobody} /\ Committed(q) /\ OpenWrite
  BY DEF StoreInv, StoreTypeOK, StoreCall
<1>2. now \in StoreCall BY <1>1
<1> HIDE DEF now
<1>3. CASE BeginWrite(q)
  <2>1. task' = [task EXCEPT ![q] = now] /\ UNCHANGED <<task, rows, trail, mishaps>>
        /\ writer' = q
    BY <1>1, <1>3 DEF BeginWrite, now
  <2>2. Committed(q)'
    BY <1>1, <2>1 DEF Committed, Unwritten, Created, Decided, Closed
  <2>3. OpenWrite' BY <1>3, <2>1 DEF BeginWrite, OpenWrite
  <2> QED BY <1>1, <1>2, <2>1, <2>2, <2>3, CallGoesOn
<1>4. CASE ParseIntent(q)
  <2>1. PICK t \in Tools : task' = [task EXCEPT ![q].step = "gate", ![q].tool = t]
    BY <1>4 DEF ParseIntent
  <2>2. now.step = "parse" /\ UNCHANGED <<rows, trail, writer, draftRow, mishaps>>
    BY <1>4 DEF ParseIntent, now
  <2> DEFINE next == [now EXCEPT !.step = "gate", !.tool = t]
  <2>3. next \in StoreCall /\ next.step = "gate" /\ next.answer = now.answer
    BY <1>2 DEF StoreCall
  <2>4. task' = [task EXCEPT ![q] = next] BY <1>1, <2>1 DEF now
  <2> HIDE DEF next
  <2>5. task'[q] = next BY <1>1, <2>4
  <2>6. Committed(q)' BY <1>1, <2>2, <2>3, <2>5 DEF Committed, Created, now
  <2>7. OpenWrite' BY <1>1, <2>2, <2>4 DEF OpenWrite, now
  <2> QED BY <1>1, <2>2, <2>3, <2>4, <2>6, <2>7, CallGoesOn
<1>5. CASE Gate(q)
  <2> DEFINE status == IF now.tool \in ALLOWED_TOOLS THEN "SUCCESS" ELSE "REJECTED"
             next == [now EXCEPT !.step = "update", !.status = status]
  <2>1. now.step = "gate" /\ UNCHANGED <<rows, trail, writer, draftRow, mishaps>>
        /\ task' = [task EXCEPT ![q].step = "update", ![q].status = status]
    BY <1>5 DEF Gate, now
  <2>2. status \in Outcomes /\ (status = "SUCCESS" => now.tool \in ALLOWED_TOOLS)
    BY DEF Outcomes
  <2> HIDE DEF status
  <2>3. next \in StoreCall /\ next.step = "update" /\ next.answer = now.answer
        /\ next.status = status /\ next.tool = now.tool
    BY <1>2, <2>2 DEF StoreCall
  <2>4. task' = [task EXCEPT ![q] = next] BY <1>1, <2>1 DEF now
  <2> HIDE DEF next
  <2>5. task'[q] = next BY <1>1, <2>4
  <2>6. Committed(q)'
    BY <1>1, <2>1, <2>2, <2>3, <2>5 DEF Committed, Created, Decided, Outcomes, now
  <2>7. OpenWrite' BY <1>1, <2>1, <2>4 DEF OpenWrite, now
  <2> QED BY <1>1, <2>1, <2>3, <2>4, <2>6, <2>7, CallGoesOn
<1>6. CASE Answer(q)
  <2> DEFINE next == [now EXCEPT !.step = "over", !.answer = now.status]
  <2>1. now.step = "answer" /\ UNCHANGED <<rows, trail, writer, draftRow, mishaps>>
        /\ task' = [task EXCEPT ![q].step = "over", ![q].answer = now.status]
    BY <1>6 DEF Answer, now
  <2>2. Closed(q) BY <1>1, <2>1 DEF Committed, now
  <2>3. now.status \in Outcomes BY <2>2 DEF Closed, Decided, Outcomes, now
  <2>4. next \in StoreCall /\ next.step = "over" /\ next.answer = now.status
        /\ next.status = now.status /\ next.tool = now.tool
    BY <1>2, <2>3 DEF StoreCall
  <2>5. task' = [task EXCEPT ![q] = next] BY <1>1, <2>1 DEF now
  <2> HIDE DEF next
  <2>6. task'[q] = next BY <1>1, <2>5
  <2>7. Closed(q)' BY <2>1, <2>2, <2>4, <2>6 DEF Closed, Decided, now
  <2>8. Committed(q)' BY <2>4, <2>6, <2>7 DEF Committed
  <2>9. OpenWrite' BY <1>1, <2>1, <2>5 DEF OpenWrite, now
  <2> QED BY <1>1, <2>1, <2>4, <2>5, <2>8, <2>9, CallGoesOn
<1>7. CASE Mishap(q)
  <2> DEFINE next == [now EXCEPT !.step = "over"]
  <2>1. now.step # "over" /\ UNCHANGED <<rows, trail, draftRow>> /\ mishaps < MaxMishaps
        /\ mishaps' = mishaps + 1 /\ writer' = (IF writer = q THEN Nobody ELSE writer)
        /\ task' = [task EXCEPT ![q].step = "over"]
    BY <1>7 DEF Mishap, To, now
  <2>2. next \in StoreCall /\ next.step = "over" /\ next.answer = now.answer
        /\ next.status = now.status /\ next.tool = now.tool
    BY <1>2 DEF StoreCall
  <2>3. task' = [task EXCEPT ![q] = next] BY <1>1, <2>1 DEF now
  <2> HIDE DEF next
  <2>4. task'[q] = next BY <1>1, <2>3
  <2>5. now.answer = "none" /\ (Unwritten(q) \/ Created(q) \/ Closed(q))
    BY <1>1, <1>2, <2>1 DEF Committed, StoreCall, now
  <2>6. Committed(q)'
    BY <2>1, <2>2, <2>4, <2>5 DEF Committed, Unwritten, Created, Closed, Decided, now
  <2>7. OpenWrite' BY <1>1, <2>1, <2>3 DEF OpenWrite
  <2>8. mishaps' \in 0..MaxMishaps /\ writer' \in Inquiries \cup {Nobody}
    BY <1>1, <2>1
  <2> QED BY <2>1, <2>2, <2>3, <2>6, <2>7, <2>8, CallGoesOn
<1> QED BY <1>3, <1>4, <1>5, <1>6, <1>7

\* The commit writes row and audit line of the writer's task.
LEMMA CommitStep ==
  ASSUME StoreInv, NEW q \in Inquiries, CommitWrite(q)
  PROVE  StoreInv'
<1> USE StoreAssumption DEF StoreInv
<1> DEFINE next == IF task[q].step = "create" THEN "parse" ELSE "answer"
<1>1. task' = [task EXCEPT ![q].step = next]
      /\ rows' = [rows EXCEPT ![q] = draftRow]
      /\ trail' = [trail EXCEPT ![q] = Append(trail[q], draftRow.status)]
      /\ writer = q /\ writer' = Nobody /\ UNCHANGED <<draftRow, mishaps>>
  BY DEF CommitWrite, To
<1>2. task[q].step \in {"create", "update"} /\ Committed(q)
      /\ draftRow = [status |-> task[q].status, tool |-> task[q].tool]
  BY <1>1 DEF OpenWrite
<1>3. task[q].status \in {"INGRESS"} \cup Outcomes /\ task[q].tool \in Tools \cup {"none"}
      /\ trail[q] \in Seq({"INGRESS"} \cup Outcomes)
  BY DEF StoreTypeOK
<1>4. rows'[q] = draftRow /\ trail'[q] = Append(trail[q], task[q].status)
      /\ task'[q] = [task[q] EXCEPT !.step = next]
  BY <1>1, <1>2 DEF StoreTypeOK
<1>5. StoreTypeOK'
  <2>1. Append(trail[q], draftRow.status) \in Seq({"INGRESS"} \cup Outcomes) BY <1>2, <1>3
  <2>2. draftRow \in [status : {"absent", "INGRESS"} \cup Outcomes, tool : Tools \cup {"none"}]
    BY <1>2, <1>3
  <2>3. rows' \in [Inquiries -> [status : {"absent", "INGRESS"} \cup Outcomes,
                                 tool : Tools \cup {"none"}]]
    BY <1>1, <2>2 DEF StoreTypeOK
  <2>4. trail' \in [Inquiries -> Seq({"INGRESS"} \cup Outcomes)]
    BY <1>1, <2>1 DEF StoreTypeOK
  <2>5. writer' \in Inquiries \cup {Nobody} /\ mishaps' \in 0..MaxMishaps
    BY <1>1 DEF StoreTypeOK
  <2>6. task \in [Inquiries -> StoreCall] BY DEF StoreTypeOK, StoreCall
  <2>7. [task[q] EXCEPT !.step = next] \in StoreCall BY <2>6 DEF StoreCall
  <2> HIDE DEF next
  <2>8. task' \in [Inquiries -> StoreCall] BY <1>1, <2>6, <2>7
  <2> QED BY <2>3, <2>4, <2>5, <2>8 DEF StoreTypeOK, StoreCall
<1>6. \A p \in Inquiries \ {q} : Committed(p)'
  <2> SUFFICES ASSUME NEW p \in Inquiries \ {q} PROVE Committed(p)'
    OBVIOUS
  <2>1. task'[p] = task[p] /\ rows'[p] = rows[p] /\ trail'[p] = trail[p]
    BY <1>1 DEF StoreTypeOK
  <2> QED BY <2>1 DEF Committed, Unwritten, Created, Decided, Closed
<1>7. Committed(q)'
  <2>1. CASE task[q].step = "create"
    <3>1. task[q] = Ready /\ trail[q] = <<>> BY <1>2, <2>1 DEF Committed, Unwritten
    <3>2. Created(q)' BY <1>2, <1>4, <3>1 DEF Created, Ready
    <3>3. task'[q].step = "parse" /\ task'[q].answer = "none" BY <1>4, <3>1 DEF Ready
    <3> QED BY <3>2, <3>3 DEF Committed
  <2>2. CASE task[q].step = "update"
    <3>1. Decided(q) /\ Len(trail[q]) = 1 /\ trail[q][1] = "INGRESS" /\ task[q].answer = "none"
      BY <1>2, <2>2 DEF Committed, Created
    <3>2. /\ task'[q].step = "answer" /\ task'[q].status = task[q].status
          /\ task'[q].tool = task[q].tool /\ task'[q].answer = "none"
      BY <1>4, <2>2, <3>1 DEF StoreTypeOK
    <3>3. Len(trail'[q]) = 2 /\ trail'[q][1] = "INGRESS" /\ trail'[q][2] = task[q].status
      BY <1>3, <1>4, <3>1
    <3>4. Closed(q)' BY <1>2, <1>4, <3>1, <3>2, <3>3 DEF Closed, Decided
    <3> QED BY <3>2, <3>4 DEF Committed
  <2> QED BY <1>2, <2>1, <2>2
<1> QED BY <1>1, <1>5, <1>6, <1>7 DEF OpenWrite

\* The invariant of the task store.
LEMMA StoreInvariance == StoreSpec => []StoreInv
<1>1. StoreInv /\ [StoreNext]_storeVars => StoreInv'
  <2> SUFFICES ASSUME StoreInv, [StoreNext]_storeVars PROVE StoreInv'
    OBVIOUS
  <2>1. CASE UNCHANGED storeVars
    BY <2>1 DEF storeVars, StoreInv, StoreTypeOK, OpenWrite, Committed, Unwritten, Created,
                Decided, Closed
  <2> QED BY <2>1, CallStep, CommitStep DEF StoreNext
<1> QED BY StoreInitInv, <1>1, PTL DEF StoreSpec

\* The statuses of a task's trail are those its row went through, and an answer that was
\* given is the last of them (create_task, update_task, process_agent_request).
THEOREM TrailsComplete == StoreSpec => []TrailTellsStatus
<1>1. ASSUME StoreInv, NEW q \in Inquiries
      PROVE  Unwritten(q) \/ Created(q) \/ Closed(q)
  BY <1>1 DEF StoreInv, StoreTypeOK, Committed
<1>2. ASSUME StoreInv, NEW q \in Inquiries
      PROVE  /\ trail[q] = <<>> <=> rows[q] = NoTask
             /\ trail[q] # <<>> => /\ trail[q][1] = "INGRESS"
                                   /\ trail[q][Len(trail[q])] = rows[q].status
             /\ rows[q].status = "SUCCESS" => rows[q].tool \in ALLOWED_TOOLS
             /\ task[q].answer # "none" =>
                  rows[q].status = task[q].answer /\ Len(trail[q]) = 2
  <2>1. task[q].answer # "none" => Closed(q) /\ task[q].answer = task[q].status
    BY <1>2 DEF StoreInv, Committed
  <2>2. CASE Unwritten(q) BY <2>1, <2>2 DEF Unwritten, Closed, NoTask
  <2>3. CASE Created(q) BY <2>1, <2>3 DEF Created, Closed, NoTask
  <2>4. CASE Closed(q)
    <3>1. task[q].status \in {"REJECTED", "SUCCESS"} BY <2>4 DEF Closed, Decided
    <3>2. Len(trail[q]) = 2 /\ trail[q][1] = "INGRESS" /\ trail[q][2] = task[q].status
          /\ rows[q].status = task[q].status /\ rows[q].tool = task[q].tool
      BY <2>4 DEF Closed
    <3> QED BY <2>1, <2>4, <3>1, <3>2 DEF Closed, Decided, NoTask
  <2> QED BY <1>1, <1>2, <2>2, <2>3, <2>4
<1>3. StoreInv => TrailTellsStatus BY <1>2 DEF TrailTellsStatus
<1> QED BY <1>3, StoreInvariance, PTL
===============================================================================
