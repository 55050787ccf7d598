------------------------------ MODULE CommitDag ------------------------------
(***************************************************************************)
(* The commit graph of the organizations: a request names the parents of a  *)
(* commit, the service looks them up and later stores the commit with its   *)
(* edges. A SEEDLING starts a background task of the same process, which    *)
(* asks a model and stores a SAPLING under it the same way. Tasks live in   *)
(* memory; their exceptions are logged and nothing else.                    *)
(***************************************************************************)
EXTENDS Integers

CONSTANTS
  Orgs,       \* organization_id
  Projects,   \* project_id
  Handlers,   \* requests the API serves at a time
  MaxNodes,   \* bound: commits
  MaxTries,   \* bound: requests
  MaxFaults   \* bound: exceptions and restarts

ASSUME DagAssumption == MaxNodes \in Nat /\ MaxTries \in Nat /\ MaxFaults \in Nat

VARIABLES
  nodes,   \* commit_nodes with the edges to their parents; ids in the order of commits
  jobs,    \* each handler: the commit it makes, or NoJob
  tries,   \* requests so far
  faults,  \* exceptions and restarts so far
  lost,    \* history: the seedlings whose task failed or was forgotten
  views    \* history: the projects somebody read, with what the answer held

dagVars == <<nodes, jobs, tries, faults, lost, views>>

Ids == 1..MaxNodes
Roles == {"seedling", "sapling", "heartwood"}
NoOrg == "none"
NoJob == [step |-> "idle", org |-> NoOrg, project |-> NoOrg, role |-> "heartwood",
          wanted |-> {}, source |-> 0]

DagInit ==
  /\ nodes = {} /\ jobs = [h \in Handlers |-> NoJob]
  /\ tries = 0 /\ faults = 0 /\ lost = {} /\ views = {}

Stored == {n.id : n \in nodes}
Own(org) == {n.id : n \in {m \in nodes : m.org = org}}
Set(h, job) == jobs' = [jobs EXCEPT ![h] = job]

\* create_commit for the organization of the API key.
Request(h, org, project, role, wanted) ==
  /\ jobs[h] = NoJob /\ tries < MaxTries
  /\ tries' = tries + 1
  /\ Set(h, [step |-> "find", org |-> org, project |-> project, role |-> role,
             wanted |-> wanted, source |-> 0])
  /\ UNCHANGED <<nodes, faults, lost, views>>

\* Mistake, not part of DagSpec: the lookup does not filter by organization.
FindParentsAnywhere(h, repeats) ==
  /\ jobs[h].step = "find"
  /\ IF jobs[h].wanted \subseteq Stored /\ ~repeats
     THEN Set(h, [jobs[h] EXCEPT !.step = "store"])
     ELSE Set(h, NoJob)
  /\ UNCHANGED <<nodes, tries, faults, lost, views>>

\* The rows found must be as many as the ids named, so a list that names a commit of
\* somebody else, an unknown one, or one commit twice is refused.
FindParents(h, repeats) ==
  /\ jobs[h].step = "find"
  /\ repeats => jobs[h].wanted # {} /\ jobs[h].source = 0
  /\ IF jobs[h].wanted \subseteq Own(jobs[h].org) /\ ~repeats
     THEN Set(h, [jobs[h] EXCEPT !.step = "store"])
     ELSE Set(h, NoJob)
  /\ UNCHANGED <<nodes, tries, faults, lost, views>>

\* The commit of the transaction; the answer to a seedling starts its task.
Store(h) ==
  LET job == jobs[h]
      id == CHOOSE i \in Ids : i \notin Stored /\ \A k \in Ids \ Stored : i <= k
  IN /\ job.step = "store" /\ Ids \ Stored # {}
     /\ nodes' = nodes \cup {[id |-> id, org |-> job.org, project |-> job.project,
          role |-> job.role, parents |-> job.wanted, source |-> job.source]}
     /\ Set(h, IF job.role = "seedling"
               THEN [job EXCEPT !.step = "ask", !.source = id] ELSE NoJob)
     /\ UNCHANGED <<tries, faults, lost, views>>

\* Mistake, not part of DagSpec: an answer the provider refused ends the task.
AskModelOnce(h) ==
  /\ jobs[h].step = "ask"
  /\ \/ Set(h, NoJob)
     \/ Set(h, [jobs[h] EXCEPT !.step = "find", !.role = "sapling",
                               !.wanted = {jobs[h].source}])
  /\ UNCHANGED <<nodes, tries, faults, lost, views>>

\* call_llm_provider answers a text in any case, of the model or of the error, and
\* process_seedling_commit goes on with it.
AskModel(h) ==
  /\ jobs[h].step = "ask"
  /\ Set(h, [jobs[h] EXCEPT !.step = "find", !.role = "sapling",
                            !.wanted = {jobs[h].source}])
  /\ UNCHANGED <<nodes, tries, faults, lost, views>>

Tasks == {h \in Handlers : jobs[h].source # 0}

\* A statement raises: 500 to a request, a line in the log for a task.
Raise(h) ==
  /\ jobs[h] # NoJob /\ faults < MaxFaults
  /\ faults' = faults + 1
  /\ lost' = lost \cup {jobs[k].source : k \in Tasks \cap {h}}
  /\ Set(h, NoJob)
  /\ UNCHANGED <<nodes, tries, views>>

\* The process restarts; what it had in memory is gone.
Restart ==
  /\ faults < MaxFaults
  /\ faults' = faults + 1
  /\ lost' = lost \cup {jobs[k].source : k \in Tasks}
  /\ jobs' = [h \in Handlers |-> NoJob]
  /\ UNCHANGED <<nodes, tries, views>>

\* get_project_dag: the commits of a project and the edges to all their parents.
Read(org, project) ==
  LET mine == {n \in nodes : n.org = org /\ n.project = project}
  IN /\ mine # {}
     /\ views' = {[org |-> org, commits |-> {n.id : n \in mine},
          edges |-> UNION {{<<p, n.id>> : p \in n.parents} : n \in mine}]}
     /\ UNCHANGED <<nodes, jobs, tries, faults, lost>>

Work(h) ==
  \/ \E repeats \in BOOLEAN : FindParents(h, repeats)
  \/ Store(h) \/ AskModel(h)

DagNext ==
  \/ Restart
  \/ \E org \in Orgs, project \in Projects : Read(org, project)
  \/ \E h \in Handlers :
       \/ Work(h) \/ Raise(h)
       \/ \E org \in Orgs, project \in Projects, role \in Roles, wanted \in SUBSET Ids :
            Request(h, org, project, role, wanted)

DagSpec == DagInit /\ [][DagNext]_dagVars

-------------------------------------------------------------------------------
(* Properties.                                                               *)

DagNode == [id : Ids, org : Orgs, project : Projects, role : Roles,
            parents : SUBSET Ids, source : 0..MaxNodes]
Job == [step : {"idle", "find", "store", "ask"}, org : Orgs \cup {NoOrg},
        project : Projects \cup {NoOrg}, role : Roles, wanted : SUBSET Ids,
        source : 0..MaxNodes]
DagTypeOK ==
  /\ nodes \subseteq DagNode /\ jobs \in [Handlers -> Job]
  /\ tries \in Nat /\ faults \in Nat /\ lost \subseteq Ids
  /\ views \subseteq [org : Orgs, commits : SUBSET Ids, edges : SUBSET (Ids \X Ids)]

\* Every edge joins two commits of one organization and leads to one stored before,
\* so that the graph has no cycle (create_commit_node).
EdgesStayInside ==
  \A n \in nodes : \A p \in n.parents :
    p < n.id /\ \E m \in nodes : m.id = p /\ m.org = n.org

\* What the task of a seedling stores is a sapling of that seedling alone, in its
\* project, and no seedling gets two of them (process_seedling_commit).
OneSapling ==
  \A n \in nodes : n.source # 0 =>
    /\ n.role = "sapling" /\ n.parents = {n.source}
    /\ \E m \in nodes : m.id = n.source /\ m.role = "seedling" /\ m.project = n.project
    /\ \A o \in nodes : o.source = n.source => o = n

\* A project that is read shows no commit of another organization, not even as the
\* far end of an edge (get_project_dag).
ViewsStayInside ==
  \A v \in views : v.commits \cup {e[1] : e \in v.edges} \subseteq Own(v.org)

DagSound == EdgesStayInside /\ OneSapling /\ ViewsStayInside

\* Unless its task fails or the process restarts, every seedling gets a sapling: again
\* and again none is without (process_seedling_commit, add_task).
Seedlings == {n.id : n \in {m \in nodes : m.role = "seedling"}}
Grown == {n.source : n \in nodes}
SeedlingsGrow == []<>(Seedlings \subseteq Grown \cup lost \/ Stored = Ids)
===============================================================================
