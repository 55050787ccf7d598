------------------------------- MODULE TaskStore -------------------------------
(***************************************************************************)
(* Layer3Orchestrator.process_agent_request over SQLiteStateStore: a task   *)
(* is recorded, its intent parsed by a worker that may be a remote model,   *)
(* its tool looked up in the whitelist, and the outcome recorded. Row and   *)
(* audit line of a task are written in one transaction of a file that       *)
(* several processes share, one writer at a time.                           *)
(***************************************************************************)
EXTENDS Integers, Sequences

CONSTANTS
  Inquiries,  \* requests of users, each a task of its own
  MaxMishaps  \* bound: exceptions, lock timeouts and crashes

VARIABLES
  task,     \* each request: where its call is, what it decided
  rows,     \* task_executions: status and tool of each task, or NoTask
  trail,    \* audit_logs of each task, in order
  writer,   \* the request that holds the write lock of the file, or Nobody
  draftRow, \* what the open transaction has written, not yet committed
  mishaps   \* exceptions, timeouts and crashes so far

storeVars == <<task, rows, trail, writer, draftRow, mishaps>>

ALLOWED_TOOLS == {"query_ledger"}
Tools == ALLOWED_TOOLS \cup {"unauthorized_intent"}
NoTask == [status |-> "absent", tool |-> "none"]
Nobody == "nobody"
ASSUME StoreAssumption == MaxMishaps \in Nat /\ Nobody \notin Inquiries
Outcomes == {"REJECTED", "SUCCESS"}
Ready == [step |-> "create", status |-> "INGRESS", tool |-> "none", answer |-> "none"]

StoreInit ==
  /\ task = [q \in Inquiries |-> Ready]
  /\ rows = [q \in Inquiries |-> NoTask] /\ trail = [q \in Inquiries |-> <<>>]
  /\ writer = Nobody /\ draftRow = NoTask /\ mishaps = 0

To(q, step) == task' = [task EXCEPT ![q].step = step]

\* create_task and update_task begin: the first statement takes the write lock. An
\* update writes the outcome and keeps what COALESCE finds.
BeginWrite(q) ==
  /\ task[q].step \in {"create", "update"} /\ writer = Nobody
  /\ writer' = q
  /\ draftRow' = [status |-> task[q].status, tool |-> task[q].tool]
  /\ UNCHANGED <<task, rows, trail, mishaps>>

\* Mistake, not part of StoreSpec: the row is committed before its audit line.
CommitRowFirst(q) ==
  /\ writer = q
  /\ rows' = [rows EXCEPT ![q] = draftRow]
  /\ \/ /\ trail' = [trail EXCEPT ![q] = Append(@, draftRow.status)]
        /\ writer' = Nobody
        /\ To(q, IF task[q].step = "create" THEN "parse" ELSE "answer")
     \/ rows[q] # draftRow /\ UNCHANGED <<trail, writer, task>>
  /\ UNCHANGED <<draftRow, mishaps>>

\* The audit line and the commit.
CommitWrite(q) ==
  /\ writer = q
  /\ rows' = [rows EXCEPT ![q] = draftRow]
  /\ trail' = [trail EXCEPT ![q] = Append(@, draftRow.status)]
  /\ writer' = Nobody
  /\ To(q, IF task[q].step = "create" THEN "parse" ELSE "answer")
  /\ UNCHANGED <<draftRow, mishaps>>

\* parse_intent: the model, or the words of the request when it cannot be asked. Any
\* tool may come back.
ParseIntent(q) ==
  /\ task[q].step = "parse"
  /\ \E t \in Tools : task' = [task EXCEPT ![q].step = "gate", ![q].tool = t]
  /\ UNCHANGED <<rows, trail, writer, draftRow, mishaps>>

\* The whitelist decides; the signature of an allowed tool is made here and verifies.
Gate(q) ==
  /\ task[q].step = "gate"
  /\ task' = [task EXCEPT ![q].step = "update",
       ![q].status = IF task[q].tool \in ALLOWED_TOOLS
                     THEN "SUCCESS" ELSE "REJECTED"]
  /\ UNCHANGED <<rows, trail, writer, draftRow, mishaps>>

\* AgentEngine.execute_task returns what the orchestrator did.
Answer(q) ==
  /\ task[q].step = "answer"
  /\ task' = [task EXCEPT ![q].step = "over", ![q].answer = task[q].status]
  /\ UNCHANGED <<rows, trail, writer, draftRow, mishaps>>

\* GeminiWorker raises, the file stays locked too long, or the process dies: the call
\* ends, and SQLite rolls back what it had open.
Mishap(q) ==
  /\ task[q].step # "over" /\ mishaps < MaxMishaps
  /\ mishaps' = mishaps + 1
  /\ writer' = IF writer = q THEN Nobody ELSE writer
  /\ To(q, "over")
  /\ UNCHANGED <<rows, trail, draftRow>>

StoreNext ==
  \E q \in Inquiries :
    \/ BeginWrite(q) \/ CommitWrite(q) \/ ParseIntent(q) \/ Gate(q) \/ Answer(q)
    \/ Mishap(q)

StoreSpec == StoreInit /\ [][StoreNext]_storeVars

-------------------------------------------------------------------------------
(* Properties.                                                               *)

StoreTypeOK ==
  /\ task \in [Inquiries ->
       [step : {"create", "parse", "gate", "update", "answer", "over"},
        status : {"INGRESS"} \cup Outcomes, tool : Tools \cup {"none"},
        answer : {"none"} \cup Outcomes]]
  /\ rows \in [Inquiries -> [status : {"absent", "INGRESS"} \cup Outcomes,
                            tool : Tools \cup {"none"}]]
  /\ trail \in [Inquiries -> Seq({"INGRESS"} \cup Outcomes)]
  /\ writer \in Inquiries \cup {Nobody} /\ mishaps \in 0..MaxMishaps

\* Whatever is cut short, the audit trail of a task tells the statuses its row went
\* through: it starts with its creation, ends with the status of the row, and what the
\* caller was answered is there (create_task, update_task, process_agent_request).
TrailTellsStatus ==
  \A q \in Inquiries :
    /\ trail[q] = <<>> <=> rows[q] = NoTask
    /\ trail[q] # <<>> => trail[q][1] = "INGRESS" /\ trail[q][Len(trail[q])] = rows[q].status
    /\ task[q].answer # "none" => rows[q].status = task[q].answer /\ Len(trail[q]) = 2
    /\ rows[q].status = "SUCCESS" => rows[q].tool \in ALLOWED_TOOLS
===============================================================================
