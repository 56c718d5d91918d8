------------------------------ MODULE Pipeline -------------------------------
(***************************************************************************)
(* The whole pipeline: clients upload to API processes, worker processes   *)
(* and background tasks process, and the environment interferes.           *)
(***************************************************************************)
EXTENDS Upload, Worker, FiniteSetsExt

UploadSteps(d) ==
  UploadCommit(d) \/ UploadEnqueue(d) \/ UploadFallback(d) \/ UploadAnswer(d)
JobSteps(s) == Select(s) \/ Mark(s) \/ Extract(s) \/ Finish(s) \/ Fail(s)
LoopSteps(w) == WorkerPoll(w) \/ WorkerExit(w) \/ WorkerDequeue(w) \/ WorkerTimeout(w)
JobFaults(s) == SelectFails(s) \/ MarkFails(s) \/ FinishFails(s) \/ FailFails(s)

Request(d, a) == UploadReject(d, a) \/ UploadSave(d, a) \/ UploadSaveFails(d, a)

Next ==
  \/ \E a \in Apis : StartApi(a) \/ StopApi(a) \/ CrashApi(a)
  \/ \E d \in Docs, a \in Apis : Request(d, a)
  \/ \E d \in Docs : UploadSteps(d) \/ UploadCommitFails(d)
  \/ \E s \in Slots : JobSteps(s) \/ JobFaults(s)
  \/ \E w \in Workers : WorkerStart(w) \/ LoopSteps(w) \/ DequeueFails(w)
                        \/ Signal(w) \/ CrashWorker(w)
  \/ RedisLoss

Spec == Init /\ [][Next]_vars

\* asyncio runs every ready coroutine; the containers have restart:
\* unless-stopped, so a worker that ended is started again.  Clients need
\* not upload, and no fault is ever due.
Fairness ==
  /\ \A d \in Docs : WF_vars(UploadSteps(d))
  /\ \A s \in Slots : WF_vars(JobSteps(s))
  /\ \A w \in Workers : WF_vars(LoopSteps(w)) /\ WF_vars(WorkerStart(w))

FairSpec == Spec /\ Fairness

-----------------------------------------------------------------------------
\* Ordering.  A row is committed only over a file stored whole, so whoever
\* finds the row can open the file.
RowHasFile == \A d \in Docs : status[d] # "absent" => file[d] = "whole"

\* Ordering.  A job that a worker may pop or a task may run names a row
\* already committed: no job is dropped as "not found".
JobHasRow == \A d \in Docs : Queued(d) \/ Held(d) => status[d] # "absent"

\* Every LPUSH that took effect was also heard of: no job has been handed
\* both to the queue and to the fallback.
DeliveredOnce == "lpush_reply" \notin struck

\* A document is queued at most once, never while it is held, and two slots
\* never hold the same one.
OneOwner ==
  /\ \A i, j \in 1..Len(queue) : queue[i] = queue[j] => i = j
  /\ \A d \in Docs : ~(Queued(d) /\ Held(d))
  /\ \A s, t \in Slots : job[s] = job[t] /\ job[s] # NoDoc => s = t

\* Exactly the completed documents have records, one set each, and exactly
\* the failed ones have a reason.
OneResult ==
  \A d \in Docs : /\ recs[d] = IF status[d] = "completed" THEN 1 ELSE 0
                  /\ err[d] # "none" <=> status[d] = "failed"

\* At most one process ever owns a job, whatever else fails: only an LPUSH
\* whose reply was lost can give a document a second owner.
SingleOwner == DeliveredOnce => OneOwner

\* What a client reads is consistent as long as no job has two owners.
ResultMatchesStatus == DeliveredOnce => OneResult

\* The same, as far as it holds when a job is delivered twice: completed
\* is never there without the transaction that adds the records (of which an
\* extraction may find none), failed never without a reason, and a document
\* is processed twice at most: once from the queue, once by the fallback.
CompletedHasRecords ==
  \A d \in Docs : /\ status[d] = "completed" => recs[d] > 0
                  /\ status[d] = "failed" => err[d] # "none"
                  /\ recs[d] <= 2

\* Seen from outside, a document lives the life of DocumentLifecycle: no
\* status is skipped or taken back and no result is written twice, unless
\* its job was delivered twice; even then the row and its records stay.
Lifecycle == INSTANCE DocumentLifecycle
               WITH twice <- "lpush_reply" \in struck,
                    status <- status, recs <- recs, err <- err
RefinesLifecycle == Lifecycle!Spec

-----------------------------------------------------------------------------
Settled(d) == status[d] \in Terminal
\* A row that nobody will ever settle: its request has dispatched it or has
\* failed, and no queue and no slot has its job.
Lost(d) ==
  /\ status[d] \in {"pending", "processing"} /\ upload[d] # "committed"
  /\ ~Queued(d) /\ ~Held(d)
LostDocs == {d \in Docs : Lost(d)}
Spent == MaxFaults - budget

\* The faults that make the code lose a job.  The rest it is meant to
\* withstand: by the fallback, the poll loop and the end of the loop.
LossyFaults ==
  {"db", "db_reply", "brpop_reply", "worker_crash", "api_crash", "redis_loss"}

\* No row falls between the processes: until it is settled its job waits in
\* the queue or is in some slot's hands, or its request is about to dispatch
\* it.
NothingLost == \A d \in Docs : ~Lost(d)

\* The rows whose request or task was killed with its API process are in a
\* class of their own; those whose job it had pushed before are not.
Orphaned(d) == host[d] = NoHost

\* Until one of the lossy faults has struck no row is lost, and a killed API
\* process loses none but those: it takes no job along that it had pushed,
\* be it answered by 202 or not, and none that a worker runs.
RowsAreTracked ==
  struck \cap LossyFaults \subseteq {"api_crash"} =>
    \A d \in LostDocs : Orphaned(d)

\* Apart from those, one fault costs at most one row: no commit that fails or
\* goes unheard, no lost reply and no killed worker takes along a job it was
\* not working on.  A Redis that restarts loses all that waits.
LossBoundedByFaults ==
  "redis_loss" \notin struck =>
    Cardinality({d \in LostDocs : ~Orphaned(d)}) <= Spent

Active(h) == {s \in Slots : pc[s] \in InJobPC /\ HostOf(s) = h}
\* active_jobs counts the calls of process_job in that process: from before
\* the query for the row, and on every path out, a query that raises and a
\* row that is missing among them.
GaugeMatchesActive == \A h \in Hosts : gauge[h] = Cardinality(Active(h))

Having(outcome) == {d \in Docs : status[d] = outcome}
Total(outcome, hosts) == SumFunction([h \in hosts |-> processed[h][outcome]])

\* Over all processes a label never counts more documents than the database
\* shows while no job is delivered twice, and exactly as many until
\* something fails.  A commit and the counter behind it are one step here:
\* between them the counter is one short.
CountersMatchDocs ==
  \A outcome \in Terminal :
    /\ DeliveredOnce => Total(outcome, Hosts) <= Cardinality(Having(outcome))
    /\ Spent = 0 => Total(outcome, Hosts) = Cardinality(Having(outcome))

-----------------------------------------------------------------------------
\* Every accepted document is settled in the end.
AcceptedIsSettled == \A d \in Docs : upload[d] = "accepted" ~> Settled(d)

-----------------------------------------------------------------------------
\* Statements of the documentation that the code does not keep.

\* queue.py: False is returned if Redis is unavailable, and only then may
\* the caller process the document itself.
FallbackMeansNotQueued == \A d \in Docs : job[d] # NoDoc => ~Queued(d)

\* docs/architecture.md: processing reads the file that the upload stored.
StoredFileIsFound == \A d \in Docs : file[d] = "whole" => err[d] # "not_found"

\* docs/deployment.md: /metrics, which the API serves, counts the documents
\* processed.
MetricsSeeEveryDocument ==
  Total("completed", Apis) = Cardinality(Having("completed"))
=============================================================================
