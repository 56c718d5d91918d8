------------------------------- MODULE Upload --------------------------------
(***************************************************************************)
(* The API process: its lifespan, and POST /api/v1/upload as the handler   *)
(* runs it: store the file, commit the row, then push the job, with a      *)
(* background task of its own when the push reports failure.               *)
(***************************************************************************)
EXTENDS PipelineState

InFlight == {"saved", "committed", "dispatched"}

\* lifespan, start-up half.
StartApi(a) ==
  /\ ~up[a]
  /\ up' = [up EXCEPT ![a] = TRUE]
  /\ InitRedis(a)
  /\ UNCHANGED <<dbVars, slotVars, requestVars, metricVars, stop, queue>>

\* Requests in flight and background tasks of API process a.
BusyApi(a) == \E d \in Docs : host[d] = a /\ (upload[d] \in InFlight \/ job[d] # NoDoc)

\* lifespan, shutdown half: the server drains requests and their
\* background tasks before it runs.
StopApi(a) ==
  /\ up[a] /\ ~BusyApi(a)
  /\ Fault("signal")
  /\ up' = [up EXCEPT ![a] = FALSE]
  /\ MemoryLost(a)
  /\ UNCHANGED <<dbVars, slotVars, requestVars, stop, queue>>

\* What runs only in API process a: a request that has not dispatched its job
\* yet, or the background task of the document.
RunsOnlyIn(d, a) == host[d] = a /\ (upload[d] \in {"saved", "committed"} \/ job[d] # NoDoc)

\* The process is killed: the requests it serves are cut off, also when the
\* job is already in the queue, and its background tasks are gone.
CrashApi(a) ==
  /\ up[a]
  /\ Fault("api_crash")
  /\ up' = [up EXCEPT ![a] = FALSE]
  /\ MemoryLost(a)
  /\ upload' = [d \in Docs |-> IF host[d] = a /\ upload[d] \in InFlight
                                 THEN "error" ELSE upload[d]]
  /\ pc' = [s \in Slots |-> IF s \in Docs /\ host[s] = a THEN "none" ELSE pc[s]]
  /\ job' = [s \in Slots |-> IF s \in Docs /\ host[s] = a THEN NoDoc ELSE job[s]]
  /\ view' = [s \in Slots |-> IF s \in Docs /\ host[s] = a THEN "absent" ELSE view[s]]
  /\ host' = [d \in Docs |-> IF RunsOnlyIn(d, a) THEN NoHost ELSE host[d]]
  /\ UNCHANGED <<dbVars, file, stop, queue>>

-----------------------------------------------------------------------------
Answer(d, outcome) == upload' = [upload EXCEPT ![d] = outcome]

\* Wrong type, too large or empty: nothing has been touched yet.
UploadReject(d, a) ==
  /\ upload[d] = "idle" /\ up[a]
  /\ Answer(d, "rejected")
  /\ NoFault
  /\ UNCHANGED <<dbVars, slotVars, file, host, processVars, metricVars, queue>>

\* storage.save returned the path.
UploadSave(d, a) ==
  /\ upload[d] = "idle" /\ up[a]
  /\ Answer(d, "saved")
  /\ file' = [file EXCEPT ![d] = "whole"]
  /\ host' = [host EXCEPT ![d] = a]
  /\ NoFault
  /\ UNCHANGED <<dbVars, slotVars, processVars, metricVars, queue>>

\* A write that failed may leave half a file; an object is there or not,
\* and may be there although the put raised.
Leftovers == {"absent", IF Backend = "local" THEN "partial" ELSE "whole"}

\* StorageError leaves the handler: 500.
UploadSaveFails(d, a) ==
  /\ upload[d] = "idle" /\ up[a]
  /\ Fault("save")
  /\ Answer(d, "error")
  /\ \E left \in Leftovers : file' = [file EXCEPT ![d] = left]
  /\ UNCHANGED <<dbVars, slotVars, host, processVars, metricVars, queue>>

InsertRow(d) == status' = [status EXCEPT ![d] = "pending"]

\* Mutant: the row is written before the file.
RowBeforeFile(d) == upload[d] = "idle"
ReadyToCommit(d) == upload[d] = "saved"

\* db.add; db.commit.
UploadCommit(d) ==
  /\ ReadyToCommit(d)
  /\ Answer(d, "committed")
  /\ InsertRow(d)
  /\ NoFault
  /\ UNCHANGED <<recs, err, slotVars, file, host, processVars, metricVars, queue>>

\* The commit raises: get_db rolls back and the client sees a 500.  When
\* only the reply was lost the row is there, and no job ever will be.
UploadCommitFails(d) ==
  /\ upload[d] = "saved"
  /\ \/ Fault("db") /\ UNCHANGED status
     \/ Fault("db_reply") /\ InsertRow(d)
  /\ Answer(d, "error")
  /\ UNCHANGED <<recs, err, slotVars, file, host, processVars, metricVars, queue>>

-----------------------------------------------------------------------------
\* LPUSH on one end; the worker pops the other.
Push(d) == queue' = Append(queue, d)

\* Mutant: the job is dispatched before the row is committed.
PushBeforeCommit(d) == upload[d] \in {"saved", "committed"}
ReadyToDispatch(d) == upload[d] = "committed"

EnqueueJob(d) == Push(d)

\* enqueue_job returned True: no fallback.
UploadEnqueue(d) ==
  /\ ReadyToDispatch(d)
  /\ client[host[d]]
  /\ EnqueueJob(d)
  /\ Answer(d, "dispatched")
  /\ NoFault
  /\ UNCHANGED <<dbVars, slotVars, file, host, processVars, metricVars>>

\* enqueue_job returns False: no client, or the push raised.  With the
\* reply lost, the job is in the list all the same.
EnqueueFails(d) ==
  \/ ~client[host[d]] /\ NoFault /\ UNCHANGED queue
  \/ client[host[d]] /\ Fault("lpush") /\ UNCHANGED queue
  \/ client[host[d]] /\ Fault("lpush_reply") /\ Push(d)

\* Mutant: the fallback is forgotten.
NoBackgroundTask(d) == UNCHANGED <<pc, job>>
AddBackgroundTask(d) ==
  /\ pc' = [pc EXCEPT ![d] = "task"]
  /\ job' = [job EXCEPT ![d] = d]

\* background_tasks.add_task(_process_document_inline): it will run when the
\* response has been sent.
UploadFallback(d) ==
  /\ ReadyToDispatch(d)
  /\ EnqueueFails(d)
  /\ AddBackgroundTask(d)
  /\ Answer(d, "dispatched")
  /\ UNCHANGED <<dbVars, view, file, host, processVars, metricVars>>

\* The 202 goes out; a background task starts behind it.
UploadAnswer(d) ==
  /\ upload[d] = "dispatched"
  /\ Answer(d, "accepted")
  /\ IF pc[d] = "task"
       THEN pc' = [pc EXCEPT ![d] = "select"] /\ GaugeInc(d)
       ELSE UNCHANGED <<pc, gauge>>
  /\ NoFault
  /\ UNCHANGED <<job, view, dbVars, file, host, processVars, processed, queue>>
=============================================================================
