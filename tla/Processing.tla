----------------------------- MODULE Processing ------------------------------
(***************************************************************************)
(* process_job of the worker and its twin _process_document_inline of the  *)
(* API process, one step per commit.  Slot s runs it for document job[s].  *)
(* The session checks no status before it writes: its UPDATE goes by       *)
(* primary key, and is sent only when the new value differs from the one   *)
(* the session has loaded.                                                 *)
(***************************************************************************)
EXTENDS PipelineState

\* The finally clause and the return to the caller.
Leave(s, where) ==
  /\ pc' = [pc EXCEPT ![s] = where]
  /\ job' = [job EXCEPT ![s] = NoDoc]
  /\ view' = [view EXCEPT ![s] = "absent"]
Return(s) == Leave(s, IF s \in Workers THEN "top" ELSE "none")

\* Mutant: dec() outside the finally clause.
GaugeKept(s) == UNCHANGED gauge
GaugeDec(s) == gauge' = [gauge EXCEPT ![HostOf(s)] = @ - 1]
Count(s, outcome) == processed' = [processed EXCEPT ![HostOf(s)][outcome] = @ + 1]

\* select(Document), behind the inc of the gauge.  A job without a row is
\* dropped, by way of the finally clause.
Select(s) ==
  /\ pc[s] = "select"
  /\ IF status[job[s]] = "absent"
       THEN Return(s) /\ GaugeDec(s)
       ELSE /\ pc' = [pc EXCEPT ![s] = "mark"]
            /\ view' = [view EXCEPT ![s] = status[job[s]]]
            /\ UNCHANGED <<job, gauge>>
  /\ NoFault
  /\ UNCHANGED <<dbVars, requestVars, processVars, processed, queue>>

\* The query raises: document is None, so nothing is persisted.
SelectFails(s) ==
  /\ pc[s] = "select"
  /\ Fault("db")
  /\ Return(s)
  /\ GaugeDec(s)
  /\ Count(s, "error")
  /\ UNCHANGED <<dbVars, requestVars, processVars, queue>>

-----------------------------------------------------------------------------
\* Mutant: the intermediate commit is dropped.
WriteNothing(s) == UNCHANGED status
WriteProcessing(s) ==
  status' = IF view[s] = "processing" THEN status
            ELSE [status EXCEPT ![job[s]] = "processing"]

Mark(s) ==
  /\ pc[s] = "mark"
  /\ WriteProcessing(s)
  /\ pc' = [pc EXCEPT ![s] = "extract"]
  /\ view' = [view EXCEPT ![s] = "processing"]
  /\ NoFault
  /\ UNCHANGED <<job, recs, err, requestVars, processVars, metricVars, queue>>

\* The commit raises.  The handler sets FAILED and commits again, on a
\* session nobody rolled back: that commit raises too and is swallowed.
MarkFails(s) ==
  /\ pc[s] = "mark"
  /\ \/ Fault("db") /\ UNCHANGED status
     \/ Fault("db_reply") /\ WriteProcessing(s)
  /\ Return(s)
  /\ GaugeDec(s)
  /\ Count(s, "error")
  /\ UNCHANGED <<recs, err, requestVars, processVars, queue>>

-----------------------------------------------------------------------------
\* PDFExtractor.extract opens a local path; an s3:// URL is no such path.
Readable(d) == Backend = "local" /\ file[d] = "whole"

\* extract() is synchronous; it returns or raises PDFExtractionError.
Extract(s) ==
  /\ pc[s] = "extract"
  /\ \/ Readable(job[s]) /\ pc' = [pc EXCEPT ![s] = "finish"]
     \/ pc' = [pc EXCEPT ![s] = "fail"]
  /\ NoFault
  /\ UNCHANGED <<job, view, dbVars, requestVars, processVars, metricVars, queue>>

-----------------------------------------------------------------------------
\* Mutant: the counter moves before the commit.
CountBeforeCommit(s) == Count(s, "completed")
CountUnexpected(s) == Count(s, "error")

\* Mutant: the status is committed before the records are added.
WriteStatusOnly(s) ==
  /\ status' = [status EXCEPT ![job[s]] = "completed"]
  /\ UNCHANGED recs
\* COMPLETED and the records, in one transaction.
WriteResult(s) ==
  /\ status' = [status EXCEPT ![job[s]] = "completed"]
  /\ recs' = [recs EXCEPT ![job[s]] = @ + 1]

Finish(s) ==
  /\ pc[s] = "finish"
  /\ WriteResult(s)
  /\ Return(s)
  /\ GaugeDec(s)
  /\ Count(s, "completed")
  /\ NoFault
  /\ UNCHANGED <<err, requestVars, processVars, queue>>

\* As MarkFails: FAILED never reaches the database.
FinishFails(s) ==
  /\ pc[s] = "finish"
  /\ \/ Fault("db") /\ UNCHANGED <<status, recs>>
     \/ Fault("db_reply") /\ WriteResult(s)
  /\ Return(s)
  /\ GaugeDec(s)
  /\ CountUnexpected(s)
  /\ UNCHANGED <<err, requestVars, processVars, queue>>

-----------------------------------------------------------------------------
\* Mutant: the failure is persisted without its reason.
WriteFailedOnly(s) ==
  /\ status' = [status EXCEPT ![job[s]] = "failed"]
  /\ UNCHANGED err
WriteFailure(s) ==
  /\ status' = [status EXCEPT ![job[s]] = "failed"]
  /\ err' = [err EXCEPT ![job[s]] =
              IF Readable(job[s]) THEN "extraction" ELSE "not_found"]

\* except PDFExtractionError.
Fail(s) ==
  /\ pc[s] = "fail"
  /\ WriteFailure(s)
  /\ Return(s)
  /\ GaugeDec(s)
  /\ Count(s, "failed")
  /\ NoFault
  /\ UNCHANGED <<recs, requestVars, processVars, queue>>

\* This commit is not guarded: its exception leaves process_job before the
\* counter, ends main() and with it the worker process.  A background task
\* ends alone; the server logs the exception.
FailFails(s) ==
  /\ pc[s] = "fail"
  /\ \/ Fault("db") /\ UNCHANGED <<status, err>>
     \/ Fault("db_reply") /\ WriteFailure(s)
  /\ \/ s \in Workers /\ Leave(s, "down") /\ MemoryLost(s)
     \/ s \in Docs /\ Return(s) /\ GaugeDec(s) /\ UNCHANGED <<client, processed>>
  /\ UNCHANGED <<recs, requestVars, up, stop, queue>>
=============================================================================
