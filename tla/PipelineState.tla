---------------------------- MODULE PipelineState ----------------------------
(***************************************************************************)
(* The shared state of the document pipeline: API processes and worker     *)
(* processes that meet in a PostgreSQL table, a Redis list and a file      *)
(* store.  Every process runs asyncio; one action of the model is the      *)
(* stretch of a coroutine between two awaits that touch shared state.      *)
(***************************************************************************)
EXTENDS Integers, Sequences, FiniteSets

CONSTANTS
  Docs,        \* documents a client may upload (the uuid4 of a Document row)
  Workers,     \* worker processes (python -m app.worker)
  Apis,        \* API processes (uvicorn app.main:app)
  NoDoc,       \* "no job in hand"
  NoHost,      \* "no API process serves the request, or none any more"
  Backend,     \* settings.STORAGE_BACKEND
  FaultKinds,  \* the kinds of fault the environment may inject
  MaxFaults    \* how many of them, the bound on faults

\* What may go wrong at a call.  "_reply" is the lost reply: the call took
\* effect at the server and the client sees an exception all the same.
AllFaults ==
  { "save",                   \* storage.save raises
    "db", "db_reply",         \* a statement or a COMMIT raises
    "lpush", "lpush_reply",   \* redis.lpush raises
    "brpop", "brpop_reply",   \* redis.brpop raises
    "no_redis",               \* Redis does not answer PING at start-up
    "signal",                 \* SIGTERM / SIGINT to a process
    "worker_crash", "api_crash",  \* a process is killed
    "redis_loss" }            \* Redis restarts without its list

ASSUME PipelineAssumption ==
  /\ Docs \cap Workers = {} /\ Docs \cap Apis = {} /\ Workers \cap Apis = {}
  /\ NoDoc \notin Docs /\ NoHost \notin Workers \cup Apis
  /\ IsFiniteSet(Workers \cup Apis)
  /\ Backend \in {"local", "s3"}
  /\ FaultKinds \subseteq AllFaults
  /\ MaxFaults \in Nat

\* A slot is a place where a job runs: the single job of a worker process,
\* or the background task an API process starts for the document itself.
Slots == Workers \cup Docs
Hosts == Workers \cup Apis

\* ProcessingStatus, with "absent" for a row that is not there.
Status == {"absent", "pending", "processing", "completed", "failed"}
Terminal == {"completed", "failed"}
FileState == {"absent", "partial", "whole"}
ErrorKind == {"none", "not_found", "extraction"}
Outcome == {"completed", "failed", "error"}
UploadState ==
  {"idle", "rejected", "saved", "committed", "dispatched", "accepted", "error"}

IdlePC == {"down", "top", "brpop", "none"}
InJobPC == {"select", "mark", "extract", "finish", "fail"}  \* inside process_job
BusyPC == {"task"} \cup InJobPC  \* "task": scheduled behind the response

VARIABLES
  file,       \* the uploaded bytes in the store
  status,     \* documents.status, as committed
  recs,       \* committed sets of extracted_records of a document
  err,        \* documents.error_message
  queue,      \* docpipeline:jobs, the next job to pop at the head
  upload,     \* how far the POST /upload of a document has come
  host,       \* the API process that serves it, NoHost if that one was killed
              \* and took the request or its task along
  pc,         \* where each slot is
  job,        \* the document in its hands
  view,       \* the status its database session has loaded
  client,     \* the process has a Redis client (_redis_client is not None)
  up,         \* the API process is running
  stop,       \* _shutdown of a worker process
  budget,     \* faults the environment may still inject
  struck,     \* history: the kinds of fault it has injected
  gauge,      \* active_jobs_gauge of a process
  processed   \* documents_processed_total of a process, by label

dbVars == <<status, recs, err>>
slotVars == <<pc, job, view>>
requestVars == <<file, upload, host>>
processVars == <<client, up, stop>>
metricVars == <<gauge, processed>>
vars == <<dbVars, slotVars, requestVars, processVars, metricVars, queue,
          budget, struck>>

NoCounts == [o \in Outcome |-> 0]

Init ==
  /\ file = [d \in Docs |-> "absent"]
  /\ status = [d \in Docs |-> "absent"]
  /\ recs = [d \in Docs |-> 0]
  /\ err = [d \in Docs |-> "none"]
  /\ queue = <<>>
  /\ upload = [d \in Docs |-> "idle"]
  /\ host = [d \in Docs |-> NoHost]
  /\ pc = [s \in Slots |-> IF s \in Workers THEN "down" ELSE "none"]
  /\ job = [s \in Slots |-> NoDoc]
  /\ view = [s \in Slots |-> "absent"]
  /\ client = [h \in Hosts |-> FALSE]
  /\ up = [a \in Apis |-> FALSE]
  /\ stop = [w \in Workers |-> FALSE]
  /\ budget = MaxFaults
  /\ struck = {}
  /\ gauge = [h \in Hosts |-> 0]
  /\ processed = [h \in Hosts |-> NoCounts]

\* Every variable has its type.
TypeOK ==
  /\ file \in [Docs -> FileState]
  /\ status \in [Docs -> Status]
  /\ recs \in [Docs -> Nat]
  /\ err \in [Docs -> ErrorKind]
  /\ queue \in Seq(Docs)
  /\ upload \in [Docs -> UploadState]
  /\ host \in [Docs -> Apis \cup {NoHost}]
  /\ pc \in [Slots -> IdlePC \cup BusyPC]
  /\ job \in [Slots -> Docs \cup {NoDoc}]
  /\ view \in [Slots -> Status]
  /\ client \in [Hosts -> BOOLEAN]
  /\ up \in [Apis -> BOOLEAN]
  /\ stop \in [Workers -> BOOLEAN]
  /\ budget \in Nat
  /\ struck \subseteq FaultKinds
  /\ gauge \in [Hosts -> Int]
  /\ processed \in [Hosts -> [Outcome -> Nat]]

-----------------------------------------------------------------------------
\* The environment.

NoFault == UNCHANGED <<budget, struck>>

Fault(kind) ==
  /\ kind \in FaultKinds
  /\ budget > 0
  /\ budget' = budget - 1
  /\ struck' = struck \cup {kind}

Queued(d) == \E i \in 1..Len(queue) : queue[i] = d
Held(d) == \E s \in Slots : job[s] = d

HostOf(s) == IF s \in Workers THEN s ELSE host[s]

\* The first thing a job does in its process, before any await.
GaugeInc(s) == gauge' = [gauge EXCEPT ![HostOf(s)] = @ + 1]

-----------------------------------------------------------------------------
\* What the start and the end of a process do to its memory.

\* init_redis tries once; a process that finds no Redis never tries again.
InitRedis(h) ==
  \/ NoFault /\ client' = [client EXCEPT ![h] = TRUE]
  \/ Fault("no_redis") /\ client' = [client EXCEPT ![h] = FALSE]

\* The client and the metrics live in the memory of the process.
MemoryLost(h) ==
  /\ client' = [client EXCEPT ![h] = FALSE]
  /\ gauge' = [gauge EXCEPT ![h] = 0]
  /\ processed' = [processed EXCEPT ![h] = NoCounts]
=============================================================================
