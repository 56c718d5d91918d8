------------------------------- MODULE Worker --------------------------------
(***************************************************************************)
(* The worker process: main() polls the queue until a signal asks it to    *)
(* stop, and runs one job at a time.                                       *)
(***************************************************************************)
EXTENDS Processing

\* main() up to the loop.
WorkerStart(w) ==
  /\ pc[w] = "down"
  /\ pc' = [pc EXCEPT ![w] = "top"]
  /\ stop' = [stop EXCEPT ![w] = FALSE]
  /\ InitRedis(w)
  /\ UNCHANGED <<job, view, dbVars, requestVars, metricVars, up, queue>>

Goto(w, where) == pc' = [pc EXCEPT ![w] = where]

\* while not _shutdown: dequeue_job
WorkerPoll(w) ==
  /\ pc[w] = "top" /\ ~stop[w]
  /\ Goto(w, "brpop")
  /\ NoFault
  /\ UNCHANGED <<job, view, dbVars, requestVars, processVars, metricVars, queue>>

\* Mutant: the flag is tested between the pop and the job as well.
ExitWithJob(w) == stop[w] /\ pc[w] \in {"top", "select"}
\* The flag is tested at the top of the loop, nowhere else.
MayExit(w) == stop[w] /\ pc[w] = "top"

WorkerExit(w) ==
  /\ MayExit(w)
  /\ Leave(w, "down")
  /\ MemoryLost(w)
  /\ NoFault
  /\ UNCHANGED <<dbVars, requestVars, up, stop, queue>>

-----------------------------------------------------------------------------
\* Mutant: the job is read and not removed.
Peek == UNCHANGED queue
Pop == queue' = Tail(queue)

\* BRPOP answers with a job, and process_job starts on it: no await lies
\* between.
WorkerDequeue(w) ==
  /\ pc[w] = "brpop" /\ client[w] /\ queue # <<>>
  /\ job' = [job EXCEPT ![w] = Head(queue)]
  /\ Pop
  /\ Goto(w, "select")
  /\ GaugeInc(w)
  /\ NoFault
  /\ UNCHANGED <<view, dbVars, requestVars, processVars, processed>>

\* Mutant: a reply that fails loses everything that waits.
PopAll == queue' = <<>>
PopUnheard == Pop

\* dequeue_job returns None: no client, or nothing within the timeout.
WorkerTimeout(w) ==
  /\ pc[w] = "brpop" /\ (~client[w] \/ queue = <<>>)
  /\ Goto(w, "top")
  /\ NoFault
  /\ UNCHANGED <<job, view, dbVars, requestVars, processVars, metricVars, queue>>

\* dequeue_job returns None for an exception too; with the reply lost the
\* popped job is nowhere.
DequeueFails(w) ==
  /\ pc[w] = "brpop" /\ client[w]
  /\ \/ Fault("brpop") /\ UNCHANGED queue
     \/ queue # <<>> /\ Fault("brpop_reply") /\ PopUnheard
  /\ Goto(w, "top")
  /\ UNCHANGED <<job, view, dbVars, requestVars, processVars, metricVars>>

-----------------------------------------------------------------------------
\* _handle_signal
Signal(w) ==
  /\ pc[w] # "down" /\ ~stop[w]
  /\ Fault("signal")
  /\ stop' = [stop EXCEPT ![w] = TRUE]
  /\ UNCHANGED <<slotVars, dbVars, requestVars, client, up, metricVars, queue>>

CrashWorker(w) ==
  /\ pc[w] # "down"
  /\ Fault("worker_crash")
  /\ Leave(w, "down")
  /\ MemoryLost(w)
  /\ UNCHANGED <<dbVars, requestVars, up, stop, queue>>

\* Redis comes back without the list.
RedisLoss ==
  /\ queue # <<>>
  /\ Fault("redis_loss")
  /\ queue' = <<>>
  /\ UNCHANGED <<slotVars, dbVars, requestVars, processVars, metricVars>>
=============================================================================
