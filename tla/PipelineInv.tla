----------------------------- MODULE PipelineInv ------------------------------
(***************************************************************************)
(* The inductive invariants behind the safety properties of Pipeline.      *)
(* BaseInv holds whatever fails.  OwnerInv holds as long as no job is      *)
(* delivered twice, that is until the fault "lpush_reply" has struck.      *)
(***************************************************************************)
EXTENDS Pipeline

\* A request that has not handed its job to the queue or to a task.
Undispatched == {"idle", "rejected", "saved", "committed"}

\* The progress of a request says whether its file and its row are there.
RequestInv ==
  \A d \in Docs :
    /\ upload[d] \in {"idle", "rejected", "saved"} => status[d] = "absent"
    /\ upload[d] \in {"committed", "dispatched", "accepted"} => status[d] # "absent"
    /\ upload[d] = "saved" \/ status[d] # "absent" => file[d] = "whole"

\* A background task runs no job but that of its own document.
OwnTask == \A d \in Docs : job[d] \in {d, NoDoc}

\* No job is about before its request has dispatched it, and none without a
\* row; a slot has a job in its hands exactly while it is busy.
JobInv ==
  /\ \A d \in Docs : Queued(d) \/ Held(d) =>
       upload[d] \notin Undispatched /\ status[d] # "absent"
  /\ \A s \in Slots : pc[s] \in IdlePC <=> job[s] = NoDoc
  /\ OwnTask

\* The row, the file and the job of a document agree, under every fault.
BaseInv == TypeOK /\ RequestInv /\ JobInv

\* A push happens once, so a job is in one place at most between the
\* queue and the workers.
Waits(d) == Queued(d) \/ \E w \in Workers : job[w] = d
QueueInv ==
  /\ \A i, j \in 1..Len(queue) : queue[i] = queue[j] => i = j
  /\ \A w \in Workers : job[w] # NoDoc => ~Queued(job[w])
  /\ \A v, w \in Workers : job[v] = job[w] /\ job[v] # NoDoc => v = w

\* What has been written of a document and what may still be written, by
\* way of the queue and by the task of the request, is two at most.
RunsInv ==
  \A d \in Docs :
    /\ upload[d] \in Undispatched => recs[d] = 0
    /\ Waits(d) => recs[d] <= 1
    /\ job[d] = d => recs[d] <= 1
    /\ Waits(d) /\ job[d] = d => recs[d] = 0

GaugeInv == GaugeMatchesActive /\ \A h \in Hosts : IsFiniteSet(Active(h))

\* A request past its file, and a task, have the process they run in.
HostInv ==
  \A d \in Docs : upload[d] \in InFlight \/ job[d] # NoDoc => host[d] \in Apis

\* Until the first fault, that may be a signal, no process ends.
CalmInv == budget <= MaxFaults /\ (Spent = 0 => struck = {} /\ \A w \in Workers : ~stop[w])

\* Jobs and sessions are counted exactly, under every fault.
CountInv ==
  /\ QueueInv /\ RunsInv /\ CompletedHasRecords
  /\ GaugeInv /\ HostInv /\ CalmInv

FaultInv == BaseInv /\ CountInv

\* What the bound on the losses needs: they are finitely many.
LostAlone == {d \in LostDocs : ~Orphaned(d)}
LossInv ==
  "redis_loss" \notin struck =>
    IsFiniteSet(LostAlone) /\ Cardinality(LostAlone) <= Spent

\* Where the job of a document is tells its status.
JobStatusInv ==
  /\ \A d \in Docs : upload[d] \in Undispatched => status[d] \in {"absent", "pending"}
  /\ \A d \in Docs : Queued(d) => status[d] = "pending"
  /\ \A s \in Slots :
       /\ pc[s] \in {"task", "select", "mark"} => status[job[s]] = "pending"
       /\ pc[s] = "mark" => view[s] = "pending"
       /\ pc[s] \in {"extract", "finish", "fail"} => status[job[s]] = "processing"

\* A document has one owner, and its owner alone moves its status.
OwnerInv == BaseInv /\ OneOwner /\ JobStatusInv /\ OneResult

\* The invariant that is inductive under every fault.
DeliveryInv == DeliveredOnce => OwnerInv

\* What the counters need: the documents they count are finitely many.
CounterInv ==
  \A outcome \in Terminal :
    /\ DeliveredOnce => /\ IsFiniteSet(Having(outcome))
                        /\ Total(outcome, Hosts) <= Cardinality(Having(outcome))
    /\ Spent = 0 => Total(outcome, Hosts) = Cardinality(Having(outcome))
=============================================================================
