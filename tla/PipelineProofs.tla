---------------------------- MODULE PipelineProofs ----------------------------
(***************************************************************************)
(* Theorems about Pipeline, for any number of documents, workers, API      *)
(* processes and faults:                                                   *)
(*   - what holds whatever fails: BaseInv, then FaultInv;                  *)
(*   - one owner and one result per document, until a push that reports    *)
(*     failure has pushed the job all the same: DeliveryInv;               *)
(*   - the implementation of DocumentLifecycle, whatever fails;            *)
(*   - what a step may lose, and how much that comes to;                   *)
(*   - the counters of all processes against the rows.                     *)
(***************************************************************************)
EXTENDS PipelineInv, Counting

-----------------------------------------------------------------------------
\* What Append and Tail do to the members of the queue.
LEMMA AppendMembers ==
  ASSUME NEW S, NEW q \in Seq(S), NEW e \in S
  PROVE  /\ Append(q, e) \in Seq(S)
         /\ Len(Append(q, e)) = Len(q) + 1
         /\ Append(q, e)[Len(q) + 1] = e
         /\ \A i \in 1..Len(q) : Append(q, e)[i] = q[i]
  OBVIOUS

LEMMA TailMembers ==
  ASSUME NEW S, NEW q \in Seq(S), q # <<>>
  PROVE  /\ Head(q) = q[1] /\ Head(q) \in S /\ Len(q) \in Nat \ {0}
         /\ Tail(q) \in Seq(S)
         /\ Len(Tail(q)) = Len(q) - 1
         /\ \A i \in 1..Len(Tail(q)) : i + 1 \in 1..Len(q) /\ Tail(q)[i] = q[i + 1]
  OBVIOUS

LEMMA QueueType ==
  ASSUME queue \in Seq(Docs)
  PROVE  /\ \A d \in Docs : Push(d) => queue' \in Seq(Docs)
         /\ queue # <<>> /\ Pop => queue' \in Seq(Docs)
  <1>1. \A d \in Docs : Push(d) => queue' \in Seq(Docs)
    BY AppendMembers DEF Push
  <1>2. queue # <<>> /\ Pop => queue' \in Seq(Docs)
    BY TailMembers DEF Pop
  <1>3. QED
    BY <1>1, <1>2

-----------------------------------------------------------------------------
LEMMA TypeInit == Init => TypeOK
  BY PipelineAssumption DEF Init, TypeOK, NoCounts, FileState, Status, ErrorKind,
     Outcome, UploadState, IdlePC, BusyPC, InJobPC, Slots, Hosts

\* InitRedis and MemoryLost keep the memory of every process well typed.
LEMMA MemoryType ==
  ASSUME TypeOK, NEW h \in Hosts
  PROVE  /\ InitRedis(h) => /\ client' \in [Hosts -> BOOLEAN]
                         /\ budget' \in Nat /\ struck' \subseteq FaultKinds
         /\ MemoryLost(h) => /\ client' \in [Hosts -> BOOLEAN]
                             /\ gauge' \in [Hosts -> Int]
                             /\ processed' \in [Hosts -> [Outcome -> Nat]]
  <1>1. NoCounts \in [Outcome -> Nat]
    BY DEF NoCounts
  <1>2. InitRedis(h) => /\ client' \in [Hosts -> BOOLEAN]
                         /\ budget' \in Nat /\ struck' \subseteq FaultKinds
    <2>1. InitRedis(h) => budget' \in Nat /\ struck' \subseteq FaultKinds
      BY DEF TypeOK, InitRedis, NoFault, Fault
    <2>2. InitRedis(h) => client' \in [Hosts -> BOOLEAN]
      BY DEF TypeOK, InitRedis
    <2>3. QED
      BY <2>1, <2>2
  <1>3. MemoryLost(h) => /\ client' \in [Hosts -> BOOLEAN]
                         /\ gauge' \in [Hosts -> Int]
                         /\ processed' \in [Hosts -> [Outcome -> Nat]]
    BY <1>1 DEF TypeOK, MemoryLost
  <1>4. QED
    BY <1>2, <1>3

LEMMA TypeApi ==
  ASSUME TypeOK, NEW a \in Apis, StartApi(a) \/ StopApi(a) \/ CrashApi(a)
  PROVE  TypeOK'
  <1>0. a \in Hosts
    BY DEF Hosts
  <1>1. CASE StartApi(a)
    BY <1>0, <1>1, MemoryType DEF StartApi, TypeOK, dbVars, slotVars, requestVars, metricVars
  <1>2. CASE StopApi(a)
    BY <1>0, <1>2, MemoryType DEF StopApi, TypeOK, Fault, dbVars, slotVars, requestVars
  <1>3. CASE CrashApi(a)
    <2>1. /\ budget' \in Nat /\ struck' \subseteq FaultKinds /\ up' \in [Apis -> BOOLEAN]
          /\ upload' \in [Docs -> UploadState]
      BY <1>3 DEF CrashApi, TypeOK, Fault, UploadState
    <2>4. host' \in [Docs -> Apis \cup {NoHost}]
      BY <1>3 DEF CrashApi, TypeOK
    <2>2. /\ pc' \in [Slots -> IdlePC \cup BusyPC]
          /\ job' \in [Slots -> Docs \cup {NoDoc}]
          /\ view' \in [Slots -> Status]
      BY <1>3 DEF CrashApi, TypeOK, Status, IdlePC
    <2>3. QED
      BY <1>0, <1>3, <2>1, <2>2, <2>4, MemoryType DEF CrashApi, TypeOK, dbVars
  <1>4. QED
    BY <1>1, <1>2, <1>3

LEMMA TypeUpload ==
  ASSUME TypeOK, NEW d \in Docs,
         (\E a \in Apis : Request(d, a)) \/ UploadSteps(d) \/ UploadCommitFails(d)
  PROVE  TypeOK'
  <1> USE DEF TypeOK, NoFault, Fault, Answer, UploadState,
        dbVars, slotVars, requestVars, processVars, metricVars
  <1>1. ASSUME NEW a \in Apis, UploadReject(d, a)
        PROVE  TypeOK'
    BY <1>1 DEF UploadReject
  <1>2. ASSUME NEW a \in Apis, UploadSave(d, a)
        PROVE  TypeOK'
    BY <1>2 DEF UploadSave, FileState
  <1>3. ASSUME NEW a \in Apis, UploadSaveFails(d, a)
        PROVE  TypeOK'
    BY <1>3 DEF UploadSaveFails, Leftovers, FileState
  <1>4. CASE UploadCommit(d)
    BY <1>4 DEF UploadCommit, InsertRow, Status
  <1>5. CASE UploadCommitFails(d)
    BY <1>5 DEF UploadCommitFails, InsertRow, Status
  <1>6. CASE UploadEnqueue(d)
    BY <1>6, AppendMembers DEF UploadEnqueue, EnqueueJob, Push
  <1>7. CASE UploadFallback(d)
    <2>1. queue' \in Seq(Docs)
      <3>1. UNCHANGED queue \/ Push(d)
        BY <1>7 DEF UploadFallback, EnqueueFails
      <3>2. QED
        BY <3>1, QueueType
    <2>0. budget' \in Nat /\ struck' \subseteq FaultKinds
      BY <1>7 DEF UploadFallback, EnqueueFails
    <2>2. /\ pc' \in [Slots -> IdlePC \cup BusyPC]
          /\ job' \in [Slots -> Docs \cup {NoDoc}]
      BY <1>7 DEF UploadFallback, AddBackgroundTask, BusyPC, Slots
    <2>3. QED
      BY <1>7, <2>0, <2>1, <2>2 DEF UploadFallback
  <1>8. CASE UploadAnswer(d)
    <2>1. UNCHANGED pc \/ pc' = [pc EXCEPT ![d] = "select"]
      BY <1>8 DEF UploadAnswer
    <2>2. pc' \in [Slots -> IdlePC \cup BusyPC]
      BY <2>1 DEF BusyPC, InJobPC
    <2>3. gauge' \in [Hosts -> Int]
      BY <1>8 DEF UploadAnswer, GaugeInc
    <2>4. QED
      BY <1>8, <2>2, <2>3 DEF UploadAnswer
  <1>9. QED
    BY <1>1, <1>2, <1>3, <1>4, <1>5, <1>6, <1>7, <1>8 DEF Request, UploadSteps

\* The pieces process_job is made of.
LEMMA JobPieces ==
  ASSUME TypeOK, NEW s \in Slots
  PROVE  /\ Return(s) \/ Leave(s, "down") =>
              /\ pc' \in [Slots -> IdlePC \cup BusyPC]
              /\ job' \in [Slots -> Docs \cup {NoDoc}]
              /\ view' \in [Slots -> Status]
         /\ GaugeInc(s) \/ GaugeDec(s) => gauge' \in [Hosts -> Int]
         /\ \A o \in Outcome : Count(s, o) => processed' \in [Hosts -> [Outcome -> Nat]]
         /\ WriteProcessing(s) => status' \in [Docs -> Status]
         /\ WriteResult(s) => status' \in [Docs -> Status] /\ recs' \in [Docs -> Nat]
         /\ WriteFailure(s) => status' \in [Docs -> Status] /\ err' \in [Docs -> ErrorKind]
  <1>1. Return(s) \/ Leave(s, "down") =>
              /\ pc' \in [Slots -> IdlePC \cup BusyPC]
              /\ job' \in [Slots -> Docs \cup {NoDoc}]
              /\ view' \in [Slots -> Status]
    BY DEF TypeOK, Return, Leave, IdlePC, Status
  <1>2. GaugeInc(s) \/ GaugeDec(s) => gauge' \in [Hosts -> Int]
    BY DEF TypeOK, GaugeInc, GaugeDec
  <1>3. \A o \in Outcome : Count(s, o) => processed' \in [Hosts -> [Outcome -> Nat]]
    <2> SUFFICES ASSUME NEW o \in Outcome, Count(s, o)
                 PROVE  processed' \in [Hosts -> [Outcome -> Nat]]
      OBVIOUS
    <2> DEFINE h == HostOf(s)
               counts == [processed[h] EXCEPT ![o] = @ + 1]
    <2>1. processed' = [processed EXCEPT ![h] = counts]
      BY DEF Count
    <2>2. h \in Hosts => counts \in [Outcome -> Nat]
      BY DEF TypeOK
    <2>3. QED
      BY <2>1, <2>2 DEF TypeOK
  <1>4. WriteProcessing(s) => status' \in [Docs -> Status]
    BY DEF TypeOK, WriteProcessing, Status
  <1>5. WriteResult(s) => status' \in [Docs -> Status] /\ recs' \in [Docs -> Nat]
    <2>1. WriteResult(s) => status' \in [Docs -> Status]
      BY DEF TypeOK, WriteResult, Status
    <2>2. WriteResult(s) => recs' \in [Docs -> Nat]
      <3>1. recs \in [Docs -> Nat]
        BY DEF TypeOK
      <3>2. \A d \in Docs : recs[d] + 1 \in Nat
        BY <3>1
      <3>3. SUFFICES ASSUME WriteResult(s), NEW n, job[s] \in Docs => n \in Nat,
                            recs' = [recs EXCEPT ![job[s]] = n]
                     PROVE  recs' \in [Docs -> Nat]
        BY <3>2 DEF WriteResult
      <3>4. QED
        BY <3>1, <3>3
    <2>3. QED
      BY <2>1, <2>2
  <1>6. WriteFailure(s) => status' \in [Docs -> Status] /\ err' \in [Docs -> ErrorKind]
    BY DEF TypeOK, WriteFailure, Status, ErrorKind
  <1>7. QED
    BY <1>1, <1>2, <1>3, <1>4, <1>5, <1>6

LEMMA TypeJob ==
  ASSUME TypeOK, JobInv, NEW s \in Slots, JobSteps(s) \/ JobFaults(s)
  PROVE  TypeOK'
  <1>0. "completed" \in Outcome /\ "failed" \in Outcome /\ "error" \in Outcome
    BY DEF Outcome
  <1> USE JobPieces, <1>0 DEF TypeOK, NoFault, Fault,
        dbVars, slotVars, requestVars, processVars, metricVars
  <1>1. CASE Select(s)
    <2>1. CASE status[job[s]] = "absent"
      BY <1>1, <2>1 DEF Select
    <2>2. CASE status[job[s]] # "absent"
      <3>1. pc' \in [Slots -> IdlePC \cup BusyPC]
        BY <1>1, <2>2 DEF Select, BusyPC, InJobPC
      <3>2. view' \in [Slots -> Status]
        <4>1. job[s] \in Docs
          BY <1>1 DEF Select, JobInv, IdlePC
        <4>2. QED
          BY <1>1, <2>2, <4>1 DEF Select
      <3>3. QED
        BY <1>1, <2>2, <3>1, <3>2 DEF Select
    <2>3. QED
      BY <2>1, <2>2
  <1>2. CASE SelectFails(s)
    BY <1>2 DEF SelectFails
  <1>3. CASE Mark(s)
    <2>1. pc' \in [Slots -> IdlePC \cup BusyPC] /\ view' \in [Slots -> Status]
      BY <1>3 DEF Mark, BusyPC, InJobPC, Status
    <2>2. QED
      BY <1>3, <2>1 DEF Mark
  <1>4. CASE MarkFails(s)
    BY <1>4 DEF MarkFails
  <1>5. CASE Extract(s)
    <2>1. pc' \in [Slots -> IdlePC \cup BusyPC]
      BY <1>5 DEF Extract, BusyPC, InJobPC
    <2>2. QED
      BY <1>5, <2>1 DEF Extract
  <1>6. CASE Finish(s)
    BY <1>6 DEF Finish
  <1>7. CASE FinishFails(s)
    BY <1>7 DEF FinishFails, CountUnexpected
  <1>8. CASE Fail(s)
    BY <1>8 DEF Fail
  <1>9. CASE FailFails(s)
    <2>1. CASE s \in Workers /\ Leave(s, "down") /\ MemoryLost(s)
      <3>1. s \in Hosts
        BY <2>1 DEF Hosts
      <3>2. budget' \in Nat /\ struck' \subseteq FaultKinds
        BY <1>9 DEF FailFails
      <3>3. status' \in [Docs -> Status] /\ err' \in [Docs -> ErrorKind]
        BY <1>9 DEF FailFails
      <3>4. /\ client' \in [Hosts -> BOOLEAN]
            /\ gauge' \in [Hosts -> Int]
            /\ processed' \in [Hosts -> [Outcome -> Nat]]
        BY <2>1, <3>1, MemoryType
      <3>5. QED
        BY <1>9, <2>1, <3>2, <3>3, <3>4 DEF FailFails
    <2>2. CASE s \in Docs /\ Return(s) /\ GaugeDec(s) /\ UNCHANGED <<client, processed>>
      BY <1>9, <2>2 DEF FailFails
    <2>3. QED
      BY <1>9, <2>1, <2>2 DEF FailFails
  <1>10. QED
    BY <1>1, <1>2, <1>3, <1>4, <1>5, <1>6, <1>7, <1>8, <1>9 DEF JobSteps, JobFaults

LEMMA TypeWorker ==
  ASSUME TypeOK, NEW w \in Workers,
         \/ WorkerStart(w) \/ LoopSteps(w) \/ DequeueFails(w)
         \/ Signal(w) \/ CrashWorker(w)
  PROVE  TypeOK'
  <1>0. w \in Slots /\ w \in Hosts
    BY DEF Slots, Hosts
  <1> USE <1>0, JobPieces, MemoryType DEF TypeOK, NoFault, Fault, Goto,
        dbVars, slotVars, requestVars, processVars, metricVars
  <1>1. CASE WorkerStart(w)
    <2>1. pc' \in [Slots -> IdlePC \cup BusyPC] /\ stop' \in [Workers -> BOOLEAN]
      BY <1>1 DEF WorkerStart, IdlePC
    <2>2. QED
      BY <1>1, <2>1 DEF WorkerStart
  <1>2. CASE WorkerPoll(w)
    BY <1>2 DEF WorkerPoll, IdlePC
  <1>3. CASE WorkerExit(w)
    BY <1>3 DEF WorkerExit
  <1>4. CASE WorkerDequeue(w)
    <2>1. pc' \in [Slots -> IdlePC \cup BusyPC]
      BY <1>4 DEF WorkerDequeue, BusyPC, InJobPC
    <2>2. job' \in [Slots -> Docs \cup {NoDoc}] /\ queue' \in Seq(Docs)
      BY <1>4, TailMembers DEF WorkerDequeue, Pop
    <2>3. QED
      BY <1>4, <2>1, <2>2 DEF WorkerDequeue
  <1>5. CASE WorkerTimeout(w)
    BY <1>5 DEF WorkerTimeout, IdlePC
  <1>6. CASE DequeueFails(w)
    <2>1. pc' \in [Slots -> IdlePC \cup BusyPC] /\ budget' \in Nat /\ struck' \subseteq FaultKinds
      BY <1>6 DEF DequeueFails, IdlePC
    <2>2. queue' \in Seq(Docs)
      <3>1. UNCHANGED queue \/ (queue # <<>> /\ Pop)
        BY <1>6 DEF DequeueFails, PopUnheard
      <3>2. QED
        BY <3>1, QueueType
    <2>3. QED
      BY <1>6, <2>1, <2>2 DEF DequeueFails
  <1>7. CASE Signal(w)
    BY <1>7 DEF Signal
  <1>8. CASE CrashWorker(w)
    BY <1>8 DEF CrashWorker
  <1>9. QED
    BY <1>1, <1>2, <1>3, <1>4, <1>5, <1>6, <1>7, <1>8 DEF LoopSteps

-----------------------------------------------------------------------------
\* What a step may do to the queue, in terms of its members.
LEMMA QueuedAfter ==
  ASSUME queue \in Seq(Docs)
  PROVE  /\ UNCHANGED queue => \A e \in Docs : Queued(e)' <=> Queued(e)
         /\ \A d \in Docs : Push(d) => \A e \in Docs : Queued(e)' <=> Queued(e) \/ e = d
         /\ queue # <<>> => Head(queue) \in Docs /\ Queued(Head(queue))
         /\ queue # <<>> /\ Pop => \A e \in Docs : Queued(e)' => Queued(e)
         /\ queue # <<>> /\ Pop => \A e \in Docs \ {Head(queue)} : Queued(e) => Queued(e)'
         /\ queue' = <<>> => \A e \in Docs : ~Queued(e)'
  <1>1. UNCHANGED queue => \A e \in Docs : Queued(e)' <=> Queued(e)
    BY DEF Queued
  <1>2. ASSUME NEW d \in Docs, Push(d), NEW e \in Docs
        PROVE  Queued(e)' <=> Queued(e) \/ e = d
    <2>1. queue' = Append(queue, d)
      BY <1>2 DEF Push
    <2>2. Queued(e)' => Queued(e) \/ e = d
      BY <2>1, AppendMembers DEF Queued
    <2>3. Queued(e) => Queued(e)'
      BY <2>1, AppendMembers DEF Queued
    <2>4. e = d => Queued(e)'
      <3>1. Len(queue) + 1 \in 1..Len(queue') /\ queue'[Len(queue) + 1] = d
        BY <2>1, AppendMembers
      <3>2. QED
        BY <3>1 DEF Queued
    <2>5. QED
      BY <2>2, <2>3, <2>4
  <1>3. queue # <<>> => Head(queue) \in Docs /\ Queued(Head(queue))
    BY TailMembers DEF Queued
  <1>4. ASSUME queue # <<>>, Pop, NEW e \in Docs, Queued(e)'
        PROVE  Queued(e)
    BY <1>4, TailMembers DEF Queued, Pop
  <1>5. ASSUME queue # <<>>, Pop, NEW e \in Docs \ {Head(queue)}, Queued(e)
        PROVE  Queued(e)'
    <2>1. PICK i \in 1..Len(queue) : queue[i] = e
      BY <1>5 DEF Queued
    <2>2. i # 1
      BY <1>5, <2>1, TailMembers
    <2>3. i - 1 \in 1..Len(Tail(queue)) /\ Tail(queue)[i - 1] = e
      BY <1>5, <2>1, <2>2, TailMembers
    <2>4. QED
      BY <1>5, <2>3 DEF Queued, Pop
  <1>6. queue' = <<>> => \A e \in Docs : ~Queued(e)'
    BY DEF Queued
  <1>7. QED
    BY <1>1, <1>2, <1>3, <1>4, <1>5, <1>6

\* A queue without duplicates keeps none after a pop or a fresh push, and a
\* popped document is no longer in it.
LEMMA NoDuplicatesAfter ==
  ASSUME queue \in Seq(Docs),
         \A i, j \in 1..Len(queue) : queue[i] = queue[j] => i = j
  PROVE  /\ \A d \in Docs : ~Queued(d) /\ Push(d) =>
              \A i, j \in 1..Len(queue') : queue'[i] = queue'[j] => i = j
         /\ queue # <<>> /\ Pop =>
              /\ \A i, j \in 1..Len(queue') : queue'[i] = queue'[j] => i = j
              /\ \A e : e = Head(queue) => ~Queued(e)'
  <1>1. ASSUME NEW d \in Docs, ~Queued(d), Push(d),
               NEW i \in 1..Len(queue'), NEW j \in 1..Len(queue'),
               queue'[i] = queue'[j]
        PROVE  i = j
    <2>1. /\ Len(queue') = Len(queue) + 1 /\ Len(queue) \in Nat
          /\ queue'[Len(queue) + 1] = d
          /\ \A k \in 1..Len(queue) : queue'[k] = queue[k] /\ queue[k] # d
      BY <1>1, AppendMembers DEF Push, Queued
    <2>2. QED
      BY <1>1, <2>1
  <1>2. ASSUME queue # <<>>, Pop
        PROVE  /\ \A i, j \in 1..Len(queue') : queue'[i] = queue'[j] => i = j
               /\ \A e : e = Head(queue) => ~Queued(e)'
    <2>1. /\ Len(queue') = Len(queue) - 1 /\ Len(queue) \in Nat \ {0}
          /\ Head(queue) = queue[1]
          /\ \A k \in 1..Len(queue') : k + 1 \in 1..Len(queue) /\ queue'[k] = queue[k + 1]
      BY <1>2, TailMembers DEF Pop
    <2>2. \A i, j \in 1..Len(queue') : queue'[i] = queue'[j] => i = j
      <3>1. SUFFICES ASSUME NEW i \in 1..Len(queue'), NEW j \in 1..Len(queue'),
                            queue'[i] = queue'[j]
                     PROVE  i = j
        OBVIOUS
      <3>2. i + 1 = j + 1
        BY <2>1, <3>1
      <3>3. QED
        BY <2>1, <3>2
    <2>3. \A e : e = Head(queue) => ~Queued(e)'
      <3>1. SUFFICES ASSUME NEW k \in 1..Len(queue'), queue'[k] = queue[1]
                     PROVE  FALSE
        BY <2>1 DEF Queued
      <3>2. k + 1 = 1
        BY <2>1, <3>1
      <3>3. QED
        BY <2>1, <3>2
    <2>4. QED
      BY <2>2, <2>3
  <1>3. QED
    BY <1>1, <1>2

\* RequestInv and JobInv, action by action.
LEMMA BaseApi ==
  ASSUME BaseInv, NEW a \in Apis, StartApi(a) \/ StopApi(a) \/ CrashApi(a)
  PROVE  RequestInv' /\ JobInv'
  <1> USE QueuedAfter DEF BaseInv, dbVars, slotVars, requestVars
  <1>1. CASE StartApi(a) \/ StopApi(a)
    BY <1>1 DEF StartApi, StopApi, TypeOK, RequestInv, JobInv, Held, OwnTask, Slots
  <1>2. CASE CrashApi(a)
    <2>1. RequestInv'
      BY <1>2 DEF CrashApi, RequestInv, InFlight, TypeOK
    <2>2. \A s \in Slots : \/ pc'[s] = pc[s] /\ job'[s] = job[s]
                           \/ pc'[s] = "none" /\ job'[s] = NoDoc
      BY <1>2 DEF CrashApi
    <2>3. \A d \in Docs : upload[d] \notin Undispatched => upload'[d] \notin Undispatched
      BY <1>2 DEF CrashApi, Undispatched
    <2>8. UNCHANGED status
      BY <1>2 DEF CrashApi
    <2>4. \A d \in Docs : Queued(d)' \/ Held(d)' => Queued(d) \/ Held(d)
      BY <1>2, <2>2, PipelineAssumption DEF CrashApi, Held, TypeOK
    <2>5. \A s \in Slots : pc'[s] \in IdlePC <=> job'[s] = NoDoc
      BY <2>2 DEF JobInv, IdlePC
    <2>6. OwnTask'
      BY <2>2 DEF JobInv, OwnTask, Slots
    <2>7. QED
      BY <2>1, <2>3, <2>4, <2>5, <2>6, <2>8 DEF JobInv
  <1>3. QED
    BY <1>1, <1>2

LEMMA BaseUpload ==
  ASSUME BaseInv, NEW d \in Docs,
         (\E a \in Apis : Request(d, a)) \/ UploadSteps(d) \/ UploadCommitFails(d)
  PROVE  RequestInv' /\ JobInv'
  <1> USE DEF BaseInv, Answer, InsertRow,
        dbVars, slotVars, requestVars, processVars, metricVars
  <1>1. ASSUME NEW a \in Apis, Request(d, a)
        PROVE  RequestInv' /\ JobInv'
    <2>1. RequestInv'
      BY <1>1 DEF Request, UploadReject, UploadSave, UploadSaveFails, RequestInv, TypeOK
    <2>2. /\ UNCHANGED <<queue, pc, job, status>>
          /\ \A e \in Docs : upload[e] \notin Undispatched => upload'[e] \notin Undispatched
      BY <1>1 DEF Request, UploadReject, UploadSave, UploadSaveFails, Undispatched, TypeOK
    <2>3. QED
      BY <2>1, <2>2 DEF JobInv, Queued, Held, OwnTask, Slots
  <1>2. CASE UploadCommit(d) \/ UploadCommitFails(d)
    <2>1. /\ upload[d] = "saved"
          /\ \E answer \in {"committed", "error"} : upload' = [upload EXCEPT ![d] = answer]
          /\ UNCHANGED file
          /\ status' = status \/ status' = [status EXCEPT ![d] = "pending"]
          /\ UploadCommit(d) => InsertRow(d) /\ upload'[d] = "committed"
          /\ UploadCommitFails(d) => upload'[d] = "error"
      BY <1>2 DEF UploadCommit, UploadCommitFails, ReadyToCommit, TypeOK
    <2>2. RequestInv'
      BY <1>2, <2>1 DEF RequestInv, TypeOK
    <2>3. /\ UNCHANGED <<queue, pc, job>>
          /\ \A e \in Docs : upload[e] \notin Undispatched => upload'[e] \notin Undispatched
          /\ \A e \in Docs : status[e] # "absent" => status'[e] # "absent"
      BY <1>2, <2>1 DEF UploadCommit, UploadCommitFails, Undispatched, TypeOK
    <2>4. QED
      BY <2>2, <2>3 DEF JobInv, Queued, Held, OwnTask, Slots
  <1>3. CASE UploadEnqueue(d) \/ UploadFallback(d)
    <2>1. /\ upload[d] = "committed"
          /\ upload' = [upload EXCEPT ![d] = "dispatched"]
          /\ UNCHANGED <<file, status>>
          /\ UNCHANGED queue \/ Push(d)
      BY <1>3 DEF UploadEnqueue, UploadFallback, EnqueueFails, EnqueueJob, ReadyToDispatch
    <2>2. RequestInv'
      BY <2>1 DEF RequestInv, TypeOK
    <2>3. \A e \in Docs : Queued(e)' => Queued(e) \/ e = d
      BY <2>1, QueuedAfter DEF TypeOK
    <2>4. /\ \A s \in Slots : job'[s] = job[s] \/ job'[s] = d
          /\ \A s \in Slots : pc'[s] \in IdlePC <=> job'[s] = NoDoc
      <3>1. UNCHANGED <<pc, job>> \/ AddBackgroundTask(d)
        BY <1>3 DEF UploadEnqueue, UploadFallback
      <3>2. QED
        BY <3>1, PipelineAssumption DEF AddBackgroundTask, JobInv, TypeOK, IdlePC
    <2>5. \A e \in Docs : Queued(e)' \/ Held(e)' =>
                           upload'[e] \notin Undispatched /\ status'[e] # "absent"
      BY <2>1, <2>3, <2>4 DEF JobInv, RequestInv, Undispatched, Held, TypeOK
    <2>6. OwnTask'
      <3>1. UNCHANGED <<pc, job>> \/ AddBackgroundTask(d)
        BY <1>3 DEF UploadEnqueue, UploadFallback
      <3>2. QED
        BY <3>1 DEF AddBackgroundTask, JobInv, OwnTask, TypeOK, Slots
    <2>7. QED
      BY <2>2, <2>4, <2>5, <2>6 DEF JobInv
  <1>4. CASE UploadAnswer(d)
    <2>1. /\ upload[d] = "dispatched"
          /\ upload' = [upload EXCEPT ![d] = "accepted"]
          /\ UNCHANGED <<file, status, queue, job>>
          /\ UNCHANGED pc \/ (pc[d] = "task" /\ pc' = [pc EXCEPT ![d] = "select"])
      BY <1>4 DEF UploadAnswer
    <2>2. RequestInv'
      BY <2>1 DEF RequestInv, TypeOK
    <2>3. \A s \in Slots : pc'[s] \in IdlePC <=> job'[s] = NoDoc
      BY <2>1 DEF JobInv, TypeOK, IdlePC
    <2>4. \A e \in Docs : Queued(e)' \/ Held(e)' =>
                           upload'[e] \notin Undispatched /\ status'[e] # "absent"
      BY <2>1 DEF JobInv, Queued, Held, Undispatched, TypeOK
    <2>5. OwnTask'
      BY <2>1 DEF JobInv, OwnTask
    <2>6. QED
      BY <2>2, <2>3, <2>4, <2>5 DEF JobInv
  <1>5. QED
    BY <1>1, <1>2, <1>3, <1>4 DEF UploadSteps

\* The steps of process_job write statuses, never "absent", and only of the
\* job in hand; they take no new job.
LEMMA BaseJob ==
  ASSUME BaseInv, NEW s \in Slots, JobSteps(s) \/ JobFaults(s)
  PROVE  RequestInv' /\ JobInv'
  <1> USE DEF BaseInv, dbVars, slotVars, requestVars, processVars, metricVars
  <1>0. /\ pc[s] \in BusyPC /\ job[s] \in Docs
        /\ upload[job[s]] \notin Undispatched /\ status[job[s]] # "absent"
    <2>1. pc[s] \in BusyPC
      BY DEF JobSteps, JobFaults, Select, SelectFails, Mark, MarkFails, Extract,
         Finish, FinishFails, Fail, FailFails, BusyPC, InJobPC
    <2>2. job[s] \in Docs
      BY <2>1 DEF JobInv, TypeOK, IdlePC, BusyPC, InJobPC
    <2>3. QED
      BY <2>1, <2>2 DEF JobInv, Held
  <1>1. UNCHANGED <<upload, file, queue>>
    BY DEF JobSteps, JobFaults, Select, SelectFails, Mark, MarkFails, Extract,
       Finish, FinishFails, Fail, FailFails
  <1>2. \/ status' = status
        \/ \E st \in {"processing", "completed", "failed"} :
             status' = [status EXCEPT ![job[s]] = st]
    BY DEF JobSteps, JobFaults, Select, SelectFails, Mark, MarkFails, Extract,
       Finish, FinishFails, Fail, FailFails, WriteProcessing, WriteResult, WriteFailure
  <1>3. RequestInv' /\ \A e \in Docs : status[e] # "absent" => status'[e] # "absent"
    BY <1>0, <1>1, <1>2 DEF RequestInv, Undispatched, TypeOK
  <1>4. \/ job' = job /\ \E where \in InJobPC : pc' = [pc EXCEPT ![s] = where]
        \/ Return(s) \/ Leave(s, "down")
    BY DEF JobSteps, JobFaults, Select, SelectFails, Mark, MarkFails, Extract,
       Finish, FinishFails, Fail, FailFails, InJobPC
  <1>5. /\ \A t \in Slots : job'[t] = job[t] \/ job'[t] = NoDoc
        /\ \A t \in Slots : pc'[t] \in IdlePC <=> job'[t] = NoDoc
    <2>1. CASE job' = job /\ \E where \in InJobPC : pc' = [pc EXCEPT ![s] = where]
      BY <1>0, <2>1, PipelineAssumption DEF JobInv, TypeOK, IdlePC, InJobPC
    <2>2. CASE Return(s) \/ Leave(s, "down")
      BY <2>2 DEF Return, Leave, JobInv, TypeOK, IdlePC
    <2>3. QED
      BY <1>4, <2>1, <2>2
  <1>6. \A e \in Docs : Queued(e)' \/ Held(e)' => Queued(e) \/ Held(e)
    BY <1>1, <1>5, PipelineAssumption DEF Queued, Held
  <1>7. OwnTask'
    BY <1>5 DEF JobInv, OwnTask, Slots
  <1>8. QED
    BY <1>1, <1>3, <1>5, <1>6, <1>7 DEF JobInv

LEMMA BaseWorker ==
  ASSUME BaseInv, NEW w \in Workers,
         \/ WorkerStart(w) \/ LoopSteps(w) \/ DequeueFails(w)
         \/ Signal(w) \/ CrashWorker(w)
  PROVE  RequestInv' /\ JobInv'
  <1> USE DEF BaseInv, dbVars, slotVars, requestVars, processVars, metricVars
  <1>0. w \in Slots
    BY DEF Slots
  <1>1. UNCHANGED <<upload, file, status>>
    BY DEF WorkerStart, LoopSteps, WorkerPoll, WorkerExit, WorkerDequeue,
       WorkerTimeout, DequeueFails, Signal, CrashWorker
  <1>2. RequestInv'
    BY <1>1 DEF RequestInv
  <1>3. \A e \in Docs : Queued(e)' => Queued(e)
    <2>1. queue' = queue \/ (queue # <<>> /\ Pop)
      BY DEF WorkerStart, LoopSteps, WorkerPoll, WorkerExit, WorkerDequeue,
         WorkerTimeout, DequeueFails, PopUnheard, Signal, CrashWorker
    <2>2. QED
      BY <2>1, QueuedAfter DEF TypeOK
  <1>4. CASE WorkerDequeue(w)
    <2>1. Head(queue) \in Docs /\ Queued(Head(queue))
      BY <1>4, QueuedAfter DEF WorkerDequeue, TypeOK
    <2>2. /\ \A t \in Slots : job'[t] = job[t] \/ job'[t] = Head(queue)
          /\ \A t \in Slots : pc'[t] \in IdlePC <=> job'[t] = NoDoc
      BY <1>0, <1>4, <2>1, PipelineAssumption
         DEF WorkerDequeue, Goto, JobInv, TypeOK, IdlePC
    <2>3. \A e \in Docs : Queued(e)' \/ Held(e)' => Queued(e) \/ Held(e)
      BY <1>3, <2>1, <2>2 DEF Held
    <2>4. OwnTask'
      BY <1>4, PipelineAssumption DEF WorkerDequeue, JobInv, OwnTask, TypeOK, Slots
    <2>5. QED
      BY <1>1, <1>2, <2>2, <2>3, <2>4 DEF JobInv
  <1>5. CASE ~WorkerDequeue(w)
    <2>1. \/ UNCHANGED <<pc, job>>
          \/ pc[w] \in IdlePC /\ job' = job
             /\ \E where \in IdlePC : pc' = [pc EXCEPT ![w] = where]
          \/ Leave(w, "down")
      BY <1>5 DEF WorkerStart, LoopSteps, WorkerPoll, WorkerExit, WorkerTimeout,
         DequeueFails, Signal, CrashWorker, Goto, IdlePC
    <2>2. /\ \A t \in Slots : job'[t] = job[t] \/ job'[t] = NoDoc
          /\ \A t \in Slots : pc'[t] \in IdlePC <=> job'[t] = NoDoc
      BY <1>0, <2>1 DEF Leave, JobInv, TypeOK, IdlePC
    <2>3. \A e \in Docs : Queued(e)' \/ Held(e)' => Queued(e) \/ Held(e)
      BY <1>3, <2>2, PipelineAssumption DEF Held
    <2>4. OwnTask'
      BY <2>2 DEF JobInv, OwnTask, Slots
    <2>5. QED
      BY <1>1, <1>2, <2>2, <2>3, <2>4 DEF JobInv
  <1>6. QED
    BY <1>4, <1>5

\* Losing the list only shrinks the queue.
LEMMA BaseRedisLoss ==
  ASSUME BaseInv, RedisLoss
  PROVE  BaseInv'
  <1> USE DEF BaseInv, RedisLoss, Fault, dbVars, slotVars, requestVars, processVars, metricVars
  <1>1. TypeOK'
    BY DEF TypeOK
  <1>2. \A e \in Docs : Queued(e)' \/ Held(e)' => Held(e)
    BY QueuedAfter DEF TypeOK, Held
  <1>3. RequestInv' /\ JobInv'
    BY <1>2 DEF RequestInv, JobInv, OwnTask, Slots
  <1>4. QED
    BY <1>1, <1>3

LEMMA BaseStep == BaseInv /\ [Next]_vars => BaseInv'
  <1> SUFFICES ASSUME BaseInv, [Next]_vars
               PROVE  BaseInv'
    OBVIOUS
  <1>1. ASSUME NEW a \in Apis, StartApi(a) \/ StopApi(a) \/ CrashApi(a)
        PROVE  BaseInv'
    BY <1>1, TypeApi, BaseApi DEF BaseInv
  <1>2. ASSUME NEW d \in Docs,
               (\E a \in Apis : Request(d, a)) \/ UploadSteps(d) \/ UploadCommitFails(d)
        PROVE  BaseInv'
    BY <1>2, TypeUpload, BaseUpload DEF BaseInv
  <1>3. ASSUME NEW s \in Slots, JobSteps(s) \/ JobFaults(s)
        PROVE  BaseInv'
    BY <1>3, TypeJob, BaseJob DEF BaseInv
  <1>4. ASSUME NEW w \in Workers,
               WorkerStart(w) \/ LoopSteps(w) \/ DequeueFails(w)
               \/ Signal(w) \/ CrashWorker(w)
        PROVE  BaseInv'
    BY <1>4, TypeWorker, BaseWorker DEF BaseInv
  <1>5. CASE RedisLoss
    BY <1>5, BaseRedisLoss
  <1>6. CASE UNCHANGED vars
    <2> USE <1>6 DEF vars, dbVars, slotVars, requestVars, processVars, metricVars
    <2>1. TypeOK'
      BY DEF BaseInv, TypeOK
    <2>2. RequestInv' /\ JobInv'
      BY DEF BaseInv, RequestInv, JobInv, Queued, Held, OwnTask, Slots
    <2>3. QED
      BY <2>1, <2>2 DEF BaseInv
  <1>7. QED
    BY <1>1, <1>2, <1>3, <1>4, <1>5, <1>6 DEF Next

LEMMA InitNoJobs == Init => \A d \in Docs : ~Queued(d) /\ ~Held(d)
  <1> SUFFICES ASSUME Init
               PROVE  \A d \in Docs : ~Queued(d) /\ ~Held(d)
    OBVIOUS
  <1>1. Len(queue) = 0
    BY DEF Init
  <1>2. \A s \in Slots : job[s] = NoDoc
    BY DEF Init
  <1>3. QED
    BY <1>1, <1>2, PipelineAssumption DEF Queued, Held

LEMMA BaseInit == Init => BaseInv
  <1> SUFFICES ASSUME Init
               PROVE  BaseInv
    OBVIOUS
  <1>1. TypeOK
    BY TypeInit
  <1>2. RequestInv
    BY DEF Init, RequestInv
  <1>3. \A d \in Docs : ~Queued(d) /\ ~Held(d)
    BY InitNoJobs
  <1>4. \A s \in Slots : pc[s] \in IdlePC /\ job[s] = NoDoc
    BY DEF Init, IdlePC
  <1>5. QED
    BY <1>1, <1>2, <1>3, <1>4 DEF BaseInv, JobInv, OwnTask, Slots

\* The row, the file and the job of a document agree in every reachable
\* state, whatever fails: the inductive invariant of the pipeline.
THEOREM BaseInvariant == Spec => []BaseInv
  <1>1. QED
    BY BaseInit, BaseStep, PTL DEF Spec

\* Every variable has its type in every reachable state.
THEOREM TypeCorrect == Spec => []TypeOK
  <1>1. BaseInv => TypeOK
    BY DEF BaseInv
  <1>2. QED
    BY <1>1, BaseInvariant, PTL

\* A committed row always names a file stored whole, whatever fails.
THEOREM RowsHaveFiles == Spec => []RowHasFile
  <1>1. BaseInv => RowHasFile
    BY DEF BaseInv, RequestInv, RowHasFile
  <1>2. QED
    BY <1>1, BaseInvariant, PTL

\* A job in the queue or in a slot's hands always has its committed row,
\* whatever fails: no process ever takes the "document not found" branch.
THEOREM JobsHaveRows == Spec => []JobHasRow
  <1>1. BaseInv => JobHasRow
    BY DEF BaseInv, JobInv, JobHasRow
  <1>2. QED
    BY <1>1, BaseInvariant, PTL
-----------------------------------------------------------------------------
\* A step injects one fault or none.
LEMMA FaultStep == [Next]_vars => NoFault \/ \E kind \in FaultKinds : Fault(kind)
  <1> SUFFICES ASSUME [Next]_vars
               PROVE  NoFault \/ \E kind \in FaultKinds : Fault(kind)
    OBVIOUS
  <1> DEFINE One == NoFault \/ \E kind \in FaultKinds : Fault(kind)
  <1>0. ASSUME NEW kind, Fault(kind)
        PROVE  One
    BY <1>0 DEF Fault
  <1> HIDE DEF One
  <1>n. NoFault => One
    BY DEF One
  <1> USE <1>0, <1>n
  <1>1. ASSUME NEW a \in Apis, StartApi(a) \/ StopApi(a) \/ CrashApi(a)
        PROVE  One
    BY <1>1 DEF StartApi, StopApi, CrashApi, InitRedis
  <1>2. ASSUME NEW d \in Docs,
               (\E a \in Apis : Request(d, a)) \/ UploadSteps(d) \/ UploadCommitFails(d)
        PROVE  One
    BY <1>2 DEF Request, UploadReject, UploadSave, UploadSaveFails, UploadSteps,
       UploadCommit, UploadCommitFails, UploadEnqueue, UploadFallback, EnqueueFails,
       UploadAnswer
  <1>3. ASSUME NEW s \in Slots, JobSteps(s) \/ JobFaults(s)
        PROVE  One
    BY <1>3 DEF JobSteps, JobFaults, Select, SelectFails, Mark, MarkFails, Extract,
       Finish, FinishFails, Fail, FailFails
  <1>4. ASSUME NEW w \in Workers,
               WorkerStart(w) \/ LoopSteps(w) \/ DequeueFails(w)
               \/ Signal(w) \/ CrashWorker(w)
        PROVE  One
    BY <1>4 DEF WorkerStart, LoopSteps, WorkerPoll, WorkerExit, WorkerDequeue,
       WorkerTimeout, DequeueFails, Signal, CrashWorker, InitRedis
  <1>5. ASSUME RedisLoss \/ UNCHANGED vars
        PROVE  One
    BY <1>5 DEF RedisLoss, vars, NoFault
  <1>6. One
    BY <1>1, <1>2, <1>3, <1>4, <1>5 DEF Next
  <1>7. QED
    BY <1>6 DEF One

\* A fault that has struck has struck for good.
LEMMA StruckGrows == [Next]_vars => struck \subseteq struck'
  BY FaultStep DEF NoFault, Fault

-----------------------------------------------------------------------------
\* A step that takes no job in hand, pushes none and writes no result.
LEMMA NothingTaken ==
  ASSUME BaseInv, QueueInv, RunsInv,
         \/ UNCHANGED queue
         \/ queue # <<>> /\ Pop
         \/ queue' = <<>>,
         \A s \in Slots : job'[s] = job[s] \/ job'[s] = NoDoc,
         \A d \in Docs : upload'[d] \in Undispatched => upload[d] \in Undispatched,
         UNCHANGED recs
  PROVE  QueueInv' /\ RunsInv'
  <1> USE DEF BaseInv
  <1>1. \A d \in Docs : Queued(d)' => Queued(d)
    BY QueuedAfter DEF TypeOK
  <1>2. \A i, j \in 1..Len(queue') : queue'[i] = queue'[j] => i = j
    <2>1. CASE UNCHANGED queue
      BY <2>1 DEF QueueInv
    <2>2. CASE queue # <<>> /\ Pop
      BY <2>2, NoDuplicatesAfter DEF QueueInv, TypeOK
    <2>3. CASE queue' = <<>>
      BY <2>3
    <2>4. QED
      BY <2>1, <2>2, <2>3
  <1>3. \A w \in Workers : job'[w] # NoDoc => ~Queued(job[w])' /\ job'[w] = job[w]
    <2>1. \A w \in Workers : w \in Slots /\ job[w] \in Docs \cup {NoDoc}
      BY DEF Slots, TypeOK
    <2>2. ASSUME NEW w \in Workers, job'[w] # NoDoc
          PROVE  ~Queued(job[w])' /\ job'[w] = job[w]
      <3>1. job'[w] = job[w] /\ job[w] \in Docs /\ ~Queued(job[w])
        BY <2>1, <2>2 DEF QueueInv
      <3>2. QED
        BY <1>1, <3>1 DEF Queued
    <2>3. QED
      BY <2>2
  <1>4. QueueInv'
    <2>1. \A w \in Workers : job'[w] # NoDoc => ~Queued(job[w])'
      BY <1>3
    <2>2. \A v, w \in Workers : job'[v] = job'[w] /\ job'[v] # NoDoc => v = w
      BY <1>3 DEF QueueInv
    <2>4. QED
      BY <1>2, <2>1, <2>2 DEF QueueInv
  <1>5. \A d \in Docs : Waits(d)' => Waits(d)
    BY <1>1, PipelineAssumption DEF Waits, Slots
  <1>6. \A d \in Docs : job'[d] = d => job[d] = d
    BY PipelineAssumption DEF Slots
  <1>7. QED
    BY <1>4, <1>5, <1>6 DEF RunsInv

\* The rows a step leaves alone stay as consistent as they were.
LEMMA RowsKept ==
  ASSUME BaseInv, CompletedHasRecords, UNCHANGED <<recs, err>>,
         UNCHANGED status \/ \E d \in Docs : InsertRow(d)
  PROVE  CompletedHasRecords'
  BY DEF BaseInv, TypeOK, CompletedHasRecords, InsertRow

\* The job of an upload goes to the queue, to a task or to both; it was
\* nowhere before.
LEMMA RunsDispatch ==
  ASSUME BaseInv, QueueInv, RunsInv, NEW d \in Docs,
         UploadEnqueue(d) \/ UploadFallback(d)
  PROVE  QueueInv' /\ RunsInv'
  <1> USE DEF BaseInv
  <1>1. /\ upload[d] = "committed"
        /\ upload' = [upload EXCEPT ![d] = "dispatched"]
        /\ UNCHANGED recs
        /\ UNCHANGED queue \/ Push(d)
        /\ UNCHANGED job \/ job' = [job EXCEPT ![d] = d]
    BY DEF UploadEnqueue, UploadFallback, EnqueueFails, EnqueueJob, ReadyToDispatch,
       Answer, AddBackgroundTask, slotVars, dbVars
  <1>2. ~Queued(d) /\ ~Held(d) /\ recs[d] = 0 /\ d \in Slots /\ d \notin Workers
    BY <1>1, PipelineAssumption DEF JobInv, RunsInv, Undispatched, Slots
  <1>3. \A e \in Docs : e # d => (Queued(e)' <=> Queued(e))
    BY <1>1, QueuedAfter DEF TypeOK
  <1>4. \A i, j \in 1..Len(queue') : queue'[i] = queue'[j] => i = j
    BY <1>1, <1>2, NoDuplicatesAfter DEF QueueInv, TypeOK
  <1>5. \A s \in Slots : s # d => job'[s] = job[s]
    BY <1>1 DEF TypeOK
  <1>6. \A w \in Workers : /\ job'[w] = job[w] /\ job[w] # d
                           /\ job[w] \in Docs \cup {NoDoc}
    BY <1>2, <1>5 DEF Held, TypeOK, Slots
  <1>7. QueueInv'
    <2>1. ASSUME NEW w \in Workers, job'[w] # NoDoc
          PROVE  ~Queued(job[w])'
      <3>1. PICK e \in Docs : e = job[w]
        BY <1>6, <2>1
      <3>2. ~Queued(e) /\ e # d
        BY <1>6, <2>1, <3>1 DEF QueueInv
      <3>3. ~Queued(e)'
        BY <1>3, <3>2
      <3>4. QED
        BY <1>6, <3>1, <3>3 DEF Queued
    <2>2. QED
      BY <1>4, <1>6, <2>1 DEF QueueInv
  <1>8. \A e \in Docs : e # d => (Waits(e)' <=> Waits(e))
    BY <1>3, <1>6 DEF Waits
  <1>9. RunsInv'
    <2>1. ASSUME NEW e \in Docs, e # d
          PROVE  upload'[e] = upload[e] /\ job'[e] = job[e]
      BY <1>1, <1>5, <2>1 DEF TypeOK, Slots
    <2>2. upload'[d] \notin Undispatched
      BY <1>1 DEF Undispatched, TypeOK
    <2>3. QED
      BY <1>1, <1>2, <1>8, <2>1, <2>2 DEF RunsInv
  <1>10. QED
    BY <1>7, <1>9

\* What a step of process_job does to the rows and to the job in hand,
\* whoever else holds the document.
LEMMA JobEffect ==
  ASSUME BaseInv, NEW s \in Slots, JobSteps(s) \/ JobFaults(s),
         NEW d, d = job[s]
  PROVE  /\ d \in Docs /\ upload[d] \notin Undispatched /\ status[d] # "absent"
         /\ UNCHANGED <<upload, queue>>
         /\ UNCHANGED job \/ job' = [job EXCEPT ![s] = NoDoc]
         /\ \/ UNCHANGED <<status, recs, err>>
            \/ WriteProcessing(s) /\ UNCHANGED <<recs, err>>
            \/ job' = [job EXCEPT ![s] = NoDoc] /\ WriteResult(s) /\ UNCHANGED err
            \/ job' = [job EXCEPT ![s] = NoDoc] /\ WriteFailure(s) /\ UNCHANGED recs
  <1> USE DEF dbVars, slotVars, requestVars, processVars, metricVars
  <1>1. pc[s] \in BusyPC
    BY DEF JobSteps, JobFaults, Select, SelectFails, Mark, MarkFails, Extract,
       Finish, FinishFails, Fail, FailFails, BusyPC, InJobPC
  <1>2. d \in Docs /\ d # NoDoc
    BY <1>1, PipelineAssumption DEF BaseInv, JobInv, TypeOK, IdlePC, BusyPC, InJobPC
  <1>3. upload[d] \notin Undispatched /\ status[d] # "absent"
    BY <1>2 DEF BaseInv, JobInv, Held
  <1>4. UNCHANGED <<upload, queue>>
    BY DEF JobSteps, JobFaults, Select, SelectFails, Mark, MarkFails, Extract,
       Finish, FinishFails, Fail, FailFails
  <1>5. /\ UNCHANGED job \/ job' = [job EXCEPT ![s] = NoDoc]
        /\ \/ UNCHANGED <<status, recs, err>>
           \/ WriteProcessing(s) /\ UNCHANGED <<recs, err>>
           \/ job' = [job EXCEPT ![s] = NoDoc] /\ WriteResult(s) /\ UNCHANGED err
           \/ job' = [job EXCEPT ![s] = NoDoc] /\ WriteFailure(s) /\ UNCHANGED recs
    BY DEF JobSteps, JobFaults, Select, SelectFails, Mark, MarkFails, Extract,
       Finish, FinishFails, Fail, FailFails, Return, Leave
  <1>6. QED
    BY <1>2, <1>3, <1>4, <1>5

LEMMA RunsJob ==
  ASSUME BaseInv, QueueInv, RunsInv, CompletedHasRecords,
         NEW s \in Slots, JobSteps(s) \/ JobFaults(s)
  PROVE  QueueInv' /\ RunsInv' /\ CompletedHasRecords'
  <1>0. PICK d \in Docs : d = job[s]
    BY JobEffect
  <1>1. /\ upload[d] \notin Undispatched
        /\ UNCHANGED <<upload, queue>>
        /\ UNCHANGED job \/ job' = [job EXCEPT ![s] = NoDoc]
    BY <1>0, JobEffect
  <1>2. \/ UNCHANGED <<status, recs, err>>
        \/ WriteProcessing(s) /\ UNCHANGED <<recs, err>>
        \/ job' = [job EXCEPT ![s] = NoDoc] /\ WriteResult(s) /\ UNCHANGED err
        \/ job' = [job EXCEPT ![s] = NoDoc] /\ WriteFailure(s) /\ UNCHANGED recs
    BY JobEffect
  <1>3. \A t \in Slots : job'[t] = job[t] \/ job'[t] = NoDoc
    BY <1>1 DEF BaseInv, TypeOK
  <1>4. CASE UNCHANGED recs
    <2>1. QueueInv' /\ RunsInv'
      BY <1>1, <1>3, <1>4, NothingTaken
    <2>2. CompletedHasRecords'
      BY <1>0, <1>2, <1>4 DEF CompletedHasRecords, WriteProcessing, WriteResult,
         WriteFailure, BaseInv, TypeOK
    <2>3. QED
      BY <2>1, <2>2
  <1>5. CASE job' = [job EXCEPT ![s] = NoDoc] /\ WriteResult(s) /\ UNCHANGED err
    <2>1. /\ recs'[d] = recs[d] + 1 /\ status'[d] = "completed" /\ recs[d] \in Nat
          /\ \A e \in Docs \ {d} : recs'[e] = recs[e] /\ status'[e] = status[e]
      BY <1>0, <1>5 DEF WriteResult, BaseInv, TypeOK
    <2>2. job[s] # NoDoc /\ job'[s] = NoDoc /\ \A w \in Workers : w \in Slots
      BY <1>0, <1>5, PipelineAssumption DEF BaseInv, TypeOK, Slots
    <2>3. \A e \in Docs : Queued(e)' <=> Queued(e)
      BY <1>1 DEF Queued
    <2>4. QueueInv'
      BY <1>1, <1>3, <2>2 DEF QueueInv, Queued
    <2>5. \A e \in Docs : (Waits(e)' => Waits(e)) /\ (job'[e] = e => job[e] = e)
      BY <1>3, <2>2, <2>3, PipelineAssumption DEF Waits, Slots
    <2>6. (Waits(d) /\ ~Waits(d)') \/ (job[d] = d /\ job'[d] # d)
      <3>1. CASE s \in Workers
        BY <1>0, <1>3, <2>2, <2>3, <3>1 DEF QueueInv, Waits
      <3>2. CASE s \in Docs
        BY <1>0, <2>2, <3>2, PipelineAssumption DEF BaseInv, JobInv, OwnTask
      <3>3. QED
        BY <3>1, <3>2 DEF Slots
    <2>7. /\ recs[d] <= 1 /\ (Waits(d)' \/ job'[d] = d => recs[d] = 0)
          /\ ~(Waits(d)' /\ job'[d] = d)
      BY <2>5, <2>6 DEF RunsInv
    <2>8. RunsInv'
      <3>1. ASSUME NEW e \in Docs, e # d
            PROVE  /\ upload'[e] = upload[e] /\ recs'[e] = recs[e]
                   /\ Waits(e)' => Waits(e)
                   /\ job'[e] = e => job[e] = e
        BY <1>1, <2>1, <2>5, <3>1
      <3>2. QED
        BY <1>1, <2>1, <2>7, <3>1 DEF RunsInv
    <2>9. CompletedHasRecords'
      BY <1>5, <2>1, <2>7 DEF CompletedHasRecords
    <2>10. QED
      BY <2>4, <2>8, <2>9
  <1>6. QED
    BY <1>2, <1>4, <1>5 DEF WriteFailure

\* A job that a worker pops was in the queue once and is there no more.
LEMMA RunsDequeue ==
  ASSUME BaseInv, QueueInv, RunsInv, NEW w \in Workers, WorkerDequeue(w)
  PROVE  QueueInv' /\ RunsInv'
  <1> USE DEF BaseInv, dbVars, requestVars
  <1>1. queue # <<>> /\ Pop /\ job' = [job EXCEPT ![w] = Head(queue)] /\ w \in Slots
        /\ UNCHANGED <<recs, upload>>
    BY DEF WorkerDequeue, Slots
  <1>2. PICK d \in Docs : d = Head(queue) /\ Queued(d)
    BY <1>1, QueuedAfter DEF TypeOK
  <1>3. /\ \A i, j \in 1..Len(queue') : queue'[i] = queue'[j] => i = j
        /\ ~Queued(d)'
    BY <1>1, <1>2, NoDuplicatesAfter DEF QueueInv, TypeOK
  <1>4. \A e \in Docs : Queued(e)' => Queued(e)
    BY <1>1, QueuedAfter DEF TypeOK
  <1>5. job'[w] = d /\ \A s \in Slots \ {w} : job'[s] = job[s]
    BY <1>1, <1>2 DEF TypeOK
  <1>6. \A v \in Workers : job[v] # d
    BY <1>2, PipelineAssumption DEF QueueInv
  <1>7. \A v \in Workers : job'[v] # NoDoc => ~Queued(job[v])'
    <2>1. SUFFICES ASSUME NEW v \in Workers, NEW e \in Docs, job'[v] = e
                   PROVE  ~Queued(e)'
      <3>1. \A v \in Workers : job'[v] \in Docs \cup {NoDoc}
        BY <1>5 DEF TypeOK, Slots
      <3>2. QED
        BY <3>1 DEF Queued
    <2>2. CASE v = w
      BY <1>3, <1>5, <2>1, <2>2
    <2>3. CASE v # w
      BY <1>4, <1>5, <2>1, <2>3, PipelineAssumption DEF QueueInv, Slots
    <2>4. QED
      BY <2>2, <2>3
  <1>8. QueueInv'
    <2>1. \A u, v \in Workers : job'[u] = job'[v] /\ job'[u] # NoDoc => u = v
      BY <1>5, <1>6 DEF QueueInv, Slots
    <2>2. QED
      BY <1>3, <1>7, <2>1 DEF QueueInv
  <1>9. \A e \in Docs : (Waits(e)' => Waits(e)) /\ job'[e] = job[e]
    BY <1>2, <1>4, <1>5, PipelineAssumption DEF Waits, Slots
  <1>10. QED
    BY <1>1, <1>8, <1>9 DEF RunsInv

-----------------------------------------------------------------------------
\* A step in which no call of process_job begins or ends.
LEMMA GaugeSame ==
  ASSUME GaugeInv, UNCHANGED gauge, \A h \in Hosts : Active(h)' = Active(h)
  PROVE  GaugeInv'
  BY DEF GaugeInv, GaugeMatchesActive

\* The step in which a call of process_job begins or ends.
LEMMA GaugeMoves ==
  ASSUME TypeOK, GaugeInv, NEW s \in Slots, UNCHANGED host,
         \A t \in Slots \ {s} : pc'[t] = pc[t],
         \/ pc[s] \notin InJobPC /\ pc'[s] \in InJobPC /\ GaugeInc(s)
         \/ pc[s] \in InJobPC /\ pc'[s] \notin InJobPC /\ GaugeDec(s)
  PROVE  GaugeInv'
  <1> DEFINE g == HostOf(s)
  <1>1. \A t \in Slots : HostOf(t)' = HostOf(t)
    BY DEF HostOf
  <1>2. \A h \in Hosts : IsFiniteSet(Active(h)) /\ gauge[h] = Cardinality(Active(h))
    BY DEF GaugeInv, GaugeMatchesActive
  <1>3. ASSUME NEW h \in Hosts, h # g
        PROVE  Active(h)' = Active(h) /\ gauge'[h] = gauge[h]
    <2>1. Active(h)' = Active(h)
      BY <1>1, <1>3 DEF Active
    <2>2. gauge'[h] = gauge[h]
      BY <1>3 DEF TypeOK, GaugeInc, GaugeDec
    <2>3. QED
      BY <2>1, <2>2
  <1>4. ASSUME NEW h \in Hosts, h = g, pc[s] \notin InJobPC, pc'[s] \in InJobPC, GaugeInc(s)
        PROVE  IsFiniteSet(Active(h)') /\ gauge'[h] = Cardinality(Active(h)')
    <2>1. Active(h)' = Active(h) \cup {s} /\ s \notin Active(h)
      BY <1>1, <1>4 DEF Active
    <2>2. gauge'[h] = gauge[h] + 1
      BY <1>4 DEF GaugeInc, TypeOK
    <2>3. QED
      BY <1>2, <2>1, <2>2, FS_AddElement
  <1>5. ASSUME NEW h \in Hosts, h = g, pc[s] \in InJobPC, pc'[s] \notin InJobPC, GaugeDec(s)
        PROVE  IsFiniteSet(Active(h)') /\ gauge'[h] = Cardinality(Active(h)')
    <2>1. Active(h)' = Active(h) \ {s} /\ s \in Active(h)
      BY <1>1, <1>5 DEF Active
    <2>2. gauge'[h] = gauge[h] - 1
      BY <1>5 DEF GaugeDec, TypeOK
    <2>3. QED
      BY <1>2, <2>1, <2>2, FS_RemoveElement
  <1>6. QED
    BY <1>2, <1>3, <1>4, <1>5 DEF GaugeInv, GaugeMatchesActive

\* A process that ends takes its jobs along with its gauge.
LEMMA GaugeLost ==
  ASSUME TypeOK, GaugeInv, NEW h \in Hosts, MemoryLost(h),
         \A s \in Active(h) : pc'[s] \in IdlePC,
         \A s \in Slots \ Active(h) : pc'[s] = pc[s] \/ {pc[s], pc'[s]} \cap InJobPC = {},
         \A s \in Slots : HostOf(s)' = HostOf(s) \/ (pc'[s] \in IdlePC /\ HostOf(s) = h)
  PROVE  GaugeInv'
  <1>1. IdlePC \cap InJobPC = {}
    BY DEF IdlePC, InJobPC
  <1>2. Active(h)' = {} /\ gauge'[h] = 0
    <2>1. Active(h)' = {}
      BY <1>1 DEF Active
    <2>2. QED
      BY <2>1 DEF MemoryLost, TypeOK
  <1>3. ASSUME NEW g \in Hosts, g # h
        PROVE  Active(g)' = Active(g) /\ gauge'[g] = gauge[g]
    <2>1. \A s \in Slots : s \in Active(g)' <=> s \in Active(g)
      BY <1>1, <1>3 DEF Active
    <2>2. QED
      BY <1>3, <2>1 DEF Active, MemoryLost, TypeOK
  <1>4. QED
    BY <1>2, <1>3, FS_EmptySet DEF GaugeInv, GaugeMatchesActive

LEMMA GaugeApi ==
  ASSUME BaseInv, GaugeInv, NEW a \in Apis, StartApi(a) \/ StopApi(a) \/ CrashApi(a)
  PROVE  GaugeInv'
  <1> USE DEF slotVars, requestVars, metricVars
  <1>1. a \in Hosts /\ \A s \in Active(a) : s \in Docs /\ host[s] = a
    BY PipelineAssumption DEF Active, HostOf, Slots, Hosts
  <1>2. CASE StartApi(a)
    BY <1>2, GaugeSame DEF StartApi, Active, HostOf
  <1>3. CASE StopApi(a)
    <2>1. \A s \in Active(a) : FALSE
      BY <1>1, <1>3 DEF StopApi, BusyApi, Active, BaseInv, JobInv, IdlePC, InJobPC
    <2>2. \A s \in Slots : HostOf(s)' = HostOf(s)
      BY <1>3 DEF StopApi, HostOf
    <2>3. QED
      BY <1>1, <1>3, <2>1, <2>2, GaugeLost DEF StopApi, BaseInv
  <1>4. CASE CrashApi(a)
    <2>1. \A s \in Active(a) : s \in Slots /\ pc'[s] = "none"
      BY <1>1, <1>4 DEF CrashApi, Active
    <2>2. ASSUME NEW s \in Slots \ Active(a)
          PROVE  pc'[s] = pc[s] \/ {pc[s], pc'[s]} \cap InJobPC = {}
      <3>1. CASE s \in Docs /\ host[s] = a
        BY <1>4, <3>1, PipelineAssumption DEF CrashApi, Active, HostOf, InJobPC
      <3>2. CASE ~(s \in Docs /\ host[s] = a)
        BY <1>4, <3>2 DEF CrashApi
      <3>3. QED
        BY <3>1, <3>2
    <2>3. ASSUME NEW s \in Slots
          PROVE  HostOf(s)' = HostOf(s) \/ (pc'[s] \in IdlePC /\ HostOf(s) = a)
      <3>1. CASE s \in Docs /\ host[s] = a
        BY <1>4, <3>1, PipelineAssumption DEF CrashApi, HostOf, IdlePC
      <3>2. CASE ~(s \in Docs /\ host[s] = a)
        BY <1>4, <3>2 DEF CrashApi, RunsOnlyIn, HostOf, Slots
      <3>3. QED
        BY <3>1, <3>2
    <2>4. QED
      BY <1>1, <1>4, <2>1, <2>2, <2>3, GaugeLost DEF CrashApi, BaseInv, IdlePC
  <1>5. QED
    BY <1>2, <1>3, <1>4

\* A request touches no gauge before the 202 behind which its task begins;
\* a document gets its host before its job.
LEMMA GaugeUpload ==
  ASSUME BaseInv, GaugeInv, NEW d \in Docs,
         (\E a \in Apis : Request(d, a)) \/ UploadSteps(d) \/ UploadCommitFails(d)
  PROVE  GaugeInv'
  <1> USE DEF slotVars, requestVars, metricVars
  <1>0. d \in Slots /\ d \notin Workers
    BY PipelineAssumption DEF Slots
  <1>1. CASE ~UploadAnswer(d)
    <2>0. upload[d] \in Undispatched /\ UNCHANGED gauge
      BY <1>1 DEF Request, UploadReject, UploadSave, UploadSaveFails, UploadSteps,
         UploadCommit, UploadCommitFails, UploadEnqueue, UploadFallback,
         ReadyToCommit, ReadyToDispatch, Undispatched
    <2>1. pc[d] \in IdlePC
      BY <1>0, <2>0 DEF BaseInv, JobInv, Held, OwnTask
    <2>2. /\ \A s \in Slots \ {d} : pc'[s] = pc[s] /\ HostOf(s)' = HostOf(s)
          /\ pc'[d] = pc[d] \/ pc'[d] = "task"
      BY <1>1 DEF Request, UploadReject, UploadSave, UploadSaveFails, UploadSteps,
         UploadCommit, UploadCommitFails, UploadEnqueue, UploadFallback,
         AddBackgroundTask, HostOf, BaseInv, TypeOK, Slots
    <2>3. \A h \in Hosts : Active(h)' = Active(h)
      BY <1>0, <2>1, <2>2 DEF Active, IdlePC, InJobPC
    <2>4. QED
      BY <2>0, <2>3, GaugeSame
  <1>2. CASE UploadAnswer(d)
    <2>1. CASE pc[d] = "task"
      <3>1. /\ pc[d] \notin InJobPC /\ pc'[d] \in InJobPC /\ GaugeInc(d)
            /\ \A s \in Slots \ {d} : pc'[s] = pc[s]
            /\ UNCHANGED host
        BY <1>0, <1>2, <2>1 DEF UploadAnswer, InJobPC, BaseInv, TypeOK
      <3>2. QED
        BY <1>0, <3>1, GaugeMoves DEF BaseInv
    <2>2. CASE pc[d] # "task"
      BY <1>2, <2>2, GaugeSame DEF UploadAnswer, Active, HostOf
    <2>3. QED
      BY <2>1, <2>2
  <1>3. QED
    BY <1>1, <1>2

LEMMA GaugeJob ==
  ASSUME BaseInv, GaugeInv, NEW s \in Slots, JobSteps(s) \/ JobFaults(s)
  PROVE  GaugeInv'
  <1> USE DEF BaseInv, requestVars, metricVars
  <1>0. pc \in [Slots -> IdlePC \cup BusyPC] /\ UNCHANGED host
    BY DEF TypeOK, JobSteps, JobFaults, Select, SelectFails, Mark, MarkFails, Extract,
       Finish, FinishFails, Fail, FailFails
  <1>1. CASE \/ Mark(s) \/ Extract(s)
             \/ (Select(s) /\ status[job[s]] # "absent")
    <2>1. /\ UNCHANGED gauge
          /\ \A t \in Slots \ {s} : pc'[t] = pc[t]
          /\ pc'[s] \in InJobPC <=> pc[s] \in InJobPC
      BY <1>0, <1>1 DEF Select, Mark, Extract, InJobPC
    <2>2. \A h \in Hosts : Active(h)' = Active(h)
      BY <1>0, <2>1 DEF Active, HostOf
    <2>3. QED
      BY <2>1, <2>2, GaugeSame
  <1>2. CASE Select(s) /\ status[job[s]] = "absent"
    <2>1. /\ pc[s] \in InJobPC /\ pc'[s] \notin InJobPC /\ GaugeDec(s)
          /\ \A t \in Slots \ {s} : pc'[t] = pc[t]
      BY <1>0, <1>2 DEF Select, Return, Leave, InJobPC
    <2>2. QED
      BY <1>0, <2>1, GaugeMoves
  <1>3. CASE \/ SelectFails(s) \/ MarkFails(s) \/ Finish(s) \/ FinishFails(s) \/ Fail(s)
             \/ (FailFails(s) /\ s \in Docs)
    <2>1. /\ pc[s] \in InJobPC /\ pc'[s] \notin InJobPC /\ GaugeDec(s)
          /\ \A t \in Slots \ {s} : pc'[t] = pc[t]
      BY <1>0, <1>3, PipelineAssumption
         DEF SelectFails, MarkFails, Finish, FinishFails, Fail, FailFails, Return, Leave,
             InJobPC
    <2>2. QED
      BY <1>0, <2>1, GaugeMoves
  <1>4. CASE FailFails(s) /\ s \in Workers
    <2>1. s \in Hosts /\ Leave(s, "down") /\ MemoryLost(s)
      BY <1>4, PipelineAssumption DEF FailFails, Hosts
    <2>2. \A t \in Active(s) : t = s
      BY <1>4, PipelineAssumption DEF Active, HostOf, Slots, TypeOK
    <2>3. pc[s] \in InJobPC /\ s \in Active(s)
      BY <1>4 DEF FailFails, InJobPC, Active, HostOf
    <2>4. /\ \A t \in Active(s) : pc'[t] \in IdlePC
          /\ \A t \in Slots \ Active(s) : pc'[t] = pc[t]
      BY <1>0, <2>1, <2>2, <2>3 DEF Leave, IdlePC
    <2>5. \A t \in Slots : HostOf(t)' = HostOf(t)
      BY <1>0 DEF HostOf
    <2>6. QED
      BY <1>0, <2>1, <2>4, <2>5, GaugeLost
  <1>5. QED
    BY <1>1, <1>2, <1>3, <1>4 DEF JobSteps, JobFaults, Slots

LEMMA GaugeWorker ==
  ASSUME BaseInv, GaugeInv, NEW w \in Workers,
         \/ WorkerStart(w) \/ LoopSteps(w) \/ DequeueFails(w)
         \/ Signal(w) \/ CrashWorker(w)
  PROVE  GaugeInv'
  <1> USE DEF BaseInv, slotVars, requestVars, metricVars
  <1>0. /\ w \in Slots /\ w \in Hosts
        /\ pc \in [Slots -> IdlePC \cup BusyPC] /\ UNCHANGED host
    BY DEF Slots, Hosts, TypeOK, WorkerStart, LoopSteps, WorkerPoll, WorkerExit,
       WorkerDequeue, WorkerTimeout, DequeueFails, Signal, CrashWorker
  <1>1. CASE WorkerExit(w) \/ CrashWorker(w)
    <2>1. Leave(w, "down") /\ MemoryLost(w)
      BY <1>1 DEF WorkerExit, CrashWorker
    <2>2. \A t \in Active(w) : t = w
      BY <1>0, PipelineAssumption DEF Active, HostOf, Slots, TypeOK
    <2>3. w \in Active(w) \/ pc[w] \notin InJobPC
      BY <1>0 DEF Active, HostOf
    <2>4. /\ \A t \in Active(w) : pc'[t] \in IdlePC
          /\ \A t \in Slots \ Active(w) :
               pc'[t] = pc[t] \/ {pc[t], pc'[t]} \cap InJobPC = {}
      BY <1>0, <2>1, <2>2, <2>3 DEF Leave, IdlePC, InJobPC
    <2>5. \A t \in Slots : HostOf(t)' = HostOf(t)
      BY <1>0 DEF HostOf
    <2>6. QED
      BY <1>0, <2>1, <2>4, <2>5, GaugeLost
  <1>2. CASE WorkerDequeue(w)
    <2>1. /\ pc[w] \notin InJobPC /\ pc'[w] \in InJobPC /\ GaugeInc(w)
          /\ \A t \in Slots \ {w} : pc'[t] = pc[t]
      BY <1>0, <1>2 DEF WorkerDequeue, Goto, InJobPC
    <2>2. QED
      BY <1>0, <2>1, GaugeMoves
  <1>3. CASE ~(WorkerExit(w) \/ CrashWorker(w) \/ WorkerDequeue(w))
    <2>1. /\ UNCHANGED gauge
          /\ \A t \in Slots \ {w} : pc'[t] = pc[t]
          /\ pc'[w] = pc[w] \/ {pc[w], pc'[w]} \cap InJobPC = {}
      BY <1>0, <1>3 DEF WorkerStart, LoopSteps, WorkerPoll, WorkerTimeout,
         DequeueFails, Signal, Goto, InJobPC
    <2>2. \A h \in Hosts : Active(h)' = Active(h)
      BY <1>0, <2>1 DEF Active, HostOf
    <2>3. QED
      BY <2>1, <2>2, GaugeSame
  <1>4. QED
    BY <1>1, <1>2, <1>3

-----------------------------------------------------------------------------
LEMMA FaultInit == Init => FaultInv
  <1> SUFFICES ASSUME Init
               PROVE  FaultInv
    OBVIOUS
  <1>1. \A s \in Slots : pc[s] \notin InJobPC /\ job[s] = NoDoc
    BY DEF Init, InJobPC
  <1>2. \A h \in Hosts : Active(h) = {} /\ gauge[h] = 0
    BY <1>1 DEF Init, Active
  <1>3. GaugeInv
    BY <1>2, FS_EmptySet DEF GaugeInv, GaugeMatchesActive
  <1>4. QueueInv
    BY <1>1 DEF Init, QueueInv, Slots
  <1>5. RunsInv /\ CompletedHasRecords
    BY <1>1 DEF Init, RunsInv, CompletedHasRecords
  <1>6. HostInv /\ CalmInv
    BY <1>1, PipelineAssumption DEF Init, HostInv, InFlight, CalmInv, Slots
  <1>7. QED
    BY <1>3, <1>4, <1>5, <1>6, BaseInit DEF FaultInv, CountInv

LEMMA RunsStep ==
  ASSUME BaseInv, QueueInv, RunsInv, CompletedHasRecords, [Next]_vars
  PROVE  QueueInv' /\ RunsInv' /\ CompletedHasRecords'
  <1> DEFINE Goal == QueueInv' /\ RunsInv' /\ CompletedHasRecords'
             Quiet == /\ \/ UNCHANGED queue
                         \/ queue # <<>> /\ Pop
                         \/ queue' = <<>>
                      /\ \A s \in Slots : job'[s] = job[s] \/ job'[s] = NoDoc
                      /\ \A d \in Docs : upload'[d] \in Undispatched => upload[d] \in Undispatched
                      /\ UNCHANGED <<recs, err>>
                      /\ UNCHANGED status \/ \E d \in Docs : InsertRow(d)
  <1> USE DEF dbVars, slotVars, requestVars
  <1>0. Quiet => Goal
    BY NothingTaken, RowsKept
  <1> HIDE DEF Quiet
  <1>1. ASSUME NEW a \in Apis, StartApi(a) \/ StopApi(a) \/ CrashApi(a)
        PROVE  Quiet
    BY <1>1 DEF StartApi, StopApi, CrashApi, Undispatched, Quiet
  <1>2. ASSUME NEW d \in Docs, NEW a \in Apis, Request(d, a)
        PROVE  Quiet
    BY <1>2 DEF Request, UploadReject, UploadSave, UploadSaveFails, Answer, Quiet,
       Undispatched, BaseInv, TypeOK
  <1>3. ASSUME NEW d \in Docs, UploadCommit(d) \/ UploadCommitFails(d)
        PROVE  Quiet
    BY <1>3 DEF UploadCommit, UploadCommitFails, ReadyToCommit, Answer, Quiet,
       Undispatched, BaseInv, TypeOK
  <1>4. ASSUME NEW d \in Docs, UploadEnqueue(d) \/ UploadFallback(d)
        PROVE  Goal
    <2>1. UNCHANGED <<status, recs, err>>
      BY <1>4 DEF UploadEnqueue, UploadFallback
    <2>2. QED
      BY <1>4, <2>1, RunsDispatch, RowsKept
  <1>5. ASSUME NEW s \in Slots, JobSteps(s) \/ JobFaults(s)
        PROVE  Goal
    BY <1>5, RunsJob
  <1>6. ASSUME NEW w \in Workers, WorkerDequeue(w)
        PROVE  Goal
    <2>1. UNCHANGED <<status, recs, err>>
      BY <1>6 DEF WorkerDequeue
    <2>2. QED
      BY <1>6, <2>1, RunsDequeue, RowsKept
  <1>7. ASSUME NEW w \in Workers, ~WorkerDequeue(w),
               \/ WorkerStart(w) \/ LoopSteps(w) \/ DequeueFails(w)
               \/ Signal(w) \/ CrashWorker(w)
        PROVE  Quiet
    BY <1>7 DEF WorkerStart, LoopSteps, WorkerPoll, WorkerExit, WorkerTimeout,
       DequeueFails, PopUnheard, Signal, CrashWorker, Leave, Quiet, BaseInv, TypeOK
  <1>8. ASSUME RedisLoss \/ UNCHANGED vars
        PROVE  Quiet
    BY <1>8 DEF RedisLoss, vars, Quiet
  <1>9. ASSUME NEW d \in Docs, UploadAnswer(d)
        PROVE  Quiet
    BY <1>9 DEF UploadAnswer, Answer, Quiet, Undispatched, BaseInv, TypeOK
  <1>10. QED
    BY <1>0, <1>1, <1>2, <1>3, <1>4, <1>5, <1>6, <1>7, <1>8, <1>9 DEF Next, UploadSteps

LEMMA GaugeStep ==
  ASSUME BaseInv, GaugeInv, [Next]_vars
  PROVE  GaugeInv'
  <1>1. ASSUME RedisLoss \/ UNCHANGED vars
        PROVE  GaugeInv'
    <2>1. UNCHANGED <<pc, host, gauge>>
      BY <1>1 DEF RedisLoss, vars, slotVars, requestVars, metricVars
    <2>2. \A h \in Hosts : Active(h)' = Active(h)
      BY <2>1 DEF Active, HostOf
    <2>3. QED
      BY <2>1, <2>2, GaugeSame
  <1>2. QED
    BY <1>1, GaugeApi, GaugeUpload, GaugeJob, GaugeWorker DEF Next

LEMMA HostStep ==
  ASSUME BaseInv, HostInv, [Next]_vars
  PROVE  HostInv'
  <1> DEFINE Needs(d) == upload[d] \in InFlight \/ job[d] # NoDoc
             Kept == \A d \in Docs : Needs(d)' => Needs(d) /\ host'[d] = host[d]
  <1> USE DEF slotVars, requestVars
  <1>0. Kept => HostInv'
    BY DEF HostInv
  <1>1. ASSUME NEW a \in Apis, StartApi(a) \/ StopApi(a) \/ CrashApi(a)
        PROVE  Kept
    <2>1. CASE StartApi(a) \/ StopApi(a)
      BY <2>1 DEF StartApi, StopApi
    <2>2. CASE CrashApi(a)
      <3>1. ASSUME NEW d \in Docs, Needs(d)'
            PROVE  host[d] # a /\ Needs(d)
        BY <2>2, <3>1 DEF CrashApi, InFlight, Slots
      <3>2. QED
        BY <2>2, <3>1 DEF CrashApi, RunsOnlyIn
    <2>3. QED
      BY <1>1, <2>1, <2>2
  <1>2. ASSUME NEW d \in Docs, NEW a \in Apis, Request(d, a)
        PROVE  HostInv'
    <2>1. /\ UNCHANGED job
          /\ \/ host' = host /\ upload'[d] \notin InFlight
             \/ host' = [host EXCEPT ![d] = a]
          /\ \A e \in Docs \ {d} : upload'[e] = upload[e]
      BY <1>2 DEF Request, UploadReject, UploadSave, UploadSaveFails, Answer, InFlight,
         BaseInv, TypeOK
    <2>2. QED
      BY <2>1 DEF HostInv, BaseInv, TypeOK
  <1>3. ASSUME NEW d \in Docs, UploadSteps(d) \/ UploadCommitFails(d)
        PROVE  Kept
    <2>1. /\ UNCHANGED host /\ upload[d] \in InFlight
          /\ \A e \in Docs \ {d} : upload'[e] = upload[e] /\ job'[e] = job[e]
      BY <1>3 DEF UploadSteps, UploadCommit, UploadCommitFails, UploadEnqueue,
         UploadFallback, UploadAnswer, AddBackgroundTask, ReadyToCommit, ReadyToDispatch,
         Answer, InFlight, Slots, BaseInv, TypeOK
    <2>2. QED
      BY <2>1
  <1>4. ASSUME NEW s \in Slots, JobSteps(s) \/ JobFaults(s)
        PROVE  Kept
    <2>1. UNCHANGED <<upload, host>>
      BY <1>4 DEF JobSteps, JobFaults, Select, SelectFails, Mark, MarkFails, Extract,
         Finish, FinishFails, Fail, FailFails
    <2>2. UNCHANGED job \/ job' = [job EXCEPT ![s] = NoDoc]
      BY <1>4, JobEffect
    <2>3. QED
      BY <2>1, <2>2 DEF Slots, BaseInv, TypeOK
  <1>5. ASSUME NEW w \in Workers,
               WorkerStart(w) \/ LoopSteps(w) \/ DequeueFails(w)
               \/ Signal(w) \/ CrashWorker(w)
        PROVE  Kept
    <2>1. UNCHANGED <<upload, host>> /\ \A s \in Slots \ {w} : job'[s] = job[s]
      BY <1>5 DEF WorkerStart, LoopSteps, WorkerPoll, WorkerExit, WorkerDequeue,
         WorkerTimeout, DequeueFails, Signal, CrashWorker, Leave, BaseInv, TypeOK
    <2>2. QED
      BY <2>1, PipelineAssumption DEF Slots
  <1>6. ASSUME RedisLoss \/ UNCHANGED vars
        PROVE  Kept
    BY <1>6 DEF RedisLoss, vars
  <1>7. QED
    BY <1>0, <1>1, <1>2, <1>3, <1>4, <1>5, <1>6 DEF Next

LEMMA CalmStep ==
  ASSUME BaseInv, CalmInv, [Next]_vars
  PROVE  CalmInv'
  <1>1. /\ budget \in Nat /\ MaxFaults \in Nat
        /\ NoFault \/ \E kind \in FaultKinds : Fault(kind)
    BY FaultStep, PipelineAssumption DEF BaseInv, TypeOK
  <1>2. \A w \in Workers : stop'[w] => stop[w] \/ Fault("signal")
    BY DEF Next, StartApi, StopApi, CrashApi, Request, UploadReject, UploadSave,
       UploadSaveFails, UploadSteps, UploadCommit, UploadCommitFails, UploadEnqueue,
       UploadFallback, UploadAnswer, JobSteps, JobFaults, Select, SelectFails, Mark, MarkFails,
       Extract, Finish, FinishFails, Fail, FailFails, WorkerStart, LoopSteps,
       WorkerPoll, WorkerExit, WorkerDequeue, WorkerTimeout, DequeueFails, Signal,
       CrashWorker, RedisLoss, vars, processVars, BaseInv, TypeOK
  <1>3. QED
    BY <1>1, <1>2 DEF CalmInv, Spent, NoFault, Fault

LEMMA CountStep == FaultInv /\ [Next]_vars => FaultInv'
  <1> SUFFICES ASSUME FaultInv, [Next]_vars
               PROVE  FaultInv'
    OBVIOUS
  <1>1. BaseInv'
    BY BaseStep DEF FaultInv
  <1>2. QueueInv' /\ RunsInv' /\ CompletedHasRecords'
    BY RunsStep DEF FaultInv, CountInv
  <1>3. GaugeInv'
    BY GaugeStep DEF FaultInv, CountInv
  <1>4. HostInv' /\ CalmInv'
    BY HostStep, CalmStep DEF FaultInv, CountInv
  <1>5. QED
    BY <1>1, <1>2, <1>3, <1>4 DEF FaultInv, CountInv

\* What holds in every reachable state whatever fails: the row, the file
\* and the job of a document agree, the queue hands a job out once, what has
\* been written and what is still due is two results at most, and the gauge
\* of a process counts its calls of process_job.
THEOREM FaultInvariant == Spec => []FaultInv
  <1>1. QED
    BY FaultInit, CountStep, PTL DEF Spec

\* A document is processed twice at most, and never shows "completed"
\* without the transaction that adds its records or "failed" without a
\* reason, however often its job was delivered and whatever failed.
THEOREM ResultsAreWhole == Spec => []CompletedHasRecords
  <1>1. FaultInv => CompletedHasRecords
    BY DEF FaultInv, CountInv
  <1>2. QED
    BY <1>1, FaultInvariant, PTL

\* active_jobs of a process is the number of its calls of process_job, from
\* before the query for the row to the finally clause: no path out, be it a
\* query or a commit that raises, no crash and no restart makes it drift.
THEOREM GaugesMatch == Spec => []GaugeMatchesActive
  <1>1. FaultInv => GaugeMatchesActive
    BY DEF FaultInv, CountInv, GaugeInv
  <1>2. QED
    BY <1>1, FaultInvariant, PTL


-----------------------------------------------------------------------------
LEMMA OwnerInit == Init => OwnerInv
  <1> SUFFICES ASSUME Init
               PROVE  OwnerInv
    OBVIOUS
  <1>1. BaseInv
    BY BaseInit
  <1>2. \A d \in Docs : ~Queued(d) /\ ~Held(d)
    BY InitNoJobs
  <1>3. \A s \in Slots : pc[s] \in {"down", "none"} /\ job[s] = NoDoc
    BY DEF Init
  <1>4. OneOwner
    BY <1>2, <1>3 DEF Init, OneOwner
  <1>5. JobStatusInv
    BY <1>2, <1>3 DEF Init, JobStatusInv
  <1>6. OneResult
    BY DEF Init, OneResult
  <1>7. QED
    BY <1>1, <1>4, <1>5, <1>6 DEF OwnerInv

-----------------------------------------------------------------------------
LEMMA OwnerApi ==
  ASSUME OwnerInv, NEW a \in Apis, StartApi(a) \/ StopApi(a) \/ CrashApi(a)
  PROVE  OneOwner' /\ JobStatusInv' /\ OneResult'
  <1> USE DEF OwnerInv, BaseInv, dbVars, slotVars, requestVars
  <1>1. UNCHANGED <<status, recs, err, queue>>
    BY DEF StartApi, StopApi, CrashApi
  <1>2. \A s \in Slots : \/ pc'[s] = pc[s] /\ job'[s] = job[s] /\ view'[s] = view[s]
                         \/ pc'[s] = "none" /\ job'[s] = NoDoc
    BY DEF StartApi, StopApi, CrashApi
  <1>3. \A d \in Docs : upload'[d] \in Undispatched => upload[d] \in Undispatched
    BY DEF StartApi, StopApi, CrashApi, Undispatched
  <1>4. OneOwner'
    BY <1>1, <1>2, PipelineAssumption DEF OneOwner, Queued, Held
  <1>5. JobStatusInv'
    BY <1>1, <1>2, <1>3 DEF JobStatusInv, Queued
  <1>6. OneResult'
    BY <1>1 DEF OneResult
  <1>7. QED
    BY <1>4, <1>5, <1>6

LEMMA OwnerUpload ==
  ASSUME DeliveredOnce', OwnerInv, NEW d \in Docs,
         (\E a \in Apis : Request(d, a)) \/ UploadSteps(d) \/ UploadCommitFails(d)
  PROVE  OneOwner' /\ JobStatusInv' /\ OneResult'
  <1> USE DEF OwnerInv, BaseInv, Answer, InsertRow,
        dbVars, slotVars, requestVars, processVars, metricVars
  <1>0. UNCHANGED <<recs, err, view>>
    BY DEF Request, UploadReject, UploadSave, UploadSaveFails, UploadSteps,
       UploadCommit, UploadCommitFails, UploadEnqueue, UploadFallback, UploadAnswer
  <1>1. ASSUME NEW a \in Apis, Request(d, a)
        PROVE  OneOwner' /\ JobStatusInv' /\ OneResult'
    <2>1. /\ UNCHANGED <<status, queue, pc, job>>
          /\ \A e \in Docs : upload'[e] \in Undispatched => upload[e] \in Undispatched
      BY <1>1 DEF Request, UploadReject, UploadSave, UploadSaveFails, Undispatched, TypeOK
    <2>2. QED
      BY <1>0, <2>1 DEF OneOwner, JobStatusInv, OneResult, Queued, Held
  <1>2. CASE UploadCommit(d) \/ UploadCommitFails(d)
    <2>1. /\ upload[d] = "saved"
          /\ UNCHANGED <<queue, pc, job>>
          /\ \A e \in Docs : upload'[e] \in Undispatched => upload[e] \in Undispatched
          /\ status' = status \/ status' = [status EXCEPT ![d] = "pending"]
      BY <1>2 DEF UploadCommit, UploadCommitFails, ReadyToCommit, Undispatched, TypeOK
    <2>2. status[d] = "absent" /\ ~Queued(d) /\ ~Held(d)
      BY <2>1 DEF RequestInv, JobInv
    <2>3. OneOwner'
      BY <2>1 DEF OneOwner, Queued, Held
    <2>4. JobStatusInv'
      <3>1. \A s \in Slots : job[s] # d
        BY <2>2 DEF Held
      <3>2. \A e \in Docs : Queued(e)' <=> Queued(e)
        BY <2>1 DEF Queued
      <3>3. \A s \in Slots : pc[s] \notin IdlePC => job[s] \in Docs \ {d}
        BY <3>1 DEF JobInv, TypeOK
      <3>4. \A e \in Docs \ {d} : status'[e] = status[e]
        BY <2>1 DEF TypeOK
      <3>5. status'[d] \in {"absent", "pending"}
        BY <2>1, <2>2 DEF TypeOK
      <3>6. \A s \in Slots :
              /\ pc[s] \in {"task", "select", "mark"} => status'[job[s]] = "pending"
              /\ pc[s] \in {"extract", "finish", "fail"} => status'[job[s]] = "processing"
        BY <3>3, <3>4 DEF JobStatusInv, IdlePC
      <3>7. QED
        BY <1>0, <2>1, <2>2, <3>2, <3>4, <3>5, <3>6 DEF JobStatusInv
    <2>5. OneResult'
      BY <1>0, <2>1, <2>2 DEF OneResult, TypeOK
    <2>6. QED
      BY <2>3, <2>4, <2>5
  <1>3. CASE UploadEnqueue(d) \/ UploadFallback(d)
    <2>1. /\ upload[d] = "committed"
          /\ upload' = [upload EXCEPT ![d] = "dispatched"]
          /\ UNCHANGED status
      BY <1>3 DEF UploadEnqueue, UploadFallback, ReadyToDispatch
    <2>2. status[d] = "pending" /\ ~Queued(d) /\ ~Held(d)
      BY <2>1 DEF RequestInv, JobInv, JobStatusInv, Undispatched, TypeOK
    <2>3. \/ Push(d) /\ UNCHANGED <<pc, job>>
          \/ UNCHANGED queue /\ AddBackgroundTask(d)
      BY <1>3 DEF UploadEnqueue, UploadFallback, EnqueueFails, EnqueueJob, Fault,
         DeliveredOnce
    <2>4. OneOwner' /\ JobStatusInv'
      <3>1. CASE Push(d) /\ UNCHANGED <<pc, job>>
        <4>1. \A e \in Docs : Queued(e)' <=> Queued(e) \/ e = d
          BY <3>1, QueuedAfter DEF TypeOK
        <4>2. \A i, j \in 1..Len(queue') : queue'[i] = queue'[j] => i = j
          BY <2>2, <3>1, NoDuplicatesAfter DEF OneOwner, TypeOK
        <4>3. OneOwner'
          BY <2>2, <3>1, <4>1, <4>2 DEF OneOwner, Held
        <4>4. JobStatusInv'
          BY <1>0, <2>1, <2>2, <3>1, <4>1 DEF JobStatusInv, Undispatched, TypeOK
        <4>5. QED
          BY <4>3, <4>4
      <3>2. CASE UNCHANGED queue /\ AddBackgroundTask(d)
        <4>1. /\ d \in Slots
              /\ \A s \in Slots \ {d} : pc'[s] = pc[s] /\ job'[s] = job[s] /\ job[s] # d
              /\ pc'[d] = "task" /\ job'[d] = d
          BY <2>2, <3>2 DEF AddBackgroundTask, Held, Slots, TypeOK
        <4>2. \A e \in Docs : Queued(e)' <=> Queued(e)
          BY <3>2 DEF Queued
        <4>3. OneOwner'
          BY <2>2, <3>2, <4>1, <4>2 DEF OneOwner, Held
        <4>4. JobStatusInv'
          BY <1>0, <2>1, <2>2, <4>1, <4>2 DEF JobStatusInv, Undispatched, TypeOK
        <4>5. QED
          BY <4>3, <4>4
      <3>3. QED
        BY <2>3, <3>1, <3>2
    <2>5. OneResult'
      BY <1>0, <2>1 DEF OneResult
    <2>6. QED
      BY <2>4, <2>5
  <1>4. CASE UploadAnswer(d)
    <2>1. /\ UNCHANGED <<status, queue, job>>
          /\ \A e \in Docs : upload'[e] \in Undispatched => upload[e] \in Undispatched
          /\ UNCHANGED pc \/ (pc[d] = "task" /\ pc' = [pc EXCEPT ![d] = "select"])
      BY <1>4 DEF UploadAnswer, Undispatched, TypeOK
    <2>2. OneOwner' /\ OneResult'
      BY <1>0, <2>1 DEF OneOwner, OneResult, Queued, Held
    <2>3. JobStatusInv'
      BY <1>0, <2>1 DEF JobStatusInv, Queued, TypeOK, Slots
    <2>4. QED
      BY <2>2, <2>3
  <1>5. QED
    BY <1>1, <1>2, <1>3, <1>4 DEF UploadSteps

\* A step of process_job: s alone holds its document, which nobody queues,
\* and writes what its program counter says.
LEMMA JobFacts ==
  ASSUME OwnerInv, NEW s \in Slots, JobSteps(s) \/ JobFaults(s),
         NEW d, d = job[s]
  PROVE  /\ pc[s] \in BusyPC /\ d \in Docs /\ d # NoDoc
         /\ upload[d] \notin Undispatched /\ status[d] # "absent"
         /\ ~Queued(d)
         /\ \A t \in Slots \ {s} : job[t] # d
         /\ UNCHANGED <<upload, queue>>
         /\ \A t \in Slots \ {s} : pc'[t] = pc[t] /\ job'[t] = job[t] /\ view'[t] = view[t]
         /\ \/ pc[s] = "select" /\ pc'[s] = "mark" /\ job' = job
                /\ view'[s] = status[d] /\ UNCHANGED <<status, recs, err>>
            \/ pc[s] = "mark" /\ pc'[s] = "extract" /\ job' = job
                /\ WriteProcessing(s) /\ UNCHANGED <<recs, err>>
            \/ pc[s] = "extract" /\ pc'[s] \in {"finish", "fail"} /\ job' = job
                /\ UNCHANGED <<status, recs, err>>
            \/ /\ job'[s] = NoDoc /\ pc'[s] \in IdlePC
               /\ \/ UNCHANGED <<status, recs, err>>
                  \/ pc[s] = "mark" /\ WriteProcessing(s) /\ UNCHANGED <<recs, err>>
                  \/ pc[s] = "finish" /\ WriteResult(s) /\ UNCHANGED err
                  \/ pc[s] = "fail" /\ WriteFailure(s) /\ UNCHANGED recs
  <1> USE DEF OwnerInv, BaseInv, dbVars, slotVars, requestVars, processVars, metricVars
  <1>0. /\ pc[s] \in BusyPC /\ d \in Docs /\ d # NoDoc
        /\ upload[d] \notin Undispatched /\ status[d] # "absent"
        /\ ~Queued(d)
        /\ \A t \in Slots \ {s} : job[t] # d
    <2>1. pc[s] \in BusyPC
      BY DEF JobSteps, JobFaults, Select, SelectFails, Mark, MarkFails, Extract,
         Finish, FinishFails, Fail, FailFails, BusyPC, InJobPC
    <2>2. d \in Docs /\ d # NoDoc
      BY <2>1, PipelineAssumption DEF JobInv, TypeOK, IdlePC, BusyPC, InJobPC
    <2>3. Held(d)
      BY <2>2 DEF Held
    <2>4. QED
      BY <2>1, <2>2, <2>3 DEF JobInv, RequestInv, OneOwner
  <1>1. UNCHANGED <<upload, queue>>
    BY DEF JobSteps, JobFaults, Select, SelectFails, Mark, MarkFails, Extract,
       Finish, FinishFails, Fail, FailFails
  <1>2. \A t \in Slots \ {s} : pc'[t] = pc[t] /\ job'[t] = job[t] /\ view'[t] = view[t]
    BY DEF TypeOK, JobSteps, JobFaults, Select, SelectFails, Mark, MarkFails, Extract,
       Finish, FinishFails, Fail, FailFails, Leave, Return
  <1>3. \/ pc[s] = "select" /\ pc'[s] = "mark" /\ job' = job
           /\ view'[s] = status[d] /\ UNCHANGED <<status, recs, err>>
        \/ pc[s] = "mark" /\ pc'[s] = "extract" /\ job' = job
           /\ WriteProcessing(s) /\ UNCHANGED <<recs, err>>
        \/ pc[s] = "extract" /\ pc'[s] \in {"finish", "fail"} /\ job' = job
           /\ UNCHANGED <<status, recs, err>>
        \/ /\ job'[s] = NoDoc /\ pc'[s] \in IdlePC
           /\ \/ UNCHANGED <<status, recs, err>>
              \/ pc[s] = "mark" /\ WriteProcessing(s) /\ UNCHANGED <<recs, err>>
              \/ pc[s] = "finish" /\ WriteResult(s) /\ UNCHANGED err
              \/ pc[s] = "fail" /\ WriteFailure(s) /\ UNCHANGED recs
    BY <1>0 DEF TypeOK, JobSteps, JobFaults, Select, SelectFails, Mark, MarkFails,
       Extract, Finish, FinishFails, Fail, FailFails, Leave, Return, IdlePC
  <1>4. QED
    BY <1>0, <1>1, <1>2, <1>3

\* What the database looks like after it.
LEMMA JobWrites ==
  ASSUME OwnerInv, NEW s \in Slots, JobSteps(s) \/ JobFaults(s),
         NEW d, d = job[s]
  PROVE  /\ \A e \in Docs \ {d} : /\ status'[e] = status[e]
                                  /\ recs'[e] = recs[e]
                                  /\ err'[e] = err[e]
         /\ \/ UNCHANGED <<status, recs, err>>
            \/ /\ pc[s] = "mark"
               /\ status' = [status EXCEPT ![d] = "processing"] /\ UNCHANGED <<recs, err>>
            \/ pc[s] = "finish" /\ WriteResult(s) /\ UNCHANGED err
            \/ pc[s] = "fail" /\ WriteFailure(s) /\ UNCHANGED recs
  <1>0. \/ UNCHANGED <<status, recs, err>>
        \/ pc[s] = "mark" /\ WriteProcessing(s) /\ UNCHANGED <<recs, err>>
        \/ pc[s] = "finish" /\ WriteResult(s) /\ UNCHANGED err
        \/ pc[s] = "fail" /\ WriteFailure(s) /\ UNCHANGED recs
    BY JobFacts
  <1>1. \A e \in Docs \ {d} : /\ status'[e] = status[e]
                              /\ recs'[e] = recs[e]
                              /\ err'[e] = err[e]
    BY <1>0 DEF OwnerInv, BaseInv, TypeOK, WriteProcessing, WriteResult, WriteFailure
  <1>2. pc[s] = "mark" /\ WriteProcessing(s) =>
          status' = [status EXCEPT ![d] = "processing"]
    BY DEF OwnerInv, JobStatusInv, WriteProcessing
  <1>3. QED
    BY <1>0, <1>1, <1>2

LEMMA OwnerJob ==
  ASSUME OwnerInv, NEW s \in Slots, JobSteps(s) \/ JobFaults(s)
  PROVE  OneOwner' /\ JobStatusInv' /\ OneResult'
  <1> USE DEF OwnerInv, BaseInv
  <1> DEFINE d == job[s]
  <1>0. /\ pc[s] \in BusyPC /\ d \in Docs /\ d # NoDoc
        /\ upload[d] \notin Undispatched /\ status[d] # "absent"
        /\ ~Queued(d)
        /\ \A t \in Slots \ {s} : job[t] # d
    BY JobFacts
  <1>1. UNCHANGED <<upload, queue>>
    BY JobFacts
  <1>2. \A t \in Slots \ {s} : pc'[t] = pc[t] /\ job'[t] = job[t] /\ view'[t] = view[t]
    BY JobFacts
  <1>3. \/ pc[s] = "select" /\ pc'[s] = "mark" /\ job' = job
           /\ view'[s] = status[d] /\ UNCHANGED <<status, recs, err>>
        \/ pc[s] = "mark" /\ pc'[s] = "extract" /\ job' = job
           /\ WriteProcessing(s) /\ UNCHANGED <<recs, err>>
        \/ pc[s] = "extract" /\ pc'[s] \in {"finish", "fail"} /\ job' = job
           /\ UNCHANGED <<status, recs, err>>
        \/ /\ job'[s] = NoDoc /\ pc'[s] \in IdlePC
           /\ \/ UNCHANGED <<status, recs, err>>
              \/ pc[s] = "mark" /\ WriteProcessing(s) /\ UNCHANGED <<recs, err>>
              \/ pc[s] = "finish" /\ WriteResult(s) /\ UNCHANGED err
              \/ pc[s] = "fail" /\ WriteFailure(s) /\ UNCHANGED recs
    BY JobFacts
  <1>4. OneOwner'
    <2>1. \A t \in Slots : job'[t] = job[t] \/ job'[t] = NoDoc
      BY <1>2, <1>3
    <2>2. QED
      BY <1>1, <2>1, PipelineAssumption DEF OneOwner, Queued, Held
  <1>5. \A e \in Docs \ {d} : /\ status'[e] = status[e]
                              /\ recs'[e] = recs[e]
                              /\ err'[e] = err[e]
    BY JobWrites
  <1>6. \/ UNCHANGED <<status, recs, err>>
        \/ /\ pc[s] = "mark"
           /\ status'[d] = "processing" /\ UNCHANGED <<recs, err>>
        \/ /\ pc[s] = "finish"
           /\ status'[d] = "completed" /\ recs'[d] = recs[d] + 1 /\ UNCHANGED err
        \/ /\ pc[s] = "fail"
           /\ status'[d] = "failed" /\ err'[d] # "none" /\ UNCHANGED recs
    <2>1. d \in DOMAIN status /\ d \in DOMAIN recs /\ d \in DOMAIN err
      BY <1>0 DEF TypeOK
    <2>2. \/ UNCHANGED <<status, recs, err>>
          \/ /\ pc[s] = "mark"
             /\ status' = [status EXCEPT ![d] = "processing"] /\ UNCHANGED <<recs, err>>
          \/ pc[s] = "finish" /\ WriteResult(s) /\ UNCHANGED err
          \/ pc[s] = "fail" /\ WriteFailure(s) /\ UNCHANGED recs
      BY JobWrites
    <2>3. QED
      BY ONLY <2>1, <2>2 DEF WriteResult, WriteFailure
  <1>7. OneResult'
    <2>1. /\ recs'[d] = IF status'[d] = "completed" THEN 1 ELSE 0
          /\ err'[d] # "none" <=> status'[d] = "failed"
      BY <1>0, <1>6 DEF OneResult, JobStatusInv
    <2>2. QED
      BY <1>5, <2>1 DEF OneResult
  <1>8. JobStatusInv'
    <2>1. \A e \in Docs : Queued(e)' => status'[e] = "pending"
      BY <1>0, <1>1, <1>5 DEF Queued, JobStatusInv
    <2>2. \A e \in Docs : upload'[e] \in Undispatched => status'[e] \in {"absent", "pending"}
      BY <1>0, <1>1, <1>5 DEF JobStatusInv
    <2>3. ASSUME NEW t \in Slots
          PROVE  /\ pc'[t] \in {"task", "select", "mark"} => status'[job'[t]] = "pending"
                 /\ pc'[t] = "mark" => view'[t] = "pending"
                 /\ pc'[t] \in {"extract", "finish", "fail"} => status'[job'[t]] = "processing"
      <3>1. CASE t # s
        <4>1. pc[t] \in BusyPC => job[t] \in Docs \ {d}
          BY <1>0, <3>1 DEF JobInv, TypeOK, IdlePC, BusyPC, InJobPC
        <4>2. QED
          BY <1>2, <1>5, <3>1, <4>1 DEF JobStatusInv, BusyPC, InJobPC
      <3>2. CASE t = s
        <4>1. pc[s] = "mark" /\ WriteProcessing(s) => status'[d] = "processing"
          BY <1>0 DEF WriteProcessing, JobStatusInv, TypeOK
        <4>2. QED
          BY <1>0, <1>3, <3>2, <4>1 DEF JobStatusInv, IdlePC
      <3>3. QED
        BY <3>1, <3>2
    <2>4. QED
      BY <2>1, <2>2, <2>3 DEF JobStatusInv
  <1>9. QED
    BY <1>4, <1>7, <1>8

LEMMA OwnerWorker ==
  ASSUME OwnerInv, NEW w \in Workers,
         \/ WorkerStart(w) \/ LoopSteps(w) \/ DequeueFails(w)
         \/ Signal(w) \/ CrashWorker(w)
  PROVE  OneOwner' /\ JobStatusInv' /\ OneResult'
  <1> USE DEF OwnerInv, BaseInv, dbVars, slotVars, requestVars, processVars, metricVars
  <1>0. w \in Slots
    BY DEF Slots
  <1>1. UNCHANGED <<upload, status, recs, err>>
    BY DEF WorkerStart, LoopSteps, WorkerPoll, WorkerExit, WorkerDequeue,
       WorkerTimeout, DequeueFails, Signal, CrashWorker
  <1>2. OneResult'
    BY <1>1 DEF OneResult
  <1>3. UNCHANGED queue \/ (queue # <<>> /\ Pop)
    BY DEF WorkerStart, LoopSteps, WorkerPoll, WorkerExit, WorkerDequeue,
       WorkerTimeout, DequeueFails, PopUnheard, Signal, CrashWorker
  <1>4. /\ \A e \in Docs : Queued(e)' => Queued(e)
        /\ \A i, j \in 1..Len(queue') : queue'[i] = queue'[j] => i = j
    BY <1>3, QueuedAfter, NoDuplicatesAfter DEF OneOwner, TypeOK
  <1>5. CASE WorkerDequeue(w)
    <2> DEFINE d == Head(queue)
    <2>1. d \in Docs /\ Queued(d) /\ ~Held(d) /\ status[d] = "pending"
      BY <1>5, QueuedAfter DEF WorkerDequeue, TypeOK, OneOwner, JobStatusInv
    <2>2. /\ \A t \in Slots \ {w} : pc'[t] = pc[t] /\ job'[t] = job[t] /\ job[t] # d
          /\ pc'[w] = "select" /\ job'[w] = d /\ view' = view
      BY <1>0, <1>5, <2>1 DEF WorkerDequeue, Goto, TypeOK, Held
    <2>3. \A e \in Docs : e = d => ~Queued(e)'
      BY <1>5, NoDuplicatesAfter DEF WorkerDequeue, OneOwner, TypeOK
    <2>4. OneOwner'
      BY <1>4, <2>1, <2>2, <2>3 DEF OneOwner, Held
    <2>5. JobStatusInv'
      BY <1>1, <1>4, <2>1, <2>2 DEF JobStatusInv
    <2>6. QED
      BY <1>2, <2>4, <2>5
  <1>6. CASE ~WorkerDequeue(w)
    <2>1. \A t \in Slots : \/ pc'[t] = pc[t] /\ job'[t] = job[t] /\ view'[t] = view[t]
                           \/ pc'[t] \in IdlePC /\ job'[t] \in {job[t], NoDoc}
      BY <1>0, <1>6 DEF WorkerStart, LoopSteps, WorkerPoll, WorkerExit, WorkerTimeout,
         DequeueFails, Signal, CrashWorker, Goto, Leave, IdlePC, TypeOK
    <2>2. OneOwner'
      BY <1>4, <2>1, PipelineAssumption DEF OneOwner, Held
    <2>3. JobStatusInv'
      BY <1>1, <1>4, <2>1 DEF JobStatusInv, IdlePC
    <2>4. QED
      BY <1>2, <2>2, <2>3
  <1>7. QED
    BY <1>5, <1>6

LEMMA OwnerRedisLoss ==
  ASSUME OwnerInv, RedisLoss
  PROVE  OneOwner' /\ JobStatusInv' /\ OneResult'
  <1> USE DEF OwnerInv, BaseInv, RedisLoss,
        dbVars, slotVars, requestVars, processVars, metricVars
  <1>1. \A e \in Docs : ~Queued(e)'
    BY QueuedAfter DEF TypeOK
  <1>2. Len(queue') = 0
    OBVIOUS
  <1>3. OneOwner'
    BY <1>1, <1>2 DEF OneOwner, Held
  <1>4. JobStatusInv' /\ OneResult'
    BY <1>1 DEF JobStatusInv, OneResult
  <1>5. QED
    BY <1>3, <1>4

-----------------------------------------------------------------------------
LEMMA OwnerStep ==
  ASSUME DeliveredOnce'
  PROVE  OwnerInv /\ [Next]_vars => OwnerInv'
  <1> SUFFICES ASSUME OwnerInv, [Next]_vars
               PROVE  OwnerInv'
    OBVIOUS
  <1>1. BaseInv'
    BY BaseStep DEF OwnerInv
  <1>2. ASSUME NEW a \in Apis, StartApi(a) \/ StopApi(a) \/ CrashApi(a)
        PROVE  OwnerInv'
    BY <1>1, <1>2, OwnerApi DEF OwnerInv
  <1>3. ASSUME NEW d \in Docs,
               (\E a \in Apis : Request(d, a)) \/ UploadSteps(d) \/ UploadCommitFails(d)
        PROVE  OwnerInv'
    BY <1>1, <1>3, OwnerUpload DEF OwnerInv
  <1>4. ASSUME NEW s \in Slots, JobSteps(s) \/ JobFaults(s)
        PROVE  OwnerInv'
    BY <1>1, <1>4, OwnerJob DEF OwnerInv
  <1>5. ASSUME NEW w \in Workers,
               WorkerStart(w) \/ LoopSteps(w) \/ DequeueFails(w)
               \/ Signal(w) \/ CrashWorker(w)
        PROVE  OwnerInv'
    BY <1>1, <1>5, OwnerWorker DEF OwnerInv
  <1>6. CASE RedisLoss
    BY <1>1, <1>6, OwnerRedisLoss DEF OwnerInv
  <1>7. CASE UNCHANGED vars
    <2> USE <1>7 DEF vars, dbVars, slotVars, requestVars, processVars, metricVars, OwnerInv
    <2>1. OneOwner' /\ OneResult'
      BY DEF OneOwner, OneResult, Queued, Held
    <2>2. JobStatusInv'
      BY DEF JobStatusInv, Queued
    <2>3. QED
      BY <1>1, <2>1, <2>2
  <1>8. QED
    BY <1>2, <1>3, <1>4, <1>5, <1>6, <1>7 DEF Next

\* The inductive invariant of single delivery, under every fault.
THEOREM DeliveryInvariant == Spec => []DeliveryInv
  <1>1. Init => DeliveryInv
    BY OwnerInit DEF DeliveryInv
  <1>2. DeliveryInv /\ [Next]_vars => DeliveryInv'
    BY OwnerStep, StruckGrows DEF DeliveryInv, DeliveredOnce
  <1>3. QED
    BY <1>1, <1>2, PTL DEF Spec

\* Until an LPUSH that reported failure has taken effect, no job is in two
\* places: not twice in the queue, not queued and held, not held twice.
THEOREM JobsHaveOneOwner == Spec => []SingleOwner
  <1>1. DeliveryInv => SingleOwner
    BY DEF DeliveryInv, OwnerInv, SingleOwner
  <1>2. QED
    BY <1>1, DeliveryInvariant, PTL

\* Until then a completed document has one set of records, a failed one a
\* reason, and no other document has either.
THEOREM ResultsMatchStatus == Spec => []ResultMatchesStatus
  <1>1. DeliveryInv => ResultMatchesStatus
    BY DEF DeliveryInv, OwnerInv, ResultMatchesStatus
  <1>2. QED
    BY <1>1, DeliveryInvariant, PTL

-----------------------------------------------------------------------------
LEMMA LifecycleInit == Init => Lifecycle!Init
  BY DEF Init, Lifecycle!Init

\* What a step may do to the rows, however often a job was delivered.
LEMMA DocumentStep ==
  ASSUME BaseInv, [Next]_vars
  PROVE  \/ UNCHANGED <<status, recs, err>>
         \/ /\ DeliveredOnce' <=> DeliveredOnce
            /\ \E d \in Docs : Lifecycle!Register(d)
         \/ /\ DeliveredOnce' <=> DeliveredOnce
            /\ \E s \in Slots :
                 /\ JobSteps(s) \/ JobFaults(s)
                 /\ job[s] \in Docs /\ status[job[s]] # "absent"
                 /\ \/ WriteProcessing(s) /\ UNCHANGED <<recs, err>>
                    \/ WriteResult(s) /\ UNCHANGED err
                    \/ WriteFailure(s) /\ UNCHANGED recs
  <1> DEFINE Same == UNCHANGED <<status, recs, err>>
  <1> USE DEF dbVars
  <1>1. ASSUME NEW a \in Apis, StartApi(a) \/ StopApi(a) \/ CrashApi(a)
        PROVE  Same
    BY <1>1 DEF StartApi, StopApi, CrashApi
  <1>2. ASSUME NEW d \in Docs, NEW a \in Apis, Request(d, a)
        PROVE  Same
    BY <1>2 DEF Request, UploadReject, UploadSave, UploadSaveFails
  <1>3. ASSUME NEW d \in Docs, UploadSteps(d) \/ UploadCommitFails(d)
        PROVE  Same \/ ((DeliveredOnce' <=> DeliveredOnce) /\ Lifecycle!Register(d))
    <2>1. CASE UploadCommit(d) \/ UploadCommitFails(d)
      <3>1. upload[d] = "saved"
        BY <2>1 DEF UploadCommit, UploadCommitFails, ReadyToCommit
      <3>2. status[d] = "absent"
        BY <3>1 DEF BaseInv, RequestInv
      <3>3. DeliveredOnce' <=> DeliveredOnce
        BY <2>1 DEF UploadCommit, UploadCommitFails, NoFault, Fault, DeliveredOnce
      <3>4. QED
        BY <2>1, <3>2, <3>3 DEF UploadCommit, UploadCommitFails, InsertRow,
           Lifecycle!Register, Lifecycle!Move
    <2>2. CASE UploadEnqueue(d) \/ UploadFallback(d) \/ UploadAnswer(d)
      BY <2>2 DEF UploadEnqueue, UploadFallback, UploadAnswer
    <2>3. QED
      BY <1>3, <2>1, <2>2 DEF UploadSteps
  <1>4. ASSUME NEW s \in Slots, JobSteps(s) \/ JobFaults(s)
        PROVE  /\ DeliveredOnce' <=> DeliveredOnce
               /\ job[s] \in Docs /\ status[job[s]] # "absent"
               /\ \/ Same
                  \/ WriteProcessing(s) /\ UNCHANGED <<recs, err>>
                  \/ WriteResult(s) /\ UNCHANGED err
                  \/ WriteFailure(s) /\ UNCHANGED recs
    <2> USE <1>4 DEF JobSteps, JobFaults, Select, SelectFails, Mark, MarkFails, Extract,
          Finish, FinishFails, Fail, FailFails
    <2>1. DeliveredOnce' <=> DeliveredOnce
      BY DEF NoFault, Fault, DeliveredOnce
    <2>2. pc[s] \in BusyPC
      BY DEF BusyPC, InJobPC
    <2>3. job[s] \in Docs /\ job[s] # NoDoc
      BY ONLY <2>2, BaseInv, s \in Slots
         DEF BaseInv, JobInv, TypeOK, IdlePC, BusyPC, InJobPC
    <2>4. status[job[s]] # "absent"
      BY ONLY <2>3, BaseInv, s \in Slots DEF BaseInv, JobInv, RequestInv, Held
    <2>5. \/ Same
          \/ WriteProcessing(s) /\ UNCHANGED <<recs, err>>
          \/ WriteResult(s) /\ UNCHANGED err
          \/ WriteFailure(s) /\ UNCHANGED recs
      OBVIOUS
    <2>6. QED
      BY ONLY <2>1, <2>3, <2>4, <2>5
  <1>5. ASSUME NEW w \in Workers,
               WorkerStart(w) \/ LoopSteps(w) \/ DequeueFails(w)
               \/ Signal(w) \/ CrashWorker(w)
        PROVE  Same
    BY <1>5 DEF WorkerStart, LoopSteps, WorkerPoll, WorkerExit, WorkerDequeue,
       WorkerTimeout, DequeueFails, Signal, CrashWorker
  <1>6. CASE RedisLoss \/ UNCHANGED vars
    BY <1>6 DEF RedisLoss, vars
  <1>7. QED
    BY <1>1, <1>2, <1>3, <1>4, <1>5, <1>6 DEF Next

\* With one owner the owner's writes are those of a single life.
LEMMA LifeStep ==
  ASSUME OwnerInv, NEW s \in Slots, JobSteps(s) \/ JobFaults(s), job[s] \in Docs
  PROVE  UNCHANGED <<status, recs, err>> \/ Lifecycle!Life(job[s])
  <1> DEFINE d == job[s]
  <1>1. CASE /\ pc[s] = "mark"
             /\ status' = [status EXCEPT ![d] = "processing"] /\ UNCHANGED <<recs, err>>
    <2>1. status[d] = "pending"
      BY <1>1 DEF OwnerInv, JobStatusInv
    <2>2. QED
      BY <1>1, <2>1 DEF Lifecycle!Life, Lifecycle!TakeUp, Lifecycle!Move
  <1>2. CASE pc[s] = "finish" /\ WriteResult(s) /\ UNCHANGED err
    <2>1. status[d] = "processing"
      BY <1>2 DEF OwnerInv, JobStatusInv
    <2>2. recs[d] + 1 = 1
      BY <2>1 DEF OwnerInv, OneResult
    <2>3. QED
      BY <1>2, <2>1, <2>2 DEF WriteResult, Lifecycle!Life, Lifecycle!Complete, Lifecycle!Move
  <1>3. CASE pc[s] = "fail" /\ WriteFailure(s) /\ UNCHANGED recs
    <2>1. status[d] = "processing"
      BY <1>3 DEF OwnerInv, JobStatusInv
    <2>2. QED
      BY <1>3, <2>1 DEF WriteFailure, Lifecycle!Life, Lifecycle!GiveUp,
         Lifecycle!Move, Lifecycle!Reasons
  <1>4. QED
    BY <1>1, <1>2, <1>3, JobWrites

LEMMA LifecycleStep ==
  ASSUME BaseInv, DeliveryInv, [Next]_vars
  PROVE  [Lifecycle!Next]_(Lifecycle!lifecycle)
  <1> DEFINE Same == UNCHANGED <<status, recs, err>>
  <1> USE DEF Lifecycle!Next, Lifecycle!lifecycle, DeliveredOnce
  <1>1. CASE Same
    BY <1>1, StruckGrows DEF Lifecycle!DeliverTwice, Lifecycle!document
  <1>2. CASE (DeliveredOnce' <=> DeliveredOnce) /\ \E d \in Docs : Lifecycle!Register(d)
    BY <1>2 DEF Lifecycle!Life
  <1>3. ASSUME DeliveredOnce' <=> DeliveredOnce,
               NEW s \in Slots, JobSteps(s) \/ JobFaults(s),
               job[s] \in Docs, status[job[s]] # "absent",
               \/ WriteProcessing(s) /\ UNCHANGED <<recs, err>>
               \/ WriteResult(s) /\ UNCHANGED err
               \/ WriteFailure(s) /\ UNCHANGED recs
        PROVE  [Lifecycle!Next]_(Lifecycle!lifecycle)
    <2>1. CASE DeliveredOnce
      <3>1. Same \/ Lifecycle!Life(job[s])
        BY <1>3, <2>1, LifeStep DEF DeliveryInv
      <3>2. QED
        BY <1>1, <1>3, <3>1
    <2>2. CASE ~DeliveredOnce
      <3>1. Same \/ Lifecycle!Redo(job[s])
        BY <1>3, <2>2 DEF WriteProcessing, WriteResult, WriteFailure,
           Lifecycle!Redo, Lifecycle!Reasons
      <3>2. QED
        BY <1>1, <1>3, <3>1
    <2>3. QED
      BY <2>1, <2>2
  <1>4. QED
    BY <1>1, <1>2, <1>3, DocumentStep

\* The pipeline implements DocumentLifecycle, whatever fails: every step of
\* a status is one the lifecycle has.
THEOREM ImplementsLifecycle == Spec => RefinesLifecycle
  <1>1. BaseInv /\ DeliveryInv /\ [Next]_vars => [Lifecycle!Next]_(Lifecycle!lifecycle)
    BY LifecycleStep
  <1>2. QED
    BY <1>1, LifecycleInit, BaseInvariant, DeliveryInvariant, PTL
       DEF Spec, RefinesLifecycle, Lifecycle!Spec

-----------------------------------------------------------------------------
\* A step that keeps the jobs of all documents but d where they can be
\* found, or orphans them.
LEMMA LostElsewhere ==
  ASSUME NEW d,
         \A e \in Docs \ {d} :
           \/ host'[e] = NoHost
           \/ /\ host'[e] = host[e] /\ status'[e] = status[e]
              /\ upload[e] = "committed" => upload'[e] = "committed"
              /\ Queued(e) \/ Held(e) => Queued(e)' \/ Held(e)'
  PROVE  LostAlone' \subseteq LostAlone \cup {d}
  <1>1. \A e \in Docs \ {d} : Lost(e)' /\ ~Orphaned(e)' => Lost(e) /\ ~Orphaned(e)
    BY DEF Lost, Orphaned
  <1>2. QED
    BY <1>1 DEF LostAlone, LostDocs

\* A step of process_job keeps its document in hand or settles it; one that
\* fails drops it.
LEMMA LossByJob ==
  ASSUME BaseInv, NEW s \in Slots, JobSteps(s) \/ JobFaults(s)
  PROVE  \E d \in Docs : /\ LostAlone' \subseteq LostAlone \cup {d}
                         /\ \/ Fault("db") \/ Fault("db_reply")
                            \/ LostAlone' \subseteq LostAlone
  <1>0. PICK d \in Docs : d = job[s]
    BY JobEffect
  <1>1. /\ status[d] # "absent"
        /\ UNCHANGED <<upload, queue, host>>
        /\ UNCHANGED job \/ job' = [job EXCEPT ![s] = NoDoc]
    <2>1. UNCHANGED host
      BY DEF JobSteps, JobFaults, Select, SelectFails, Mark, MarkFails, Extract,
         Finish, FinishFails, Fail, FailFails, requestVars
    <2>2. QED
      BY <1>0, <2>1, JobEffect
  <1>2. \A e \in Docs \ {d} : status'[e] = status[e]
    <2>1. \/ UNCHANGED status
          \/ WriteProcessing(s) \/ WriteResult(s) \/ WriteFailure(s)
      BY JobEffect
    <2>2. QED
      BY <1>0, <2>1 DEF BaseInv, TypeOK, WriteProcessing, WriteResult, WriteFailure
  <1>3. \A e \in Docs \ {d} : Queued(e) \/ Held(e) => Queued(e)' \/ Held(e)'
    BY <1>0, <1>1 DEF BaseInv, TypeOK, Queued, Held
  <1>4. LostAlone' \subseteq LostAlone \cup {d}
    BY <1>1, <1>2, <1>3, LostElsewhere
  <1>5. CASE JobFaults(s)
    BY <1>4, <1>5 DEF JobFaults, SelectFails, MarkFails, FinishFails, FailFails
  <1>6. CASE JobSteps(s)
    <2>1. ~Lost(d)'
      <3>1. CASE UNCHANGED job
        BY <1>0, <3>1 DEF Lost, Held
      <3>2. CASE Finish(s) \/ Fail(s)
        BY <1>0, <3>2 DEF Finish, Fail, WriteResult, WriteFailure, Lost, BaseInv, TypeOK
      <3>3. QED
        BY <1>0, <1>1, <1>6, <3>1, <3>2 DEF JobSteps, Select, Mark, Extract
    <2>2. QED
      BY <1>4, <2>1 DEF LostAlone, LostDocs
  <1>7. QED
    BY <1>5, <1>6

\* A request loses its row when the commit takes effect and is not heard of.
\* Before there is nothing to lose; after it the request has the row in
\* hand until the job is in the queue or in the hands of the task.
LEMMA LossByUpload ==
  ASSUME BaseInv, NEW d \in Docs,
         (\E a \in Apis : Request(d, a)) \/ UploadSteps(d) \/ UploadCommitFails(d)
  PROVE  /\ LostAlone' \subseteq LostAlone \cup {d}
         /\ Fault("db_reply") \/ LostAlone' \subseteq LostAlone
  <1> USE DEF BaseInv, Answer, InsertRow, dbVars, slotVars
  <1>1. CASE \/ \E a \in Apis : Request(d, a)
             \/ UploadCommit(d) \/ UploadCommitFails(d)
    <2>1. /\ UNCHANGED <<queue, job>>
          /\ upload[d] \in {"idle", "saved"}
          /\ \A e \in Docs \ {d} : /\ upload'[e] = upload[e] /\ status'[e] = status[e]
                                  /\ host'[e] = host[e]
      BY <1>1 DEF Request, UploadReject, UploadSave, UploadSaveFails, UploadCommit,
         UploadCommitFails, ReadyToCommit, TypeOK
    <2>2. \A e \in Docs : (Queued(e)' <=> Queued(e)) /\ (Held(e)' <=> Held(e))
      BY <2>1 DEF Queued, Held
    <2>3. LostAlone' \subseteq LostAlone \cup {d}
      BY <2>1, <2>2, LostElsewhere
    <2>4. \/ status'[d] = status[d] \/ upload'[d] = "committed" \/ Fault("db_reply")
      BY <1>1 DEF Request, UploadReject, UploadSave, UploadSaveFails, UploadCommit,
         UploadCommitFails, ReadyToCommit, TypeOK
    <2>5. Lost(d)' => Fault("db_reply")
      BY <2>1, <2>4 DEF Lost, RequestInv
    <2>6. QED
      BY <2>3, <2>5 DEF LostAlone, LostDocs
  <1>2. CASE UploadEnqueue(d) \/ UploadFallback(d)
    <2>1. /\ upload' = [upload EXCEPT ![d] = "dispatched"]
          /\ UNCHANGED <<status, host>>
          /\ UNCHANGED queue \/ Push(d)
          /\ \/ Push(d) /\ UNCHANGED job
             \/ AddBackgroundTask(d)
      BY <1>2 DEF UploadEnqueue, UploadFallback, EnqueueFails, EnqueueJob
    <2>2. /\ \A e \in Docs : Queued(e) => Queued(e)'
          /\ Push(d) => Queued(d)'
      BY <2>1, QueuedAfter DEF TypeOK
    <2>3. d \in Slots /\ job[d] = NoDoc
      <3>1. upload[d] = "committed"
        BY <1>2 DEF UploadEnqueue, UploadFallback, ReadyToDispatch
      <3>2. QED
        BY <3>1 DEF JobInv, OwnTask, Held, Undispatched, Slots
    <2>4. /\ \A e \in Docs : Held(e) => Held(e)'
          /\ AddBackgroundTask(d) => Held(d)'
      BY <2>1, <2>3, PipelineAssumption DEF AddBackgroundTask, Held, TypeOK
    <2>5. LostAlone' \subseteq LostAlone \cup {d}
      BY <2>1, <2>2, <2>4, LostElsewhere DEF TypeOK
    <2>6. ~Lost(d)'
      BY <2>1, <2>2, <2>4 DEF Lost
    <2>7. QED
      BY <2>5, <2>6 DEF LostAlone, LostDocs
  <1>3. CASE UploadAnswer(d)
    <2>1. /\ UNCHANGED <<status, host, queue, job>>
          /\ \A e \in Docs : upload[e] = "committed" => upload'[e] = "committed"
      BY <1>3 DEF UploadAnswer, TypeOK
    <2>2. \A e \in Docs : Lost(e)' /\ ~Orphaned(e)' => Lost(e) /\ ~Orphaned(e)
      BY <2>1 DEF Lost, Orphaned, Queued, Held
    <2>3. QED
      BY <2>2 DEF LostAlone, LostDocs
  <1>4. QED
    BY <1>1, <1>2, <1>3 DEF UploadSteps

\* A worker loses its job when it is killed, or the one it has popped when
\* the reply does not reach it.
LEMMA LossByWorker ==
  ASSUME BaseInv, NEW w \in Workers,
         \/ WorkerStart(w) \/ LoopSteps(w) \/ DequeueFails(w)
         \/ Signal(w) \/ CrashWorker(w)
  PROVE  \/ LostAlone' \subseteq LostAlone
         \/ /\ Fault("brpop_reply") \/ Fault("worker_crash")
            /\ \E d : LostAlone' \subseteq LostAlone \cup {d}
  <1> USE DEF BaseInv, dbVars, slotVars, requestVars
  <1>0. w \in Slots
    BY DEF Slots
  <1>1. UNCHANGED <<upload, status, host>>
    BY DEF WorkerStart, LoopSteps, WorkerPoll, WorkerExit, WorkerDequeue,
       WorkerTimeout, DequeueFails, Signal, CrashWorker
  <1>2. CASE WorkerDequeue(w)
    <2>1. queue # <<>> /\ Pop /\ job' = [job EXCEPT ![w] = Head(queue)]
      BY <1>2 DEF WorkerDequeue
    <2>2. job[w] = NoDoc
      BY <1>0, <1>2 DEF WorkerDequeue, JobInv, IdlePC
    <2>3. PICK d \in Docs : d = Head(queue)
      BY <2>1, QueuedAfter DEF TypeOK
    <2>4. \A e \in Docs \ {d} : (Queued(e) => Queued(e)') /\ (Held(e) => Held(e)')
      BY <2>1, <2>2, <2>3, QueuedAfter, PipelineAssumption DEF Held, TypeOK
    <2>5. Held(d)'
      BY <1>0, <2>1, <2>3 DEF Held, TypeOK
    <2>6. LostAlone' \subseteq LostAlone \cup {d} /\ ~Lost(d)'
      BY <1>1, <2>4, <2>5, LostElsewhere DEF Lost
    <2>7. QED
      BY <2>6 DEF LostAlone, LostDocs
  <1>3. CASE CrashWorker(w)
    <2>1. UNCHANGED queue /\ job' = [job EXCEPT ![w] = NoDoc] /\ Fault("worker_crash")
      BY <1>3 DEF CrashWorker, Leave
    <2>2. \A e \in Docs \ {job[w]} : (Queued(e) => Queued(e)') /\ (Held(e) => Held(e)')
      BY <2>1 DEF Queued, Held, TypeOK
    <2>3. LostAlone' \subseteq LostAlone \cup {job[w]}
      BY <1>1, <2>2, LostElsewhere
    <2>4. QED
      BY <2>1, <2>3
  <1>4. CASE DequeueFails(w) /\ queue' # queue
    <2>1. queue # <<>> /\ Pop /\ Fault("brpop_reply") /\ UNCHANGED job
      BY <1>4 DEF DequeueFails, PopUnheard
    <2>2. PICK d \in Docs : d = Head(queue)
      BY <2>1, QueuedAfter DEF TypeOK
    <2>3. \A e \in Docs \ {d} : (Queued(e) => Queued(e)') /\ (Held(e) => Held(e)')
      BY <2>1, <2>2, QueuedAfter DEF Held, TypeOK
    <2>4. LostAlone' \subseteq LostAlone \cup {d}
      BY <1>1, <2>3, LostElsewhere
    <2>5. QED
      BY <2>1, <2>4
  <1>5. CASE UNCHANGED queue /\ ~WorkerDequeue(w) /\ ~CrashWorker(w)
    <2>1. UNCHANGED job \/ (pc[w] = "top" /\ job' = [job EXCEPT ![w] = NoDoc])
      BY <1>5 DEF WorkerStart, LoopSteps, WorkerPoll, WorkerExit, WorkerTimeout, MayExit,
         DequeueFails, Signal, Leave
    <2>2. UNCHANGED job
      BY <1>0, <2>1 DEF JobInv, TypeOK, IdlePC
    <2>3. \A e \in Docs : (Lost(e)' <=> Lost(e)) /\ (Orphaned(e)' <=> Orphaned(e))
      BY <1>1, <1>5, <2>2 DEF Lost, Orphaned, Queued, Held
    <2>4. QED
      BY <2>3 DEF LostAlone, LostDocs
  <1>6. QED
    BY <1>2, <1>3, <1>4, <1>5 DEF WorkerStart, LoopSteps, WorkerPoll, WorkerExit,
       WorkerTimeout, DequeueFails, Signal

\* An API process that is killed orphans its rows and loses no other.
LEMMA LossByApi ==
  ASSUME BaseInv, NEW a \in Apis, StartApi(a) \/ StopApi(a) \/ CrashApi(a)
  PROVE  LostAlone' \subseteq LostAlone
  <1> USE DEF dbVars, slotVars, requestVars
  <1>1. UNCHANGED <<status, queue>>
    BY DEF StartApi, StopApi, CrashApi
  <1>2. ASSUME NEW e \in Docs, ~Orphaned(e)'
        PROVE  /\ host'[e] = host[e]
               /\ upload[e] = "committed" => upload'[e] = "committed"
               /\ \A s \in Slots : job[s] = e => job'[s] = e
    <2>1. CASE StartApi(a) \/ StopApi(a)
      BY <2>1 DEF StartApi, StopApi
    <2>2. CASE CrashApi(a)
      <3>1. ~RunsOnlyIn(e, a) /\ host'[e] = host[e]
        BY <1>2, <2>2 DEF CrashApi, Orphaned
      <3>2. upload[e] = "committed" => upload'[e] = "committed"
        BY <2>2, <3>1 DEF CrashApi, RunsOnlyIn, InFlight
      <3>3. ASSUME NEW s \in Slots, job[s] = e
            PROVE  job'[s] = e
        <4>1. s \in Docs => s = e /\ e # NoDoc
          BY <3>3, PipelineAssumption DEF BaseInv, JobInv, OwnTask
        <4>2. ~(s \in Docs /\ host[s] = a)
          BY <3>1, <3>3, <4>1 DEF RunsOnlyIn
        <4>3. QED
          BY <2>2, <3>3, <4>2 DEF CrashApi
      <3>4. QED
        BY <3>1, <3>2, <3>3
    <2>3. QED
      BY <2>1, <2>2
  <1>3. \A e \in Docs : Lost(e)' /\ ~Orphaned(e)' => Lost(e) /\ ~Orphaned(e)
    BY <1>1, <1>2 DEF Lost, Orphaned, Queued, Held
  <1>4. QED
    BY <1>3 DEF LostAlone, LostDocs

\* What one step can lose, orphans apart: nothing, unless it is one of the
\* lossy faults, and then one document, unless Redis goes down.
LossyAlone == LossyFaults \ {"api_crash"}
LEMMA LossStep ==
  ASSUME BaseInv, [Next]_vars
  PROVE  \/ LostAlone' \subseteq LostAlone
         \/ \E kind \in LossyAlone :
              /\ Fault(kind)
              /\ kind = "redis_loss" \/ \E d : LostAlone' \subseteq LostAlone \cup {d}
  <1> DEFINE Nothing == LostAlone' \subseteq LostAlone
             Struck(kind) ==
               /\ Fault(kind)
               /\ kind = "redis_loss" \/ \E d : LostAlone' \subseteq LostAlone \cup {d}
  <1>1. ASSUME NEW a \in Apis, StartApi(a) \/ StopApi(a) \/ CrashApi(a)
        PROVE  Nothing
    BY <1>1, LossByApi
  <1>2. ASSUME NEW d \in Docs,
               (\E a \in Apis : Request(d, a)) \/ UploadSteps(d) \/ UploadCommitFails(d)
        PROVE  Nothing \/ Struck("db_reply")
    BY <1>2, LossByUpload
  <1>3. ASSUME NEW s \in Slots, JobSteps(s) \/ JobFaults(s)
        PROVE  Nothing \/ Struck("db") \/ Struck("db_reply")
    BY <1>3, LossByJob
  <1>4. ASSUME NEW w \in Workers,
               WorkerStart(w) \/ LoopSteps(w) \/ DequeueFails(w)
               \/ Signal(w) \/ CrashWorker(w)
        PROVE  Nothing \/ Struck("brpop_reply") \/ Struck("worker_crash")
    BY <1>4, LossByWorker
  <1>5. ASSUME RedisLoss
        PROVE  Struck("redis_loss")
    BY <1>5 DEF RedisLoss
  <1>6. ASSUME UNCHANGED vars
        PROVE  Nothing
    <2>1. \A e \in Docs : (Lost(e)' <=> Lost(e)) /\ (Orphaned(e)' <=> Orphaned(e))
      BY <1>6 DEF vars, dbVars, slotVars, requestVars, Lost, Orphaned, Queued, Held
    <2>2. QED
      BY <2>1 DEF LostAlone, LostDocs
  <1>7. Nothing \/ \E kind \in LossyAlone : Struck(kind)
    <2> HIDE DEF Nothing, Struck
    <2>1. {"db", "db_reply", "brpop_reply", "worker_crash", "redis_loss"} = LossyAlone
      BY DEF LossyFaults, LossyAlone
    <2>2. QED
      BY <1>1, <1>2, <1>3, <1>4, <1>5, <1>6, <2>1 DEF Next
  <1>8. QED
    BY <1>7

\* Until a fault that loses jobs has struck, every row is settled or its job
\* is about to be dispatched, waits in the queue or is in some slot's hands;
\* a killed API process takes along no row but its own.
THEOREM NothingIsLost == Spec => []RowsAreTracked
  <1> DEFINE Tracked == struck \cap LossyAlone = {} => LostAlone = {}
  <1>0. Tracked <=> RowsAreTracked
    <2>1. struck \cap LossyAlone = {} <=> struck \cap LossyFaults \subseteq {"api_crash"}
      BY DEF LossyAlone
    <2>2. LostAlone = {} <=> \A d \in LostDocs : Orphaned(d)
      BY DEF LostAlone
    <2>3. QED
      BY <2>1, <2>2 DEF RowsAreTracked
  <1>1. Init => Tracked
    BY DEF Init, LostAlone, LostDocs, Lost
  <1>2. BaseInv /\ Tracked /\ [Next]_vars => Tracked'
    <2>1. ASSUME BaseInv, Tracked, [Next]_vars, struck' \cap LossyAlone = {}
          PROVE  LostAlone' = {}
      <3>1. LostAlone = {}
        BY <2>1, StruckGrows
      <3>2. \A kind \in LossyAlone : ~Fault(kind)
        BY <2>1 DEF Fault
      <3>3. QED
        BY <2>1, <3>1, <3>2, LossStep
    <2>2. QED
      BY <2>1
  <1> HIDE DEF Tracked
  <1>3. Spec => []Tracked
    BY <1>1, <1>2, BaseInvariant, PTL DEF Spec
  <1>4. QED
    BY <1>0, <1>3, PTL

LEMMA LossInvStep == FaultInv /\ LossInv /\ [Next]_vars => LossInv'
  <1> SUFFICES ASSUME FaultInv, LossInv, [Next]_vars, "redis_loss" \notin struck'
               PROVE  IsFiniteSet(LostAlone') /\ Cardinality(LostAlone') <= Spent'
    BY DEF LossInv
  <1>1. IsFiniteSet(LostAlone) /\ Cardinality(LostAlone) \in Nat /\ Cardinality(LostAlone) <= Spent
    BY StruckGrows, FS_CardinalityType DEF LossInv
  <1>2. budget \in Nat /\ Spent \in Int /\ MaxFaults \in Nat
    BY PipelineAssumption DEF FaultInv, BaseInv, TypeOK, Spent
  <1>3. CASE LostAlone' \subseteq LostAlone
    <2>1. Spent <= Spent' /\ Spent' \in Int
      BY <1>2, FaultStep DEF NoFault, Fault, Spent
    <2>2. IsFiniteSet(LostAlone') /\ Cardinality(LostAlone') <= Cardinality(LostAlone)
      BY <1>1, <1>3, FS_Subset
    <2>3. Cardinality(LostAlone') \in Nat
      BY <2>2, FS_CardinalityType
    <2>4. QED
      BY <1>1, <1>2, <2>1, <2>2, <2>3
  <1>4. ASSUME NEW kind, Fault(kind), NEW d, LostAlone' \subseteq LostAlone \cup {d}
        PROVE  IsFiniteSet(LostAlone') /\ Cardinality(LostAlone') <= Spent'
    <2>1. Spent' = Spent + 1
      BY <1>2, <1>4 DEF Fault, Spent
    <2>2. /\ IsFiniteSet(LostAlone \cup {d})
          /\ Cardinality(LostAlone \cup {d}) \in Nat
          /\ Cardinality(LostAlone \cup {d}) <= Cardinality(LostAlone) + 1
      BY <1>1, AtMostOneMore
    <2>3. /\ IsFiniteSet(LostAlone')
          /\ Cardinality(LostAlone') <= Cardinality(LostAlone \cup {d})
          /\ Cardinality(LostAlone') \in Nat
      BY <1>4, <2>2, FS_Subset, FS_CardinalityType
    <2>4. QED
      BY <1>1, <1>2, <2>1, <2>2, <2>3
  <1>5. ~Fault("redis_loss")
    BY DEF Fault
  <1>6. QED
    BY <1>3, <1>4, <1>5, LossStep DEF FaultInv

\* Unless Redis restarts, the rows lost are no more than the faults that
\* struck, those of the killed API processes left out.
THEOREM LossIsBounded == Spec => []LossBoundedByFaults
  <1>1. Init => LossInv
    <2>1. Init => LostAlone = {} /\ Spent = 0
      BY PipelineAssumption DEF Init, LostAlone, LostDocs, Lost, Spent
    <2>2. QED
      BY <2>1, FS_EmptySet DEF LossInv
  <1>2. LossInv => LossBoundedByFaults
    BY DEF LossInv, LossBoundedByFaults, LostAlone
  <1>3. QED
    BY <1>1, <1>2, LossInvStep, FaultInvariant, PTL DEF Spec
-----------------------------------------------------------------------------
\* A step that changes a counter in one process at most.
LEMMA TotalAfter ==
  ASSUME TypeOK, TypeOK', NEW o \in Outcome, NEW c,
         \A h \in Hosts \ {c} : processed'[h][o] = processed[h][o]
  PROVE  /\ Total(o, Hosts) \in Nat /\ Total(o, Hosts)' \in Nat
         /\ Total(o, Hosts)' = Total(o, Hosts)
              + (IF c \in Hosts THEN processed'[c][o] - processed[c][o] ELSE 0)
  <1> DEFINE f == [h \in Hosts |-> processed[h][o]]
             g == [h \in Hosts |-> processed'[h][o]]
  <1>1. /\ \A h \in Hosts : f[h] \in Nat /\ g[h] \in Nat
        /\ \A h \in Hosts \ {c} : g[h] = f[h]
    BY DEF TypeOK
  <1>2. IsFiniteSet(Hosts)
    BY PipelineAssumption DEF Hosts
  <1>3. /\ Total(o, Hosts) = SumFunctionOnSet(f, Hosts)
        /\ Total(o, Hosts)' = SumFunctionOnSet(g, Hosts)
    BY DEF Total, SumFunction
  <1>4. /\ SumFunctionOnSet(f, Hosts) \in Nat /\ SumFunctionOnSet(g, Hosts) \in Nat
        /\ SumFunctionOnSet(g, Hosts) = SumFunctionOnSet(f, Hosts)
             + (IF c \in Hosts THEN g[c] - f[c] ELSE 0)
    <2> HIDE DEF f, g
    <2> QED
      BY <1>1, <1>2, SumIsNatural, SumChanged
  <1>5. c \in Hosts => g[c] = processed'[c][o] /\ f[c] = processed[c][o]
    OBVIOUS
  <1> HIDE DEF f, g
  <1>6. QED
    BY <1>3, <1>4, <1>5

LEMMA TotalNatural ==
  ASSUME TypeOK, NEW o \in Outcome
  PROVE  Total(o, Hosts) \in Nat
  <1> DEFINE f == [h \in Hosts |-> processed[h][o]]
  <1>1. IsFiniteSet(Hosts) /\ \A h \in Hosts : f[h] \in Nat
    BY PipelineAssumption DEF Hosts, TypeOK
  <1>2. Total(o, Hosts) = SumFunctionOnSet(f, Hosts)
    BY DEF Total, SumFunction
  <1> HIDE DEF f
  <1>3. QED
    BY <1>1, <1>2, SumIsNatural

\* Counters that stay, counters that are lost, one counter that moves.
LEMMA TotalSame ==
  ASSUME TypeOK, TypeOK', NEW o \in Outcome,
         \A h \in Hosts : processed'[h][o] = processed[h][o]
  PROVE  Total(o, Hosts)' = Total(o, Hosts)
  <1>1. /\ NoHost \notin Hosts
        /\ \A h \in Hosts \ {NoHost} : processed'[h][o] = processed[h][o]
    BY PipelineAssumption DEF Hosts
  <1>2. /\ Total(o, Hosts) \in Nat
        /\ Total(o, Hosts)' = Total(o, Hosts) + 0
    BY <1>1, TotalAfter
  <1>3. QED
    BY <1>2

LEMMA TotalLost ==
  ASSUME TypeOK, TypeOK', NEW o \in Outcome, NEW h \in Hosts, MemoryLost(h)
  PROVE  Total(o, Hosts)' <= Total(o, Hosts)
  <1>1. /\ \A g \in Hosts \ {h} : processed'[g][o] = processed[g][o]
        /\ processed'[h][o] = 0 /\ processed[h][o] \in Nat
    BY DEF MemoryLost, NoCounts, TypeOK
  <1>2. QED
    BY <1>1, TotalAfter

LEMMA TotalCounted ==
  ASSUME TypeOK, TypeOK', NEW o \in Outcome, NEW s \in Slots, HostOf(s) \in Hosts,
         NEW p \in Outcome, Count(s, p)
  PROVE  Total(o, Hosts)' = Total(o, Hosts) + (IF o = p THEN 1 ELSE 0)
  <1>1. \A g \in Hosts \ {HostOf(s)} : processed'[g][o] = processed[g][o]
    BY DEF Count, TypeOK
  <1>2. /\ processed'[HostOf(s)][o] = processed[HostOf(s)][o] + (IF o = p THEN 1 ELSE 0)
        /\ processed[HostOf(s)][o] \in Nat
    <2> DEFINE c == [processed[HostOf(s)] EXCEPT ![p] = @ + 1]
    <2>1. processed'[HostOf(s)] = c /\ processed[HostOf(s)] \in [Outcome -> Nat]
      BY DEF Count, TypeOK
    <2>2. QED
      BY <2>1
  <1>3. QED
    BY <1>1, <1>2, TotalAfter

\* How the rows with an outcome and the counters of it may change together.
Kept(o) == Having(o)' = Having(o)
Gains(o, d) == d \notin Having(o) /\ Having(o)' = Having(o) \cup {d}
Tallied(o) ==
  \/ Kept(o) /\ Total(o, Hosts)' = Total(o, Hosts)
  \/ Kept(o) /\ Total(o, Hosts)' <= Total(o, Hosts) /\ Spent' # 0
  \/ \E d \in Docs : Gains(o, d) /\ Total(o, Hosts)' = Total(o, Hosts) + 1
  \/ \E d \in Docs : Gains(o, d) /\ Total(o, Hosts)' <= Total(o, Hosts) /\ Spent' # 0

LEMMA SpentByFault ==
  ASSUME TypeOK, CalmInv
  PROVE  \A kind : Fault(kind) => Spent' # 0
  BY PipelineAssumption DEF TypeOK, CalmInv, Fault, Spent

LEMMA TalliedJob ==
  ASSUME OwnerInv, HostInv, CalmInv, TypeOK', NEW o \in Terminal,
         NEW s \in Slots, JobSteps(s) \/ JobFaults(s)
  PROVE  Tallied(o)
  <1> USE DEF OwnerInv, BaseInv
  <1>0. o \in Outcome /\ o \in {"completed", "failed"} /\ "error" \in Outcome
        /\ "completed" \in Outcome /\ "failed" \in Outcome
    BY DEF Outcome, Terminal
  <1>1. PICK d \in Docs : d = job[s]
    BY JobEffect
  <1>3. HostOf(s) \in Hosts
    <2>1. s \in Docs => s = d
      BY <1>1, PipelineAssumption DEF JobInv, OwnTask
    <2>2. QED
      BY <1>1, <2>1, PipelineAssumption DEF HostOf, HostInv, Slots, Hosts
  <1>4. \A p \in Outcome : Count(s, p) =>
          Total(o, Hosts)' = Total(o, Hosts) + (IF o = p THEN 1 ELSE 0)
    BY <1>0, <1>3, TotalCounted
  <1>5. UNCHANGED processed => Total(o, Hosts)' = Total(o, Hosts)
    BY <1>0, TotalSame
  <1>6. Total(o, Hosts) \in Nat
    BY <1>0, TotalNatural
  <1>7. \A kind : Fault(kind) => Spent' # 0
    BY SpentByFault
  <1>8. UNCHANGED status => Kept(o)
    BY DEF Kept, Having
  <1>9. CASE Select(s) \/ SelectFails(s) \/ Extract(s)
    <2>1. UNCHANGED status /\ (UNCHANGED processed \/ Count(s, "error"))
      BY <1>9 DEF Select, SelectFails, Extract, dbVars, metricVars
    <2>2. QED
      BY <1>0, <1>4, <1>5, <1>6, <1>8, <2>1 DEF Tallied
  <1>10. CASE Mark(s) \/ MarkFails(s)
    <2>1. status[d] = "pending" /\ view[s] = "pending"
      BY <1>1, <1>10 DEF Mark, MarkFails, JobStatusInv
    <2>2. Kept(o)
      BY <1>0, <1>1, <1>10, <2>1 DEF Mark, MarkFails, WriteProcessing, Kept, Having, TypeOK
    <2>3. UNCHANGED processed \/ Count(s, "error")
      BY <1>10 DEF Mark, MarkFails, metricVars
    <2>4. QED
      BY <1>0, <1>4, <1>5, <1>6, <2>2, <2>3 DEF Tallied
  <1>11. CASE Finish(s) \/ FinishFails(s)
    <2>1. status[d] = "processing"
      BY <1>1, <1>11 DEF Finish, FinishFails, JobStatusInv
    <2>2. WriteResult(s) => IF o = "completed" THEN Gains(o, d) ELSE Kept(o)
      BY <1>0, <1>1, <2>1 DEF WriteResult, Gains, Kept, Having, TypeOK
    <2>3. \/ WriteResult(s) /\ Count(s, "completed")
          \/ UNCHANGED status /\ Count(s, "error")
          \/ WriteResult(s) /\ Count(s, "error") /\ Spent' # 0
      BY <1>7, <1>11 DEF Finish, FinishFails, CountUnexpected
    <2>4. QED
      BY <1>0, <1>4, <1>6, <1>8, <2>2, <2>3 DEF Tallied
  <1>12. CASE Fail(s) \/ FailFails(s)
    <2>1. status[d] = "processing"
      BY <1>1, <1>12 DEF Fail, FailFails, JobStatusInv
    <2>2. WriteFailure(s) => IF o = "failed" THEN Gains(o, d) ELSE Kept(o)
      BY <1>0, <1>1, <2>1 DEF WriteFailure, Gains, Kept, Having, TypeOK
    <2>3. \/ WriteFailure(s) /\ Count(s, "failed")
          \/ /\ WriteFailure(s) \/ UNCHANGED status
             /\ UNCHANGED processed \/ (s \in Workers /\ MemoryLost(s))
             /\ Spent' # 0
      BY <1>7, <1>12 DEF Fail, FailFails
    <2>4. s \in Workers /\ MemoryLost(s) => Total(o, Hosts)' <= Total(o, Hosts)
      BY <1>0, TotalLost DEF Hosts
    <2>5. QED
      BY <1>0, <1>4, <1>5, <1>6, <1>8, <2>2, <2>3, <2>4 DEF Tallied
  <1>13. QED
    BY <1>9, <1>10, <1>11, <1>12 DEF JobSteps, JobFaults

\* No other step settles a document or counts one.
LEMMA TalliedElse ==
  ASSUME BaseInv, CalmInv, TypeOK', NEW o \in Terminal, [Next]_vars,
         \A s \in Slots : ~(JobSteps(s) \/ JobFaults(s))
  PROVE  Tallied(o)
  <1> USE DEF BaseInv, dbVars, metricVars
  <1>0. o \in Outcome /\ o \notin {"absent", "pending"}
    BY DEF Outcome, Terminal
  <1>1. UNCHANGED processed => Total(o, Hosts)' = Total(o, Hosts)
    BY <1>0, TotalSame
  <1>2. UNCHANGED status => Kept(o)
    BY DEF Kept, Having
  <1>3. \A kind : Fault(kind) => Spent' # 0
    BY SpentByFault
  <1>4. ASSUME NEW a \in Apis, StartApi(a) \/ StopApi(a) \/ CrashApi(a)
        PROVE  Tallied(o)
    <2>1. CASE StartApi(a)
      BY <1>1, <1>2, <2>1 DEF StartApi, Tallied
    <2>2. CASE StopApi(a) \/ CrashApi(a)
      <3>1. MemoryLost(a) /\ Spent' # 0 /\ UNCHANGED status
        BY <1>3, <2>2 DEF StopApi, CrashApi
      <3>2. Total(o, Hosts)' <= Total(o, Hosts)
        BY <1>0, <3>1, TotalLost DEF Hosts
      <3>3. QED
        BY <1>2, <3>1, <3>2 DEF Tallied
    <2>3. QED
      BY <1>4, <2>1, <2>2
  <1>5. ASSUME NEW d \in Docs,
               (\E a \in Apis : Request(d, a)) \/ UploadSteps(d) \/ UploadCommitFails(d)
        PROVE  Tallied(o)
    <2>1. UNCHANGED processed
      BY <1>5 DEF Request, UploadReject, UploadSave, UploadSaveFails, UploadSteps,
         UploadCommit, UploadCommitFails, UploadEnqueue, UploadFallback, UploadAnswer
    <2>2. UNCHANGED status \/ (upload[d] = "saved" /\ InsertRow(d))
      BY <1>5 DEF Request, UploadReject, UploadSave, UploadSaveFails, UploadSteps,
         UploadCommit, UploadCommitFails, UploadEnqueue, UploadFallback, UploadAnswer,
         ReadyToCommit
    <2>3. Kept(o)
      BY <1>0, <1>2, <2>2 DEF RequestInv, InsertRow, Kept, Having, TypeOK
    <2>4. QED
      BY <1>1, <2>1, <2>3 DEF Tallied
  <1>6. ASSUME NEW w \in Workers,
               WorkerStart(w) \/ LoopSteps(w) \/ DequeueFails(w)
               \/ Signal(w) \/ CrashWorker(w)
        PROVE  Tallied(o)
    <2>1. UNCHANGED status
      BY <1>6 DEF WorkerStart, LoopSteps, WorkerPoll, WorkerExit, WorkerDequeue,
         WorkerTimeout, DequeueFails, Signal, CrashWorker
    <2>2. CASE WorkerExit(w) \/ CrashWorker(w)
      <3>1. MemoryLost(w) /\ Spent' # 0
        BY <1>3, <2>2 DEF WorkerExit, MayExit, CrashWorker, CalmInv, NoFault, Spent
      <3>2. Total(o, Hosts)' <= Total(o, Hosts)
        BY <1>0, <3>1, TotalLost DEF Hosts
      <3>3. QED
        BY <1>2, <2>1, <3>1, <3>2 DEF Tallied
    <2>3. CASE ~(WorkerExit(w) \/ CrashWorker(w))
      <3>1. UNCHANGED processed
        BY <1>6, <2>3 DEF WorkerStart, LoopSteps, WorkerPoll, WorkerDequeue,
           WorkerTimeout, DequeueFails, Signal
      <3>2. QED
        BY <1>1, <1>2, <2>1, <3>1 DEF Tallied
    <2>4. QED
      BY <2>2, <2>3
  <1>7. ASSUME RedisLoss \/ UNCHANGED vars
        PROVE  Tallied(o)
    BY <1>1, <1>2, <1>7 DEF RedisLoss, vars, Tallied
  <1>8. QED
    BY <1>4, <1>5, <1>6, <1>7 DEF Next

LEMMA CounterStep ==
  ASSUME FaultInv, DeliveryInv, CounterInv, [Next]_vars, DeliveryInv'
  PROVE  CounterInv'
  <1> SUFFICES ASSUME NEW o \in Terminal
               PROVE  /\ DeliveredOnce' => /\ IsFiniteSet(Having(o)')
                                           /\ Total(o, Hosts)' <= Cardinality(Having(o)')
                      /\ Spent' = 0 => Total(o, Hosts)' = Cardinality(Having(o)')
    BY DEF CounterInv
  <1>0. FaultInv'
    BY CountStep
  <1>1. Spent' = 0 => Spent = 0 /\ struck' = {}
    <2>1. /\ budget \in Nat /\ budget <= MaxFaults /\ MaxFaults \in Nat
          /\ NoFault \/ \E kind \in FaultKinds : Fault(kind)
      BY FaultStep, PipelineAssumption DEF FaultInv, CountInv, CalmInv, BaseInv, TypeOK
    <2>2. QED
      BY <1>0, <2>1 DEF FaultInv, CountInv, CalmInv, Spent, NoFault, Fault
  <1>2. SUFFICES ASSUME DeliveredOnce'
                 PROVE  /\ IsFiniteSet(Having(o)')
                        /\ Total(o, Hosts)' <= Cardinality(Having(o)')
                        /\ Spent' = 0 => Total(o, Hosts)' = Cardinality(Having(o)')
    BY <1>1 DEF DeliveredOnce
  <1>3. DeliveredOnce /\ OwnerInv
    BY <1>2, StruckGrows DEF DeliveredOnce, DeliveryInv
  <1>4. /\ IsFiniteSet(Having(o))
        /\ Total(o, Hosts) <= Cardinality(Having(o))
        /\ Spent' = 0 => Total(o, Hosts) = Cardinality(Having(o))
    BY <1>1, <1>3 DEF CounterInv
  <1>5. Tallied(o)
    BY <1>0, <1>3, TalliedJob, TalliedElse DEF FaultInv, CountInv, BaseInv
  <1>6. /\ Total(o, Hosts) \in Nat /\ Total(o, Hosts)' \in Nat
        /\ Cardinality(Having(o)) \in Nat
    <2>1. o \in Outcome /\ IsFiniteSet(Hosts)
      BY PipelineAssumption DEF Outcome, Terminal, Hosts
    <2>2. TypeOK /\ TypeOK'
      BY <1>0 DEF FaultInv, BaseInv
    <2>3. \A h \in Hosts : processed[h][o] \in Nat /\ processed'[h][o] \in Nat
      BY <2>1, <2>2 DEF TypeOK
    <2>4. QED
      BY <1>4, <2>1, <2>3, SumIsNatural, FS_CardinalityType DEF Total, SumFunction
  <1>7. CASE Kept(o)
    <2>1. /\ IsFiniteSet(Having(o)') /\ Cardinality(Having(o)') = Cardinality(Having(o))
          /\ \A d : ~Gains(o, d)
      BY <1>4, <1>7 DEF Kept, Gains
    <2>2. QED
      BY <1>4, <1>5, <1>6, <2>1 DEF Tallied
  <1>8. ASSUME NEW d \in Docs, Gains(o, d)
        PROVE  /\ IsFiniteSet(Having(o)')
               /\ Cardinality(Having(o)') = Cardinality(Having(o)) + 1
    BY <1>4, <1>8, FS_AddElement DEF Gains
  <1>9. CASE ~Kept(o)
    BY <1>4, <1>5, <1>6, <1>8, <1>9 DEF Tallied
  <1>10. QED
    BY <1>7, <1>9

\* What the processes have counted is never more than the database shows,
\* while no job is delivered twice, and exactly that until something fails.
THEOREM CountersMatch == Spec => []CountersMatchDocs
  <1>1. Init => CounterInv
    <2> SUFFICES ASSUME Init, NEW o \in Terminal
                 PROVE  Having(o) = {} /\ Total(o, Hosts) = 0
      BY FS_EmptySet DEF CounterInv
    <2>1. Having(o) = {}
      BY DEF Init, Having, Terminal
    <2>2. Total(o, Hosts) = 0
      <3> DEFINE f == [h \in Hosts |-> processed[h][o]]
      <3>1. IsFiniteSet(Hosts) /\ \A h \in Hosts : f[h] = 0
        BY PipelineAssumption DEF Init, NoCounts, Hosts, Terminal, Outcome
      <3>2. Total(o, Hosts) = SumFunctionOnSet(f, Hosts)
        BY DEF Total, SumFunction
      <3> HIDE DEF f
      <3>3. QED
        BY <3>1, <3>2, SumOfZeros
    <2>3. QED
      BY <2>1, <2>2
  <1>2. CounterInv => CountersMatchDocs
    BY DEF CounterInv, CountersMatchDocs
  <1>3. QED
    BY <1>1, <1>2, CounterStep, FaultInvariant, DeliveryInvariant, PTL DEF Spec

=============================================================================
