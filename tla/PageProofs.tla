------------------------------ MODULE PageProofs ------------------------------
(***************************************************************************)
(* Proofs that the page loses hold of one interval at most for each upload *)
(* that is started during another, and that what a calm page says of an    *)
(* end, exports and names is about one document, the current one.          *)
(***************************************************************************)
EXTENDS Page, FiniteSetTheorems, TLAPS

\* At first nothing is uploaded or polled.
LEMMA TimerInit == Init => TimerInv
<1>1. Init => TypeOK
  <2>1. ASSUME Init PROVE FormType
    <3>1. [file |-> None, named |-> None]
            \in [file : Files \cup {None}, named : Files \cup {None}]
      OBVIOUS
    <3>2. sent \in [Docs -> [file : Files \cup {None}, named : Files \cup {None}]]
      BY <2>1, <3>1 DEF Init
    <3> QED BY <2>1, <3>2 DEF Init, FormType
  <2>2. Init => PollType
    BY PageAssumption DEF Init, PollType, PageAssumption
  <2>3. Init => ShownType
    BY DEF Init, ShownType
  <2> QED BY <2>1, <2>2, <2>3 DEF Init, TypeOK
<1>2. Init => TimersFinite /\ UploadsCounted /\ OneTimer /\ PolledIsThere
  <2> SUFFICES ASSUME Init PROVE TimersFinite /\ UploadsCounted /\ OneTimer /\ PolledIsThere
    OBVIOUS
  <2>1. running \ {pollTimer} = {} BY DEF Init
  <2>2. Cardinality({}) = 0 /\ IsFiniteSet({}) BY FS_EmptySet
  <2> QED BY <2>1, <2>2 DEF Init, TimersFinite, UploadsCounted, OneTimer, PolledIsThere
<1> QED BY <1>1, <1>2 DEF TimerInv

\* Choosing a file touches no timer.
LEMMA FormStep ==
  ASSUME TimerInv, NEW f \in Files, Choose(f) \/ Drop(f)
  PROVE  TimerInv'
BY DEF TimerInv, TypeOK, FormType, PollType, ShownType, TimersFinite, UploadsCounted,
   OneTimer, PolledIsThere, Choose, Drop, follow, exports

\* A subset has no more elements.
LEMMA Smaller ==
  ASSUME NEW S, NEW T, IsFiniteSet(T), S \subseteq T
  PROVE  /\ IsFiniteSet(S) /\ Cardinality(S) <= Cardinality(T)
         /\ Cardinality(S) \in Nat /\ Cardinality(T) \in Nat
BY FS_Subset, FS_CardinalityType

\* Adding an element not there, and taking one away that is.
LEMMA OneMore ==
  ASSUME NEW S, IsFiniteSet(S), NEW x
  PROVE  /\ IsFiniteSet(S \cup {x}) /\ Cardinality(S \cup {x}) <= Cardinality(S) + 1
         /\ Cardinality(S \cup {x}) \in Nat /\ Cardinality(S) \in Nat
<1>1. Cardinality(S) \in Nat BY FS_CardinalityType
<1>2. /\ IsFiniteSet(S \cup {x})
      /\ Cardinality(S \cup {x}) = IF x \in S THEN Cardinality(S) ELSE Cardinality(S) + 1
  BY FS_AddElement
<1> QED BY <1>1, <1>2

LEMMA OneLess ==
  ASSUME NEW S, IsFiniteSet(S), NEW x \in S
  PROVE  /\ IsFiniteSet(S \ {x}) /\ Cardinality(S \ {x}) + 1 = Cardinality(S)
         /\ Cardinality(S \ {x}) \in Nat
<1>1. Cardinality(S) \in Nat /\ Cardinality(S \ {x}) \in Nat /\ IsFiniteSet(S \ {x})
  BY FS_CardinalityType, FS_Subset
<1>2. Cardinality(S \ {x}) = Cardinality(S) - 1 BY FS_RemoveElement
<1> QED BY <1>1, <1>2

\* A click clears the interval pollTimer holds; what is left running are the
\* intervals already lost.
LEMMA ClickStep ==
  ASSUME TimerInv, NEW d \in Docs, Click(d)
  PROVE  TimerInv'
<1>0. overlaps \in Nat /\ TimersFinite BY DEF TimerInv, TypeOK, FormType
<1>1. TypeOK'
  <2>1. FormType'
    <3>1. overlaps' \in Nat BY <1>0 DEF Click
    <3>2. sent' \in [Docs -> [file : Files \cup {None}, named : Files \cup {None}]]
      BY DEF TimerInv, TypeOK, FormType, Click
    <3>3. /\ picked' \in Files \cup {None} /\ named' \in Files \cup {None}
          /\ button' \in BOOLEAN /\ uploading' \subseteq Docs
      BY DEF TimerInv, TypeOK, FormType, Click
    <3> QED BY <3>1, <3>2, <3>3 DEF FormType
  <2>2. PollType'
    BY DEF TimerInv, TypeOK, PollType, Click, StopOld
  <2>3. ShownType'
    BY DEF TimerInv, TypeOK, ShownType, Click, HideCards, exports
  <2> QED BY <2>1, <2>2, <2>3 DEF TimerInv, TypeOK, Click
<1>2. running' = running \ {pollTimer} /\ uploading' = uploading \cup {d}
  BY DEF Click, StopOld
<1>3. /\ TimersFinite'
      /\ Cardinality(running') <= Cardinality(running)
      /\ Cardinality(running') \in Nat /\ Cardinality(running) \in Nat
      /\ Cardinality(uploading') <= Cardinality(uploading) + 1
      /\ Cardinality(uploading') \in Nat /\ Cardinality(uploading) \in Nat
  BY <1>0, <1>2, Smaller, OneMore DEF TimersFinite
<1>4. UploadsCounted'
  <2>1. CASE uploading = {}
    <3>1. Cardinality(running') <= overlaps /\ overlaps' = overlaps
      BY <1>0, <1>2, <2>1 DEF TimerInv, OneTimer, Click
    <3>2. Cardinality(uploading) = 0 BY <2>1, FS_EmptySet
    <3> QED BY <1>0, <1>3, <3>1, <3>2 DEF UploadsCounted
  <2>2. CASE uploading # {}
    <3>1. Cardinality(running) + Cardinality(uploading) <= overlaps + 1
      BY <2>2 DEF TimerInv, UploadsCounted
    <3>2. overlaps' = overlaps + 1 BY <2>2 DEF Click
    <3> QED BY <1>0, <1>3, <3>1, <3>2 DEF UploadsCounted
  <2> QED BY <2>1, <2>2
<1>5. OneTimer'
  <2>1. pollTimer' = pollTimer /\ running' \ {pollTimer} = running \ {pollTimer}
    BY <1>2 DEF Click
  <2>2. overlaps <= overlaps' /\ overlaps' \in Nat BY <1>0 DEF Click
  <2>3. Cardinality(running') <= overlaps BY <1>2 DEF TimerInv, OneTimer
  <2> QED BY <1>0, <1>2, <1>3, <2>1, <2>2, <2>3 DEF OneTimer
<1>6. PolledIsThere'
  BY <1>2 DEF TimerInv, PolledIsThere, Click
<1> QED BY <1>1, <1>3, <1>4, <1>5, <1>6 DEF TimerInv

\* An upload that is answered adds its interval and leaves the uploads; the
\* one pollTimer held, if it still runs, was counted with the upload.
LEMMA UploadStep ==
  ASSUME TimerInv, NEW d \in Docs, UploadAnswered(d) \/ UploadFails(d)
  PROVE  TimerInv'
<1>0. /\ overlaps \in Nat /\ TimersFinite /\ overlaps' = overlaps
      /\ d \in uploading /\ uploading' = uploading \ {d}
  BY DEF TimerInv, TypeOK, FormType, UploadAnswered, UploadFails
<1>1. /\ IsFiniteSet(uploading') /\ Cardinality(uploading') + 1 = Cardinality(uploading)
      /\ Cardinality(uploading') \in Nat /\ Cardinality(running) \in Nat
  BY <1>0, OneLess, FS_CardinalityType DEF TimersFinite
<1>2. Cardinality(running) + Cardinality(uploading) <= overlaps + 1
  BY <1>0 DEF TimerInv, UploadsCounted
<1>3. CASE UploadAnswered(d)
  <2>1. TypeOK'
    <3>1. FormType'
      BY <1>3 DEF TimerInv, TypeOK, FormType, UploadAnswered
    <3>2. PollType'
      BY <1>3, PageAssumption DEF TimerInv, TypeOK, PollType, UploadAnswered,
         PageAssumption
    <3>3. ShownType'
      BY <1>3 DEF TimerInv, TypeOK, ShownType, UploadAnswered, exports, Status
    <3> QED BY <1>3, <3>1, <3>2, <3>3 DEF TimerInv, TypeOK, UploadAnswered
  <2>2. /\ running' = running \cup {d} /\ pollTimer' = d
        /\ server'[d] # "none" /\ UNCHANGED <<server, polls>>
    BY <1>3 DEF UploadAnswered
  <2>3. TimersFinite' /\ Cardinality(running') <= Cardinality(running) + 1
        /\ Cardinality(running') \in Nat
    BY <1>0, <1>1, <2>2, OneMore DEF TimersFinite
  <2>4. UploadsCounted' BY <1>0, <1>1, <1>2, <2>3 DEF UploadsCounted
  <2>5. OneTimer'
    <3>1. running' \ {pollTimer'} \subseteq running BY <2>2
    <3>2. /\ Cardinality(running' \ {pollTimer'}) <= Cardinality(running)
          /\ Cardinality(running' \ {pollTimer'}) \in Nat
      BY <1>0, <3>1, Smaller DEF TimersFinite
    <3> QED BY <1>0, <1>1, <1>2, <3>2 DEF OneTimer
  <2>6. PolledIsThere' BY <2>2 DEF TimerInv, PolledIsThere
  <2> QED BY <2>1, <2>3, <2>4, <2>5, <2>6 DEF TimerInv
<1>4. CASE UploadFails(d)
  <2>1. TypeOK'
    BY <1>4 DEF TimerInv, TypeOK, FormType, PollType, ShownType, UploadFails,
       follow, exports
  <2>2. UNCHANGED <<running, pollTimer, server, polls>>
    BY <1>4 DEF UploadFails, follow
  <2>3. UploadsCounted' BY <1>0, <1>1, <1>2, <2>2 DEF UploadsCounted
  <2> QED BY <1>0, <1>1, <2>1, <2>2, <2>3 DEF TimerInv, TimersFinite, OneTimer, PolledIsThere
<1> QED BY <1>3, <1>4

\* Clearing intervals keeps what is counted.
LEMMA FewerTimers ==
  ASSUME TimerInv, running' \subseteq running,
         UNCHANGED <<uploading, overlaps, pollTimer>>
  PROVE  TimersFinite' /\ UploadsCounted' /\ OneTimer'
<1>0. overlaps \in Nat /\ TimersFinite BY DEF TimerInv, TypeOK, FormType
<1>1. /\ IsFiniteSet(running') /\ Cardinality(running') <= Cardinality(running)
      /\ Cardinality(running') \in Nat /\ Cardinality(running) \in Nat
      /\ Cardinality(uploading) \in Nat
  BY <1>0, Smaller, FS_CardinalityType DEF TimersFinite
<1>2. UploadsCounted' BY <1>0, <1>1 DEF TimerInv, UploadsCounted
<1>3. running' \ {pollTimer} \subseteq running \ {pollTimer} /\ IsFiniteSet(running \ {pollTimer})
  BY <1>0, FS_Subset DEF TimersFinite
<1>4. /\ Cardinality(running' \ {pollTimer}) <= Cardinality(running \ {pollTimer})
      /\ Cardinality(running' \ {pollTimer}) \in Nat
      /\ Cardinality(running \ {pollTimer}) \in Nat
  BY <1>3, Smaller
<1>5. OneTimer' BY <1>0, <1>4 DEF TimerInv, OneTimer
<1> QED BY <1>0, <1>1, <1>2, <1>5 DEF TimersFinite

\* A turn of an interval clears intervals at most.
LEMMA TickStep ==
  ASSUME TimerInv, NEW d \in Docs, Tick(d)
  PROVE  TimerInv'
<1>1. /\ attempts[d] \in 0..(MAX + 1) /\ MAX \in Nat
      /\ attempts' = [attempts EXCEPT ![d] = IF @ <= MAX THEN @ + 1 ELSE @]
  BY PageAssumption DEF TimerInv, TypeOK, PollType, PageAssumption, Tick
<1>2. (IF attempts[d] <= MAX THEN attempts[d] + 1 ELSE attempts[d]) \in 0..(MAX + 1)
  BY <1>1
<1>3. attempts' \in [Docs -> 0..(MAX + 1)] /\ running' \subseteq running
  BY <1>1, <1>2 DEF TimerInv, TypeOK, PollType, Tick, ClearInterval
<1>4. polls' \subseteq Polls
  <2>1. CASE Exhausted(d)
    BY <2>1 DEF TimerInv, TypeOK, PollType, Tick
  <2>2. CASE ~Exhausted(d)
    <3>1. attempts'[d] \in 1..(MAX + 1)
      BY <1>1, <2>2 DEF Exhausted, TimerInv, TypeOK, PollType
    <3>2. [doc |-> d, n |-> attempts'[d], answer |-> "asked"] \in Polls
      BY <3>1 DEF Polls
    <3>3. polls' = polls \cup {[doc |-> d, n |-> attempts'[d], answer |-> "asked"]}
      BY <2>2 DEF Tick
    <3> QED BY <3>2, <3>3 DEF TimerInv, TypeOK, PollType
  <2> QED BY <2>1, <2>2
<1>5. FormType' /\ ShownType'
  BY DEF TimerInv, TypeOK, FormType, ShownType, Tick, form, exports
<1>6. TypeOK'
  BY <1>3, <1>4, <1>5 DEF TimerInv, TypeOK, PollType, Tick
<1>7. UNCHANGED <<uploading, overlaps, pollTimer, server>>
  BY DEF Tick, form
<1>8. \A p \in polls' : p \in polls \/ p.doc = d
  BY DEF Tick
<1>9. d \in running
  BY DEF Tick
<1>10. PolledIsThere'
  BY <1>3, <1>7, <1>8, <1>9 DEF TimerInv, PolledIsThere
<1> QED BY <1>3, <1>6, <1>7, <1>10, FewerTimers DEF TimerInv

\* So does the end of a poll.
LEMMA PollStep ==
  ASSUME TimerInv, NEW p \in polls, PollServed(p) \/ PollFails(p) \/ PollHandled(p)
  PROVE  TimerInv'
<1>0. p \in Polls
  BY DEF TimerInv, TypeOK, PollType
<1>1. running' \subseteq running /\ UNCHANGED <<uploading, overlaps, pollTimer>>
  BY DEF PollServed, PollFails, PollHandled, ClearInterval, follow, form
<1>2. TypeOK'
  <2>1. CASE PollServed(p)
    <3>1. [p EXCEPT !.answer = server[p.doc]] \in Polls
      BY <1>0 DEF TimerInv, TypeOK, Polls, PolledIsThere
    <3>2. PollType'
      BY <2>1, <3>1 DEF PollServed, TimerInv, TypeOK, PollType, follow
    <3>3. FormType' /\ ShownType'
      BY <2>1 DEF PollServed, TimerInv, TypeOK, FormType, ShownType, form, exports
    <3> QED BY <2>1, <3>2, <3>3 DEF PollServed, TimerInv, TypeOK
  <2>2. CASE PollFails(p)
    BY <2>2 DEF PollFails, TimerInv, TypeOK, FormType, PollType, ShownType, form,
       follow, exports
  <2>3. CASE PollHandled(p)
    <3>1. PollType' /\ FormType'
      BY <2>3 DEF PollHandled, TimerInv, TypeOK, PollType, FormType, form, ClearInterval
    <3>2. page' \in [card : BOOLEAN, meta : Docs \cup {None},
                    status : {"none"} \cup Status, records : Docs \cup {None}]
      BY <1>0, <2>3 DEF PollHandled, TimerInv, TypeOK, ShownType, Polls, Status
    <3>3. alert' \in Docs \cup {None}
      BY <1>0, <2>3 DEF PollHandled, TimerInv, TypeOK, ShownType, Polls
    <3>4. ShownType'
      BY <2>3, <3>2, <3>3 DEF PollHandled, TimerInv, TypeOK, ShownType, exports
    <3> QED BY <2>3, <3>1, <3>4 DEF PollHandled, TimerInv, TypeOK
  <2> QED BY <2>1, <2>2, <2>3
<1>3. \A q \in polls' : \E r \in polls : q.doc = r.doc
  BY <1>0 DEF PollServed, PollFails, PollHandled, Polls
<1>4. UNCHANGED server
  BY DEF PollServed, PollFails, PollHandled
<1>5. PolledIsThere' BY <1>1, <1>3, <1>4 DEF TimerInv, PolledIsThere
<1> QED BY <1>1, <1>2, <1>5, FewerTimers DEF TimerInv

\* Exports leave the timers alone.
LEMMA ExportStep ==
  ASSUME TimerInv, ExportClick \/ ExportSaved \/ ExportFails
  PROVE  TimerInv'
<1>1. UNCHANGED <<server, form, follow, polls>>
  BY DEF ExportClick, ExportSaved, ExportFails
<1>2. ShownType'
  BY DEF TimerInv, TypeOK, ShownType, ExportClick, ExportSaved, ExportFails
<1>3. TypeOK'
  BY <1>1, <1>2 DEF TimerInv, TypeOK, FormType, PollType, form, follow
<1> QED BY <1>1, <1>3 DEF TimerInv, TimersFinite, UploadsCounted, OneTimer, PolledIsThere,
        form, follow

\* A row that is there stays.
LEMMA ServiceStep ==
  ASSUME TimerInv, NEW d \in Docs, Accept(d) \/ Progress(d)
  PROVE  TimerInv'
<1>1. UNCHANGED <<form, follow, polls, current, page, alert, exports, calm>>
  BY DEF Accept, Progress
<1>2. server' \in [Docs -> {"none"} \cup Status]
  BY DEF TimerInv, TypeOK, Accept, Progress, Status
<1>3. \A e \in Docs : server[e] # "none" => server'[e] # "none"
  BY DEF TimerInv, TypeOK, Accept, Progress
<1>4. FormType' /\ PollType' /\ ShownType'
  BY <1>1 DEF TimerInv, TypeOK, FormType, PollType, ShownType, form, follow, exports
<1>5. PolledIsThere'
  BY <1>1, <1>3 DEF TimerInv, TypeOK, PollType, Polls, PolledIsThere, follow
<1> QED BY <1>1, <1>2, <1>4, <1>5
        DEF TimerInv, TypeOK, TimersFinite, UploadsCounted, OneTimer, form, follow

\* Whatever comes late, fails or overlaps, the timers are accounted for.
LEMMA TimerInvariant == Spec => []TimerInv
<1>1. TimerInv /\ [Next]_vars => TimerInv'
  <2> SUFFICES ASSUME TimerInv, [Next]_vars PROVE TimerInv'
    OBVIOUS
  <2>1. CASE \E f \in Files : Choose(f) \/ Drop(f)
    BY <2>1, FormStep
  <2>2. CASE \E d \in Docs : Click(d)
    BY <2>2, ClickStep
  <2>3. CASE \E d \in Docs : UploadAnswered(d) \/ UploadFails(d)
    BY <2>3, UploadStep
  <2>4. CASE \E d \in Docs : Tick(d)
    BY <2>4, TickStep
  <2>5. CASE \E p \in polls : PollServed(p) \/ PollFails(p) \/ PollHandled(p)
    BY <2>5, PollStep
  <2>6. CASE ExportClick \/ ExportSaved \/ ExportFails
    BY <2>6, ExportStep
  <2>7. CASE \E d \in Docs : Accept(d) \/ Progress(d)
    BY <2>7, ServiceStep
  <2>8. CASE UNCHANGED vars
    BY <2>8 DEF vars, TimerInv, TypeOK, FormType, PollType, ShownType, TimersFinite,
       UploadsCounted, OneTimer, PolledIsThere, form, follow, exports
  <2> QED BY <2>1, <2>2, <2>3, <2>4, <2>5, <2>6, <2>7, <2>8 DEF Next
<1> QED BY <1>1, TimerInit, PTL DEF Spec

(***************************************************************************)
(* pollTimer holds all intervals but one for each overlapping upload: with *)
(* none, clearInterval in pollStatus and uploadFile stops all polling.     *)
(***************************************************************************)
THEOREM OnePollTimer == Spec => []OneTimer
BY TimerInvariant, PTL DEF TimerInv
-----------------------------------------------------------------------------
LEMMA CalmInit == Init => CalmInv
BY DEF Init, CalmInv, OneUpload, OnePoll, PageIsCurrent, SavedUnderItsName

\* A calm page stays calm only where CalmInv is to be shown.
Calm == OneUpload /\ OnePoll /\ export \in {None, current}
Shown ==
  /\ page.card /\ page.status \in {"completed", "failed"} =>
       page.meta = current /\ alert = current
  /\ page.records # None => page.records = current /\ page.status = "completed"
  /\ saved.name = saved.doc

LEMMA CalmParts == CalmInv <=> (calm => Calm /\ Shown)
BY DEF CalmInv, Calm, Shown, PageIsCurrent, SavedUnderItsName

LEMMA CalmAfter == CalmInv' <=> (calm' => Calm' /\ Shown')
BY DEF CalmInv, Calm, Shown, PageIsCurrent, SavedUnderItsName

\* Steps that change neither uploads nor polls nor what is shown.
LEMMA CalmStill ==
  ASSUME Calm, Shown,
         UNCHANGED <<uploading, running, pollTimer, polls, current, page, alert, exports>>
  PROVE  Calm' /\ Shown'
BY DEF Calm, Shown, OneUpload, OnePoll, exports

\* A click hides what is shown; it clears the one interval there is.
LEMMA CalmClick ==
  ASSUME TimerInv, Calm, Shown, NEW d \in Docs, Click(d), calm'
  PROVE  Calm' /\ Shown'
<1>1. /\ uploading = {} /\ uploading' = {d} /\ polls = {} /\ polls' = {}
      /\ export = None /\ export' = None /\ saved' = saved /\ current' = current
  BY DEF Click, exports
<1>2. running' = {}
  BY DEF Click, StopOld, Calm, OnePoll
<1>3. /\ page' = [page EXCEPT !.card = FALSE, !.records = None]
      /\ page \in [card : BOOLEAN, meta : Docs \cup {None},
                   status : {"none"} \cup Status, records : Docs \cup {None}]
  BY DEF Click, HideCards, TimerInv, TypeOK, ShownType
<1>4. ~page'.card /\ page'.records = None
  BY <1>3
<1> QED BY <1>1, <1>2, <1>4 DEF Calm, Shown, OneUpload, OnePoll

\* The upload was the only one: nothing is polled but what it is answered with.
LEMMA CalmUpload ==
  ASSUME TimerInv, Calm, Shown, NEW d \in Docs, UploadAnswered(d) \/ UploadFails(d)
  PROVE  Calm' /\ Shown'
<1>1. /\ uploading' = {} /\ running = {} /\ polls = {} /\ export = None
      /\ ~page.card /\ page.records = None
  BY DEF UploadAnswered, UploadFails, Calm, OneUpload
<1>2. polls' = {} /\ export' = None /\ saved' = saved
  BY <1>1 DEF UploadAnswered, UploadFails, exports
<1>3. CASE UploadAnswered(d)
  <2>1. running' = {d} /\ pollTimer' = d /\ current' = d
    BY <1>1, <1>3 DEF UploadAnswered
  <2>2. /\ page' = [page EXCEPT !.card = TRUE, !.status = "pending"]
        /\ page \in [card : BOOLEAN, meta : Docs \cup {None},
                     status : {"none"} \cup Status, records : Docs \cup {None}]
    BY <1>3 DEF UploadAnswered, TimerInv, TypeOK, ShownType
  <2>3. page'.status = "pending" /\ page'.records = None
    BY <1>1, <2>2
  <2> QED BY <1>1, <1>2, <2>1, <2>3 DEF Calm, Shown, OneUpload, OnePoll
<1>4. CASE UploadFails(d)
  BY <1>1, <1>2, <1>4 DEF UploadFails, follow, Calm, Shown, OneUpload, OnePoll
<1> QED BY <1>3, <1>4

\* A turn of the interval finds no poll under way.
LEMMA CalmTick ==
  ASSUME TimerInv, Calm, Shown, NEW d \in Docs, Tick(d), calm'
  PROVE  Calm' /\ Shown'
<1>1. /\ d = current /\ running = {d} /\ pollTimer = d /\ polls = {}
      /\ uploading = {} /\ page.records = None
  BY DEF Tick, Calm, OnePoll, OneUpload
<1>2. UNCHANGED <<uploading, pollTimer, current, page, exports>>
      /\ alert' \in {alert, current}
  BY <1>1 DEF Tick, form
<1>3. \/ running' = {} /\ polls' = {}
      \/ running' = {d} /\ \E p : polls' = {p} /\ p.doc = d
  <2>1. CASE Exhausted(d) BY <1>1, <2>1 DEF Tick, ClearInterval
  <2>2. CASE ~Exhausted(d)
    <3> DEFINE p == [doc |-> d, n |-> attempts'[d], answer |-> "asked"]
    <3>1. polls' = {p} /\ running' = {d} BY <1>1, <2>2 DEF Tick
    <3>2. p.doc = d OBVIOUS
    <3> QED BY <3>1, <3>2
  <2> QED BY <2>1, <2>2
<1> QED BY <1>1, <1>2, <1>3 DEF Calm, Shown, OneUpload, OnePoll, exports

\* The poll is the only one and about the current document.
LEMMA CalmPoll ==
  ASSUME TimerInv, Calm, Shown, NEW p \in polls,
         PollServed(p) \/ PollFails(p) \/ PollHandled(p)
  PROVE  Calm' /\ Shown'
<1>1. /\ polls = {p} /\ p.doc = current /\ p \in Polls
      /\ running = {current} /\ pollTimer = current /\ uploading = {}
      /\ page.records = None
  BY DEF Calm, OnePoll, OneUpload, TimerInv, TypeOK, PollType
<1>2. UNCHANGED <<uploading, pollTimer, current, exports>>
  BY DEF PollServed, PollFails, PollHandled, form, follow
<1>3. CASE PollServed(p)
  <2> DEFINE q == [p EXCEPT !.answer = server[p.doc]]
  <2>1. polls' = {q} /\ UNCHANGED <<running, page, alert>>
    BY <1>1, <1>3 DEF PollServed, follow
  <2>2. q.doc = p.doc BY <1>1 DEF Polls
  <2> HIDE DEF q
  <2> QED BY <1>1, <1>2, <2>1, <2>2 DEF Calm, Shown, OneUpload, OnePoll, exports
<1>4. CASE PollFails(p)
  <2>1. polls' = {} /\ UNCHANGED <<running, page, alert>>
    BY <1>1, <1>4 DEF PollFails, follow
  <2> QED BY <1>1, <1>2, <2>1 DEF Calm, Shown, OneUpload, OnePoll, exports
<1>5. CASE PollHandled(p)
  <2>0. page \in [card : BOOLEAN, meta : Docs \cup {None},
                  status : {"none"} \cup Status, records : Docs \cup {None}]
    BY DEF TimerInv, TypeOK, ShownType
  <2>1. polls' = {} BY <1>1, <1>5 DEF PollHandled
  <2>2. /\ page'.status \in {"completed", "failed"} => page'.meta = current /\ alert' = current
        /\ \/ running' = running /\ page'.records = None
           \/ /\ running' = {}
              /\ page'.records # None =>
                   page'.records = current /\ page'.status = "completed"
    <3>1. CASE p.answer = "pending"
      BY <1>1, <1>5, <2>0, <3>1 DEF PollHandled
    <3>2. CASE p.answer \in {"completed", "failed"}
      BY <1>1, <1>5, <2>0, <3>2 DEF PollHandled, ClearInterval
    <3> QED BY <1>5, <3>1, <3>2 DEF PollHandled
  <2> QED BY <1>1, <1>2, <2>1, <2>2 DEF Calm, Shown, OneUpload, OnePoll, exports
<1> QED BY <1>3, <1>4, <1>5

\* What is exported is what is shown, and no upload comes in between.
LEMMA CalmExport ==
  ASSUME Calm, Shown, ExportClick \/ ExportSaved \/ ExportFails
  PROVE  Calm' /\ Shown'
<1>1. UNCHANGED <<uploading, running, pollTimer, polls, current, page, alert>>
  BY DEF ExportClick, ExportSaved, ExportFails, form, follow
<1>2. \/ export' = None /\ (saved' = saved \/ saved'.name = saved'.doc)
      \/ export' = current /\ page.records # None /\ saved' = saved
  <2>1. CASE ExportClick BY <2>1 DEF ExportClick
  <2>2. CASE ExportSaved
    <3>1. export = current BY <2>2 DEF ExportSaved, Calm
    <3>2. saved' = [doc |-> current, name |-> current] /\ export' = None
      BY <2>2, <3>1 DEF ExportSaved
    <3>3. saved'.name = current /\ saved'.doc = current BY <3>2
    <3> QED BY <3>2, <3>3
  <2>3. CASE ExportFails BY <2>3 DEF ExportFails
  <2> QED BY <2>1, <2>2, <2>3
<1> QED BY <1>1, <1>2 DEF Calm, Shown, OneUpload, OnePoll

(***************************************************************************)
(* The timers are accounted for, whatever comes late, fails or overlaps,   *)
(* and while it is calm the page does one thing at a time.                 *)
(***************************************************************************)
THEOREM PageInvariant == Spec => []PageInv
<1>1. TimerInv /\ CalmInv /\ [Next]_vars => CalmInv'
  <2> SUFFICES ASSUME TimerInv, CalmInv, [Next]_vars, calm' PROVE Calm' /\ Shown'
    BY CalmAfter
  <2>1. calm
    BY DEF Next, vars, Choose, Drop, Click, UploadAnswered, UploadFails, Tick, Accept,
           Progress, PollServed, PollFails, PollHandled, ExportClick, ExportSaved,
           ExportFails
  <2>2. Calm /\ Shown BY <2>1, CalmParts
  <2>3. CASE \/ \E f \in Files : Choose(f) \/ Drop(f)
             \/ \E d \in Docs : Accept(d) \/ Progress(d)
             \/ UNCHANGED vars
    BY <2>2, <2>3, CalmStill DEF Choose, Drop, Accept, Progress, vars, form, follow, exports
  <2>4. CASE \E d \in Docs : Click(d)
    BY <2>2, <2>4, CalmClick
  <2>5. CASE \E d \in Docs : UploadAnswered(d) \/ UploadFails(d)
    BY <2>2, <2>5, CalmUpload
  <2>6. CASE \E d \in Docs : Tick(d)
    BY <2>2, <2>6, CalmTick
  <2>7. CASE \E p \in polls : PollServed(p) \/ PollFails(p) \/ PollHandled(p)
    BY <2>2, <2>7, CalmPoll
  <2>8. CASE ExportClick \/ ExportSaved \/ ExportFails
    BY <2>2, <2>8, CalmExport
  <2> QED BY <2>3, <2>4, <2>5, <2>6, <2>7, <2>8 DEF Next
<1> QED BY <1>1, CalmInit, TimerInvariant, PTL DEF Spec, PageInv

(***************************************************************************)
(* What a calm page says of the end of a document - badge, docMeta,        *)
(* statusAlert, records and what is exported - is about the document       *)
(* uploaded last (index.html:458-545).                                     *)
(***************************************************************************)
THEOREM PageShowsCurrent == Spec => []PageIsCurrent
<1>1. PageInv => PageIsCurrent BY DEF PageInv, CalmInv
<1> QED BY <1>1, PageInvariant, PTL

(***************************************************************************)
(* A workbook saved by a calm page is named after the document it was made *)
(* from, though the name is made after two awaits (index.html:580-603).    *)
(***************************************************************************)
THEOREM SavedAsExported == Spec => []SavedUnderItsName
<1>1. PageInv => SavedUnderItsName BY DEF PageInv, CalmInv
<1> QED BY <1>1, PageInvariant, PTL
=============================================================================
