--------------------------------- MODULE Page ---------------------------------
(***************************************************************************)
(* The test page frontend/index.html: choose a PDF, upload it, poll its    *)
(* document every two seconds, show the records, export them.              *)
(*                                                                         *)
(* JavaScript runs one callback at a time, so an action is the code        *)
(* between two awaits.  Between them the user clicks, intervals fire and   *)
(* answers arrive, in any order.                                           *)
(***************************************************************************)
EXTENDS Naturals, FiniteSets

CONSTANTS
  Docs,    \* documents, one for each upload
  Files,   \* PDFs of the user
  MAX,     \* polls before giving up, 60 in the code
  None,
  Habits   \* what may happen: "lost", a poll fails or is refused; "overlap",
           \* a second upload is started during the first

ASSUME PageAssumption ==
  /\ None \notin Docs \cup Files
  /\ MAX \in Nat
  /\ Habits \subseteq {"lost", "overlap"}

VARIABLES
  server,     \* status of each document's row
  picked,     \* fileInput.files[0]
  named,      \* the file whose name is shown
  button,     \* the upload button is enabled
  uploading,  \* uploads without an answer
  overlaps,   \* (history) uploads started during another
  sent,       \* (history) per document: the file sent, the name shown then
  running,    \* documents whose interval is set
  pollTimer,  \* the document whose interval pollTimer holds
  attempts,
  polls,      \* polls in flight: the row's status once the server has read it
  current,    \* currentDocId
  page,       \* status card: shown, the badge, the document of docMeta;
              \* records card
  alert,      \* statusAlert: the document whose end or time-out it tells
  export,     \* the document exported at the moment
  saved,      \* the last file saved: its contents and whom it is named after
  calm        \* (history) every poll was answered before the next turn or
              \* click, every upload and export before the next upload, no
              \* file dropped

follow == <<running, pollTimer, attempts>>
form == <<picked, named, button, uploading, overlaps, sent>>
exports == <<export, saved>>
vars == <<server, form, follow, polls, current, page, alert, exports, calm>>

\* A row that is processing is pending here: the page treats them alike.
Status == {"pending", "completed", "failed"}
Polls == [doc : Docs, n : 1..(MAX + 1), answer : {"asked"} \cup Status]

FormType ==
  /\ picked \in Files \cup {None} /\ named \in Files \cup {None}
  /\ button \in BOOLEAN
  /\ uploading \subseteq Docs /\ overlaps \in Nat
  /\ sent \in [Docs -> [file : Files \cup {None}, named : Files \cup {None}]]

PollType ==
  /\ running \subseteq Docs /\ pollTimer \in Docs \cup {None}
  /\ attempts \in [Docs -> 0..(MAX + 1)]
  /\ polls \subseteq Polls

ShownType ==
  /\ current \in Docs \cup {None}
  /\ page \in [card : BOOLEAN, meta : Docs \cup {None},
               status : {"none"} \cup Status, records : Docs \cup {None}]
  /\ alert \in Docs \cup {None}
  /\ export \in Docs \cup {None}
  /\ saved \in [doc : Docs \cup {None}, name : Docs \cup {None}]
  /\ calm \in BOOLEAN

TypeOK ==
  /\ server \in [Docs -> {"none"} \cup Status]
  /\ FormType /\ PollType /\ ShownType

Init ==
  /\ server = [d \in Docs |-> "none"]
  /\ picked = None /\ named = None /\ button = FALSE /\ uploading = {} /\ overlaps = 0
  /\ sent = [d \in Docs |-> [file |-> None, named |-> None]]
  /\ running = {} /\ pollTimer = None /\ attempts = [d \in Docs |-> 0]
  /\ polls = {}
  /\ current = None
  /\ page = [card |-> FALSE, meta |-> None, status |-> "none", records |-> None]
  /\ alert = None
  /\ export = None /\ saved = [doc |-> None, name |-> None]
  /\ calm = TRUE

-----------------------------------------------------------------------------
\* The file picker.

Choose(f) ==
  /\ picked' = f /\ named' = f /\ button' = TRUE
  /\ UNCHANGED <<server, uploading, overlaps, sent, follow, polls, current, page, alert,
                 exports, calm>>

\* The drop handler keeps the file from the input, and only shows its name.
Drop(f) ==
  /\ named' = f /\ button' = TRUE
  /\ calm' = FALSE
  /\ UNCHANGED <<server, picked, uploading, overlaps, sent, follow, polls, current, page,
                 alert, exports>>

-----------------------------------------------------------------------------
\* uploadFile

\* Mutations: the old interval is left running, the old cards are left shown.
KeepOld == running
KeepCards == [page EXCEPT !.card = FALSE]

StopOld == running \ {pollTimer}
HideCards == [page EXCEPT !.card = FALSE, !.records = None]

\* The next document: each upload makes a new one.
Fresh == CHOOSE d \in Docs : sent[d].file = None

Click(d) ==
  /\ button /\ picked # None
  /\ sent[d].file = None /\ d = Fresh
  /\ "overlap" \in Habits \/ uploading = {}
  /\ calm' = (calm /\ uploading = {} /\ polls = {} /\ export = None)
  /\ overlaps' = overlaps + IF uploading = {} THEN 0 ELSE 1
  /\ button' = FALSE
  /\ uploading' = uploading \cup {d}
  /\ sent' = [sent EXCEPT ![d] = [file |-> picked, named |-> named]]
  /\ page' = HideCards
  /\ running' = StopOld
  /\ UNCHANGED <<server, picked, named, pollTimer, attempts, polls, current,
                 alert, exports>>

\* The upload is answered by 202: show the status card with the badge of the new
\* document, docMeta and statusAlert as they were, and poll it.
UploadAnswered(d) ==
  /\ d \in uploading /\ server[d] # "none"
  /\ uploading' = uploading \ {d}
  /\ button' = TRUE
  /\ current' = d
  /\ page' = [page EXCEPT !.card = TRUE, !.status = "pending"]
  /\ running' = running \cup {d} /\ pollTimer' = d
  /\ attempts' = [attempts EXCEPT ![d] = 0]
  /\ UNCHANGED <<server, picked, named, overlaps, sent, polls, alert, exports, calm>>

\* Refused, or the answer does not arrive.
UploadFails(d) ==
  /\ d \in uploading
  /\ uploading' = uploading \ {d}
  /\ button' = TRUE
  /\ UNCHANGED <<server, picked, named, overlaps, sent, follow, polls, current, page,
                 alert, exports, calm>>

-----------------------------------------------------------------------------
\* pollStatus: the callback of an interval, up to its fetch and after it.

\* clearInterval(pollTimer)
ClearInterval == running' = running \ {pollTimer}

\* Mutation: the callback never gives up.
NeverExhausted(d) == FALSE

Exhausted(d) == attempts[d] >= MAX

Tick(d) ==
  /\ d \in running
  /\ calm' = (calm /\ polls = {})
  /\ attempts' = [attempts EXCEPT ![d] = IF @ <= MAX THEN @ + 1 ELSE @]
  /\ \/ /\ Exhausted(d)
        /\ ClearInterval
        /\ alert' = d
        /\ UNCHANGED polls
     \/ /\ ~Exhausted(d)
        /\ polls' = polls \cup {[doc |-> d, n |-> attempts'[d], answer |-> "asked"]}
        /\ UNCHANGED <<running, alert>>
  /\ UNCHANGED <<server, form, pollTimer, current, page, exports>>

\* The API reads the row and answers.
PollServed(p) ==
  /\ p \in polls /\ p.answer = "asked"
  /\ polls' = (polls \ {p}) \cup {[p EXCEPT !.answer = server[p.doc]]}
  /\ UNCHANGED <<server, form, follow, current, page, alert, exports, calm>>

\* Mutation: an error ends the polling.
PollFailsForGood(p) ==
  /\ "lost" \in Habits
  /\ p \in polls
  /\ polls' = polls \ {p}
  /\ ClearInterval
  /\ UNCHANGED <<server, form, pollTimer, attempts, current, page, alert, exports, calm>>

\* No connection, or an answer that is not ok: wait for the next turn.
PollFails(p) ==
  /\ "lost" \in Habits
  /\ p \in polls
  /\ polls' = polls \ {p}
  /\ UNCHANGED <<server, form, follow, current, page, alert, exports, calm>>

\* The answer is shown, whatever the page is about by now.
PollHandled(p) ==
  /\ p \in polls /\ p.answer \in Status
  /\ polls' = polls \ {p}
  /\ \/ /\ p.answer = "pending"
        /\ page' = [page EXCEPT !.meta = p.doc, !.status = p.answer]
        /\ UNCHANGED <<running, alert>>
     \/ /\ p.answer \in {"completed", "failed"}
        /\ page' = [page EXCEPT !.meta = p.doc, !.status = p.answer,
                             !.records = IF p.answer = "completed" THEN p.doc ELSE @]
        /\ alert' = p.doc
        /\ ClearInterval
  /\ UNCHANGED <<server, form, pollTimer, attempts, current, exports, calm>>

-----------------------------------------------------------------------------
\* exportDocument

ExportClick ==
  /\ page.records # None /\ current # None /\ export = None
  /\ export' = current
  /\ UNCHANGED <<server, form, follow, polls, current, page, alert, saved, calm>>

\* Exported and fetched; the name is made from the document of this moment.
ExportSaved ==
  /\ export # None
  /\ saved' = [doc |-> export, name |-> current]
  /\ export' = None
  /\ UNCHANGED <<server, form, follow, polls, current, page, alert, calm>>

ExportFails ==
  /\ export # None
  /\ export' = None
  /\ UNCHANGED <<server, form, follow, polls, current, page, alert, saved, calm>>

-----------------------------------------------------------------------------
\* The service behind the page.

Accept(d) ==
  /\ d \in uploading /\ server[d] = "none"
  /\ server' = [server EXCEPT ![d] = "pending"]
  /\ UNCHANGED <<form, follow, polls, current, page, alert, exports, calm>>

Progress(d) ==
  /\ server[d] = "pending"
  /\ \E s \in {"completed", "failed"} : server' = [server EXCEPT ![d] = s]
  /\ UNCHANGED <<form, follow, polls, current, page, alert, exports, calm>>

Next ==
  \/ \E f \in Files : Choose(f) \/ Drop(f)
  \/ \E d \in Docs : \/ Click(d) \/ UploadAnswered(d) \/ UploadFails(d)
                     \/ Tick(d) \/ Accept(d) \/ Progress(d)
  \/ \E p \in polls : PollServed(p) \/ PollFails(p) \/ PollHandled(p)
  \/ ExportClick \/ ExportSaved \/ ExportFails

\* Intervals fire, and a fetch is settled in the end.
Settle(d, n) ==
  \E p \in polls : p.doc = d /\ p.n = n /\ (PollServed(p) \/ PollHandled(p))

Fairness ==
  \A d \in Docs :
    /\ WF_vars(Tick(d))
    /\ WF_vars(UploadAnswered(d) \/ UploadFails(d))
    /\ \A n \in 1..(MAX + 1) : WF_vars(Settle(d, n))

Spec == Init /\ [][Next]_vars
FairSpec == Spec /\ Fairness

-----------------------------------------------------------------------------
(***************************************************************************)
(* What follows holds while the user and the network are calm.  A hasty    *)
(* one breaks each: answers about one document are shown, and clear the    *)
(* interval, when the page is about the next.                              *)
(*                                                                         *)
(* "upload PDF -> view extracted JSON" (README.md:80): the page that shows *)
(* the status of its current document tells in the end how that went, or   *)
(* that it gave up (index.html:494), unless the user goes on to another    *)
(* upload.                                                                 *)
(***************************************************************************)
FollowedToTheEnd ==
  \A d \in Docs :
    (page.card /\ current = d) ~> (alert = d \/ ~page.card \/ ~calm)

(***************************************************************************)
(* What the page says of the end of a document - badge, docMeta,           *)
(* statusAlert, records, what "Generate Excel Export" exports - is about   *)
(* the last one uploaded.  Until its first poll is answered the badge is   *)
(* "pending" beside the docMeta and statusAlert of the one before it.      *)
(***************************************************************************)
PageIsCurrent ==
  calm =>
    /\ page.card /\ page.status \in {"completed", "failed"} =>
         page.meta = current /\ alert = current
    /\ page.records # None => page.records = current /\ page.status = "completed"

(***************************************************************************)
(* A saved workbook is named after the document it was made from.          *)
(***************************************************************************)
SavedUnderItsName == calm => saved.name = saved.doc

(***************************************************************************)
(* pollTimer holds every interval that is set, so that clearInterval stops *)
(* all polling, but for one interval for each upload started during        *)
(* another, which choosing a file allows (index.html:438).                 *)
(***************************************************************************)
OneTimer == Cardinality(running \ {pollTimer}) <= overlaps

\* The inductive invariant behind it.
TimersFinite == IsFiniteSet(running) /\ IsFiniteSet(uploading)
UploadsCounted ==
  uploading # {} => Cardinality(running) + Cardinality(uploading) <= overlaps + 1
PolledIsThere ==
  /\ \A d \in running : server[d] # "none"
  /\ \A p \in polls : server[p.doc] # "none"
TimerInv == TypeOK /\ TimersFinite /\ UploadsCounted /\ OneTimer /\ PolledIsThere

(***************************************************************************)
(* And the one behind PageIsCurrent and SavedUnderItsName: a calm page     *)
(* does one thing at a time.  While a file is uploaded nothing is shown,   *)
(* polled or exported; what is polled is the current document, by the      *)
(* interval pollTimer holds, one poll at a time and before its records     *)
(* come; and what is exported is the document whose records are shown.     *)
(***************************************************************************)
OneUpload ==
  /\ \A d, e \in uploading : d = e
  /\ uploading # {} => /\ running = {} /\ polls = {} /\ export = None
                       /\ ~page.card /\ page.records = None
OnePoll ==
  /\ running \subseteq {current}
  /\ running # {} => pollTimer = current /\ page.records = None
  /\ \A p, q \in polls : p = q /\ p.doc = current
  /\ polls # {} => running # {}
CalmInv ==
  /\ calm => OneUpload /\ OnePoll /\ export \in {None, current}
  /\ PageIsCurrent /\ SavedUnderItsName

PageInv == TimerInv /\ CalmInv

(***************************************************************************)
(* A document is polled MAX times at most, "60 x 2s = 2min"                *)
(* (index.html:489), then its interval is cleared, unless an upload        *)
(* overlapped another and took the variable that holds it.                 *)
(***************************************************************************)
PollingStops == <>[](overlaps = 0 => running = {})

(***************************************************************************)
(* "Click to select or drag & drop a PDF here" (index.html:302): what is   *)
(* uploaded is the file the page names.  The code keeps this for selected  *)
(* files only.                                                             *)
(***************************************************************************)
UploadsWhatIsNamed == \A d \in Docs : sent[d].named = sent[d].file
=============================================================================
