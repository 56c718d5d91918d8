-------------------------------- MODULE Listing --------------------------------
(***************************************************************************)
(* GET "" of the API: a client walks through the listing page by page      *)
(* while documents are uploaded and processed.  One request is three       *)
(* queries, and READ COMMITTED gives each of them the rows of its own      *)
(* moment.  Requests change nothing, so one client stands for all.         *)
(*                                                                         *)
(* Documents are numbered by created_at, which is the time their           *)
(* transaction began: they may appear in another order.  No two of them    *)
(* have the same created_at.                                               *)
(***************************************************************************)
EXTENDS Integers, FiniteSets

CONSTANTS
  N,     \* documents, the bound on uploads
  Size,  \* limit, the page size the client asks for
  Again  \* documents whose job is delivered a second time

ASSUME ListingAssumption == N \in Nat /\ Size \in Nat \ {0}

Docs == 1..N
Deliveries(d) == IF d \in Again THEN 2 ELSE 1
Status == {"pending", "processing", "completed", "failed"}

VARIABLES
  status,   \* of each row, "none" before its commit
  records,  \* documents with records
  toCome,   \* of each document, the jobs that have not marked it yet,
  marked,   \* and those that have, and write its end next
  at,       \* what the client's request does next, or "idle" between walks
  filter,   \* the status asked for, or "all"
  skip,     \* the offset asked for
  total,    \* the total answered
  shown,    \* the documents of the page, and the status read
  counted,  \* documents found to have records
  redone,   \* (history) documents of the page completed again since it
            \* was read as completed
  walk      \* (history) since the walk began: the documents that match all
            \* along, those answered, the rows answered, how many documents
            \* came in and went out; changes since the total was counted

rows == <<status, records, toCome, marked>>
vars == <<status, records, toCome, marked, at, filter, skip, total, shown,
          counted, redone, walk>>

Walks == [there : SUBSET Docs, seen : SUBSET Docs, answered : Nat,
          joined : Nat, left : Nat, since : Nat]

TypeOK ==
  /\ status \in [Docs -> {"none"} \cup Status]
  /\ records \subseteq Docs
  /\ toCome \in [Docs -> Nat] /\ marked \in [Docs -> Nat]
  /\ at \in {"idle", "count", "rows", "records", "answered"}
  /\ filter \in {"all"} \cup Status
  /\ skip \in Nat /\ total \in 0..N
  /\ DOMAIN shown \subseteq Docs /\ \A d \in DOMAIN shown : shown[d] \in Status
  /\ counted \subseteq Docs /\ redone \subseteq Docs
  /\ walk \in Walks

Nobody == [d \in {} |-> "none"]
NewWalk(matching) == [there |-> matching, seen |-> {}, answered |-> 0,
                      joined |-> 0, left |-> 0, since |-> 0]

Init ==
  /\ status = [d \in Docs |-> "none"] /\ records = {}
  /\ toCome = [d \in Docs |-> Deliveries(d)] /\ marked = [d \in Docs |-> 0]
  /\ at = "idle" /\ filter = "all" /\ skip = 0 /\ total = 0
  /\ shown = Nobody /\ counted = {} /\ redone = {}
  /\ walk = NewWalk({})

\* Mutation: rows are visible before their commit.
MatchesUncommitted(s) == filter = "all" \/ s = filter

\* query.where(Document.status == status)
Matches(s) == s # "none" /\ (filter = "all" \/ s = filter)
Matching == {d \in Docs : Matches(status[d])}

-----------------------------------------------------------------------------
\* The rest of the system, see Pipeline.

\* A row gets the status s, and a listing under way may gain or lose it.
Becomes(d, s) ==
  LET in  == ~Matches(status[d]) /\ Matches(s)
      out == Matches(status[d]) /\ ~Matches(s)
  IN  /\ status' = [status EXCEPT ![d] = s]
      /\ walk' = IF at = "idle" \/ ~(in \/ out) THEN walk
                 ELSE [walk EXCEPT !.there = IF out THEN @ \ {d} ELSE @,
                                   !.joined = IF in THEN @ + 1 ELSE @,
                                   !.left = IF out THEN @ + 1 ELSE @,
                                   !.since = @ + 1]
      /\ UNCHANGED <<at, filter, skip, total, shown, counted>>

Upload(d) ==
  /\ status[d] = "none" /\ Becomes(d, "pending")
  /\ UNCHANGED <<records, toCome, marked, redone>>

\* No status is checked: a second job takes the document back, or, having read
\* it as processing, writes nothing here.
Mark(d) ==
  /\ status[d] # "none" /\ toCome[d] > 0
  /\ toCome' = [toCome EXCEPT ![d] = @ - 1]
  /\ marked' = [marked EXCEPT ![d] = @ + 1]
  /\ \/ Becomes(d, "processing")
     \/ toCome[d] < Deliveries(d) /\ Becomes(d, status[d])
  /\ UNCHANGED <<records, redone>>

JobEnds(d) ==
  /\ marked[d] > 0
  /\ marked' = [marked EXCEPT ![d] = @ - 1]
  /\ UNCHANGED toCome

ShownCompleted == {d \in DOMAIN shown : shown[d] = "completed"}

\* Status and records in one commit; some completed documents have none.
Complete(d) ==
  /\ JobEnds(d) /\ Becomes(d, "completed")
  /\ records' = records \/ records' = records \cup {d}
  /\ redone' = redone \cup ({d} \cap ShownCompleted)

Fail(d) == JobEnds(d) /\ Becomes(d, "failed") /\ UNCHANGED <<records, redone>>

-----------------------------------------------------------------------------
\* list_documents

\* Mutations: the first row of a page is dropped, or the last one repeated;
\* the records are read before the rows.
NextRow(i) == skip < i /\ i < skip + Size
RowBefore(i) == skip - 1 <= i /\ i < skip + Size
RecordsFirst == [count |-> "records", records |-> "rows", rows |-> "answered"]

\* offset(skip).limit(limit)
InPage(i) == skip <= i /\ i < skip + Size

\* The order of the queries; lazy="selectin" reads the records of a page after
\* its rows.
Then == [count |-> "rows", rows |-> "records", records |-> "answered"]

\* order_by(created_at.desc()): the place of a document in the listing.
Rank(d) == Cardinality({e \in Matching : e > d})
PageOf == {d \in Matching : InPage(Rank(d))}

\* The first page of a new walk.
ListFirst(f) ==
  /\ at = "idle"
  /\ at' = "count" /\ filter' = f
  /\ walk' = NewWalk({d \in Docs : status[d] # "none" /\ (f = "all" \/ status[d] = f)})
  /\ UNCHANGED <<rows, skip, total, shown, counted, redone>>

\* Mutation: the total is not filtered.
CountAll == Cardinality({d \in Docs : status[d] # "none"})

CountMatching == Cardinality(Matching)

ListCount ==
  /\ at = "count"
  /\ total' = CountMatching /\ at' = Then[at]
  /\ walk' = [walk EXCEPT !.since = 0]
  /\ UNCHANGED <<rows, filter, skip, shown, counted, redone>>

ListRows ==
  /\ at = "rows"
  /\ shown' = [d \in PageOf |-> status[d]] /\ at' = Then[at]
  /\ walk' = [walk EXCEPT !.seen = @ \cup PageOf,
                          !.answered = @ + Cardinality(PageOf)]
  /\ UNCHANGED <<rows, filter, skip, total, counted, redone>>

ListRecords ==
  /\ at = "records"
  /\ counted' = records /\ at' = Then[at]
  /\ UNCHANGED <<rows, filter, skip, total, shown, redone, walk>>

FullPage == Cardinality(DOMAIN shown) = Size

\* The client asks for the next page.
ListNext ==
  /\ at = "answered" /\ FullPage
  /\ skip' = skip + Size /\ at' = "count"
  /\ total' = 0 /\ shown' = Nobody /\ counted' = {} /\ redone' = {}
  /\ UNCHANGED <<rows, filter, walk>>

\* The client has what it wanted.
ListEnd ==
  /\ at = "answered"
  /\ at' = "idle"
  /\ filter' = "all" /\ skip' = 0 /\ total' = 0
  /\ shown' = Nobody /\ counted' = {} /\ redone' = {} /\ walk' = NewWalk({})
  /\ UNCHANGED rows

Next ==
  \/ \E d \in Docs : Upload(d) \/ Mark(d) \/ Complete(d) \/ Fail(d)
  \/ \E f \in {"all"} \cup Status : ListFirst(f)
  \/ ListCount \/ ListRows \/ ListRecords \/ ListNext \/ ListEnd

Spec == Init /\ [][Next]_vars

-----------------------------------------------------------------------------
WalkEnds == at = "answered" /\ ~FullPage

(***************************************************************************)
(* A walk to the end of the listing misses at most one document for each   *)
(* that left the listing meanwhile; none, then, of all documents, which no *)
(* change of status takes out.                                             *)
(***************************************************************************)
SkipsHaveCause ==
  WalkEnds => Cardinality(walk.there \ walk.seen) <= walk.left

(***************************************************************************)
(* It shows a document again at most once for each that came in meanwhile. *)
(***************************************************************************)
RepeatsHaveCause ==
  walk.answered - Cardinality(walk.seen) <= walk.joined

(***************************************************************************)
(* An answer never says "completed" and leaves out records that are there: *)
(* they were committed with the status, and are counted after it is read.  *)
(* Only a second job, completing the document once more, adds any since.   *)
(***************************************************************************)
CompletedWithRecords ==
  at = "answered" => ShownCompleted \cap records \subseteq counted \cup redone

ReadInv == TypeOK /\ CompletedWithRecords

(***************************************************************************)
(* The total, counted before the page, is that of the listing the last     *)
(* page ends, up to the changes between the two queries.                   *)
(***************************************************************************)
TotalFits ==
  LET end == skip + Cardinality(DOMAIN shown)
  IN  total - walk.since <= end /\ end <= total + walk.since
TotalFitsPage == WalkEnds /\ (shown # Nobody \/ skip = 0) => TotalFits

(***************************************************************************)
(* What is kept all along a walk, for the three of them: how many of the   *)
(* documents there all along are in the part of the listing already read   *)
(* and were not seen, how many of those seen are in the part not read yet, *)
(* and how far the total is from the length of the listing.                *)
(***************************************************************************)
Passed == IF at \in {"count", "rows"} THEN skip ELSE skip + Size
Missed == {d \in walk.there \ walk.seen : Rank(d) < Passed}
Ahead == {d \in walk.seen \cap Matching : Rank(d) >= Passed}
LastPage == at \in {"records", "answered"} /\ ~FullPage

WalkInv ==
  /\ at = "idle" => skip = 0 /\ walk = NewWalk({})
  /\ walk.there \subseteq Matching
  /\ Cardinality(DOMAIN shown) <= Size
  /\ Cardinality(Missed) <= walk.left
  /\ Cardinality(Ahead) + walk.answered <= walk.joined + Cardinality(walk.seen)
  /\ LastPage => Cardinality(walk.there \ walk.seen) <= walk.left
  /\ at = "rows" => /\ total <= CountMatching + walk.since
                    /\ CountMatching <= total + walk.since
  /\ LastPage /\ (shown # Nobody \/ skip = 0) => TotalFits

ListInv == ReadInv /\ WalkInv

(***************************************************************************)
(* "cursor-based pagination" (routes.py:336): a cursor would skip nothing  *)
(* that matches all along, whatever leaves the listing.                    *)
(***************************************************************************)
CursorSkipsNothing == WalkEnds => walk.there \subseteq walk.seen
=============================================================================
