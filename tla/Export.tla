-------------------------------- MODULE Export --------------------------------
(***************************************************************************)
(* Export and download of a document's records: POST {id}/export writes a  *)
(* workbook into EXPORT_DIR under a name derived from the original file    *)
(* name, GET {id}/download sends whatever is there under that name.        *)
(*                                                                         *)
(* Writing runs in the event loop of the API process without an await, so  *)
(* one process does nothing else meanwhile; another process, or a thread   *)
(* that reads the file for a response, may run at the same time.           *)
(***************************************************************************)
EXTENDS Naturals

CONSTANTS
  Docs, Apis,   \* documents, API processes (uvicorn --workers)
  Names,        \* names of export files
  NameOf,       \* the export name an original file name gives
  Gets,         \* downloads a client may have under way
  NoDoc, Free,
  FaultKinds,   \* "write": the exporter raises, "crash": a process is killed
  MaxFaults     \* how often, the bound on faults

ASSUME ExportAssumption ==
  /\ NameOf \in [Docs -> Names]
  /\ NoDoc \notin Docs /\ Free \notin Docs \cup Apis
  /\ FaultKinds \subseteq {"write", "crash"} /\ MaxFaults \in Nat

VARIABLES
  ready,    \* completed documents with records
  file,     \* per name: whose bytes, and how much of them
  writing,  \* per process: the document it exports
  get,      \* per download: how far it is, for which document, what it got
  acked,    \* (history) per name: the last export answered with 200, if no
            \* other was begun since
  budget    \* faults left

vars == <<ready, file, writing, get, acked, budget>>

\* "mixed": two processes wrote the same file at once.
Content == [of : Docs \cup {NoDoc}, state : {"absent", "partial", "mixed", "whole"}]
Absent == [of |-> NoDoc, state |-> "absent"]
IdleGet == [at |-> "idle", doc |-> NoDoc, got |-> Absent]

TypeOK ==
  /\ ready \subseteq Docs
  /\ file \in [Names -> Content]
  /\ writing \in [Apis -> Docs \cup {Free}]
  /\ get \in [Gets -> [at : {"idle", "found", "missing", "served"},
                       doc : Docs \cup {NoDoc}, got : Content]]
  /\ acked \in [Names -> Docs \cup {NoDoc}]
  /\ budget \in 0..MaxFaults

Init ==
  /\ ready = {}
  /\ file = [n \in Names |-> Absent]
  /\ writing = [a \in Apis |-> Free]
  /\ get = [g \in Gets |-> IdleGet]
  /\ acked = [n \in Names |-> NoDoc]
  /\ budget = MaxFaults

Fault(f) == f \in FaultKinds /\ budget > 0 /\ budget' = budget - 1

\* A worker completes the document.
Complete(d) ==
  /\ d \notin ready
  /\ ready' = ready \cup {d}
  /\ UNCHANGED <<file, writing, get, acked, budget>>

\* Mutation: a name that does not depend on the document.
OnePath(d) == NameOf[CHOOSE e \in Docs : TRUE]

\* original_filename.rsplit('.', 1)[0] + "_export.xlsx"
PathOf(d) == NameOf[d]

-----------------------------------------------------------------------------
\* POST {id}/export.  A document that is not ready is refused (400).

\* Mutation: the exporter awaits, and the process takes the next request.
AnyTime(a) == TRUE

\* The event loop of the process is free to run a handler.
LoopFree(a) == writing[a] = Free

Writers(n) == {a \in Apis : writing[a] # Free /\ PathOf(writing[a]) = n}

\* pd.ExcelWriter opens the file for writing, which empties it.
ExportStart(a, d) ==
  LET n == PathOf(d)
  IN  /\ LoopFree(a) /\ d \in ready
      /\ writing' = [writing EXCEPT ![a] = d]
      /\ file' = [file EXCEPT ![n] =
                    [of |-> d, state |-> IF Writers(n) = {} THEN "partial"
                                         ELSE "mixed"]]
      /\ acked' = [acked EXCEPT ![n] = NoDoc]
      /\ UNCHANGED <<ready, get, budget>>

\* Mutation: the answer is sent before the workbook is closed.
Unclosed(c, d) == c

\* What the file holds once a writer has closed it.
Closed(c, d) == [of |-> d, state |-> IF c.state = "mixed" THEN "mixed" ELSE "whole"]

\* The workbook is saved and closed; 200 with the download URL.
ExportDone(a) ==
  LET d == writing[a]
      n == PathOf(d)
  IN  /\ d # Free
      /\ file' = [file EXCEPT ![n] = Closed(@, d)]
      /\ acked' = IF Writers(n) = {a} THEN [acked EXCEPT ![n] = d] ELSE acked
      /\ writing' = [writing EXCEPT ![a] = Free]
      /\ UNCHANGED <<ready, get, budget>>

\* The exporter raises: 400, and what was written stays.
ExportFails(a) ==
  /\ writing[a] # Free
  /\ Fault("write")
  /\ writing' = [writing EXCEPT ![a] = Free]
  /\ UNCHANGED <<ready, file, get, acked>>

CrashApi(a) ==
  /\ writing[a] # Free
  /\ Fault("crash")
  /\ writing' = [writing EXCEPT ![a] = Free]
  /\ UNCHANGED <<ready, file, get, acked>>

-----------------------------------------------------------------------------
\* GET {id}/download

\* os.path.isfile, in the event loop: 404 or a FileResponse.
DownloadCheck(g, a, d) ==
  /\ get[g].at = "idle" /\ LoopFree(a)
  /\ get' = [get EXCEPT ![g] =
               [IdleGet EXCEPT !.doc = d,
                               !.at = IF file[PathOf(d)].state = "absent"
                                      THEN "missing" ELSE "found"]]
  /\ UNCHANGED <<ready, file, writing, acked, budget>>

\* FileResponse reads the file in a thread.
DownloadRead(g) ==
  /\ get[g].at = "found"
  /\ get' = [get EXCEPT ![g].at = "served", ![g].got = file[PathOf(get[g].doc)]]
  /\ UNCHANGED <<ready, file, writing, acked, budget>>

\* The client has its answer, or the connection is cut before it has.
DownloadEnd(g) ==
  /\ get[g].at # "idle"
  /\ get' = [get EXCEPT ![g] = IdleGet]
  /\ UNCHANGED <<ready, file, writing, acked, budget>>

Next ==
  \/ \E d \in Docs : Complete(d)
  \/ \E a \in Apis : \/ \E d \in Docs : ExportStart(a, d)
                     \/ ExportDone(a) \/ ExportFails(a) \/ CrashApi(a)
  \/ \E g \in Gets : \/ \E a \in Apis, d \in Docs : DownloadCheck(g, a, d)
                     \/ DownloadRead(g) \/ DownloadEnd(g)

Spec == Init /\ [][Next]_vars

-----------------------------------------------------------------------------
(***************************************************************************)
(* The file can be downloaded via the returned URL (routes.py:413): after  *)
(* an export was answered, and until the next one of that name begins, the *)
(* file holds the whole workbook of that document, unless another process  *)
(* was writing under that name, too (excel_exporter.py:77).                *)
(***************************************************************************)
AcknowledgedIsThere ==
  \A n \in Names :
    acked[n] # NoDoc /\ file[n].state # "mixed" =>
      file[n] = [of |-> acked[n], state |-> "whole"]

(***************************************************************************)
(* The same without exception, which holds for a single process only; the  *)
(* container starts four (Dockerfile:71).                                  *)
(***************************************************************************)
AcknowledgedIsWhole == \A n \in Names : acked[n] # NoDoc => file[n].state = "whole"

(***************************************************************************)
(* GET {id}/download sends the export generated for that document          *)
(* (routes.py:493), as whole or as broken as it is.  The code keeps this   *)
(* where no other document has the same export name.                       *)
(***************************************************************************)
DownloadIsOwn == \A g \in Gets : get[g].at = "served" => get[g].got.of = get[g].doc

NameIsOwn(d) == \A e \in Docs : NameOf[e] = NameOf[d] => e = d
OwnNameOwnDownload ==
  \A g \in Gets :
    get[g].at = "served" /\ NameIsOwn(get[g].doc) => get[g].got.of = get[g].doc

(***************************************************************************)
(* A workbook is left half-written by an interrupted export only.          *)
(***************************************************************************)
BrokenFiles == {n \in Names : file[n].state = "partial" /\ Writers(n) = {}}
BreakageHasCause == BrokenFiles # {} => budget < MaxFaults

(***************************************************************************)
(* The inductive invariant behind these: a file that is written belongs to *)
(* its only writer, and nothing of that name is acknowledged; what lies    *)
(* under a name, or was sent, is of a document with that name.             *)
(***************************************************************************)
OnlyWriter(a) ==
  \A b \in Apis : writing[b] # Free /\ PathOf(writing[b]) = PathOf(writing[a]) => b = a
Owns(a) ==
  LET n == PathOf(writing[a])
  IN  /\ acked[n] = NoDoc
      /\ \/ file[n].state = "mixed"
         \/ OnlyWriter(a) /\ file[n] = [of |-> writing[a], state |-> "partial"]
WriterOwnsFile == \A a \in Apis : writing[a] # Free => Owns(a)

OfThatName(c, n) == c.of \in Docs /\ PathOf(c.of) = n
NamesKept ==
  /\ \A n \in Names : file[n].state # "absent" => OfThatName(file[n], n)
  /\ \A g \in Gets :
       /\ get[g].at \in {"found", "served"} => get[g].doc \in Docs
       /\ get[g].at = "found" => file[PathOf(get[g].doc)].state # "absent"
       /\ get[g].at = "served" => OfThatName(get[g].got, PathOf(get[g].doc))

ExportInv ==
  TypeOK /\ WriterOwnsFile /\ NamesKept /\ AcknowledgedIsThere /\ BreakageHasCause
=============================================================================
