------------------------------- MODULE Extractor -------------------------------
(***************************************************************************)
(* PDFExtractor.extract on one file that is there: find out whether the    *)
(* PDF is scanned, take its text from the embedded layer or by OCR, count  *)
(* the pages, parse, and try again when something unforeseen is raised.    *)
(* The file does not change meanwhile; what a page shows is all that       *)
(* matters of it.                                                          *)
(***************************************************************************)
EXTENDS Naturals

CONSTANTS
  N,           \* pages of the file
  MaxRetries,
  MaxFaults    \* how often PyMuPDF or Tesseract may raise, the bound on faults

ASSUME ExtractorAssumption ==
  /\ N \in Nat /\ MaxRetries \in Nat \ {0} /\ MaxFaults \in Nat

VARIABLES
  page,       \* per page: embedded text, an image of text, or nothing
  ocr,        \* the OCR packages import, are missing, or break on import
  at,         \* where the extractor is
  attempt,
  k,          \* next page of the loop it is in
  method,
  text,       \* pages whose text is in pages_text
  pageCount, records,
  budget,     \* faults left
  blind       \* (history) the file could not be looked at

vars == <<page, ocr, blind, at, attempt, k, method, text, pageCount, records, budget>>

Pages == 1..N

TypeOK ==
  /\ page \in [Pages -> {"text", "image", "blank"}]
  /\ ocr \in {"works", "missing", "broken"}
  /\ at \in {"detect", "native", "import", "ocr", "count", "parse", "sleep",
             "returned", "raised"}
  /\ attempt \in 1..MaxRetries
  /\ k \in 1..(N + 1)
  /\ method \in {"native", "ocr"}
  /\ text \subseteq Pages
  /\ pageCount \in {0, N} /\ records \in {0, 1}
  /\ budget \in 0..MaxFaults
  /\ blind \in BOOLEAN

Init ==
  /\ page \in [Pages -> {"text", "image", "blank"}]
  /\ ocr \in {"works", "missing", "broken"}
  /\ at = "detect" /\ attempt = 1 /\ k = 1
  /\ method = "native" /\ text = {}
  /\ pageCount = 0 /\ records = 0
  /\ budget = MaxFaults
  /\ blind = FALSE

Fault == budget > 0 /\ budget' = budget - 1

\* The pages a method gets text from.
Legible(m) == {i \in Pages : page[i] = "text" \/ (m = "ocr" /\ page[i] = "image")}

-----------------------------------------------------------------------------
\* _is_scanned_pdf: native as soon as one page has embedded text, and when
\* the file cannot be looked at.

Begin(m, where) == method' = m /\ at' = where /\ k' = 1 /\ text' = {}

DetectPage ==
  /\ at = "detect" /\ k \in Pages
  /\ \/ page[k] = "text" /\ Begin("native", "native")
     \/ page[k] # "text" /\ k' = k + 1 /\ UNCHANGED <<at, method, text>>
  /\ UNCHANGED <<page, ocr, blind, attempt, pageCount, records, budget>>

\* Mutation: a PDF without text is taken for native.
DetectNative ==
  /\ at = "detect" /\ k = N + 1
  /\ Begin("native", "native")
  /\ UNCHANGED <<page, ocr, blind, attempt, pageCount, records, budget>>

DetectScanned ==
  /\ at = "detect" /\ k = N + 1
  /\ Begin("ocr", "import")
  /\ UNCHANGED <<page, ocr, blind, attempt, pageCount, records, budget>>

DetectFails ==
  /\ at = "detect"
  /\ Fault
  /\ Begin("native", "native")
  /\ blind' = TRUE
  /\ UNCHANGED <<page, ocr, attempt, pageCount, records>>

-----------------------------------------------------------------------------
\* The imports of _extract_ocr.  Only ImportError is turned into a
\* PDFExtractionError, so only another exception is tried again.

Import ==
  /\ at = "import"
  /\ at' = CASE ocr = "works"   -> "ocr"
             [] ocr = "missing" -> "raised"
             [] ocr = "broken"  -> IF attempt = MaxRetries THEN "raised" ELSE "sleep"
  /\ UNCHANGED <<page, ocr, blind, attempt, k, method, text, pageCount, records, budget>>

\* Mutation: attempts are not counted.
WakeUncounted ==
  /\ at = "sleep"
  /\ at' = "detect" /\ k' = 1
  /\ UNCHANGED <<page, ocr, blind, attempt, method, text, pageCount, records, budget>>

\* time.sleep is over: the next attempt.
Wake ==
  /\ at = "sleep"
  /\ at' = "detect" /\ k' = 1 /\ attempt' = attempt + 1
  /\ UNCHANGED <<page, ocr, blind, method, text, pageCount, records, budget>>

-----------------------------------------------------------------------------
\* _extract_native and _extract_ocr, page by page.

ReadPage ==
  /\ at \in {"native", "ocr"} /\ k \in Pages
  /\ text' = text \cup ({k} \cap Legible(method))
  /\ k' = k + 1
  /\ UNCHANGED <<page, ocr, blind, at, attempt, method, pageCount, records, budget>>

ReadDone ==
  /\ at \in {"native", "ocr"} /\ k = N + 1
  /\ at' = "count"
  /\ UNCHANGED <<page, ocr, blind, attempt, k, method, text, pageCount, records, budget>>

\* Mutation: what was read until the failure is returned.
ReadCutShort ==
  /\ at \in {"native", "ocr"}
  /\ Fault
  /\ at' = "count"
  /\ UNCHANGED <<page, ocr, blind, attempt, k, method, text, pageCount, records>>

\* Whatever is raised becomes a PDFExtractionError, which is not tried again.
ReadFails ==
  /\ at \in {"native", "ocr"}
  /\ Fault
  /\ at' = "raised"
  /\ UNCHANGED <<page, ocr, blind, attempt, k, method, text, pageCount, records>>

\* _get_page_count
CountPages ==
  /\ at = "count"
  /\ \/ pageCount' = N /\ UNCHANGED budget
     \/ Fault /\ pageCount' = 0
  /\ at' = "parse"
  /\ UNCHANGED <<page, ocr, blind, attempt, k, method, text, records>>

\* _parse_structured_data: one record for any text, none for blank text.
Parse ==
  /\ at = "parse"
  /\ records' = IF text = {} THEN 0 ELSE 1
  /\ at' = "returned"
  /\ UNCHANGED <<page, ocr, blind, attempt, k, method, text, pageCount, budget>>

\* extract has returned or raised.
Ended == at \in {"returned", "raised"} /\ UNCHANGED vars

Step ==
  \/ DetectPage \/ DetectScanned \/ DetectFails \/ Import \/ Wake
  \/ ReadPage \/ ReadDone \/ ReadFails \/ CountPages \/ Parse

Next == Step \/ Ended

\* A thread that runs keeps running.
Spec == Init /\ [][Next]_vars
FairSpec == Spec /\ WF_vars(Step)

-----------------------------------------------------------------------------
(***************************************************************************)
(* No partial result: what extract returns is the text of every page that  *)
(* the chosen method can read, although each page may raise.               *)
(***************************************************************************)
WholeOrError == at = "returned" => text = Legible(method)

\* The inductive invariant behind it.
ReadSoFar ==
  CASE at \in {"import", "native", "ocr"} -> text = {i \in Legible(method) : i < k}
    [] at \in {"count", "parse", "returned"} -> text = Legible(method)
    [] OTHER -> TRUE
SleepsBetween == at = "sleep" => attempt < MaxRetries
ReadInv == TypeOK /\ ReadSoFar /\ SleepsBetween

\* The native method was chosen for a page that has text, or blindly.
NativeHasText ==
  /\ method = "native" /\ at \in {"native", "count", "parse", "returned"}
  /\ ~blind
  => \E j \in Pages : page[j] = "text"

OcrMeansOcr == at \in {"import", "ocr"} => method = "ocr"

\* Whatever text there is gives a record.
ParsedText == at = "returned" => (records = 0 <=> text = {})

\* The inductive invariant of extract.
ExtractInv == ReadInv /\ OcrMeansOcr /\ NativeHasText /\ ParsedText

(***************************************************************************)
(* A page that could be read is missing from the text only if it is an     *)
(* image, and either another page has embedded text, which is there, or    *)
(* the file could not be looked at and so was taken for native; a document *)
(* comes back empty only for this, or if there is nothing to read in it.   *)
(* No other failure of a library, at any page or any attempt, costs text.  *)
(***************************************************************************)
MissingHasCause ==
  at = "returned" =>
    /\ \A i \in Legible("ocr") \ text :
         page[i] = "image" /\ (blind \/ \E j \in text : page[j] = "text")
    /\ records = 0 => blind \/ \A i \in Pages : page[i] = "blank"

(***************************************************************************)
(* extract comes to an end, however often it is made to try again.         *)
(***************************************************************************)
Ends == <>(at \in {"returned", "raised"})

(***************************************************************************)
(* "text: Full extracted text" (pdf_extractor.py:51): where no library     *)
(* fails, no page that can be read is missing.                             *)
(***************************************************************************)
TextIsFull ==
  at = "returned" /\ budget = MaxFaults => text = Legible("ocr")

(***************************************************************************)
(* "Implements retry logic for resilient processing" (pdf_extractor.py:6): *)
(* extract gives up after MaxRetries attempts only.                        *)
(***************************************************************************)
RetriesFailures == at = "raised" => attempt = MaxRetries
=============================================================================
