---------------------------- MODULE ExtractorProofs ----------------------------
(***************************************************************************)
(* Proofs about extract, for files of any length: it returns no partial    *)
(* text, and what is missing of a document is missing for a cause.         *)
(***************************************************************************)
EXTENDS Extractor, TLAPS

\* Before the first page nothing is read, and after the last all that can be.
LEMMA LegiblePages ==
  ASSUME NEW m
  PROVE  /\ {i \in Legible(m) : i < 1} = {}
         /\ {i \in Legible(m) : i < N + 1} = Legible(m)
BY ExtractorAssumption DEF Legible, Pages, ExtractorAssumption

\* The loop reads the pages in order: page k joins the pages before it.
LEMMA NextPage ==
  ASSUME NEW m, NEW j \in Pages
  PROVE  {i \in Legible(m) : i < j} \cup ({j} \cap Legible(m))
           = {i \in Legible(m) : i < j + 1}
BY ExtractorAssumption DEF Legible, Pages, ExtractorAssumption

\* A fault takes one from the budget.
LEMMA BudgetStep ==
  ASSUME ReadInv, budget' = budget \/ Fault
  PROVE  budget' \in 0..MaxFaults
BY ExtractorAssumption DEF ReadInv, TypeOK, Fault, ExtractorAssumption

\* Detection chooses a method and has read nothing with it.
LEMMA DetectStep ==
  ASSUME ReadInv, DetectPage \/ DetectScanned \/ DetectFails
  PROVE  ReadInv'
<1>1. CASE DetectPage /\ page[k] # "text"
  <2>1. TypeOK'
    <3>1. k' \in 1..(N + 1) /\ UNCHANGED <<page, ocr, blind, at, attempt,
                                         method, text, pageCount, records, budget>>
      BY <1>1, ExtractorAssumption DEF DetectPage, Begin, Pages, ExtractorAssumption
    <3> QED BY <3>1 DEF ReadInv, TypeOK
  <2>2. ReadSoFar' /\ SleepsBetween'
    BY <1>1 DEF DetectPage, Begin, ReadSoFar, SleepsBetween
  <2> QED BY <2>1, <2>2 DEF ReadInv
<1>2. CASE ~(DetectPage /\ page[k] # "text")
  <2>1. /\ \E m \in {"native", "ocr"}, w \in {"native", "import"} : Begin(m, w)
        /\ UNCHANGED <<page, ocr, attempt, pageCount, records>>
        /\ budget' = budget \/ Fault
        /\ blind' \in {blind, TRUE}
    BY <1>2 DEF DetectPage, DetectScanned, DetectFails
  <2>2. budget' \in 0..MaxFaults /\ blind' \in BOOLEAN
    BY <2>1, BudgetStep DEF ReadInv, TypeOK
  <2>3. TypeOK'
    BY <2>1, <2>2, ExtractorAssumption
    DEF ReadInv, TypeOK, Begin, Pages, ExtractorAssumption
  <2>4. {i \in Legible(method)' : i < 1} = {}
    BY ExtractorAssumption DEF Legible, Pages, ExtractorAssumption
  <2>5. ReadSoFar' /\ SleepsBetween'
    BY <2>1, <2>4 DEF Begin, ReadSoFar, SleepsBetween
  <2> QED BY <2>3, <2>5 DEF ReadInv
<1> QED BY <1>1, <1>2

\* Importing the OCR packages reads nothing; only an import that breaks before
\* the last attempt leads to another.
LEMMA ImportStep ==
  ASSUME ReadInv, Import \/ Wake
  PROVE  ReadInv'
<1>1. UNCHANGED <<page, ocr, blind, method, text, pageCount, records, budget>>
  BY DEF Import, Wake
<1>2. CASE Import
  <2>1. at' \in {"ocr", "raised", "sleep"} /\ UNCHANGED <<attempt, k>>
    BY <1>2 DEF Import, ReadInv, TypeOK
  <2>2. SleepsBetween'
    BY <1>2, <2>1, ExtractorAssumption
    DEF Import, ReadInv, TypeOK, SleepsBetween, ExtractorAssumption
  <2>3. TypeOK'
    BY <1>1, <2>1 DEF ReadInv, TypeOK, Pages
  <2>4. ReadSoFar'
    BY <1>1, <1>2, <2>1 DEF Import, ReadInv, ReadSoFar, Legible
  <2> QED BY <2>2, <2>3, <2>4 DEF ReadInv
<1>3. CASE Wake
  <2>1. attempt' \in 1..MaxRetries /\ k' \in 1..(N + 1)
    BY <1>3, ExtractorAssumption
    DEF Wake, ReadInv, TypeOK, SleepsBetween, ExtractorAssumption
  <2>2. TypeOK'
    BY <1>1, <1>3, <2>1 DEF Wake, ReadInv, TypeOK, Pages
  <2>3. ReadSoFar' /\ SleepsBetween'
    BY <1>3 DEF Wake, ReadSoFar, SleepsBetween
  <2> QED BY <2>2, <2>3 DEF ReadInv
<1> QED BY <1>2, <1>3

\* The loop over the pages reads one at a time, and ends with all of them.
LEMMA ReadStep ==
  ASSUME ReadInv, ReadPage \/ ReadDone \/ ReadFails
  PROVE  ReadInv'
<1>1. text = {i \in Legible(method) : i < k} /\ UNCHANGED <<page, method, attempt>>
  BY DEF ReadPage, ReadDone, ReadFails, ReadInv, ReadSoFar
<1>2. TypeOK'
  <2>1. budget' \in 0..MaxFaults
    BY BudgetStep DEF ReadPage, ReadDone, ReadFails
  <2>2. k' \in 1..(N + 1)
    BY ExtractorAssumption
    DEF ReadPage, ReadDone, ReadFails, ReadInv, TypeOK, Pages, ExtractorAssumption
  <2>3. text' \subseteq Pages
    BY DEF ReadPage, ReadDone, ReadFails, ReadInv, TypeOK, Legible
  <2> QED BY <2>1, <2>2, <2>3 DEF ReadPage, ReadDone, ReadFails, ReadInv, TypeOK
<1>3. Legible(method)' = Legible(method)
  BY <1>1 DEF Legible
<1>4. CASE ReadPage
  <2>1. text' = {i \in Legible(method) : i < k'}
    BY <1>1, <1>4, NextPage DEF ReadPage
  <2> QED BY <1>2, <1>3, <1>4, <2>1 DEF ReadPage, ReadInv, ReadSoFar, SleepsBetween
<1>5. CASE ReadDone
  <2>1. text' = Legible(method)
    BY <1>1, <1>5, LegiblePages DEF ReadDone
  <2> QED BY <1>2, <1>3, <1>5, <2>1 DEF ReadDone, ReadInv, ReadSoFar, SleepsBetween
<1>6. CASE ReadFails
  BY <1>2, <1>6 DEF ReadFails, ReadInv, ReadSoFar, SleepsBetween
<1> QED BY <1>4, <1>5, <1>6

\* Counting and parsing leave the text as it is.
LEMMA FinishStep ==
  ASSUME ReadInv, CountPages \/ Parse
  PROVE  ReadInv'
<1>1. TypeOK'
  <2>1. budget' \in 0..MaxFaults
    BY BudgetStep DEF CountPages, Parse
  <2> QED BY <2>1 DEF CountPages, Parse, ReadInv, TypeOK
<1>2. ReadSoFar' /\ SleepsBetween'
  BY DEF CountPages, Parse, ReadInv, ReadSoFar, SleepsBetween, Legible
<1> QED BY <1>1, <1>2 DEF ReadInv

LEMMA ReadStepInv == ReadInv /\ [Next]_vars => ReadInv'
<1> SUFFICES ASSUME ReadInv, [Next]_vars PROVE ReadInv'
  OBVIOUS
<1>1. CASE DetectPage \/ DetectScanned \/ DetectFails
  BY <1>1, DetectStep
<1>2. CASE Import \/ Wake
  BY <1>2, ImportStep
<1>3. CASE ReadPage \/ ReadDone \/ ReadFails
  BY <1>3, ReadStep
<1>4. CASE CountPages \/ Parse
  BY <1>4, FinishStep
<1>5. CASE UNCHANGED vars
  BY <1>5 DEF vars, ReadInv, TypeOK, ReadSoFar, SleepsBetween, Legible
<1> QED BY <1>1, <1>2, <1>3, <1>4, <1>5 DEF Next, Step, Ended

\* An import never ends an attempt with a result.
LEMMA ImportTarget == ReadInv /\ Import => at' \in {"ocr", "raised", "sleep"}
BY DEF Import, ReadInv, TypeOK

LEMMA OcrStep == OcrMeansOcr /\ [Next]_vars => OcrMeansOcr'
<1> SUFFICES ASSUME OcrMeansOcr, [Next]_vars, at' \in {"import", "ocr"}
             PROVE  method' = "ocr"
  BY DEF OcrMeansOcr
<1>1. CASE Import
  BY <1>1 DEF Import, OcrMeansOcr
<1>2. CASE DetectPage \/ DetectScanned \/ DetectFails
  BY <1>2 DEF DetectPage, DetectScanned, DetectFails, Begin
<1>3. CASE ~Import /\ ~(DetectPage \/ DetectScanned \/ DetectFails)
  BY <1>3 DEF OcrMeansOcr, Next, Step, Ended, vars, Wake, ReadPage, ReadDone,
     ReadFails, CountPages, Parse
<1> QED BY <1>1, <1>2, <1>3

\* Only a detection that saw text, or none at all, leads to the native method.
LEMMA NativeStep ==
  ReadInv /\ OcrMeansOcr /\ NativeHasText /\ [Next]_vars => NativeHasText'
<1> SUFFICES ASSUME ReadInv, OcrMeansOcr, NativeHasText, [Next]_vars,
                    method' = "native",
                    at' \in {"native", "count", "parse", "returned"},
                    ~blind'
             PROVE  \E j \in Pages : page'[j] = "text"
  BY DEF NativeHasText
<1>1. ~DetectFails
  BY DEF DetectFails
<1>2. ~blind /\ page' = page
  BY <1>1 DEF Next, Step, Ended, vars, DetectPage, DetectScanned, Import,
     Wake, ReadPage, ReadDone, ReadFails, CountPages, Parse
<1>3. CASE DetectPage
  <2>1. k \in Pages /\ page[k] = "text"
    BY <1>3 DEF DetectPage
  <2> QED BY <1>2, <2>1
<1>4. CASE ~DetectPage
  <2>1. method = "native" /\ at \in {"native", "count", "parse", "returned"}
    <3>1. CASE Import
      BY <3>1, ImportTarget DEF Import
    <3>2. CASE ~Import
      <4>1. ~DetectScanned /\ ~Wake /\ ~ReadFails
        BY DEF DetectScanned, Begin, Wake, ReadFails
      <4>2. ReadPage \/ ReadDone \/ CountPages \/ Parse \/ UNCHANGED vars
        BY <1>1, <1>4, <3>2, <4>1 DEF Next, Step, Ended
      <4>3. at = "ocr" => method = "ocr"
        BY DEF OcrMeansOcr
      <4> QED BY <4>2, <4>3 DEF vars, ReadPage, ReadDone, CountPages, Parse
    <3> QED BY <3>1, <3>2
  <2> QED BY <1>2, <2>1 DEF NativeHasText
<1> QED BY <1>3, <1>4

LEMMA ParsedStep == ReadInv /\ ParsedText /\ [Next]_vars => ParsedText'
<1> SUFFICES ASSUME ReadInv, ParsedText, [Next]_vars PROVE ParsedText'
  OBVIOUS
<1>1. CASE Import
  BY <1>1, ImportTarget DEF ParsedText
<1>2. CASE Parse
  BY <1>2 DEF Parse, ParsedText
<1>3. CASE ~Import /\ ~Parse
  BY <1>3 DEF ParsedText, Next, Step, Ended, vars, Begin, DetectPage, DetectScanned,
     DetectFails, Wake, ReadPage, ReadDone, ReadFails, CountPages
<1> QED BY <1>1, <1>2, <1>3

\* The inductive invariant of extract.
THEOREM ExtractInvariant == Spec => []ExtractInv
<1>1. Init => ExtractInv
  <2>1. Init => TypeOK
    <3>1. 1 \in 1..MaxRetries /\ 1 \in 1..(N + 1) /\ MaxFaults \in 0..MaxFaults
      BY ExtractorAssumption DEF ExtractorAssumption
    <3> QED BY <3>1, Zenon DEF Init, TypeOK
  <2>2. Init => ReadSoFar /\ SleepsBetween /\ OcrMeansOcr /\ NativeHasText /\ ParsedText
    BY DEF Init, ReadSoFar, SleepsBetween, OcrMeansOcr, NativeHasText, ParsedText
  <2> QED BY <2>1, <2>2 DEF ExtractInv, ReadInv
<1>2. ExtractInv /\ [Next]_vars => ExtractInv'
  BY ReadStepInv, OcrStep, NativeStep, ParsedStep DEF ExtractInv
<1> QED BY <1>1, <1>2, PTL DEF Spec

(***************************************************************************)
(* extract returns the text of all pages its method can read or raises,    *)
(* at whichever page a library fails and whatever was tried before.        *)
(***************************************************************************)
THEOREM NoPartialText == Spec => []WholeOrError
<1>1. ExtractInv => WholeOrError
  BY DEF ExtractInv, ReadInv, ReadSoFar, WholeOrError
<1> QED BY <1>1, ExtractInvariant, PTL

(***************************************************************************)
(* Only image pages are missing, where another page has embedded text or   *)
(* the file could not be looked at; whatever else fails costs no text.     *)
(***************************************************************************)
THEOREM WhatIsMissing == Spec => []MissingHasCause
<1>1. ExtractInv => MissingHasCause
  <2> SUFFICES ASSUME ExtractInv, at = "returned"
               PROVE  /\ \A i \in Legible("ocr") \ text :
                           /\ page[i] = "image"
                           /\ blind \/ \E j \in text : page[j] = "text"
                      /\ records = 0 => blind \/ \A i \in Pages : page[i] = "blank"
    BY DEF MissingHasCause
  <2>1. /\ text = Legible(method) /\ method \in {"native", "ocr"}
        /\ page \in [Pages -> {"text", "image", "blank"}]
        /\ records = 0 <=> text = {}
    BY DEF ExtractInv, ReadInv, TypeOK, ReadSoFar, ParsedText
  <2>2. method = "native" => blind \/ \E j \in text : page[j] = "text"
    BY <2>1 DEF ExtractInv, NativeHasText, Legible
  <2>3. method = "ocr" => text = Legible("ocr")
    BY <2>1
  <2> QED BY <2>1, <2>2, <2>3 DEF Legible
<1> QED BY <1>1, ExtractInvariant, PTL
=============================================================================
