----------------------------- MODULE ExportProofs -----------------------------
(***************************************************************************)
(* What exports and downloads promise, for any number of API processes and *)
(* documents that share their export names in any way, and any faults.     *)
(***************************************************************************)
EXTENDS Export, TLAPS

Get == [at : {"idle", "found", "missing", "served"},
        doc : Docs \cup {NoDoc}, got : Content]

LEMMA PathsAreNames ==
  /\ \A d \in Docs : PathOf(d) \in Names /\ d # NoDoc /\ d # Free
  /\ MaxFaults \in Nat /\ Absent \in Content /\ NoDoc \notin Docs
BY ExportAssumption DEF PathOf, ExportAssumption, Absent, Content

USE DEF PathOf

LEMMA ExportBegins == Init => ExportInv
<1> SUFFICES ASSUME Init PROVE ExportInv OBVIOUS
<1>1. TypeOK
  BY ExportAssumption DEF Init, TypeOK, ExportAssumption, Content, Absent, IdleGet
<1>2. WriterOwnsFile BY DEF Init, WriterOwnsFile
<1>3. NamesKept BY DEF Init, NamesKept, Absent, IdleGet
<1>4. AcknowledgedIsThere BY DEF Init, AcknowledgedIsThere
<1>5. BreakageHasCause BY DEF Init, BreakageHasCause, BrokenFiles, Absent
<1> QED BY <1>1, <1>2, <1>3, <1>4, <1>5 DEF ExportInv

\* A document that becomes ready changes no file.
LEMMA CompleteStep ==
  ASSUME ExportInv, NEW d \in Docs, Complete(d)
  PROVE  ExportInv'
BY DEF Complete, ExportInv, TypeOK, WriterOwnsFile, Owns, OnlyWriter, NamesKept,
   AcknowledgedIsThere, BreakageHasCause, BrokenFiles, Writers

\* An export empties the file: it is the writer's, unless there is another.
LEMMA StartStep ==
  ASSUME ExportInv, NEW a \in Apis, NEW d \in Docs, ExportStart(a, d)
  PROVE  ExportInv'
<1> DEFINE n == PathOf(d)
           new == [of |-> d, state |-> IF Writers(n) = {} THEN "partial" ELSE "mixed"]
<1>0. TypeOK /\ WriterOwnsFile /\ NamesKept /\ AcknowledgedIsThere /\ BreakageHasCause
  BY DEF ExportInv
<1>1. n \in Names /\ d # Free /\ d # NoDoc /\ new \in Content
  BY PathsAreNames DEF Content
<1>2. /\ writing[a] = Free
      /\ writing' = [writing EXCEPT ![a] = d]
      /\ file' = [file EXCEPT ![n] = new]
      /\ acked' = [acked EXCEPT ![n] = NoDoc]
      /\ UNCHANGED <<ready, get, budget>>
  BY DEF ExportStart, LoopFree
<1>3. new.of = d /\ new.state \in {"partial", "mixed"}
      /\ (Writers(n) = {} => new = [of |-> d, state |-> "partial"])
      /\ (Writers(n) # {} => new.state = "mixed")
  OBVIOUS
<1>3a. PathOf(d) = n OBVIOUS
<1> HIDE DEF n, new
<1>4. TypeOK' BY <1>0, <1>1, <1>2 DEF TypeOK
<1>5. /\ file'[n] = new /\ acked'[n] = NoDoc
      /\ \A m \in Names \ {n} : file'[m] = file[m] /\ acked'[m] = acked[m]
      /\ writing'[a] = d /\ \A b \in Apis \ {a} : writing'[b] = writing[b]
  BY <1>0, <1>1, <1>2 DEF TypeOK
<1>6. Writers(n)' = Writers(n) \cup {a}
      /\ \A m \in Names \ {n} : Writers(m)' = Writers(m)
  BY <1>1, <1>2, <1>3a, <1>5 DEF Writers, PathOf
<1>7. WriterOwnsFile'
  <2> SUFFICES ASSUME NEW b \in Apis, writing'[b] # Free PROVE Owns(b)'
    BY DEF WriterOwnsFile
  <2>0. \A c \in Apis : writing[c] # Free /\ PathOf(writing[c]) = n => Writers(n) # {}
    BY DEF Writers
  <2>1. CASE b = a
    <3>1. PathOf(writing'[b]) = n BY <2>1, <1>3a, <1>5
    <3>2. Writers(n) = {} => OnlyWriter(b)'
      BY <2>0, <2>1, <3>1, <1>5 DEF OnlyWriter
    <3> QED BY <2>1, <3>1, <3>2, <1>3, <1>5 DEF Owns
  <2>2. CASE b # a
    <3>1. writing'[b] = writing[b] BY <2>2, <1>5
    <3>2. CASE PathOf(writing[b]) = n
      BY <2>0, <3>1, <3>2, <1>3, <1>5 DEF Owns
    <3>3. CASE PathOf(writing[b]) # n
      <4>1. PathOf(writing[b]) \in Names \ {n}
        BY <3>1, <3>3, <1>0, PathsAreNames DEF TypeOK
      <4>2. OnlyWriter(b) => OnlyWriter(b)'
        BY <1>3a, <1>5, <3>1, <3>3 DEF OnlyWriter
      <4> QED BY <1>0, <1>5, <3>1, <4>1, <4>2 DEF WriterOwnsFile, Owns
    <3> QED BY <3>2, <3>3
  <2> QED BY <2>1, <2>2
<1>8. NamesKept'
  <2>1. OfThatName(new, n) BY <1>3, <1>3a DEF OfThatName
  <2>2. \A m \in Names : file'[m].state # "absent" => OfThatName(file'[m], m)
    BY <1>0, <1>5, <2>1 DEF NamesKept
  <2>3. ASSUME NEW g \in Gets, get[g].at = "found"
        PROVE  file'[PathOf(get[g].doc)].state # "absent"
    <3>1. PathOf(get[g].doc) \in Names BY <1>0, <2>3, PathsAreNames DEF NamesKept
    <3> QED BY <1>0, <1>3, <1>5, <2>3, <3>1 DEF NamesKept
  <2>4. get' = get BY <1>2
  <2> QED BY <1>0, <2>2, <2>3, <2>4 DEF NamesKept, OfThatName
<1>9. AcknowledgedIsThere' BY <1>0, <1>5 DEF AcknowledgedIsThere
<1>10. BreakageHasCause'
  BY <1>0, <1>2, <1>5, <1>6 DEF BreakageHasCause, BrokenFiles
<1> QED BY <1>4, <1>7, <1>8, <1>9, <1>10 DEF ExportInv

\* A writer that ends, well or not, is gone; the others do not notice.
LEMMA WriterGone ==
  ASSUME ExportInv, NEW a \in Apis, writing[a] # Free,
         writing' = [writing EXCEPT ![a] = Free]
  PROVE  /\ writing[a] \in Docs /\ PathOf(writing[a]) \in Names
         /\ \A m : Writers(m)' = Writers(m) \ {a}
         /\ \A b \in Apis \ {a} :
              writing'[b] = writing[b] /\ (OnlyWriter(b) => OnlyWriter(b)')
         /\ writing' \in [Apis -> Docs \cup {Free}] /\ writing'[a] = Free
<1>1. writing[a] \in Docs /\ PathOf(writing[a]) \in Names
  BY PathsAreNames DEF ExportInv, TypeOK
<1>2. /\ \A b \in Apis \ {a} : writing'[b] = writing[b]
      /\ writing' \in [Apis -> Docs \cup {Free}] /\ writing'[a] = Free
  BY DEF ExportInv, TypeOK
<1>3. \A m : Writers(m)' = Writers(m) \ {a} BY <1>2 DEF Writers
<1>4. \A b \in Apis \ {a} : OnlyWriter(b) => OnlyWriter(b)' BY <1>2 DEF OnlyWriter
<1> QED BY <1>1, <1>2, <1>3, <1>4

\* The last writer of a name leaves a whole file, or one that was mixed.
LEMMA DoneStep ==
  ASSUME ExportInv, NEW a \in Apis, ExportDone(a)
  PROVE  ExportInv'
<1>0. TypeOK /\ WriterOwnsFile /\ NamesKept /\ AcknowledgedIsThere /\ BreakageHasCause
  BY DEF ExportInv
<1>1. writing[a] # Free /\ writing' = [writing EXCEPT ![a] = Free]
  BY DEF ExportDone
<1> PICK d \in Docs, n \in Names : d = writing[a] /\ n = PathOf(d)
  BY <1>1, WriterGone
<1> PICK new : new = Closed(file[n], d)
  OBVIOUS
<1>1a. /\ file' = [file EXCEPT ![n] = new]
       /\ acked' = IF Writers(n) = {a} THEN [acked EXCEPT ![n] = d] ELSE acked
       /\ UNCHANGED <<ready, get, budget>>
  BY DEF ExportDone
<1>2. /\ d # NoDoc /\ a \in Writers(n)
      /\ \A m : Writers(m)' = Writers(m) \ {a}
      /\ \A m \in Names \ {n} : a \notin Writers(m)
      /\ \A b \in Apis \ {a} :
           writing'[b] = writing[b] /\ (OnlyWriter(b) => OnlyWriter(b)')
      /\ writing' \in [Apis -> Docs \cup {Free}] /\ writing'[a] = Free
  BY <1>1, WriterGone, PathsAreNames DEF Writers
<1>2a. OnlyWriter(a) => Writers(n) = {a}
  BY <1>2 DEF OnlyWriter, Writers
<1>3. /\ new.of = d /\ new \in Content
      /\ \/ file[n].state = "mixed" /\ new.state = "mixed"
         \/ OnlyWriter(a) /\ new = [of |-> d, state |-> "whole"]
  BY <1>0, <1>1 DEF Closed, Content, WriterOwnsFile, Owns
<1>4. /\ acked[n] = NoDoc
      /\ acked' \in [Names -> Docs \cup {NoDoc}]
      /\ \A m \in Names \ {n} : acked'[m] = acked[m]
      /\ acked'[n] = IF Writers(n) = {a} THEN d ELSE NoDoc
  BY <1>0, <1>1, <1>1a DEF WriterOwnsFile, Owns, TypeOK
<1>5. file' \in [Names -> Content] /\ file'[n] = new
      /\ \A m \in Names \ {n} : file'[m] = file[m]
  BY <1>0, <1>1a, <1>3 DEF TypeOK
<1>6. TypeOK' BY <1>0, <1>1a, <1>2, <1>4, <1>5 DEF TypeOK
<1>7. WriterOwnsFile'
  <2> SUFFICES ASSUME NEW b \in Apis, writing'[b] # Free PROVE Owns(b)'
    BY DEF WriterOwnsFile
  <2>1. b # a /\ writing'[b] = writing[b] /\ Owns(b) /\ (OnlyWriter(b) => OnlyWriter(b)')
    BY <1>0, <1>2 DEF WriterOwnsFile
  <2>2. CASE PathOf(writing[b]) = n
    <3>1. ~OnlyWriter(a) BY <2>1, <2>2 DEF OnlyWriter
    <3>2. Writers(n) # {a} BY <2>1, <2>2 DEF Writers
    <3> QED BY <1>3, <1>4, <1>5, <2>1, <2>2, <3>1, <3>2 DEF Owns
  <2>3. CASE PathOf(writing[b]) # n
    <3>1. PathOf(writing[b]) \in Names \ {n}
      BY <1>0, <2>1, <2>3, PathsAreNames DEF TypeOK
    <3> QED BY <1>4, <1>5, <2>1, <3>1 DEF Owns
  <2> QED BY <2>2, <2>3
<1>8. NamesKept'
  <2>1. OfThatName(new, n) BY <1>3 DEF OfThatName
  <2>2. new.state # "absent" BY <1>3
  <2>3. \A m \in Names : file'[m].state # "absent" => OfThatName(file'[m], m)
    BY <1>0, <1>5, <2>1 DEF NamesKept
  <2>4. ASSUME NEW g \in Gets, get[g].at = "found"
        PROVE  file'[PathOf(get[g].doc)].state # "absent"
    <3>1. PathOf(get[g].doc) \in Names BY <1>0, <2>4, PathsAreNames DEF NamesKept
    <3> QED BY <1>0, <1>5, <2>2, <2>4, <3>1 DEF NamesKept
  <2> QED BY <1>0, <1>1a, <2>3, <2>4 DEF NamesKept, OfThatName
<1>9. AcknowledgedIsThere'
  BY <1>0, <1>2a, <1>3, <1>4, <1>5 DEF AcknowledgedIsThere
<1>10. BreakageHasCause'
  <2>1. new.state # "partial" BY <1>3
  <2>2. \A m \in Names \ {n} : Writers(m)' = Writers(m) BY <1>2
  <2> QED BY <1>0, <1>1a, <1>5, <2>1, <2>2 DEF BreakageHasCause, BrokenFiles
<1> QED BY <1>6, <1>7, <1>8, <1>9, <1>10 DEF ExportInv

\* An export that fails or is killed leaves the file as it is.
LEMMA FailStep ==
  ASSUME ExportInv, NEW a \in Apis, ExportFails(a) \/ CrashApi(a)
  PROVE  ExportInv'
<1>0. TypeOK /\ WriterOwnsFile /\ NamesKept /\ AcknowledgedIsThere
  BY DEF ExportInv
<1>1. /\ writing[a] # Free /\ writing' = [writing EXCEPT ![a] = Free]
      /\ budget > 0 /\ budget' = budget - 1
      /\ UNCHANGED <<ready, file, get, acked>>
  BY DEF ExportFails, CrashApi, Fault
<1>2. /\ \A b \in Apis \ {a} :
           writing'[b] = writing[b] /\ (OnlyWriter(b) => OnlyWriter(b)')
      /\ writing' \in [Apis -> Docs \cup {Free}] /\ writing'[a] = Free
  BY <1>1, WriterGone
<1>3. budget' \in 0 .. MaxFaults /\ budget' < MaxFaults
  BY <1>0, <1>1, PathsAreNames DEF TypeOK
<1>4. TypeOK' BY <1>0, <1>1, <1>2, <1>3 DEF TypeOK
<1>5. WriterOwnsFile'
  BY <1>0, <1>1, <1>2 DEF WriterOwnsFile, Owns
<1>6. NamesKept' BY <1>0, <1>1 DEF NamesKept, OfThatName
<1>7. AcknowledgedIsThere' BY <1>0, <1>1 DEF AcknowledgedIsThere
<1>8. BreakageHasCause' BY <1>3 DEF BreakageHasCause
<1> QED BY <1>4, <1>5, <1>6, <1>7, <1>8 DEF ExportInv

\* A download changes nothing but its own progress, and finds what was there.
LEMMA DownloadStep ==
  ASSUME ExportInv, NEW g \in Gets,
         (\E a \in Apis, d \in Docs : DownloadCheck(g, a, d))
           \/ DownloadRead(g) \/ DownloadEnd(g)
  PROVE  ExportInv'
<1>0. TypeOK /\ WriterOwnsFile /\ NamesKept /\ AcknowledgedIsThere /\ BreakageHasCause
  BY DEF ExportInv
<1>1. UNCHANGED <<ready, file, writing, acked, budget>>
  BY DEF DownloadCheck, DownloadRead, DownloadEnd
<1>2. get \in [Gets -> Get] /\ IdleGet \in Get /\ IdleGet.at = "idle"
  BY <1>0, PathsAreNames DEF TypeOK, Get, IdleGet
<1> DEFINE Sound(new) ==
      /\ new \in Get
      /\ new.at \in {"found", "served"} => new.doc \in Docs
      /\ new.at = "found" => file[PathOf(new.doc)].state # "absent"
      /\ new.at = "served" => OfThatName(new.got, PathOf(new.doc))
<1>3. ASSUME NEW new, Sound(new), get' = [get EXCEPT ![g] = new] PROVE ExportInv'
  <2>1. get' \in [Gets -> Get] /\ get'[g] = new /\ \A h \in Gets \ {g} : get'[h] = get[h]
    BY <1>2, <1>3
  <2>2. TypeOK' BY <1>0, <1>1, <2>1 DEF TypeOK, Get
  <2>3. NamesKept' BY <1>0, <1>1, <1>3, <2>1 DEF NamesKept, OfThatName
  <2>4. WriterOwnsFile' /\ AcknowledgedIsThere' /\ BreakageHasCause'
    BY <1>0, <1>1 DEF WriterOwnsFile, Owns, OnlyWriter, AcknowledgedIsThere,
       BreakageHasCause, BrokenFiles, Writers
  <2> QED BY <2>2, <2>3, <2>4 DEF ExportInv
<1>4. CASE \E a \in Apis, d \in Docs : DownloadCheck(g, a, d)
  <2> PICK d \in Docs :
        get' = [get EXCEPT ![g] = [IdleGet EXCEPT !.doc = d,
                  !.at = IF file[PathOf(d)].state = "absent" THEN "missing" ELSE "found"]]
    BY <1>4 DEF DownloadCheck
  <2> DEFINE new == [IdleGet EXCEPT !.doc = d,
                  !.at = IF file[PathOf(d)].state = "absent" THEN "missing" ELSE "found"]
  <2>1. /\ new \in Get /\ new.doc = d /\ new.at \in {"missing", "found"}
        /\ new.at = "found" => file[PathOf(d)].state # "absent"
    BY <1>2 DEF IdleGet, Get
  <2>2. get' = [get EXCEPT ![g] = new] OBVIOUS
  <2> HIDE DEF new
  <2> QED BY <1>3, <2>1, <2>2
<1>5. CASE DownloadRead(g)
  <2> DEFINE new == [get[g] EXCEPT !.at = "served", !.got = file[PathOf(get[g].doc)]]
  <2>1. get[g] \in Get /\ get[g].doc \in Docs /\ PathOf(get[g].doc) \in Names
        /\ file[PathOf(get[g].doc)].state # "absent"
    BY <1>0, <1>2, <1>5, PathsAreNames DEF DownloadRead, NamesKept
  <2>2. /\ file[PathOf(get[g].doc)] \in Content
        /\ OfThatName(file[PathOf(get[g].doc)], PathOf(get[g].doc))
    BY <1>0, <2>1 DEF TypeOK, NamesKept
  <2>3. /\ new \in Get /\ new.at = "served" /\ new.doc = get[g].doc
        /\ new.got = file[PathOf(get[g].doc)]
    BY <2>1, <2>2 DEF Get
  <2>4. get' = [get EXCEPT ![g] = new] BY <1>5 DEF DownloadRead
  <2> HIDE DEF new
  <2> QED BY <1>3, <2>1, <2>2, <2>3, <2>4
<1>6. CASE DownloadEnd(g)
  BY <1>2, <1>3, <1>6 DEF DownloadEnd
<1> QED BY <1>4, <1>5, <1>6

(***************************************************************************)
(* Files, writers, acknowledgements and downloads belong together, however *)
(* many processes export at the same time.                                 *)
(***************************************************************************)
THEOREM ExportInvariant == Spec => []ExportInv
<1>1. ExportInv /\ [Next]_vars => ExportInv'
  <2> SUFFICES ASSUME ExportInv, [Next]_vars PROVE ExportInv' OBVIOUS
  <2>1. CASE \E d \in Docs : Complete(d) BY <2>1, CompleteStep
  <2>2. CASE \E a \in Apis : \E d \in Docs : ExportStart(a, d) BY <2>2, StartStep
  <2>3. CASE \E a \in Apis : ExportDone(a) BY <2>3, DoneStep
  <2>4. CASE \E a \in Apis : ExportFails(a) \/ CrashApi(a) BY <2>4, FailStep
  <2>5. CASE \E g \in Gets : \/ \E a \in Apis, d \in Docs : DownloadCheck(g, a, d)
                             \/ DownloadRead(g) \/ DownloadEnd(g)
    BY <2>5, DownloadStep
  <2>6. CASE UNCHANGED vars
    BY <2>6 DEF vars, ExportInv, TypeOK, WriterOwnsFile, Owns, OnlyWriter, NamesKept,
       AcknowledgedIsThere, BreakageHasCause, BrokenFiles, Writers
  <2> QED BY <2>1, <2>2, <2>3, <2>4, <2>5, <2>6 DEF Next
<1> QED BY <1>1, ExportBegins, PTL DEF Spec

(***************************************************************************)
(* Whatever is exported, fails or crashes, an acknowledged workbook is     *)
(* whole and there, unless two processes wrote it at once (routes.py:467). *)
(***************************************************************************)
THEOREM AcknowledgedExportsAreThere == Spec => []AcknowledgedIsThere
BY ExportInvariant, PTL DEF ExportInv

(***************************************************************************)
(* Only a failure leaves half a workbook behind (excel_exporter.py:77).    *)
(***************************************************************************)
THEOREM OnlyFaultsBreakFiles == Spec => []BreakageHasCause
BY ExportInvariant, PTL DEF ExportInv

(***************************************************************************)
(* A document whose export name no other shares is sent its own workbook   *)
(* (routes.py:521-536).                                                    *)
(***************************************************************************)
THEOREM DownloadsAreOwn == Spec => []OwnNameOwnDownload
<1>1. ExportInv => OwnNameOwnDownload
  BY DEF ExportInv, NamesKept, OfThatName, OwnNameOwnDownload, NameIsOwn
<1> QED BY <1>1, ExportInvariant, PTL
=============================================================================
