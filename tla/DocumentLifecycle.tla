-------------------------- MODULE DocumentLifecycle ---------------------------
(***************************************************************************)
(* What the pipeline promises of a document, whoever processes it: a row   *)
(* appears pending, is taken up at most once, and ends completed with one  *)
(* set of records or failed with a reason, for good.  A job delivered      *)
(* twice may be processed again; the row, its records and its reason then  *)
(* change, but they are never taken away.                                  *)
(***************************************************************************)
EXTENDS Naturals

CONSTANT Docs
VARIABLES status, recs, err,
          twice   \* some job has been delivered twice

document == <<status, recs, err>>
lifecycle == <<status, recs, err, twice>>

Reasons == {"not_found", "extraction"}

Init ==
  /\ status = [d \in Docs |-> "absent"]
  /\ recs = [d \in Docs |-> 0]
  /\ err = [d \in Docs |-> "none"]
  /\ twice = FALSE

Move(d, from, to) ==
  /\ status[d] = from
  /\ status' = [status EXCEPT ![d] = to]

Register(d) == Move(d, "absent", "pending") /\ UNCHANGED <<recs, err>>
TakeUp(d) == Move(d, "pending", "processing") /\ UNCHANGED <<recs, err>>
Complete(d) ==
  /\ Move(d, "processing", "completed")
  /\ recs' = [recs EXCEPT ![d] = 1]
  /\ UNCHANGED err
GiveUp(d) ==
  /\ Move(d, "processing", "failed")
  /\ \E reason \in Reasons : err' = [err EXCEPT ![d] = reason]
  /\ UNCHANGED recs

Life(d) == Register(d) \/ TakeUp(d) \/ Complete(d) \/ GiveUp(d)

\* The second delivery runs over a row that the first has moved.
Redo(d) ==
  /\ twice /\ status[d] # "absent"
  /\ \/ /\ status' = [status EXCEPT ![d] = "processing"]
        /\ UNCHANGED <<recs, err>>
     \/ /\ status' = [status EXCEPT ![d] = "completed"]
        /\ recs' = [recs EXCEPT ![d] = @ + 1]
        /\ UNCHANGED err
     \/ /\ status' = [status EXCEPT ![d] = "failed"]
        /\ \E reason \in Reasons : err' = [err EXCEPT ![d] = reason]
        /\ UNCHANGED recs

DeliverTwice == twice' /\ UNCHANGED document

Next ==
  \/ \E d \in Docs : (Life(d) \/ Redo(d)) /\ UNCHANGED twice
  \/ DeliverTwice

Spec == Init /\ [][Next]_lifecycle
=============================================================================
