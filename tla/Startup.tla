------------------------------ MODULE Startup ------------------------------
(***************************************************************************)
(* How the processes of the service come up.  Each API process (lifespan   *)
(* in app/main.py) and each worker (main in app/worker.py) begins with     *)
(* init_db of app/db/database.py: in one transaction it looks whether the  *)
(* tables are there and creates them if not.  All of them do it at the     *)
(* same time when a new deployment starts.                                 *)
(***************************************************************************)
EXTENDS Naturals

CONSTANTS
    Procs,      \* API processes and workers
    Nobody,     \* no process
    MaxFaults   \* how often a process may fail, be killed or be stopped

ASSUME StartupAssumption == Nobody \notin Procs /\ MaxFaults \in Nat

VARIABLES
    at,       \* per process: down, in a step of create_all, or up
    tables,   \* the tables are there, as every transaction sees them
    creator,  \* whose open transaction has created them, or Nobody
    lost,     \* history: how often a process found them created under its hands
    budget    \* faults left
startupVars == <<at, tables, creator, lost, budget>>

StartupInit ==
    /\ at = [p \in Procs |-> "down"]
    /\ tables = FALSE
    /\ creator = Nobody
    /\ lost = [p \in Procs |-> 0]
    /\ budget = MaxFaults

Goto(p, from, to) == at[p] = from /\ at' = [at EXCEPT ![p] = to]
----------------------------------------------------------------------------
\* A bug: create_all without its check.
BootUnchecked(p) == Goto(p, "down", "create") /\ UNCHANGED <<tables, creator, lost, budget>>

\* uvicorn, its supervisor or the container runtime starts the process.
Boot(p) == Goto(p, "down", "check") /\ UNCHANGED <<tables, creator, lost, budget>>

\* create_all asks the catalog, which does not show what others have not
\* committed yet.
CheckTables(p) ==
    /\ Goto(p, "check", IF tables THEN "commit" ELSE "create")
    /\ UNCHANGED <<tables, creator, lost, budget>>

\* CREATE waits for whoever has created the same and not yet committed.
CreateTables(p) ==
    /\ Goto(p, "create", "commit")
    /\ creator = Nobody /\ ~tables
    /\ creator' = p
    /\ UNCHANGED <<tables, lost, budget>>

\* A bug: the error is caught and the same transaction tries again.
RetryForEver(p) ==
    /\ Goto(p, "create", "create")
    /\ creator = Nobody /\ tables
    /\ UNCHANGED <<tables, creator, lost, budget>>

\* It was committed meanwhile: CREATE raises, nothing catches it and the
\* process ends.
TablesExist(p) ==
    /\ Goto(p, "create", "down")
    /\ creator = Nobody /\ tables
    /\ lost' = [lost EXCEPT ![p] = @ + 1]
    /\ UNCHANGED <<tables, creator, budget>>

\* A bug: engine.connect for engine.begin, which rolls back when it closes.
CommitForgotten(p) ==
    /\ Goto(p, "commit", "up")
    /\ creator' = IF creator = p THEN Nobody ELSE creator
    /\ UNCHANGED <<tables, lost, budget>>

\* The transaction commits, init_redis cannot fail, the process serves.
CommitTables(p) ==
    /\ Goto(p, "commit", "up")
    /\ tables' = (tables \/ creator = p)
    /\ creator' = IF creator = p THEN Nobody ELSE creator
    /\ UNCHANGED <<lost, budget>>
----------------------------------------------------------------------------
Ends(p) ==
    /\ budget > 0
    /\ budget' = budget - 1
    /\ at' = [at EXCEPT ![p] = "down"]
    /\ creator' = IF creator = p THEN Nobody ELSE creator
    /\ UNCHANGED lost

\* The database fails, or the process is killed.  An open transaction is
\* rolled back, unless its COMMIT had arrived.
Dies(p) ==
    /\ at[p] # "down"
    /\ Ends(p)
    /\ \/ UNCHANGED tables
       \/ at[p] = "commit" /\ creator = p /\ tables' = TRUE

\* SIGTERM: close_redis, close_db.
Stop(p) == at[p] = "up" /\ Ends(p) /\ UNCHANGED tables

Starting(p) ==
    Boot(p) \/ CheckTables(p) \/ CreateTables(p) \/ TablesExist(p) \/ CommitTables(p)
StartupNext == \E p \in Procs : Starting(p) \/ Dies(p) \/ Stop(p)
----------------------------------------------------------------------------
(***************************************************************************)
(* A process that serves finds the tables, and an uncommitted creation     *)
(* belongs to a process that is about to commit it: init_db returns only   *)
(* after the tables are committed, by whomever (database.py:64-67).        *)
(***************************************************************************)
StartInv ==
    /\ at \in [Procs -> {"down", "check", "create", "commit", "up"}]
    /\ tables \in BOOLEAN /\ creator \in Procs \cup {Nobody}
    /\ lost \in [Procs -> Nat] /\ budget \in 0 .. MaxFaults
    /\ creator # Nobody => at[creator] = "commit" /\ ~tables
    /\ \A p \in Procs : at[p] \in {"commit", "up"} => tables \/ creator = p

(***************************************************************************)
(* Processes that start together race for the tables, and the losers end   *)
(* with an error (database.py:67).  Each loses at most once, however often *)
(* it is restarted, and one never does, whatever fails in between: the     *)
(* restart policy needs no more than one attempt per process beyond the    *)
(* faults.                                                                 *)
(***************************************************************************)
RaceIsLostOnce ==
    /\ \A p \in Procs : lost[p] <= 1
    /\ Procs # {} => \E p \in Procs : lost[p] = 0

(***************************************************************************)
(* In the end every process serves: no two of them keep each other from    *)
(* coming up (main.py:32, worker.py:126).                                  *)
(***************************************************************************)
AllServe == <>[](\A p \in Procs : at[p] = "up")

\* What the proof of RaceIsLostOnce adds: only who looked before the tables
\* were there can still lose, and whoever committed them did not.
RaceInv ==
    /\ \A p \in Procs : lost[p] <= (IF tables /\ at[p] # "create" THEN 1 ELSE 0)
    /\ tables => \E p \in Procs : lost[p] = 0 /\ at[p] # "create"

\* uvicorn's supervisor replaces a process that ended, the container runtime
\* a container (restart: unless-stopped); a coroutine that can go on does.
StartupFairness == \A p \in Procs : WF_startupVars(Starting(p))
=============================================================================
