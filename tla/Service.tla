------------------------------ MODULE Service ------------------------------
(***************************************************************************)
(* The API as its clients and Prometheus see it: the processes of Startup, *)
(* each with the metrics of its own memory, answer requests.  A response   *)
(* passes MetricsMiddleware on its way out; an exception does, uncounted.  *)
(***************************************************************************)
EXTENDS Startup, Metrics

CONSTANTS
    Apis,       \* the processes that serve HTTP
    Requests,
    Durations   \* how long a request may take

ASSUME ServiceAssumption == Apis \subseteq Procs /\ Durations \subseteq Nat

VARIABLES
    phase,      \* per request: new, running, the status returned, over
    host,       \* the process that has it, or Nobody
    answer,     \* history: the status it was answered with and how long it took
    total,      \* http_requests_total per process
    histogram,  \* http_request_duration_seconds per process
    sent,       \* history: the requests a process has answered since it started
    shown       \* history: the number of requests the last scrape showed
requestVars == <<phase, host, answer, total, histogram, sent, shown>>
vars == <<startupVars, requestVars>>

Returned == {"2xx", "4xx"}
Statuses == Returned \cup {"5xx"}

Init ==
    /\ StartupInit
    /\ phase = [r \in Requests |-> "new"]
    /\ host = [r \in Requests |-> Nobody]
    /\ answer = [r \in Requests |-> [status |-> "2xx", took |-> 0]]
    /\ total = [p \in Apis |-> Zero(Statuses)]
    /\ histogram = [p \in Apis |-> EmptyHistogram]
    /\ sent = [p \in Apis |-> {}]
    /\ shown = 0

Becomes(r, from, to) == phase[r] = from /\ phase' = [phase EXCEPT ![r] = to]
----------------------------------------------------------------------------
Arrive(r, p) ==
    /\ Becomes(r, "new", "running")
    /\ at[p] = "up"
    /\ host' = [host EXCEPT ![r] = p]
    /\ UNCHANGED <<startupVars, answer, total, histogram, sent, shown>>

\* The handler returns, or raises an HTTPException that becomes a response.
Handle(r, s) ==
    /\ Becomes(r, "running", s)
    /\ UNCHANGED <<startupVars, host, answer, total, histogram, sent, shown>>

\* GET /metrics renders what this process has counted so far.
Scrape(r) ==
    /\ Becomes(r, "running", "2xx")
    /\ shown' = SumFunction(total[host[r]])
    /\ UNCHANGED <<startupVars, host, answer, total, histogram, sent>>

Send(r, s, d) ==
    /\ answer' = [answer EXCEPT ![r] = [status |-> s, took |-> d]]
    /\ sent' = [sent EXCEPT ![host[r]] = @ \cup {r}]
    /\ UNCHANGED <<startupVars, host, shown>>

\* call_next has returned: count, observe and pass the response on.
Answer(r, d) ==
    /\ phase[r] \in Returned
    /\ Becomes(r, phase[r], "over")
    /\ Send(r, phase[r], d)
    /\ total' = [total EXCEPT ![host[r]] = Inc(@, phase[r])]
    /\ histogram' = [histogram EXCEPT ![host[r]] = Observe(@, d)]

\* Any other exception of the handler goes through call_next and the
\* middleware; the server answers 500 outside of it.
Raise(r, d) ==
    /\ Becomes(r, "running", "over")
    /\ Send(r, "5xx", d)
    /\ UNCHANGED <<total, histogram>>
----------------------------------------------------------------------------
HeldBy(p) == {r \in Requests : host[r] = p /\ phase[r] # "over"}

\* What a process leaves: requests cut off, its memory gone.
Cut(p) ==
    /\ phase' = [r \in Requests |-> IF r \in HeldBy(p) THEN "over" ELSE phase[r]]
    /\ total' = [q \in Apis |-> IF q = p THEN Zero(Statuses) ELSE total[q]]
    /\ histogram' = [q \in Apis |-> IF q = p THEN EmptyHistogram ELSE histogram[q]]
    /\ sent' = [q \in Apis |-> IF q = p THEN {} ELSE sent[q]]
    /\ UNCHANGED <<host, answer, shown>>

\* uvicorn lets requests finish before it shuts the application down.
Drained(p) == HeldBy(p) = {}

Next ==
    \/ \E p \in Procs :
        \/ Starting(p) /\ UNCHANGED requestVars
        \/ Dies(p) /\ Cut(p)
        \/ Stop(p) /\ Drained(p) /\ Cut(p)
    \/ \E r \in Requests :
        \/ \E p \in Apis : Arrive(r, p)
        \/ \E s \in Returned : Handle(r, s)
        \/ Scrape(r)
        \/ \E d \in Durations : Answer(r, d) \/ Raise(r, d)

Spec == Init /\ [][Next]_vars
FairSpec == Spec /\ StartupFairness
----------------------------------------------------------------------------
\* The metrics of a process tell of the requests in R.
TellsOf(p, R) ==
    /\ \A s \in Statuses : total[p][s] = Cardinality({r \in R : answer[r].status = s})
    /\ Collect(histogram[p]) = Summary([r \in Requests |-> answer[r].took], R)

(***************************************************************************)
(* What a process shows is what it has answered since it started, the      *)
(* answers of handlers that raised left out: nothing else is missing,      *)
(* nothing is there twice, and the buckets, each counted once and summed   *)
(* up when rendered, agree with the durations (metrics.py:66-83, 153-167). *)
(***************************************************************************)
MetricsMatchAnswers ==
    \A p \in Apis : TellsOf(p, {r \in sent[p] : answer[r].status # "5xx"})

(***************************************************************************)
(* docs/deployment.md:217 takes the error rate from http_requests_total    *)
(* with status 5xx, and metrics.py:151 counts "every HTTP request".  The   *)
(* middleware has no finally (metrics.py:155): no 500 is ever counted.     *)
(***************************************************************************)
ErrorsAreCounted == \A p \in Apis : TellsOf(p, sent[p])

(***************************************************************************)
(* docs/deployment.md:215 takes rate() of http_requests_total, a counter   *)
(* that falls only at a restart.  Four processes answer at one port, each  *)
(* with a counter of its own (Dockerfile:71): without any fault a scrape   *)
(* may show fewer requests than the one before.                            *)
(***************************************************************************)
ScrapesGrow == [][shown' >= shown]_vars
=============================================================================
