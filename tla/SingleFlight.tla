---------------------------- MODULE SingleFlight ----------------------------
(***************************************************************************)
(* What ingest.OnDemand promises, without its mutex, call records and      *)
(* goroutines: shared fetches that run one at a time, at a distance, and   *)
(* answers that are never older than the last fetch finished when the      *)
(* question was asked.                                                     *)
(***************************************************************************)
EXTENDS Naturals, Sequences

CONSTANTS
    Callers,
    Coalesce    \* fetches keep a distance

VARIABLES
    running,    \* a fetch is under way
    outcome,    \* outcome[n]: how the n-th fetch ended
    quiet,      \* the last fetch ended less than MinInterval ago
    shut,
    asking,     \* the callers with a question open
    gone,       \* the callers that have stopped listening
    since,      \* since[r]: fetches finished when r asked
    answer      \* answer[r]: the last answer given to r

vars == <<running, outcome, quiet, shut, asking, gone, since, answer>>

Init ==
    /\ running = FALSE /\ outcome = << >> /\ quiet = FALSE /\ shut = FALSE
    /\ asking = {} /\ gone = {}
    /\ since = [r \in Callers |-> 0]
    /\ answer = [r \in Callers |-> "none"]

Ask(r) ==
    /\ r \notin asking
    /\ asking' = asking \cup {r}
    /\ gone' = gone \ {r}
    /\ since' = [since EXCEPT ![r] = Len(outcome)]
    /\ answer' = [answer EXCEPT ![r] = "none"]
    /\ UNCHANGED <<running, outcome, quiet, shut>>

Leave(r) ==
    /\ r \in asking \ gone
    /\ gone' = gone \cup {r}
    /\ UNCHANGED <<running, outcome, quiet, shut, asking, since, answer>>

\* A fetch starts only for somebody who asks, alone, spaced and before the end.
Start ==
    /\ ~running /\ ~shut /\ asking # {}
    /\ Coalesce => ~quiet
    /\ running' = TRUE
    /\ UNCHANGED <<outcome, quiet, shut, asking, gone, since, answer>>

Finish(e) ==
    /\ running
    /\ running' = FALSE
    /\ outcome' = Append(outcome, e)
    /\ quiet' = TRUE
    /\ UNCHANGED <<shut, asking, gone, since, answer>>

Elapse ==
    /\ quiet
    /\ quiet' = FALSE
    /\ UNCHANGED <<running, outcome, shut, asking, gone, since, answer>>

Shut ==
    /\ ~shut
    /\ shut' = TRUE
    /\ UNCHANGED <<running, outcome, quiet, asking, gone, since, answer>>

Answer(r, v) ==
    /\ r \in asking
    /\ asking' = asking \ {r}
    /\ answer' = [answer EXCEPT ![r] = v]
    /\ UNCHANGED <<running, outcome, quiet, shut, gone, since>>

\* The last fetch finished when r asked counts only inside the interval.
Fresh(r) ==
    {n \in 1..Len(outcome) :
        n > since[r] \/ (n = since[r] /\ Coalesce)}

Next ==
    \/ \E r \in Callers :
        \/ Ask(r) \/ Leave(r)
        \/ \E n \in Fresh(r) : Answer(r, outcome[n])
        \/ (r \in gone /\ Answer(r, "cancelled"))
        \/ (shut /\ Answer(r, "refused"))
    \/ Start
    \/ \E e \in {"ok", "err"} : Finish(e)
    \/ Elapse
    \/ Shut

Spec == Init /\ [][Next]_vars
=============================================================================
