-------------------------- MODULE ModelRequests --------------------------
(***************************************************************************)
(* Calls to one model by the tasks of one authoring job, on one event loop.*)
(* A call waits while the provider asks for a pause, takes a slot if the   *)
(* provider has announced a budget of requests, reserves a request of the  *)
(* job's budget, and is tried a second time after a retryable failure.     *)
(* Everything it was paid for is counted, or marked as unknown.            *)
(* A step of a task between two awaits is one action.                      *)
(***************************************************************************)
EXTENDS Integers, FiniteSets, FiniteSetsExt

CONSTANTS
    Calls,
    MaxAttempts,   \* tries of one call
    RequestLimit,  \* requests of the job
    TokenLimit,    \* tokens of the job
    Amounts,       \* tokens of one answer
    Budgets        \* limits a provider may announce

\* What the constants are assumed to be.
RequestsAssumption ==
    /\ IsFiniteSet(Calls)
    /\ {MaxAttempts, RequestLimit, TokenLimit} \subseteq Nat \ {0}
    /\ Amounts \subseteq Nat
    /\ Budgets \subseteq Nat \ {0}

VARIABLES
    pc,        \* pc[c]: where call c is
    attempt,   \* attempt[c]: which try
    active,    \* slots in use
    limit,     \* slots the provider's budget allows, 0 while it is not known
    blocked,   \* the provider's pause is not over
    notifying, \* a task is about to wake the waiting calls
    requests,  \* requests the job has reserved
    tokens,    \* tokens the job has recorded
    known,     \* known[c]: the total of call c is complete
    total,     \* total[c]: the tokens of its total
    events,    \* events[c]: usage events recorded
    sent,      \* history: sent[c]: requests that reached the provider
    charged    \* history: charged[c]: tokens the provider charged for them

waiting == <<blocked, notifying>>
budget == <<requests, tokens>>
usage == <<known, total, events>>
history == <<sent, charged>>
vars == <<pc, attempt, active, limit, waiting, budget, usage, history>>

Over == {"done", "failed", "cancelled"}
Goto(c, s) == pc' = [pc EXCEPT ![c] = s]

----------------------------------------------------------------------------
(* The slot                                                                 *)

\* The pause is over, or the call sleeps for as long as it was told to.
PassPause(c) ==
    /\ pc[c] = "start"
    /\ Goto(c, IF blocked THEN "asleep" ELSE "queue")
    /\ UNCHANGED <<attempt, active, limit, waiting, budget, usage, history>>

\* The pause is not looked at again, though it may have been prolonged.
Wake(c) ==
    /\ pc[c] = "asleep"
    /\ Goto(c, "queue")
    /\ UNCHANGED <<attempt, active, limit, waiting, budget, usage, history>>

Free == limit = 0 \/ active < limit

TakeSlot(c) ==
    /\ pc[c] = "queue"
    /\ IF Free THEN active' = active + 1 /\ Goto(c, "slot")
               ELSE UNCHANGED active /\ Goto(c, "waiting")
    /\ UNCHANGED <<attempt, limit, waiting, budget, usage, history>>

\* The waiting calls start over; s is where the call that gives up its slot
\* goes.
Woken(c, s) == [d \in Calls |-> IF d = c THEN s ELSE IF pc[d] = "waiting" THEN "start" ELSE pc[d]]

\* Mutant: only the call itself moves on.
ReleaseAlone(c, s) == active' = active - 1 /\ Goto(c, s)

Release(c, s) == active' = active - 1 /\ pc' = Woken(c, s)

Notify ==
    /\ notifying
    /\ notifying' = FALSE
    /\ pc' = [d \in Calls |-> IF pc[d] = "waiting" THEN "start" ELSE pc[d]]
    /\ UNCHANGED <<attempt, active, limit, blocked, budget, usage, history>>

PauseEnds ==
    /\ blocked
    /\ blocked' = FALSE
    /\ UNCHANGED <<pc, attempt, active, limit, notifying, budget, usage, history>>

\* What the headers of an answer or an error say: nothing, a pause, a budget.
Observe ==
    /\ blocked' \in {blocked, TRUE}
    /\ \/ UNCHANGED <<limit, notifying>>
       \/ limit' \in Budgets /\ notifying' = TRUE

----------------------------------------------------------------------------
(* The request                                                              *)

MayReserve == tokens < TokenLimit /\ requests < RequestLimit

Send(c) ==
    /\ pc[c] = "slot" /\ MayReserve
    /\ requests' = requests + 1
    /\ sent' = [sent EXCEPT ![c] = @ + 1]
    /\ Goto(c, "calling")
    /\ UNCHANGED <<attempt, active, limit, waiting, tokens, usage, charged>>

BudgetSpent(c) ==
    /\ pc[c] = "slot" /\ ~MayReserve
    /\ Release(c, "failed")
    /\ UNCHANGED <<attempt, limit, waiting, budget, usage, history>>

\* The answer is counted and recorded, and the job's budget may be spent.
Answer(c, n) ==
    /\ pc[c] = "calling"
    /\ charged' = [charged EXCEPT ![c] = @ + n]
    /\ total' = [total EXCEPT ![c] = @ + n]
    /\ events' = [events EXCEPT ![c] = @ + 1]
    /\ tokens' = tokens + n
    /\ Release(c, IF tokens' >= TokenLimit THEN "failed" ELSE "done")
    /\ Observe
    /\ UNCHANGED <<attempt, requests, known, sent>>

Unknown(c) == known' = [known EXCEPT ![c] = FALSE]

\* An error of the provider, or no answer in time; it may have charged.
Fail(c, n) ==
    /\ pc[c] = "calling"
    /\ charged' = [charged EXCEPT ![c] = @ + n]
    /\ Unknown(c)
    /\ events' = [events EXCEPT ![c] = @ + 1]
    /\ \/ /\ attempt[c] < MaxAttempts
          /\ Release(c, "pausing")
          /\ Observe
       \/ /\ Release(c, "failed")
          /\ UNCHANGED <<limit, waiting>>
    /\ UNCHANGED <<attempt, budget, total, sent>>

Retry(c) ==
    /\ pc[c] = "pausing"
    /\ attempt' = [attempt EXCEPT ![c] = @ + 1]
    /\ Goto(c, "start")
    /\ UNCHANGED <<active, limit, waiting, budget, usage, history>>

\* The time of the call is up before it was sent.
GiveUp(c) ==
    /\ pc[c] \in {"asleep", "waiting"}
    /\ Goto(c, "failed")
    /\ UNCHANGED <<attempt, active, limit, waiting, budget, usage, history>>

\* The task is cancelled, at any await.
Cancel(c, n) ==
    \/ /\ pc[c] \in {"asleep", "waiting", "pausing"}
       /\ Goto(c, "cancelled")
       /\ UNCHANGED <<attempt, active, limit, waiting, budget, usage, history>>
    \/ /\ pc[c] = "calling"
       /\ charged' = [charged EXCEPT ![c] = @ + n]
       /\ Unknown(c)
       /\ Release(c, "cancelled")
       /\ UNCHANGED <<attempt, limit, waiting, budget, total, events, sent>>

----------------------------------------------------------------------------
Init ==
    /\ pc = [c \in Calls |-> "start"]
    /\ attempt = [c \in Calls |-> 1]
    /\ active = 0 /\ limit = 0
    /\ blocked = FALSE /\ notifying = FALSE
    /\ requests = 0 /\ tokens = 0
    /\ known = [c \in Calls |-> TRUE]
    /\ total = [c \in Calls |-> 0]
    /\ events = [c \in Calls |-> 0]
    /\ sent = [c \in Calls |-> 0]
    /\ charged = [c \in Calls |-> 0]

Step(c) ==
    \/ PassPause(c) \/ Wake(c) \/ TakeSlot(c) \/ Send(c) \/ BudgetSpent(c) \/ Retry(c)

Provider(c) == \E n \in Amounts : Answer(c, n) \/ Fail(c, n)

Next ==
    \/ Notify \/ PauseEnds
    \/ \E c \in Calls : Step(c) \/ Provider(c) \/ GiveUp(c) \/ (\E n \in Amounts : Cancel(c, n))

Spec == Init /\ [][Next]_vars

\* The event loop runs what is ready, sleeps end, and a provider answers or
\* the time of the call is up.
Fairness ==
    /\ WF_vars(Notify)
    /\ \A c \in Calls : WF_vars(Step(c)) /\ WF_vars(Provider(c))
FairSpec == Spec /\ Fairness

----------------------------------------------------------------------------
(* Properties                                                               *)

Holders == {c \in Calls : pc[c] \in {"slot", "calling"}}

\* The variables keep to their types, and the slots in use are those of the
\* calls that hold one: none is lost to a failure, a cancellation or a
\* refused budget.
TypeOK ==
    /\ pc \in [Calls -> Over \cup {"start", "asleep", "queue", "waiting", "slot", "calling", "pausing"}]
    /\ attempt \in [Calls -> 1..MaxAttempts]
    /\ active = Cardinality(Holders)
    /\ limit \in Budgets \cup {0}
    /\ blocked \in BOOLEAN /\ notifying \in BOOLEAN
    /\ requests \in 0..RequestLimit
    /\ tokens \in Nat
    /\ known \in [Calls -> BOOLEAN]
    /\ {total, events, sent, charged} \subseteq [Calls -> Nat]

\* A call that waits for a slot is woken: somebody holds one, or is about to
\* wake it.  The limit itself may rise while nobody holds a slot.
NoLostWakeUp == \A c \in Calls : pc[c] = "waiting" => active > 0 \/ notifying

\* Requests of all the tasks of a job, retries too, are within its budget.
RequestBudgetHolds == MapThenSumSet(LAMBDA c : sent[c], Calls) <= RequestLimit

\* A total that is used to settle a reservation is all the provider charged.
KnownTotalsAreExact == \A c \in Calls : known[c] => total[c] = charged[c]

\* Every request that reached the provider has one usage event, unless its
\* call was cancelled.
EveryRequestIsRecorded ==
    \A c \in Calls :
        pc[c] \in {"done", "failed", "pausing"} => events[c] = sent[c]

\* The requests reserved are those sent, each call but one that was cancelled
\* has recorded all it sent but the one under way, and a retry is left to one
\* that pauses.
Accounted ==
    /\ requests = MapThenSumSet(LAMBDA c : sent[c], Calls)
    /\ \A c \in Calls :
          /\ pc[c] = "calling" => sent[c] = events[c] + 1
          /\ pc[c] \notin {"calling", "cancelled"} => sent[c] = events[c]
          /\ pc[c] = "pausing" => attempt[c] < MaxAttempts

\* What every step preserves.
Inv == TypeOK /\ NoLostWakeUp /\ KnownTotalsAreExact /\ Accounted

\* Every call comes to an end while others take the slots.
CallsEnd == \A c \in Calls : <>(pc[c] \in Over)
============================================================================
