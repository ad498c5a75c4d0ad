--------------------------- MODULE UsageQuota ---------------------------
(***************************************************************************)
(* The daily quota of one user in one course.  A turn of the tutor, a      *)
(* grading or an exam generation reserves tokens with one SQL statement    *)
(* that runs in a worker thread, calls the model, and settles its          *)
(* reservation with what the provider reported.  A tutor turn also takes a *)
(* slot of the concurrent turns and may make images.  The request may be   *)
(* cancelled at every await, the process may die, and the day may change.  *)
(***************************************************************************)
EXTENDS Integers, FiniteSets, FiniteSetsExt

CONSTANTS
    Turns,            \* requests
    None,
    TurnsPerDay, TokensPerDay, ImagesPerDay, ConcurrentTurns,
    Reservations,     \* token amounts that are reserved
    Reported,         \* token amounts a provider reports for one call
    LastDay,          \* bound: days
    MaxCrashes        \* bound

\* What the constants are assumed to be.
QuotaAssumption ==
    /\ {TurnsPerDay, TokensPerDay, ImagesPerDay, ConcurrentTurns, LastDay} \subseteq Nat \ {0}
    /\ MaxCrashes \in Nat
    /\ Reservations \subseteq Nat /\ Reported \subseteq Nat
    /\ IsFiniteSet(Turns)
    /\ None \notin Nat
    /\ None \notin [turns : Nat, reserved : Nat, images : Nat, active : Nat]

Days == 1..LastDay
Kinds == {"tutor", "background"}   \* a background job takes no concurrent slot

VARIABLES
    today,
    counter,  \* counter[d]: the row of day d, or None
    pc,       \* pc[t]: where request t is
    turn,     \* turn[t]: its kind, day, reservation, and the tokens used so far
    imageDay, \* imageDay[t]: the day an image was counted on, or None
    crashes,
    lost,     \* history: lost[d]: what nobody will settle: slots, tokens
    settled,  \* history: settled[d]: tokens charged for requests that are over
    images    \* history: images[d]: images made

vars == <<today, counter, pc, turn, imageDay, crashes, lost, settled, images>>

Concurrent(t) == IF turn[t].kind = "tutor" THEN 1 ELSE 0
Day(t) == turn[t].day
AtLeast0(n) == IF n > 0 THEN n ELSE 0

----------------------------------------------------------------------------
\* The first statement of a day inserts the row, the others update it under
\* the conditions of the quota.
Admits(t) ==
    /\ turn[t].reservation <= TokensPerDay
    /\ counter[Day(t)] # None =>
          /\ counter[Day(t)].turns < TurnsPerDay
          /\ counter[Day(t)].reserved + turn[t].reservation <= TokensPerDay
          /\ turn[t].kind = "tutor" => counter[Day(t)].active < ConcurrentTurns

Charged(row, t) ==
    IF row = None
    THEN [turns |-> 1, reserved |-> turn[t].reservation, images |-> 0, active |-> Concurrent(t)]
    ELSE [row EXCEPT !.turns = @ + 1, !.reserved = @ + turn[t].reservation,
                     !.active = @ + Concurrent(t)]

\* The day and the reservation are fixed before the thread starts.
Begin(t, kind, n) ==
    /\ pc[t] = "idle"
    /\ turn' = [turn EXCEPT ![t] = [kind |-> kind, day |-> today, reservation |-> n,
                                    used |-> 0, known |-> TRUE]]
    /\ pc' = [pc EXCEPT ![t] = "reserving"]
    /\ UNCHANGED <<today, counter, imageDay, crashes, lost, settled, images>>

Reserve(t) ==
    /\ pc[t] = "reserving"
    /\ Admits(t)
    /\ counter' = [counter EXCEPT ![Day(t)] = Charged(@, t)]
    /\ pc' = [pc EXCEPT ![t] = "running"]
    /\ UNCHANGED <<today, turn, imageDay, crashes, lost, settled, images>>

Refused(t) ==
    /\ pc[t] \in {"reserving", "orphaned"}
    /\ ~Admits(t)
    /\ pc' = [pc EXCEPT ![t] = "idle"]
    /\ UNCHANGED <<today, counter, turn, imageDay, crashes, lost, settled, images>>

\* The client goes away while the thread is in the database: the request is
\* over and the thread is not.
CancelReserving(t) ==
    /\ pc[t] = "reserving"
    /\ pc' = [pc EXCEPT ![t] = "orphaned"]
    /\ UNCHANGED <<today, counter, turn, imageDay, crashes, lost, settled, images>>

Lose(d, slots, tokens) ==
    lost' = [lost EXCEPT ![d] = [slots |-> @.slots + slots, tokens |-> @.tokens + tokens]]

ReserveForNobody(t) ==
    /\ pc[t] = "orphaned"
    /\ Admits(t)
    /\ counter' = [counter EXCEPT ![Day(t)] = Charged(@, t)]
    /\ Lose(Day(t), Concurrent(t), turn[t].reservation)
    /\ pc' = [pc EXCEPT ![t] = "idle"]
    /\ UNCHANGED <<today, turn, imageDay, crashes, settled, images>>

----------------------------------------------------------------------------
\* A provider reports its tokens, or the call fails or is cancelled after it
\* was sent: then the total is not known any more.
Call(t) ==
    /\ pc[t] = "running"
    /\ turn[t].used = 0 /\ turn[t].known
    /\ \/ \E n \in Reported : turn' = [turn EXCEPT ![t].used = n]
       \/ turn' = [turn EXCEPT ![t].known = FALSE]
    /\ UNCHANGED <<today, counter, pc, imageDay, crashes, lost, settled, images>>

\* Mutant: the default reservation is refunded instead of the one taken.
RefundDefault(t) ==
    IF turn[t].known THEN Max(Reservations) - turn[t].used ELSE 0

Refund(t) ==
    IF turn[t].known THEN turn[t].reservation - turn[t].used ELSE 0

\* Settled in a finally, whether the turn ended, failed or was cancelled.
Release(t) ==
    /\ pc[t] = "running"
    /\ LET row == counter[Day(t)] IN
       /\ counter' = [counter EXCEPT ![Day(t)] =
              [row EXCEPT !.active = AtLeast0(@ - Concurrent(t)),
                          !.reserved = AtLeast0(@ - Refund(t))]]
       /\ settled' = [settled EXCEPT ![Day(t)] =
              @ + IF turn[t].known THEN turn[t].used ELSE turn[t].reservation]
    /\ pc' = [pc EXCEPT ![t] = "idle"]
    /\ UNCHANGED <<today, turn, imageDay, crashes, lost, images>>

----------------------------------------------------------------------------
\* An image is counted on the day it is asked for, not on the turn's.
ConsumeImage(t) ==
    /\ pc[t] = "running" /\ turn[t].kind = "tutor"
    /\ counter[today] # None
    /\ counter[today].images < ImagesPerDay
    /\ counter' = [counter EXCEPT ![today].images = @ + 1]
    /\ imageDay' = [imageDay EXCEPT ![t] = today]
    /\ pc' = [pc EXCEPT ![t] = "imaging"]
    /\ UNCHANGED <<today, turn, crashes, lost, settled, images>>

ImageMade(t) ==
    /\ pc[t] = "imaging"
    /\ images' = [images EXCEPT ![imageDay[t]] = @ + 1]
    /\ imageDay' = [imageDay EXCEPT ![t] = None]
    /\ pc' = [pc EXCEPT ![t] = "running"]
    /\ UNCHANGED <<today, counter, turn, crashes, lost, settled>>

RefundImage(t) ==
    /\ pc[t] = "imaging"
    /\ counter' = IF counter[imageDay[t]].images > 0
                  THEN [counter EXCEPT ![imageDay[t]].images = @ - 1] ELSE counter
    /\ imageDay' = [imageDay EXCEPT ![t] = None]
    /\ pc' = [pc EXCEPT ![t] = "running"]
    /\ UNCHANGED <<today, turn, crashes, lost, settled, images>>

\* The request is cancelled while the image is made: nothing is refunded, and
\* the image may be made all the same.
AbandonImage(t) ==
    /\ pc[t] = "imaging"
    /\ \/ images' = [images EXCEPT ![imageDay[t]] = @ + 1]
       \/ UNCHANGED images
    /\ turn' = [turn EXCEPT ![t].known = FALSE]
    /\ imageDay' = [imageDay EXCEPT ![t] = None]
    /\ pc' = [pc EXCEPT ![t] = "running"]
    /\ UNCHANGED <<today, counter, crashes, lost, settled>>

----------------------------------------------------------------------------
NextDay ==
    /\ today < LastDay
    /\ today' = today + 1
    /\ UNCHANGED <<counter, pc, turn, imageDay, crashes, lost, settled, images>>

Holding(d) == {t \in Turns : pc[t] \in {"running", "imaging"} /\ Day(t) = d}
TutorTurns(T) == Cardinality({t \in T : turn[t].kind = "tutor"})
Outstanding(d) == MapThenSumSet(LAMBDA t : turn[t].reservation, Holding(d))

\* The rows are in the database; what the requests held is settled by nobody.
Crash ==
    /\ crashes < MaxCrashes
    /\ crashes' = crashes + 1
    /\ lost' = [d \in Days |-> [slots |-> lost[d].slots + TutorTurns(Holding(d)),
                                tokens |-> lost[d].tokens + Outstanding(d)]]
    /\ pc' = [t \in Turns |-> "idle"]
    /\ imageDay' = [t \in Turns |-> None]
    /\ UNCHANGED <<today, counter, turn, settled, images>>

Init ==
    /\ today = 1
    /\ counter = [d \in Days |-> None]
    /\ pc = [t \in Turns |-> "idle"]
    /\ turn = [t \in Turns |-> None]
    /\ imageDay = [t \in Turns |-> None]
    /\ crashes = 0
    /\ lost = [d \in Days |-> [slots |-> 0, tokens |-> 0]]
    /\ settled = [d \in Days |-> 0]
    /\ images = [d \in Days |-> 0]

Next ==
    \/ NextDay \/ Crash
    \/ \E t \in Turns :
          \/ \E kind \in Kinds, n \in Reservations : Begin(t, kind, n)
          \/ Reserve(t) \/ Refused(t) \/ CancelReserving(t) \/ ReserveForNobody(t)
          \/ Call(t) \/ Release(t)
          \/ ConsumeImage(t) \/ ImageMade(t) \/ RefundImage(t) \/ AbandonImage(t)

Spec == Init /\ [][Next]_vars

----------------------------------------------------------------------------
(* Properties                                                               *)

Row == [turns : 1..TurnsPerDay, reserved : Nat, images : Nat, active : Nat]
Request == [kind : Kinds, day : Days, reservation : Reservations,
            used : Reported \cup {0}, known : BOOLEAN]

\* Every variable keeps to its type; no column goes below zero, and the turns
\* of a day stay within the quota.
TypeOK ==
    /\ today \in Days
    /\ counter \in [Days -> Row \cup {None}]
    /\ pc \in [Turns -> {"idle", "reserving", "orphaned", "running", "imaging"}]
    /\ turn \in [Turns -> Request \cup {None}]
    /\ imageDay \in [Turns -> Days \cup {None}]
    /\ crashes \in 0..MaxCrashes
    /\ lost \in [Days -> [slots : Nat, tokens : Nat]]
    /\ settled \in [Days -> Nat]
    /\ images \in [Days -> Nat]

\* The slots counted on a day are those of the turns in progress and of those
\* nobody will ever release: none is given back twice, or to another turn.
SlotsAreAccounted ==
    \A d \in Days : counter[d] # None =>
        counter[d].active = TutorTurns(Holding(d)) + lost[d].slots

\* The tokens counted on a day are what the requests in progress reserved and
\* what the finished ones used, however kinds and amounts are mixed.
TokensAreAccounted ==
    \A d \in Days : counter[d] # None =>
        counter[d].reserved = Outstanding(d) + settled[d] + lost[d].tokens

\* No more turns of one day are in progress than the quota allows.
TurnsOfADay == \A d \in Days : TutorTurns(Holding(d)) <= ConcurrentTurns

\* No more images are made on a day than the quota allows, though a failed
\* one is refunded, perhaps after midnight.
ImagesOfADay == \A d \in Days : images[d] <= ImagesPerDay

\* A request that is under way knows its kind, day and reservation, and the
\* day of its image; a day without a row has nothing to account for.
Kept ==
    /\ \A t \in Turns :
          /\ pc[t] # "idle" => turn[t] \in Request
          /\ pc[t] = "imaging" <=> imageDay[t] # None
          /\ imageDay[t] # None => counter[imageDay[t]] # None
    /\ \A d \in Days : counter[d] = None =>
          /\ Holding(d) = {}
          /\ lost[d].slots = 0 /\ lost[d].tokens = 0 /\ settled[d] = 0 /\ images[d] = 0

\* An image that is being made is counted on the day it was asked for.
ImagesAreCounted ==
    \A d \in Days : counter[d] # None =>
        /\ counter[d].images <= ImagesPerDay
        /\ images[d] + Cardinality({t \in Turns : imageDay[t] = d}) <= counter[d].images

\* What every step preserves: types, the accounts, and the images.
TypesInv == TypeOK /\ Kept
Inv == TypesInv /\ SlotsAreAccounted /\ TokensAreAccounted /\ TurnsOfADay
ImageInv == TypesInv /\ ImagesAreCounted

\* "Postgres atomically enforces daily turn/token/image and concurrent-turn
\* quotas across workers and restarts." (docs/security-best-practices-report.md:112)
NoMoreTurnsAtOnce == TutorTurns(UNION {Holding(d) : d \in Days}) <= ConcurrentTurns
============================================================================
