----------------------------- MODULE Sessions -----------------------------
(***************************************************************************)
(* One session of a signed-in user and the cookie of the browser.  Each    *)
(* request reads the row of the session, may renew it, and commits later;  *)
(* a renewed session sends the cookie again, and the response may be lost. *)
(***************************************************************************)
EXTENDS Integers

CONSTANTS
    Requests,
    Ttl,         \* idle lifetime of a session
    Lifetimes,   \* absolute lifetimes an operator configures
    MaxTime      \* bound: the clock

\* What the constants are assumed to be.
SessionsAssumption ==
    /\ Ttl \in Nat \ {0}
    /\ Lifetimes \subseteq Nat
    /\ Lifetimes # {}
    /\ \A l \in Lifetimes : l >= Ttl
    /\ MaxTime \in Nat

VARIABLES
    now,
    lifetime, \* LECTUREPILOT_SESSION_MAX_LIFETIME_MINUTES of the running server
    expires,  \* the row of the session, created at 0
    revoked,
    cookie,   \* when the browser forgets the cookie
    used,     \* the last time a request was admitted
    pc,       \* pc[r]: where request r is
    read      \* read[r]: the row as it read it, and the expiry it computed

vars == <<now, lifetime, expires, revoked, cookie, used, pc, read>>

Lower(a, b) == IF a <= b THEN a ELSE b

----------------------------------------------------------------------------
Tick ==
    /\ now < MaxTime
    /\ now' = now + 1
    /\ UNCHANGED <<lifetime, expires, revoked, cookie, used, pc, read>>

Reconfigure(l) ==
    /\ lifetime' = l
    /\ UNCHANGED <<now, expires, revoked, cookie, used, pc, read>>

EffectiveExpiry == Lower(expires, lifetime)

\* Renewed once half of the idle lifetime has passed.
Renewed ==
    LET renewed == Lower(now + Ttl, lifetime)
    IN IF 2 * (expires - now) > Ttl \/ renewed <= expires THEN expires ELSE renewed

\* The browser sends the cookie while it keeps it.
Authenticate(r) ==
    /\ pc[r] = "idle"
    /\ now < cookie
    /\ ~revoked
    /\ now < EffectiveExpiry
    /\ used' = now
    /\ read' = [read EXCEPT ![r] = [at |-> now, renew |-> Renewed # expires, expires |-> Renewed]]
    /\ pc' = [pc EXCEPT ![r] = "read"]
    /\ UNCHANGED <<now, lifetime, expires, revoked, cookie>>

\* A mutant: the row is written as it was read.
CommitRow(r) ==
    /\ pc[r] = "read"
    /\ read[r].at = now
    /\ expires' = read[r].expires
    /\ revoked' = FALSE
    /\ pc' = [pc EXCEPT ![r] = IF read[r].renew THEN "cookie" ELSE "idle"]
    /\ UNCHANGED <<now, lifetime, cookie, used, read>>

\* A commit writes the expiry only; a request takes less than a tick for it.
Commit(r) ==
    /\ pc[r] = "read"
    /\ read[r].at = now
    /\ expires' = IF read[r].renew THEN read[r].expires ELSE expires
    /\ pc' = [pc EXCEPT ![r] = IF read[r].renew THEN "cookie" ELSE "idle"]
    /\ UNCHANGED <<now, lifetime, revoked, cookie, used, read>>

\* The response renews the cookie for the idle lifetime.
Respond(r) ==
    /\ pc[r] = "cookie"
    /\ cookie' = now + Ttl
    /\ pc' = [pc EXCEPT ![r] = "idle"]
    /\ UNCHANGED <<now, lifetime, expires, revoked, used, read>>

LoseResponse(r) ==
    /\ pc[r] = "cookie"
    /\ pc' = [pc EXCEPT ![r] = "idle"]
    /\ UNCHANGED <<now, lifetime, expires, revoked, cookie, used, read>>

\* Logging out, a password reset and the disabling of the account.
Revoke ==
    /\ ~revoked
    /\ revoked' = TRUE
    /\ UNCHANGED <<now, lifetime, expires, cookie, used, pc, read>>

----------------------------------------------------------------------------
Init ==
    /\ now = 0
    /\ lifetime \in Lifetimes
    /\ expires = Ttl
    /\ revoked = FALSE
    /\ cookie = Ttl
    /\ used = 0
    /\ pc = [r \in Requests |-> "idle"]
    /\ read = [r \in Requests |-> [at |-> 0, renew |-> FALSE, expires |-> Ttl]]

\* Time passes only when no transaction is open.
Next ==
    \/ Tick /\ \A r \in Requests : pc[r] # "read"
    \/ \E l \in Lifetimes : Reconfigure(l)
    \/ Revoke
    \/ \E r \in Requests : Authenticate(r) \/ Commit(r) \/ Respond(r) \/ LoseResponse(r)

Spec == Init /\ [][Next]_vars

----------------------------------------------------------------------------
TypeOK ==
    /\ now \in 0..MaxTime
    /\ lifetime \in Lifetimes
    /\ \E l \in Lifetimes : expires \in Ttl..l
    /\ revoked \in BOOLEAN
    /\ cookie \in Nat
    /\ used \in 0..now
    /\ pc \in [Requests -> {"idle", "read", "cookie"}]

\* The row after a request in time: it is far from its end, or was renewed.
Kept == 2 * (expires - used) > Ttl \/ expires = Lower(used + Ttl, lifetime)

\* What a request read, and computed from it.
ReadsAreTyped ==
    /\ read \in [Requests -> [at : Nat, renew : BOOLEAN, expires : Nat]]
    /\ \A r \in Requests : \E l \in Lifetimes : read[r].expires \in Ttl..l

\* The row is kept by now, or a request that renews it is about to commit.
RenewalsAreDue ==
    /\ expires <= Lower(used + Ttl, lifetime)
    /\ (\A r \in Requests : pc[r] # "read") => Kept
    /\ \A r \in Requests : pc[r] = "read" =>
          /\ used = now
          /\ IF read[r].renew THEN read[r].expires = Lower(used + Ttl, lifetime) ELSE Kept

\* What every step preserves; the renewals while the lifetime is not changed.
TypesInv == TypeOK /\ ReadsAreTyped
LiveInv == TypesInv /\ RenewalsAreDue

\* No request is admitted once the absolute lifetime is over, also when the
\* server was started again with a shorter one than the row was written under.
NoneAfterLifetime == [][used' # used => now < lifetime]_vars

\* The row of a revoked session stays revoked, whatever requests that read it
\* before commit (SessionStore.authenticate against revoke_user).
RevocationStays == [][revoked => revoked']_vars

\* Who makes a request in every half of the idle lifetime is not signed out
\* before the absolute lifetime is over (_refresh_if_needed).
ActiveSessionsLive ==
    /\ \A r \in Requests : pc[r] # "read"
    /\ 2 * (now - used) <= Ttl
    => Lower(now + 1, lifetime) <= expires

\* What tenancy-security.md says of cookie sessions: they renew after half of
\* their idle lifetime.  A lost response leaves the cookie behind the row.
CookieLivesWithSession ==
    /\ \A r \in Requests : pc[r] = "idle"
    /\ 2 * (now - used) <= Ttl
    /\ now < lifetime
    => now < cookie
=============================================================================
