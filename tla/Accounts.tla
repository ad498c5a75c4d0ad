----------------------------- MODULE Accounts -----------------------------
(***************************************************************************)
(* The local account of one mailbox: links for verification and password   *)
(* reset, and signing in.  Every operation is a database transaction under *)
(* READ COMMITTED; rows read FOR UPDATE stay locked until it ends.  A sign *)
(* in opens a second transaction while its own holds the row of the        *)
(* credential, so connections of the pool are modelled as well.            *)
(***************************************************************************)
EXTENDS Integers, FiniteSets

CONSTANTS
    Requests,
    Passwords,
    Tokens,       \* links; one is drawn for each request of a link
    None,
    Connections   \* of the pool

\* What the constants are assumed to be.
AccountsAssumption ==
    /\ IsFiniteSet(Requests)
    /\ Connections \in Nat \ {0}
    /\ None \notin Requests \cup Passwords \cup Tokens

VARIABLES
    credential, \* the password of the account, or None before verification
    enabled,    \* the account is not disabled
    challenge,  \* challenge[p]: token and password of the valid link, or None
    mailed,     \* mailed[t]: purpose and password asked for with link t, or None
    session,    \* session[r]: the session that sign-in r made, or None
    locked,     \* locked[row]: the request that holds the row, or None
    pc,         \* pc[r]: where request r is
    wish        \* wish[r]: purpose, token and password of request r

vars == <<credential, enabled, challenge, mailed, session, locked, pc, wish>>

Purposes == {"verify", "reset"}
Rows == {"challenge", "credential"}
NoWish == [purpose |-> None, token |-> None, password |-> None]

\* Connections in use: one of each open transaction, and the second of a sign-in.
Used == Cardinality({r \in Requests : pc[r] \notin {"idle", "login", "link", "confirm"}})
        + Cardinality({r \in Requests : pc[r] = "account"})

Connect == Used < Connections

Go(r, place) == pc' = [pc EXCEPT ![r] = place]

\* The transaction ends: its locks and connections are free.
End(r) ==
    /\ pc' = [pc EXCEPT ![r] = "idle"]
    /\ wish' = [wish EXCEPT ![r] = NoWish]

Unlocked(r) == [row \in Rows |-> IF locked[row] = r THEN None ELSE locked[row]]

----------------------------------------------------------------------------
\* Register or ask for a reset; a registration carries the password.
AskForLink(r, p, t, w) ==
    /\ pc[r] = "idle"
    /\ mailed[t] = None
    /\ \A q \in Requests : wish[q].token # t
    /\ wish' = [wish EXCEPT ![r] = [purpose |-> p, token |-> t,
                                    password |-> IF p = "verify" THEN w ELSE None]]
    /\ Go(r, "link")
    /\ UNCHANGED <<credential, enabled, challenge, mailed, session, locked>>

\* The credential is read without a lock.
BeginLink(r) ==
    /\ pc[r] = "link"
    /\ Connect
    /\ IF (wish[r].purpose = "verify") <=> (credential # None)
       THEN End(r)
       ELSE Go(r, "linking") /\ UNCHANGED wish
    /\ UNCHANGED <<credential, enabled, challenge, mailed, session, locked>>

\* A mutant: a link that exists keeps the password of its first request.
WriteLinkOnce(r) ==
    /\ pc[r] = "linking"
    /\ locked["challenge"] = None
    /\ challenge' = [challenge EXCEPT ![wish[r].purpose] =
                       [token |-> wish[r].token,
                        password |-> IF @ = None THEN wish[r].password ELSE @.password]]
    /\ \/ mailed' = [mailed EXCEPT ![wish[r].token] =
                       [purpose |-> wish[r].purpose, password |-> wish[r].password]]
       \/ UNCHANGED mailed
    /\ End(r)
    /\ UNCHANGED <<credential, enabled, session, locked>>

\* One row for each purpose: a new link replaces the one before.  The mail is
\* sent after the transaction, and may fail.
WriteLink(r) ==
    /\ pc[r] = "linking"
    /\ locked["challenge"] = None
    /\ challenge' = [challenge EXCEPT ![wish[r].purpose] =
                       [token |-> wish[r].token, password |-> wish[r].password]]
    /\ \/ mailed' = [mailed EXCEPT ![wish[r].token] =
                       [purpose |-> wish[r].purpose, password |-> wish[r].password]]
       \/ UNCHANGED mailed
    /\ End(r)
    /\ UNCHANGED <<credential, enabled, session, locked>>

\* Thirty minutes pass.
Expire(p) ==
    /\ challenge[p] # None
    /\ locked["challenge"] = None
    /\ challenge' = [challenge EXCEPT ![p] = None]
    /\ UNCHANGED <<credential, enabled, mailed, session, locked, pc, wish>>

----------------------------------------------------------------------------
\* The learner opens a link; the page of a reset asks for a new password.
OpenLink(r, t, w) ==
    /\ pc[r] = "idle"
    /\ mailed[t] # None
    /\ wish' = [wish EXCEPT ![r] = [purpose |-> mailed[t].purpose, token |-> t,
                                    password |-> IF mailed[t].purpose = "reset" THEN w ELSE None]]
    /\ Go(r, "confirm")
    /\ UNCHANGED <<credential, enabled, challenge, mailed, session, locked>>

BeginConfirm(r) ==
    /\ pc[r] = "confirm"
    /\ Connect
    /\ Go(r, "confirming")
    /\ UNCHANGED <<credential, enabled, challenge, mailed, session, locked, wish>>

\* The row is looked up by the token; a replaced, used or expired link has none.
LockChallenge(r) ==
    LET current == challenge[wish[r].purpose]
    IN /\ pc[r] = "confirming"
       /\ locked["challenge"] = None
       /\ IF current = None \/ current.token # wish[r].token
          THEN End(r) /\ UNCHANGED locked
          ELSE /\ locked' = [locked EXCEPT !["challenge"] = r]
               /\ Go(r, "confirmed")
               /\ UNCHANGED wish
       /\ UNCHANGED <<credential, enabled, challenge, mailed, session>>

\* Neither a link for a registered mailbox nor one of a disabled account counts.
Refused(r) ==
    IF wish[r].purpose = "verify" THEN credential # None \/ ~enabled ELSE credential = None

\* A reset ends all sessions in the transaction that replaces the password.
Confirm(r) ==
    /\ pc[r] = "confirmed"
    /\ locked["credential"] = None
    /\ ~Refused(r)
    /\ credential' = IF wish[r].purpose = "verify"
                     THEN challenge["verify"].password ELSE wish[r].password
    /\ session' = IF wish[r].purpose = "verify" THEN session
                  ELSE [q \in Requests |-> IF session[q] = None THEN None
                                           ELSE [session[q] EXCEPT !.live = FALSE]]
    /\ challenge' = [challenge EXCEPT ![wish[r].purpose] = None]
    /\ locked' = Unlocked(r)
    /\ End(r)
    /\ UNCHANGED <<enabled, mailed>>

RefuseLink(r) ==
    /\ pc[r] = "confirmed"
    /\ locked["credential"] = None
    /\ Refused(r)
    /\ locked' = Unlocked(r)
    /\ End(r)
    /\ UNCHANGED <<credential, enabled, challenge, mailed, session>>

----------------------------------------------------------------------------
SignIn(r, w) ==
    /\ pc[r] = "idle"
    /\ session[r] = None
    /\ wish' = [wish EXCEPT ![r] = [NoWish EXCEPT !.password = w]]
    /\ Go(r, "login")
    /\ UNCHANGED <<credential, enabled, challenge, mailed, session, locked>>

BeginSignIn(r) ==
    /\ pc[r] = "login"
    /\ Connect
    /\ Go(r, "signing")
    /\ UNCHANGED <<credential, enabled, challenge, mailed, session, locked, wish>>

\* The password is compared with the locked row.
LockCredential(r) ==
    /\ pc[r] = "signing"
    /\ locked["credential"] = None
    /\ IF credential # wish[r].password
       THEN End(r) /\ UNCHANGED locked
       ELSE /\ locked' = [locked EXCEPT !["credential"] = r]
            /\ Go(r, "verified")
            /\ UNCHANGED wish
    /\ UNCHANGED <<credential, enabled, challenge, mailed, session>>

\* The account is read in a transaction of its own: a second connection.
ReadAccount(r) ==
    /\ pc[r] = "verified"
    /\ Connect
    /\ Go(r, "account")
    /\ UNCHANGED <<credential, enabled, challenge, mailed, session, locked, wish>>

CreateSession(r) ==
    /\ pc[r] = "account"
    /\ IF enabled
       THEN Go(r, "issued") /\ UNCHANGED <<locked, wish>>
       ELSE End(r) /\ locked' = Unlocked(r)
    /\ UNCHANGED <<credential, enabled, challenge, mailed, session>>

CommitSignIn(r) ==
    /\ pc[r] = "issued"
    /\ session' = [session EXCEPT ![r] = [password |-> wish[r].password, live |-> TRUE]]
    /\ locked' = Unlocked(r)
    /\ End(r)
    /\ UNCHANGED <<credential, enabled, challenge, mailed>>

----------------------------------------------------------------------------
\* A platform administrator disables the account, then its sessions.
Disable ==
    /\ credential # None
    /\ enabled' = FALSE
    /\ UNCHANGED <<credential, challenge, mailed, session, locked, pc, wish>>

Revoke(q) ==
    /\ session[q] # None
    /\ session' = [session EXCEPT ![q].live = FALSE]
    /\ UNCHANGED <<credential, enabled, challenge, mailed, locked, pc, wish>>

\* The pool waits for a connection for 30 seconds only; the transaction that
\* asked for it is rolled back.
PoolTimeout(r) ==
    /\ pc[r] \in {"link", "confirm", "login", "verified"}
    /\ ~Connect
    /\ locked' = Unlocked(r)
    /\ End(r)
    /\ UNCHANGED <<credential, enabled, challenge, mailed, session>>

----------------------------------------------------------------------------
Init ==
    /\ credential = None
    /\ enabled = TRUE
    /\ challenge = [p \in Purposes |-> None]
    /\ mailed = [t \in Tokens |-> None]
    /\ session = [r \in Requests |-> None]
    /\ locked = [row \in Rows |-> None]
    /\ pc = [r \in Requests |-> "idle"]
    /\ wish = [r \in Requests |-> NoWish]

Serve(r) ==
    \/ BeginLink(r) \/ WriteLink(r)
    \/ BeginConfirm(r) \/ LockChallenge(r) \/ Confirm(r) \/ RefuseLink(r)
    \/ BeginSignIn(r) \/ LockCredential(r) \/ ReadAccount(r)
    \/ CreateSession(r) \/ CommitSignIn(r)

Next ==
    \/ \E r \in Requests :
         \/ \E p \in Purposes, t \in Tokens, w \in Passwords : AskForLink(r, p, t, w)
         \/ \E t \in Tokens, w \in Passwords : OpenLink(r, t, w)
         \/ \E w \in Passwords : SignIn(r, w)
         \/ Serve(r)
         \/ PoolTimeout(r)
         \/ Revoke(r)
    \/ \E p \in Purposes : Expire(p)
    \/ Disable

Spec == Init /\ [][Next]_vars

\* Threads run; Postgres gives a row lock that is free to one that waits, in
\* the order they came, and the pool gives its connections likewise.
Fairness ==
    \A r \in Requests :
         /\ SF_vars(\/ BeginLink(r) \/ BeginConfirm(r) \/ BeginSignIn(r)
                    \/ WriteLink(r) \/ LockChallenge(r) \/ LockCredential(r)
                    \/ Confirm(r) \/ RefuseLink(r) \/ ReadAccount(r))
         /\ WF_vars(CreateSession(r) \/ CommitSignIn(r))
         /\ WF_vars(PoolTimeout(r))
FairSpec == Spec /\ Fairness

----------------------------------------------------------------------------
Places == {"idle", "link", "linking", "confirm", "confirming", "confirmed",
           "login", "signing", "verified", "account", "issued"}

TypeOK ==
    /\ credential \in Passwords \cup {None}
    /\ enabled \in BOOLEAN
    /\ \A p \in Purposes : challenge[p] # None =>
         /\ challenge[p].token \in Tokens
         /\ challenge[p].password \in (IF p = "verify" THEN Passwords ELSE {None})
    /\ session \in [Requests -> {None} \cup [password : Passwords, live : BOOLEAN]]
    /\ locked \in [Rows -> Requests \cup {None}]
    /\ pc \in [Requests -> Places]
    /\ Used <= Connections

\* Every session that is not revoked was made with the password the account
\* has now, however a sign-in and a reset interleave (LocalAccounts.sign_in
\* holds the row the reset replaces).
SessionsHaveThePassword ==
    \A r \in Requests : session[r] # None /\ session[r].live => session[r].password = credential

\* The password of a verified account is the one given when the link that was
\* opened was asked for, not one of another registration of the mailbox
\* (LocalAccounts.challenge replaces token and password together).
LinkBringsItsPassword ==
    [][credential = None /\ credential' # None
         => \E r \in Requests :
              /\ pc[r] = "confirmed"
              /\ mailed[wish[r].token] # None
              /\ credential' = mailed[wish[r].token].password]_vars

\* A used link is spent: nobody holds a row of a link that is gone, and a
\* password set by a reset came through the newest link of the mailbox.
LinksAreSpent ==
    \A r \in Requests : pc[r] = "confirmed" =>
        /\ locked["challenge"] = r
        /\ challenge[wish[r].purpose] # None
        /\ challenge[wish[r].purpose].token = wish[r].token

Brought(p) == IF p = "verify" THEN Passwords ELSE {None}

\* What the functions of rows, mails and requests range over.
Shapes ==
    /\ challenge \in [Purposes -> [token : Tokens, password : Passwords \cup {None}] \cup {None}]
    /\ mailed \in [Tokens -> [purpose : Purposes, password : Passwords \cup {None}] \cup {None}]
    /\ wish \in [Requests -> [purpose : Purposes \cup {None}, token : Tokens \cup {None},
                             password : Passwords \cup {None}]]

\* A link that is asked for is mailed to nobody yet, and no two are the same.
Asking(r) == pc[r] \in {"link", "linking"}
LinksAreNew ==
    \A r \in Requests : Asking(r) =>
        /\ wish[r].purpose \in Purposes /\ wish[r].token \in Tokens
        /\ wish[r].password \in Brought(wish[r].purpose)
        /\ mailed[wish[r].token] = None
        /\ \A q \in Requests : Asking(q) /\ wish[q].token = wish[r].token => q = r

\* A link that is opened was mailed for its purpose; a reset has its password.
LinksAreMailed ==
    \A r \in Requests : pc[r] \in {"confirm", "confirming", "confirmed"} =>
        /\ wish[r].purpose \in Purposes /\ wish[r].token \in Tokens
        /\ mailed[wish[r].token] # None
        /\ mailed[wish[r].token].purpose = wish[r].purpose
        /\ wish[r].purpose = "reset" => wish[r].password \in Passwords

\* A valid link that was mailed carries the password of its mail.
LinksAgree ==
    \A p \in Purposes :
        LET t == challenge[p].token
        IN challenge[p] # None /\ mailed[t] # None /\ mailed[t].purpose = p
               => mailed[t].password = challenge[p].password

\* A row is locked by who works on it, and a sign-in that has compared its
\* password holds the row it compared.
RowsAreHeld ==
    \A r \in Requests :
        /\ pc[r] = "confirmed" <=> locked["challenge"] = r
        /\ pc[r] \in {"verified", "account", "issued"} <=> locked["credential"] = r
        /\ pc[r] \in {"login", "signing", "verified", "account", "issued"}
               => wish[r].password \in Passwords
        /\ pc[r] \in {"verified", "account", "issued"} => wish[r].password = credential

\* What every step preserves.
Inv ==
    /\ TypeOK /\ Shapes /\ LinksAreNew /\ LinksAreMailed /\ LinksAgree /\ RowsAreHeld
    /\ LinksAreSpent /\ SessionsHaveThePassword

\* Every request ends, also when each connection is held by a sign-in that
\* waits for a second one.
RequestsEnd == \A r \in Requests : pc[r] # "idle" ~> pc[r] = "idle"
=============================================================================
