-------------------------- MODULE ServicesProofs --------------------------
\* What the services for learners keep, for every number of requests, runs and
\* retained records, and every quota and budget.
EXTENDS MCServices, FiniteSetTheorems, SequenceTheorems, WellFoundedInduction, TLAPS

----------------------------------------------------------------------------
(* Sums over finite sets.                                                   *)

\* A set of numbers, and one of subsets of a finite set, has a least element.
LEMMA LeastNumber ==
    ASSUME NEW Bad \in SUBSET Nat, Bad # {}
    PROVE  \E n \in Bad : \A m \in Bad : n <= m
<1> DEFINE R == OpToRel(<, Nat)
<1>1. IsWellFoundedOn(R, Nat)
    BY NatLessThanWellFounded
<1>2. \A m, n \in Nat : m < n => <<m, n>> \in R
    BY DEF OpToRel
<1> HIDE DEF R
<1>3. \E n \in Bad : \A m \in Bad : ~(<<m, n>> \in R)
    BY <1>1, WFMin
<1>4. PICK n \in Bad : \A m \in Bad : ~(<<m, n>> \in R)
    BY <1>3
<1>5. ASSUME NEW m \in Bad PROVE n <= m
    <2>1. m \in Nat /\ n \in Nat /\ ~(<<m, n>> \in R)
        BY <1>4
    <2>2. ~(m < n)
        BY <1>2, <2>1
    <2>3. QED
        BY <2>1, <2>2
<1>6. QED
    BY <1>5

LEMMA LeastSubset ==
    ASSUME NEW S, IsFiniteSet(S), NEW Bad \in SUBSET (SUBSET S), Bad # {}
    PROVE  \E T \in Bad : \A U \in Bad : U \subseteq T => U = T
<1>1. Bad \subseteq FiniteSubsetsOf(S)
    BY FS_Subset DEF FiniteSubsetsOf
<1>2. \E T \in Bad : \A U \in Bad : ~(<<U, T>> \in StrictSubsetOrdering(S))
    BY <1>1, FS_StrictSubsetOrderingWellFounded, WFMin
<1>3. QED
    BY <1>2 DEF StrictSubsetOrdering

\* g[s] is the sum of f over s, for each part s of S.
Some(s) == CHOOSE x \in s : TRUE
Summed(g, f, S) ==
    g = [s \in SUBSET S |-> IF s = {} THEN 0 ELSE f[Some(s)] + g[s \ {Some(s)}]]

LEMMA SumExists ==
    ASSUME NEW S, IsFiniteSet(S), NEW f
    PROVE  \E g : Summed(g, f, S)
<1> DEFINE Small(n) == {s \in SUBSET S : Cardinality(s) <= n}
           Good(n) == \E g : g = [s \in Small(n) |-> IF s = {} THEN 0 ELSE f[Some(s)] + g[s \ {Some(s)}]]
           Bad == {n \in Nat : ~Good(n)}
<1>1. \A s \in SUBSET S : /\ IsFiniteSet(s) /\ Cardinality(s) \in Nat
                          /\ Cardinality(s) <= Cardinality(S)
                          /\ s # {} => Cardinality(s \ {Some(s)}) = Cardinality(s) - 1
                          /\ Cardinality(s) = 0 <=> s = {}
    BY FS_Subset, FS_CardinalityType, FS_RemoveElement, FS_EmptySet DEF Some
<1>2. Good(0)
    <2> DEFINE g == [s \in Small(0) |-> 0]
    <2>1. \A s \in Small(0) : s = {}
        <3>1. ASSUME NEW s \in Small(0) PROVE s = {}
            <4>1. s \in SUBSET S /\ Cardinality(s) <= 0
                BY <3>1
            <4>2. Cardinality(s) \in Nat /\ (Cardinality(s) = 0 <=> s = {})
                BY <1>1, <4>1
            <4>3. QED
                BY <4>1, <4>2
        <3>2. QED
            BY <3>1
    <2>2. g = [s \in Small(0) |-> IF s = {} THEN 0 ELSE f[Some(s)] + g[s \ {Some(s)}]]
        BY <2>1
    <2>3. QED
        BY <2>2
<1>3. ASSUME NEW n \in Nat, Good(n) PROVE Good(n + 1)
    <2>1. PICK g : g = [s \in Small(n) |-> IF s = {} THEN 0 ELSE f[Some(s)] + g[s \ {Some(s)}]]
        BY <1>3
    <2> DEFINE h == [s \in Small(n + 1) |-> IF s = {} THEN 0 ELSE f[Some(s)] + g[s \ {Some(s)}]]
    <2>2. ASSUME NEW s \in Small(n + 1), s # {}
          PROVE  s \ {Some(s)} \in Small(n) /\ s \ {Some(s)} \in Small(n + 1)
        <3>1. s \in SUBSET S /\ Cardinality(s) <= n + 1
            OBVIOUS
        <3> DEFINE u == s \ {Some(s)}
        <3>2. u \in SUBSET S /\ Cardinality(u) = Cardinality(s) - 1 /\ Cardinality(s) \in Nat
            BY <3>1, <2>2, <1>1
        <3>3. Cardinality(u) <= n /\ Cardinality(u) <= n + 1
            BY <3>1, <3>2
        <3>4. QED
            BY <3>2, <3>3
    <2>3. \A s \in Small(n) : s \in Small(n + 1) /\ h[s] = g[s]
        <3>1. ASSUME NEW s \in Small(n) PROVE s \in Small(n + 1)
            <4>1. s \in SUBSET S /\ Cardinality(s) <= n
                BY <3>1
            <4>2. Cardinality(s) \in Nat
                BY <1>1, <4>1
            <4>3. Cardinality(s) <= n + 1
                BY <4>1, <4>2
            <4>4. QED
                BY <4>1, <4>3
        <3>2. \A s \in Small(n) : g[s] = IF s = {} THEN 0 ELSE f[Some(s)] + g[s \ {Some(s)}]
            BY <2>1
        <3>3. QED
            BY <3>1, <3>2
    <2>4. \A s \in Small(n + 1) : h[s] = IF s = {} THEN 0 ELSE f[Some(s)] + h[s \ {Some(s)}]
        BY <2>2, <2>3
    <2>5. h = [s \in Small(n + 1) |-> IF s = {} THEN 0 ELSE f[Some(s)] + h[s \ {Some(s)}]]
        BY <2>4
    <2>6. QED
        BY <2>5
<1> HIDE DEF Good
<1>4. Bad = {}
    <2>1. SUFFICES ASSUME Bad # {} PROVE FALSE
        OBVIOUS
    <2>2. PICK n \in Bad : \A m \in Bad : n <= m
        BY <2>1, LeastNumber
    <2>3. n \in Nat /\ ~Good(n) /\ n # 0 /\ (n - 1 \in Nat => Good(n - 1))
        BY <1>2, <2>2
    <2>4. Good((n - 1) + 1)
        BY <1>3, <2>3
    <2>5. QED
        BY <2>3, <2>4
<1>5. Cardinality(S) \in Nat
    BY FS_CardinalityType
<1>6. Good(Cardinality(S))
    BY <1>4, <1>5
<1>7. Small(Cardinality(S)) = SUBSET S
    BY <1>1
<1>8. QED
    BY <1>6, <1>7 DEF Good, Summed

LEMMA SumSteps ==
    ASSUME NEW S, NEW f, NEW g, Summed(g, f, S)
    PROVE  /\ g[{}] = 0
           /\ \A s \in SUBSET S : s # {} => /\ Some(s) \in s
                                            /\ g[s] = f[Some(s)] + g[s \ {Some(s)}]
BY DEF Summed, Some

LEMMA SumIsNatural ==
    ASSUME NEW S, IsFiniteSet(S), NEW f, NEW g, Summed(g, f, S), \A x \in S : f[x] \in Nat
    PROVE  \A s \in SUBSET S : g[s] \in Nat
<1> DEFINE Bad == {u \in SUBSET S : g[u] \notin Nat}
<1>1. SUFFICES ASSUME Bad # {} PROVE FALSE
    OBVIOUS
<1>2. PICK T \in Bad : \A U \in Bad : U \subseteq T => U = T
    <2>1. Bad \in SUBSET (SUBSET S)
        OBVIOUS
    <2> HIDE DEF Bad
    <2>2. QED
        BY <1>1, <2>1, LeastSubset
<1>3. T # {} /\ Some(T) \in T /\ g[T] = f[Some(T)] + g[T \ {Some(T)}]
    <2>1. T \in SUBSET S /\ g[T] \notin Nat
        BY <1>2
    <2>2. g[{}] = 0
        BY SumSteps
    <2>3. T # {}
        BY <2>1, <2>2
    <2>4. QED
        BY <2>1, <2>3, SumSteps
<1>4. T \ {Some(T)} \in SUBSET S /\ g[T \ {Some(T)}] \in Nat
    BY <1>2, <1>3
<1>5. QED
    BY <1>2, <1>3, <1>4

\* The sum depends on what is summed alone.
LEMMA SumsAgree ==
    ASSUME NEW S, IsFiniteSet(S), NEW f, NEW g, Summed(g, f, S),
           NEW R, NEW e, NEW h, Summed(h, e, R),
           NEW s \in SUBSET S, s \subseteq R, \A x \in s : f[x] = e[x]
    PROVE  g[s] = h[s]
<1> DEFINE Bad == {u \in SUBSET s : g[u] # h[u]}
<1>1. SUFFICES ASSUME Bad # {} PROVE FALSE
    OBVIOUS
<1>2. IsFiniteSet(s)
    BY FS_Subset
<1>3. PICK T \in Bad : \A U \in Bad : U \subseteq T => U = T
    <2>1. Bad \in SUBSET (SUBSET s)
        OBVIOUS
    <2> HIDE DEF Bad
    <2>2. QED
        BY <1>1, <1>2, <2>1, LeastSubset
<1>4. T # {} /\ T \subseteq S /\ T \subseteq R
    BY <1>3, SumSteps
<1>5. /\ Some(T) \in T /\ g[T] = f[Some(T)] + g[T \ {Some(T)}]
      /\ h[T] = e[Some(T)] + h[T \ {Some(T)}]
    BY <1>4, SumSteps
<1>6. T \ {Some(T)} \in SUBSET s /\ g[T \ {Some(T)}] = h[T \ {Some(T)}]
    BY <1>3, <1>5
<1>7. QED
    BY <1>3, <1>5, <1>6

\* It does not depend on the order.
LEMMA SumWithout ==
    ASSUME NEW S, IsFiniteSet(S), NEW f, NEW g, Summed(g, f, S), \A x \in S : f[x] \in Nat
    PROVE  \A s \in SUBSET S : \A t \in s : g[s] = f[t] + g[s \ {t}]
<1> DEFINE Bad == {u \in SUBSET S : \E y \in u : g[u] # f[y] + g[u \ {y}]}
<1>1. SUFFICES ASSUME Bad # {} PROVE FALSE
    OBVIOUS
<1>2. PICK T \in Bad : \A U \in Bad : U \subseteq T => U = T
    <2>1. Bad \in SUBSET (SUBSET S)
        OBVIOUS
    <2> HIDE DEF Bad
    <2>2. QED
        BY <1>1, <2>1, LeastSubset
<1>3. PICK y \in T : g[T] # f[y] + g[T \ {y}]
    BY <1>2
<1> DEFINE x == Some(T)
<1>4. T \in SUBSET S /\ x \in T /\ y \in T /\ g[T] = f[x] + g[T \ {x}] /\ x # y
    <2>1. T \in SUBSET S /\ T # {}
        BY <1>2, <1>3
    <2>2. x \in T /\ g[T] = f[x] + g[T \ {x}]
        BY <2>1, SumSteps
    <2> HIDE DEF x
    <2>3. QED
        BY <1>3, <2>1, <2>2
<1> HIDE DEF x
<1> DEFINE u == (T \ {x}) \ {y}
<1>5. g[T \ {x}] = f[y] + g[u]
    BY <1>2, <1>4
<1>6. g[T \ {y}] = f[x] + g[u]
    <2>1. T \ {y} \in SUBSET S /\ x \in T \ {y} /\ (T \ {y}) \ {x} = u /\ T \ {y} # T
        BY <1>4
    <2>2. T \ {y} \notin Bad
        BY <1>2, <2>1
    <2>3. QED
        BY <2>1, <2>2
<1>7. f[x] \in Nat /\ f[y] \in Nat /\ g[u] \in Nat
    <2>1. u \in SUBSET S
        BY <1>4
    <2>2. QED
        BY <1>4, <2>1, SumIsNatural
<1> HIDE DEF u
<1>8. QED
    BY <1>3, <1>4, <1>5, <1>6, <1>7

\* Of two sums that differ in one term.
LEMMA SumsDiffer ==
    ASSUME NEW S, IsFiniteSet(S),
           NEW f, NEW g, Summed(g, f, S), \A x \in S : f[x] \in Nat,
           NEW e, NEW h, Summed(h, e, S), \A x \in S : e[x] \in Nat,
           NEW c \in S, \A x \in S \ {c} : f[x] = e[x]
    PROVE  g[S] \in Nat /\ h[S] \in Nat /\ g[S] + e[c] = h[S] + f[c]
<1>1. g[S] = f[c] + g[S \ {c}]
    BY SumWithout
<1>2. h[S] = e[c] + h[S \ {c}]
    BY SumWithout
<1>3. g[S \ {c}] = h[S \ {c}]
    BY SumsAgree
<1>4. g[S] \in Nat /\ h[S] \in Nat /\ g[S \ {c}] \in Nat /\ f[c] \in Nat /\ e[c] \in Nat
    BY SumIsNatural
<1>5. QED
    BY <1>1, <1>2, <1>3, <1>4

LEMMA SumOfNothing ==
    ASSUME NEW S, IsFiniteSet(S), NEW f, NEW g, Summed(g, f, S), \A x \in S : f[x] = 0
    PROVE  g[S] = 0
<1> DEFINE Bad == {s \in SUBSET S : g[s] # 0}
<1>1. SUFFICES ASSUME Bad # {} PROVE FALSE
    OBVIOUS
<1>2. PICK T \in Bad : \A U \in Bad : U \subseteq T => U = T
    <2>1. Bad \in SUBSET (SUBSET S)
        OBVIOUS
    <2> HIDE DEF Bad
    <2>2. QED
        BY <1>1, <2>1, LeastSubset
<1>3. T \in SUBSET S /\ g[T] # 0
    BY <1>2
<1>4. g[{}] = 0
    BY SumSteps
<1>5. T # {}
    BY <1>3, <1>4
<1>6. Some(T) \in T /\ g[T] = f[Some(T)] + g[T \ {Some(T)}]
    BY <1>3, <1>5, SumSteps
<1>7. g[T \ {Some(T)}] = 0
    BY <1>2, <1>3, <1>6
<1>8. QED
    BY <1>3, <1>6, <1>7

----------------------------------------------------------------------------
(* Accounts.                                                                *)

LEMMA SignInConstants ==
    /\ IsFiniteSet(Pair) /\ Connections \in Nat \ {0}
    /\ None \notin Pair /\ None \notin Passwords /\ None \notin Tokens
BY SignInAssumption DEF SignIn!AccountsAssumption, SignIn!IsFiniteSet, IsFiniteSet

LEMMA SignInCount ==
    ASSUME NEW S
    PROVE  SignIn!Cardinality(S) = Cardinality(S)
BY DEF SignIn!Cardinality, Cardinality

\* Who has a connection, and who has a second one.
Waits == {"idle", "login", "link", "confirm"}
First(places) == {r \in Pair : places[r] \notin Waits}
Second(places) == {r \in Pair : places[r] = "account"}

LEMMA SignInUsed ==
    /\ SignIn!Used = Cardinality(First(accountPc)) + Cardinality(Second(accountPc))
    /\ SignIn!Used' = Cardinality(First(accountPc')) + Cardinality(Second(accountPc'))
BY SignInCount DEF SignIn!Used, First, Second, Waits

\* A request that takes a connection finds a free one.
LEMMA SignInMove ==
    ASSUME SignIn!TypeOK, NEW r \in Pair, NEW place \in SignIn!Places,
           accountPc' = [accountPc EXCEPT ![r] = place],
           \/ SignIn!Connect /\ accountPc[r] \in Waits /\ place # "account"
           \/ SignIn!Connect /\ accountPc[r] \notin Waits \cup {"account"}
           \/ place \in Waits
           \/ accountPc[r] \notin Waits /\ place # "account"
    PROVE  accountPc' \in [Pair -> SignIn!Places] /\ SignIn!Used' <= Connections
<1> DEFINE F == First(accountPc)
           S == Second(accountPc)
           G == First(accountPc')
           T == Second(accountPc')
<1>1. accountPc \in [Pair -> SignIn!Places] /\ accountPc' \in [Pair -> SignIn!Places]
    BY DEF SignIn!TypeOK
<1>2. /\ IsFiniteSet(F) /\ IsFiniteSet(S) /\ IsFiniteSet(G) /\ IsFiniteSet(T)
      /\ Cardinality(F) \in Nat /\ Cardinality(S) \in Nat
      /\ Cardinality(G) \in Nat /\ Cardinality(T) \in Nat
    <2>1. F \subseteq Pair /\ S \subseteq Pair /\ G \subseteq Pair /\ T \subseteq Pair
        BY DEF First, Second
    <2>2. QED
        BY <2>1, SignInConstants, FS_Subset, FS_CardinalityType
<1>3. Cardinality(F \cup {r}) = (IF r \in F THEN Cardinality(F) ELSE Cardinality(F) + 1)
    BY <1>2, FS_AddElement
<1>4. Cardinality(S \cup {r}) = (IF r \in S THEN Cardinality(S) ELSE Cardinality(S) + 1)
    BY <1>2, FS_AddElement
<1>5. Cardinality(F \ {r}) = (IF r \in F THEN Cardinality(F) - 1 ELSE Cardinality(F))
    BY <1>2, FS_RemoveElement
<1>6. Cardinality(S \ {r}) = (IF r \in S THEN Cardinality(S) - 1 ELSE Cardinality(S))
    BY <1>2, FS_RemoveElement
<1>7. /\ G = IF place \in Waits THEN F \ {r} ELSE F \cup {r}
      /\ T = IF place = "account" THEN S \cup {r} ELSE S \ {r}
    BY <1>1 DEF First, Second
<1>8. /\ r \in F <=> accountPc[r] \notin Waits
      /\ r \in S <=> accountPc[r] = "account"
      /\ "account" \notin Waits
    BY DEF First, Second, Waits
<1>9. /\ Cardinality(F) + Cardinality(S) <= Connections
      /\ SignIn!Connect => Cardinality(F) + Cardinality(S) < Connections
    BY SignInUsed DEF SignIn!TypeOK, SignIn!Connect
<1> HIDE DEF F, S, G, T
<1>10. Connections \in Nat
    BY SignInConstants
<1>11. Cardinality(G) + Cardinality(T) <= Connections
    BY <1>2, <1>3, <1>4, <1>5, <1>6, <1>7, <1>8, <1>9, <1>10
<1>12. QED
    BY <1>1, <1>11, SignInUsed DEF G, T

LEMMA SignInInit == SignIn!Init => SignIn!Inv
<1> SUFFICES ASSUME SignIn!Init PROVE SignIn!Inv
    OBVIOUS
<1>1. First(accountPc) = {} /\ Second(accountPc) = {}
    BY DEF SignIn!Init, First, Second, Waits
<1>2. SignIn!Used <= Connections
    BY <1>1, SignInUsed, SignInConstants, FS_EmptySet
<1>3. SignIn!TypeOK
    BY <1>2, SignInConstants DEF SignIn!Init, SignIn!TypeOK, SignIn!Places, SignIn!Rows, SignIn!Purposes
<1>4. SignIn!Shapes
    BY DEF SignIn!Init, SignIn!Shapes, SignIn!Purposes, SignIn!NoWish
<1>5. SignIn!LinksAreNew /\ SignIn!LinksAreMailed /\ SignIn!LinksAgree /\ SignIn!LinksAreSpent
      /\ SignIn!SessionsHaveThePassword
    BY DEF SignIn!Init, SignIn!LinksAreNew, SignIn!Asking, SignIn!LinksAreMailed, SignIn!LinksAgree,
        SignIn!LinksAreSpent, SignIn!SessionsHaveThePassword
<1>6. SignIn!RowsAreHeld
    BY SignInConstants DEF SignIn!Init, SignIn!RowsAreHeld, SignIn!Rows
<1>7. QED
    BY <1>3, <1>4, <1>5, <1>6 DEF SignIn!Inv

LEMMA SignInAskForLink ==
    ASSUME SignIn!Inv, NEW r \in Pair, NEW p \in SignIn!Purposes, NEW t \in Tokens,
           NEW w \in Passwords, SignIn!AskForLink(r, p, t, w)
    PROVE  SignIn!Inv'
<1>1. accountPc' \in [Pair -> SignIn!Places] /\ SignIn!Used' <= Connections
    BY SignInMove DEF SignIn!Inv, SignIn!AskForLink, SignIn!Go, SignIn!End, SignIn!Places, Waits
<1>2. SignIn!TypeOK'
    BY <1>1, SignInConstants DEF SignIn!Inv, SignIn!TypeOK, SignIn!Shapes, SignIn!Rows,
        SignIn!LinksAreNew, SignIn!Asking, SignIn!Brought, SignIn!LinksAreMailed,
        SignIn!RowsAreHeld, SignIn!LinksAreSpent, SignIn!Purposes, SignIn!AskForLink, SignIn!Go
<1>3. SignIn!Shapes'
    BY <1>1, SignInConstants DEF SignIn!Inv, SignIn!Shapes, SignIn!TypeOK, SignIn!LinksAreNew,
        SignIn!Asking, SignIn!Purposes, SignIn!Brought, SignIn!AskForLink, SignIn!Go
<1>4. SignIn!LinksAreNew'
    BY <1>1, SignInConstants DEF SignIn!Inv, SignIn!LinksAreNew, SignIn!Asking, SignIn!Shapes,
        SignIn!TypeOK, SignIn!Brought, SignIn!AskForLink, SignIn!Go
<1>5. SignIn!LinksAreMailed'
    BY <1>1, SignInConstants DEF SignIn!Inv, SignIn!LinksAreMailed, SignIn!Shapes, SignIn!TypeOK,
        SignIn!LinksAreNew, SignIn!Asking, SignIn!AskForLink, SignIn!Go
<1>6. SignIn!LinksAgree'
    BY <1>1, SignInConstants DEF SignIn!Inv, SignIn!LinksAgree, SignIn!Shapes, SignIn!TypeOK,
        SignIn!LinksAreNew, SignIn!Asking, SignIn!AskForLink, SignIn!Go
<1>7. SignIn!RowsAreHeld'
    BY <1>1, SignInConstants DEF SignIn!Inv, SignIn!RowsAreHeld, SignIn!Shapes, SignIn!TypeOK,
        SignIn!Rows, SignIn!AskForLink, SignIn!Go
<1>8. SignIn!LinksAreSpent'
    BY <1>1, SignInConstants DEF SignIn!Inv, SignIn!LinksAreSpent, SignIn!Shapes, SignIn!TypeOK,
        SignIn!RowsAreHeld, SignIn!Rows, SignIn!AskForLink, SignIn!Go
<1>9. SignIn!SessionsHaveThePassword'
    BY <1>1, SignInConstants DEF SignIn!Inv, SignIn!SessionsHaveThePassword, SignIn!TypeOK,
        SignIn!RowsAreHeld, SignIn!Shapes, SignIn!AskForLink, SignIn!Go
<1>10. QED
    BY <1>2, <1>3, <1>4, <1>5, <1>6, <1>7, <1>8, <1>9 DEF SignIn!Inv

LEMMA SignInBeginLink ==
    ASSUME SignIn!Inv, NEW r \in Pair, SignIn!BeginLink(r)
    PROVE  SignIn!Inv'
<1>1. accountPc' \in [Pair -> SignIn!Places] /\ SignIn!Used' <= Connections
    BY SignInMove DEF SignIn!Inv, SignIn!BeginLink, SignIn!Go, SignIn!End, SignIn!Places, Waits
<1>2. SignIn!TypeOK'
    BY <1>1, SignInConstants DEF SignIn!Inv, SignIn!TypeOK, SignIn!Shapes, SignIn!Rows,
        SignIn!LinksAreNew, SignIn!Asking, SignIn!Brought, SignIn!LinksAreMailed,
        SignIn!RowsAreHeld, SignIn!LinksAreSpent, SignIn!Purposes, SignIn!BeginLink, SignIn!Go,
        SignIn!End, SignIn!NoWish
<1>3. SignIn!Shapes'
    BY <1>1, SignInConstants DEF SignIn!Inv, SignIn!Shapes, SignIn!TypeOK, SignIn!LinksAreNew,
        SignIn!Asking, SignIn!Purposes, SignIn!Brought, SignIn!BeginLink, SignIn!Go, SignIn!End,
        SignIn!NoWish
<1>4. SignIn!LinksAreNew'
    <2>1. CASE (wish[r].purpose = "verify") <=> (credential # None)
        BY <1>1, <2>1, SignInConstants DEF SignIn!Inv, SignIn!LinksAreNew, SignIn!Asking,
            SignIn!Shapes, SignIn!TypeOK, SignIn!Brought, SignIn!BeginLink, SignIn!Go,
            SignIn!End, SignIn!NoWish
    <2>2. CASE ~((wish[r].purpose = "verify") <=> (credential # None))
        BY <1>1, <2>2, SignInConstants DEF SignIn!Inv, SignIn!LinksAreNew, SignIn!Asking,
            SignIn!Shapes, SignIn!TypeOK, SignIn!Brought, SignIn!BeginLink, SignIn!Go,
            SignIn!End, SignIn!NoWish
    <2>3. QED
        BY <2>1, <2>2
<1>5. SignIn!LinksAreMailed'
    BY <1>1, SignInConstants DEF SignIn!Inv, SignIn!LinksAreMailed, SignIn!Shapes, SignIn!TypeOK,
        SignIn!LinksAreNew, SignIn!Asking, SignIn!BeginLink, SignIn!Go, SignIn!End, SignIn!NoWish
<1>6. SignIn!LinksAgree'
    BY <1>1, SignInConstants DEF SignIn!Inv, SignIn!LinksAgree, SignIn!Shapes, SignIn!TypeOK,
        SignIn!LinksAreNew, SignIn!Asking, SignIn!BeginLink, SignIn!Go, SignIn!End, SignIn!NoWish
<1>7. SignIn!RowsAreHeld'
    BY <1>1, SignInConstants DEF SignIn!Inv, SignIn!RowsAreHeld, SignIn!Shapes, SignIn!TypeOK,
        SignIn!Rows, SignIn!BeginLink, SignIn!Go, SignIn!End, SignIn!NoWish
<1>8. SignIn!LinksAreSpent'
    BY <1>1, SignInConstants DEF SignIn!Inv, SignIn!LinksAreSpent, SignIn!Shapes, SignIn!TypeOK,
        SignIn!RowsAreHeld, SignIn!Rows, SignIn!BeginLink, SignIn!Go, SignIn!End, SignIn!NoWish
<1>9. SignIn!SessionsHaveThePassword'
    BY <1>1, SignInConstants DEF SignIn!Inv, SignIn!SessionsHaveThePassword, SignIn!TypeOK,
        SignIn!RowsAreHeld, SignIn!Shapes, SignIn!BeginLink, SignIn!Go, SignIn!End, SignIn!NoWish
<1>10. QED
    BY <1>2, <1>3, <1>4, <1>5, <1>6, <1>7, <1>8, <1>9 DEF SignIn!Inv

LEMMA SignInWriteLink ==
    ASSUME SignIn!Inv, NEW r \in Pair, SignIn!WriteLink(r)
    PROVE  SignIn!Inv'
<1>1. accountPc' \in [Pair -> SignIn!Places] /\ SignIn!Used' <= Connections
    BY SignInMove DEF SignIn!Inv, SignIn!WriteLink, SignIn!Go, SignIn!End, SignIn!Places, Waits
<1>2. SignIn!TypeOK'
    BY <1>1, SignInConstants DEF SignIn!Inv, SignIn!TypeOK, SignIn!Shapes, SignIn!Rows,
        SignIn!LinksAreNew, SignIn!Asking, SignIn!Brought, SignIn!LinksAreMailed,
        SignIn!RowsAreHeld, SignIn!LinksAreSpent, SignIn!Purposes, SignIn!WriteLink, SignIn!End,
        SignIn!NoWish
<1>3. SignIn!Shapes'
    BY <1>1, SignInConstants DEF SignIn!Inv, SignIn!Shapes, SignIn!TypeOK, SignIn!LinksAreNew,
        SignIn!Asking, SignIn!Purposes, SignIn!Brought, SignIn!WriteLink, SignIn!End, SignIn!NoWish
<1>4. SignIn!LinksAreNew'
    BY <1>1, SignInConstants DEF SignIn!Inv, SignIn!LinksAreNew, SignIn!Asking, SignIn!Shapes,
        SignIn!TypeOK, SignIn!Brought, SignIn!WriteLink, SignIn!End, SignIn!NoWish
<1>5. SignIn!LinksAreMailed'
    BY <1>1, SignInConstants DEF SignIn!Inv, SignIn!LinksAreMailed, SignIn!Shapes, SignIn!TypeOK,
        SignIn!LinksAreNew, SignIn!Asking, SignIn!WriteLink, SignIn!End, SignIn!NoWish
<1>6. SignIn!LinksAgree'
    BY <1>1, SignInConstants DEF SignIn!Inv, SignIn!LinksAgree, SignIn!Shapes, SignIn!TypeOK,
        SignIn!LinksAreNew, SignIn!Asking, SignIn!WriteLink, SignIn!End, SignIn!NoWish
<1>7. SignIn!RowsAreHeld'
    BY <1>1, SignInConstants DEF SignIn!Inv, SignIn!RowsAreHeld, SignIn!Shapes, SignIn!TypeOK,
        SignIn!Rows, SignIn!WriteLink, SignIn!End, SignIn!NoWish
<1>8. SignIn!LinksAreSpent'
    BY <1>1, SignInConstants DEF SignIn!Inv, SignIn!LinksAreSpent, SignIn!Shapes, SignIn!TypeOK,
        SignIn!RowsAreHeld, SignIn!Rows, SignIn!WriteLink, SignIn!End, SignIn!NoWish
<1>9. SignIn!SessionsHaveThePassword'
    BY <1>1, SignInConstants DEF SignIn!Inv, SignIn!SessionsHaveThePassword, SignIn!TypeOK,
        SignIn!RowsAreHeld, SignIn!Shapes, SignIn!WriteLink, SignIn!End, SignIn!NoWish
<1>10. QED
    BY <1>2, <1>3, <1>4, <1>5, <1>6, <1>7, <1>8, <1>9 DEF SignIn!Inv

LEMMA SignInOpenLink ==
    ASSUME SignIn!Inv, NEW r \in Pair, NEW t \in Tokens, NEW w \in Passwords, SignIn!OpenLink(r, t, w)
    PROVE  SignIn!Inv'
<1>1. accountPc' \in [Pair -> SignIn!Places] /\ SignIn!Used' <= Connections
    BY SignInMove DEF SignIn!Inv, SignIn!OpenLink, SignIn!Go, SignIn!End, SignIn!Places, Waits
<1>2. SignIn!TypeOK'
    BY <1>1, SignInConstants DEF SignIn!Inv, SignIn!TypeOK, SignIn!Shapes, SignIn!Rows,
        SignIn!LinksAreNew, SignIn!Asking, SignIn!Brought, SignIn!LinksAreMailed,
        SignIn!RowsAreHeld, SignIn!LinksAreSpent, SignIn!Purposes, SignIn!OpenLink, SignIn!Go
<1>3. SignIn!Shapes'
    BY <1>1, SignInConstants DEF SignIn!Inv, SignIn!Shapes, SignIn!TypeOK, SignIn!LinksAreNew,
        SignIn!Asking, SignIn!Purposes, SignIn!Brought, SignIn!OpenLink, SignIn!Go
<1>4. SignIn!LinksAreNew'
    BY <1>1, SignInConstants DEF SignIn!Inv, SignIn!LinksAreNew, SignIn!Asking, SignIn!Shapes,
        SignIn!TypeOK, SignIn!Brought, SignIn!OpenLink, SignIn!Go
<1>5. SignIn!LinksAreMailed'
    BY <1>1, SignInConstants DEF SignIn!Inv, SignIn!LinksAreMailed, SignIn!Shapes, SignIn!TypeOK,
        SignIn!LinksAreNew, SignIn!Asking, SignIn!OpenLink, SignIn!Go
<1>6. SignIn!LinksAgree'
    BY <1>1, SignInConstants DEF SignIn!Inv, SignIn!LinksAgree, SignIn!Shapes, SignIn!TypeOK,
        SignIn!LinksAreNew, SignIn!Asking, SignIn!OpenLink, SignIn!Go
<1>7. SignIn!RowsAreHeld'
    BY <1>1, SignInConstants DEF SignIn!Inv, SignIn!RowsAreHeld, SignIn!Shapes, SignIn!TypeOK,
        SignIn!Rows, SignIn!OpenLink, SignIn!Go
<1>8. SignIn!LinksAreSpent'
    BY <1>1, SignInConstants DEF SignIn!Inv, SignIn!LinksAreSpent, SignIn!Shapes, SignIn!TypeOK,
        SignIn!RowsAreHeld, SignIn!Rows, SignIn!OpenLink, SignIn!Go
<1>9. SignIn!SessionsHaveThePassword'
    BY <1>1, SignInConstants DEF SignIn!Inv, SignIn!SessionsHaveThePassword, SignIn!TypeOK,
        SignIn!RowsAreHeld, SignIn!Shapes, SignIn!OpenLink, SignIn!Go
<1>10. QED
    BY <1>2, <1>3, <1>4, <1>5, <1>6, <1>7, <1>8, <1>9 DEF SignIn!Inv

LEMMA SignInBeginConfirm ==
    ASSUME SignIn!Inv, NEW r \in Pair, SignIn!BeginConfirm(r)
    PROVE  SignIn!Inv'
<1>1. accountPc' \in [Pair -> SignIn!Places] /\ SignIn!Used' <= Connections
    BY SignInMove DEF SignIn!Inv, SignIn!BeginConfirm, SignIn!Go, SignIn!End, SignIn!Places, Waits
<1>2. SignIn!TypeOK'
    BY <1>1, SignInConstants DEF SignIn!Inv, SignIn!TypeOK, SignIn!Shapes, SignIn!Rows,
        SignIn!LinksAreNew, SignIn!Asking, SignIn!Brought, SignIn!LinksAreMailed,
        SignIn!RowsAreHeld, SignIn!LinksAreSpent, SignIn!Purposes, SignIn!BeginConfirm, SignIn!Go
<1>3. SignIn!Shapes'
    BY <1>1, SignInConstants DEF SignIn!Inv, SignIn!Shapes, SignIn!TypeOK, SignIn!LinksAreNew,
        SignIn!Asking, SignIn!Purposes, SignIn!Brought, SignIn!BeginConfirm, SignIn!Go
<1>4. SignIn!LinksAreNew'
    BY <1>1, SignInConstants DEF SignIn!Inv, SignIn!LinksAreNew, SignIn!Asking, SignIn!Shapes,
        SignIn!TypeOK, SignIn!Brought, SignIn!BeginConfirm, SignIn!Go
<1>5. SignIn!LinksAreMailed'
    BY <1>1, SignInConstants DEF SignIn!Inv, SignIn!LinksAreMailed, SignIn!Shapes, SignIn!TypeOK,
        SignIn!LinksAreNew, SignIn!Asking, SignIn!BeginConfirm, SignIn!Go
<1>6. SignIn!LinksAgree'
    BY <1>1, SignInConstants DEF SignIn!Inv, SignIn!LinksAgree, SignIn!Shapes, SignIn!TypeOK,
        SignIn!LinksAreNew, SignIn!Asking, SignIn!BeginConfirm, SignIn!Go
<1>7. SignIn!RowsAreHeld'
    BY <1>1, SignInConstants DEF SignIn!Inv, SignIn!RowsAreHeld, SignIn!Shapes, SignIn!TypeOK,
        SignIn!Rows, SignIn!BeginConfirm, SignIn!Go
<1>8. SignIn!LinksAreSpent'
    BY <1>1, SignInConstants DEF SignIn!Inv, SignIn!LinksAreSpent, SignIn!Shapes, SignIn!TypeOK,
        SignIn!RowsAreHeld, SignIn!Rows, SignIn!BeginConfirm, SignIn!Go
<1>9. SignIn!SessionsHaveThePassword'
    BY <1>1, SignInConstants DEF SignIn!Inv, SignIn!SessionsHaveThePassword, SignIn!TypeOK,
        SignIn!RowsAreHeld, SignIn!Shapes, SignIn!BeginConfirm, SignIn!Go
<1>10. QED
    BY <1>2, <1>3, <1>4, <1>5, <1>6, <1>7, <1>8, <1>9 DEF SignIn!Inv

LEMMA SignInLockChallenge ==
    ASSUME SignIn!Inv, NEW r \in Pair, SignIn!LockChallenge(r)
    PROVE  SignIn!Inv'
<1>1. accountPc' \in [Pair -> SignIn!Places] /\ SignIn!Used' <= Connections
    BY SignInMove DEF SignIn!Inv, SignIn!LockChallenge, SignIn!Go, SignIn!End, SignIn!Places, Waits
<1>2. SignIn!TypeOK'
    BY <1>1, SignInConstants DEF SignIn!Inv, SignIn!TypeOK, SignIn!Shapes, SignIn!Rows,
        SignIn!LinksAreNew, SignIn!Asking, SignIn!Brought, SignIn!LinksAreMailed,
        SignIn!RowsAreHeld, SignIn!LinksAreSpent, SignIn!Purposes, SignIn!LockChallenge, SignIn!Go,
        SignIn!End, SignIn!NoWish
<1>3. SignIn!Shapes'
    BY <1>1, SignInConstants DEF SignIn!Inv, SignIn!Shapes, SignIn!TypeOK, SignIn!LinksAreNew,
        SignIn!Asking, SignIn!Purposes, SignIn!Brought, SignIn!LockChallenge, SignIn!Go, SignIn!End,
        SignIn!NoWish
<1>4. SignIn!LinksAreNew'
    BY <1>1, SignInConstants DEF SignIn!Inv, SignIn!LinksAreNew, SignIn!Asking, SignIn!Shapes,
        SignIn!TypeOK, SignIn!Brought, SignIn!LockChallenge, SignIn!Go, SignIn!End, SignIn!NoWish
<1>5. SignIn!LinksAreMailed'
    BY <1>1, SignInConstants DEF SignIn!Inv, SignIn!LinksAreMailed, SignIn!Shapes, SignIn!TypeOK,
        SignIn!LinksAreNew, SignIn!Asking, SignIn!LockChallenge, SignIn!Go, SignIn!End,
        SignIn!NoWish
<1>6. SignIn!LinksAgree'
    BY <1>1, SignInConstants DEF SignIn!Inv, SignIn!LinksAgree, SignIn!Shapes, SignIn!TypeOK,
        SignIn!LinksAreNew, SignIn!Asking, SignIn!LockChallenge, SignIn!Go, SignIn!End,
        SignIn!NoWish
<1>7. SignIn!RowsAreHeld'
    BY <1>1, SignInConstants DEF SignIn!Inv, SignIn!RowsAreHeld, SignIn!Shapes, SignIn!TypeOK,
        SignIn!Rows, SignIn!LockChallenge, SignIn!Go, SignIn!End, SignIn!NoWish
<1>8. SignIn!LinksAreSpent'
    BY <1>1, SignInConstants DEF SignIn!Inv, SignIn!LinksAreSpent, SignIn!Shapes, SignIn!TypeOK,
        SignIn!RowsAreHeld, SignIn!Rows, SignIn!LockChallenge, SignIn!Go, SignIn!End, SignIn!NoWish
<1>9. SignIn!SessionsHaveThePassword'
    BY <1>1, SignInConstants DEF SignIn!Inv, SignIn!SessionsHaveThePassword, SignIn!TypeOK,
        SignIn!RowsAreHeld, SignIn!Shapes, SignIn!LockChallenge, SignIn!Go, SignIn!End,
        SignIn!NoWish
<1>10. QED
    BY <1>2, <1>3, <1>4, <1>5, <1>6, <1>7, <1>8, <1>9 DEF SignIn!Inv

LEMMA SignInConfirm ==
    ASSUME SignIn!Inv, NEW r \in Pair, SignIn!Confirm(r)
    PROVE  SignIn!Inv'
<1>1. accountPc' \in [Pair -> SignIn!Places] /\ SignIn!Used' <= Connections
    BY SignInMove DEF SignIn!Inv, SignIn!Confirm, SignIn!Go, SignIn!End, SignIn!Places, Waits
<1>2. SignIn!TypeOK'
    <2>1. session \in [Pair -> {None} \cup [password : Passwords, live : BOOLEAN]]
        BY DEF SignIn!Inv, SignIn!TypeOK
    <2>2. \A q \in Pair : session[q] # None => [session[q] EXCEPT !.live = FALSE] \in [password : Passwords, live : BOOLEAN]
        BY <2>1
    <2>3. session' \in [Pair -> {None} \cup [password : Passwords, live : BOOLEAN]]
        BY <2>1, <2>2 DEF SignIn!Confirm, SignIn!End, SignIn!Unlocked, SignIn!Refused, SignIn!NoWish
    <2>4. QED
        BY <1>1, <2>3, SignInConstants DEF SignIn!Inv, SignIn!TypeOK, SignIn!Shapes,
            SignIn!Rows, SignIn!LinksAreNew, SignIn!Asking, SignIn!Brought,
            SignIn!LinksAreMailed, SignIn!RowsAreHeld, SignIn!LinksAreSpent, SignIn!Purposes,
            SignIn!Confirm, SignIn!End, SignIn!Unlocked, SignIn!Refused, SignIn!NoWish
<1>3. SignIn!Shapes'
    BY <1>1, SignInConstants DEF SignIn!Inv, SignIn!Shapes, SignIn!TypeOK, SignIn!LinksAreNew,
        SignIn!Asking, SignIn!Purposes, SignIn!Brought, SignIn!Confirm, SignIn!End, SignIn!Unlocked,
        SignIn!Refused, SignIn!NoWish
<1>4. SignIn!LinksAreNew'
    BY <1>1, SignInConstants DEF SignIn!Inv, SignIn!LinksAreNew, SignIn!Asking, SignIn!Shapes,
        SignIn!TypeOK, SignIn!Brought, SignIn!Confirm, SignIn!End, SignIn!Unlocked, SignIn!Refused,
        SignIn!NoWish
<1>5. SignIn!LinksAreMailed'
    BY <1>1, SignInConstants DEF SignIn!Inv, SignIn!LinksAreMailed, SignIn!Shapes, SignIn!TypeOK,
        SignIn!LinksAreNew, SignIn!Asking, SignIn!Confirm, SignIn!End, SignIn!Unlocked,
        SignIn!Refused, SignIn!NoWish
<1>6. SignIn!LinksAgree'
    BY <1>1, SignInConstants DEF SignIn!Inv, SignIn!LinksAgree, SignIn!Shapes, SignIn!TypeOK,
        SignIn!LinksAreNew, SignIn!Asking, SignIn!Confirm, SignIn!End, SignIn!Unlocked,
        SignIn!Refused, SignIn!NoWish
<1>7. SignIn!RowsAreHeld'
    BY <1>1, SignInConstants DEF SignIn!Inv, SignIn!RowsAreHeld, SignIn!Shapes, SignIn!TypeOK,
        SignIn!Rows, SignIn!Confirm, SignIn!End, SignIn!Unlocked, SignIn!Refused, SignIn!NoWish
<1>8. SignIn!LinksAreSpent'
    BY <1>1, SignInConstants DEF SignIn!Inv, SignIn!LinksAreSpent, SignIn!Shapes, SignIn!TypeOK,
        SignIn!RowsAreHeld, SignIn!Rows, SignIn!Confirm, SignIn!End, SignIn!Unlocked,
        SignIn!Refused, SignIn!NoWish
<1>9. SignIn!SessionsHaveThePassword'
    BY <1>1, SignInConstants DEF SignIn!Inv, SignIn!SessionsHaveThePassword, SignIn!TypeOK,
        SignIn!RowsAreHeld, SignIn!Shapes, SignIn!Confirm, SignIn!End, SignIn!Unlocked,
        SignIn!Refused, SignIn!NoWish
<1>10. QED
    BY <1>2, <1>3, <1>4, <1>5, <1>6, <1>7, <1>8, <1>9 DEF SignIn!Inv

LEMMA SignInRefuseLink ==
    ASSUME SignIn!Inv, NEW r \in Pair, SignIn!RefuseLink(r)
    PROVE  SignIn!Inv'
<1>1. accountPc' \in [Pair -> SignIn!Places] /\ SignIn!Used' <= Connections
    BY SignInMove DEF SignIn!Inv, SignIn!RefuseLink, SignIn!Go, SignIn!End, SignIn!Places, Waits
<1>2. SignIn!TypeOK'
    BY <1>1, SignInConstants DEF SignIn!Inv, SignIn!TypeOK, SignIn!Shapes, SignIn!Rows,
        SignIn!LinksAreNew, SignIn!Asking, SignIn!Brought, SignIn!LinksAreMailed,
        SignIn!RowsAreHeld, SignIn!LinksAreSpent, SignIn!Purposes, SignIn!RefuseLink, SignIn!End,
        SignIn!Unlocked, SignIn!Refused, SignIn!NoWish
<1>3. SignIn!Shapes'
    BY <1>1, SignInConstants DEF SignIn!Inv, SignIn!Shapes, SignIn!TypeOK, SignIn!LinksAreNew,
        SignIn!Asking, SignIn!Purposes, SignIn!Brought, SignIn!RefuseLink, SignIn!End,
        SignIn!Unlocked, SignIn!Refused, SignIn!NoWish
<1>4. SignIn!LinksAreNew'
    BY <1>1, SignInConstants DEF SignIn!Inv, SignIn!LinksAreNew, SignIn!Asking, SignIn!Shapes,
        SignIn!TypeOK, SignIn!Brought, SignIn!RefuseLink, SignIn!End, SignIn!Unlocked,
        SignIn!Refused, SignIn!NoWish
<1>5. SignIn!LinksAreMailed'
    BY <1>1, SignInConstants DEF SignIn!Inv, SignIn!LinksAreMailed, SignIn!Shapes, SignIn!TypeOK,
        SignIn!LinksAreNew, SignIn!Asking, SignIn!RefuseLink, SignIn!End, SignIn!Unlocked,
        SignIn!Refused, SignIn!NoWish
<1>6. SignIn!LinksAgree'
    BY <1>1, SignInConstants DEF SignIn!Inv, SignIn!LinksAgree, SignIn!Shapes, SignIn!TypeOK,
        SignIn!LinksAreNew, SignIn!Asking, SignIn!RefuseLink, SignIn!End, SignIn!Unlocked,
        SignIn!Refused, SignIn!NoWish
<1>7. SignIn!RowsAreHeld'
    BY <1>1, SignInConstants DEF SignIn!Inv, SignIn!RowsAreHeld, SignIn!Shapes, SignIn!TypeOK,
        SignIn!Rows, SignIn!RefuseLink, SignIn!End, SignIn!Unlocked, SignIn!Refused, SignIn!NoWish
<1>8. SignIn!LinksAreSpent'
    BY <1>1, SignInConstants DEF SignIn!Inv, SignIn!LinksAreSpent, SignIn!Shapes, SignIn!TypeOK,
        SignIn!RowsAreHeld, SignIn!Rows, SignIn!RefuseLink, SignIn!End, SignIn!Unlocked,
        SignIn!Refused, SignIn!NoWish
<1>9. SignIn!SessionsHaveThePassword'
    BY <1>1, SignInConstants DEF SignIn!Inv, SignIn!SessionsHaveThePassword, SignIn!TypeOK,
        SignIn!RowsAreHeld, SignIn!Shapes, SignIn!RefuseLink, SignIn!End, SignIn!Unlocked,
        SignIn!Refused, SignIn!NoWish
<1>10. QED
    BY <1>2, <1>3, <1>4, <1>5, <1>6, <1>7, <1>8, <1>9 DEF SignIn!Inv

LEMMA SignInSignIn ==
    ASSUME SignIn!Inv, NEW r \in Pair, NEW w \in Passwords, SignIn!SignIn(r, w)
    PROVE  SignIn!Inv'
<1>1. accountPc' \in [Pair -> SignIn!Places] /\ SignIn!Used' <= Connections
    BY SignInMove DEF SignIn!Inv, SignIn!SignIn, SignIn!Go, SignIn!End, SignIn!Places, Waits
<1>2. SignIn!TypeOK'
    BY <1>1, SignInConstants DEF SignIn!Inv, SignIn!TypeOK, SignIn!Shapes, SignIn!Rows,
        SignIn!LinksAreNew, SignIn!Asking, SignIn!Brought, SignIn!LinksAreMailed,
        SignIn!RowsAreHeld, SignIn!LinksAreSpent, SignIn!Purposes, SignIn!SignIn, SignIn!Go,
        SignIn!NoWish
<1>3. SignIn!Shapes'
    BY <1>1, SignInConstants DEF SignIn!Inv, SignIn!Shapes, SignIn!TypeOK, SignIn!LinksAreNew,
        SignIn!Asking, SignIn!Purposes, SignIn!Brought, SignIn!SignIn, SignIn!Go, SignIn!NoWish
<1>4. SignIn!LinksAreNew'
    BY <1>1, SignInConstants DEF SignIn!Inv, SignIn!LinksAreNew, SignIn!Asking, SignIn!Shapes,
        SignIn!TypeOK, SignIn!Brought, SignIn!SignIn, SignIn!Go, SignIn!NoWish
<1>5. SignIn!LinksAreMailed'
    BY <1>1, SignInConstants DEF SignIn!Inv, SignIn!LinksAreMailed, SignIn!Shapes, SignIn!TypeOK,
        SignIn!LinksAreNew, SignIn!Asking, SignIn!SignIn, SignIn!Go, SignIn!NoWish
<1>6. SignIn!LinksAgree'
    BY <1>1, SignInConstants DEF SignIn!Inv, SignIn!LinksAgree, SignIn!Shapes, SignIn!TypeOK,
        SignIn!LinksAreNew, SignIn!Asking, SignIn!SignIn, SignIn!Go, SignIn!NoWish
<1>7. SignIn!RowsAreHeld'
    BY <1>1, SignInConstants DEF SignIn!Inv, SignIn!RowsAreHeld, SignIn!Shapes, SignIn!TypeOK,
        SignIn!Rows, SignIn!SignIn, SignIn!Go, SignIn!NoWish
<1>8. SignIn!LinksAreSpent'
    BY <1>1, SignInConstants DEF SignIn!Inv, SignIn!LinksAreSpent, SignIn!Shapes, SignIn!TypeOK,
        SignIn!RowsAreHeld, SignIn!Rows, SignIn!SignIn, SignIn!Go, SignIn!NoWish
<1>9. SignIn!SessionsHaveThePassword'
    BY <1>1, SignInConstants DEF SignIn!Inv, SignIn!SessionsHaveThePassword, SignIn!TypeOK,
        SignIn!RowsAreHeld, SignIn!Shapes, SignIn!SignIn, SignIn!Go, SignIn!NoWish
<1>10. QED
    BY <1>2, <1>3, <1>4, <1>5, <1>6, <1>7, <1>8, <1>9 DEF SignIn!Inv

LEMMA SignInBeginSignIn ==
    ASSUME SignIn!Inv, NEW r \in Pair, SignIn!BeginSignIn(r)
    PROVE  SignIn!Inv'
<1>1. accountPc' \in [Pair -> SignIn!Places] /\ SignIn!Used' <= Connections
    BY SignInMove DEF SignIn!Inv, SignIn!BeginSignIn, SignIn!Go, SignIn!End, SignIn!Places, Waits
<1>2. SignIn!TypeOK'
    BY <1>1, SignInConstants DEF SignIn!Inv, SignIn!TypeOK, SignIn!Shapes, SignIn!Rows,
        SignIn!LinksAreNew, SignIn!Asking, SignIn!Brought, SignIn!LinksAreMailed,
        SignIn!RowsAreHeld, SignIn!LinksAreSpent, SignIn!Purposes, SignIn!BeginSignIn, SignIn!Go
<1>3. SignIn!Shapes'
    BY <1>1, SignInConstants DEF SignIn!Inv, SignIn!Shapes, SignIn!TypeOK, SignIn!LinksAreNew,
        SignIn!Asking, SignIn!Purposes, SignIn!Brought, SignIn!BeginSignIn, SignIn!Go
<1>4. SignIn!LinksAreNew'
    BY <1>1, SignInConstants DEF SignIn!Inv, SignIn!LinksAreNew, SignIn!Asking, SignIn!Shapes,
        SignIn!TypeOK, SignIn!Brought, SignIn!BeginSignIn, SignIn!Go
<1>5. SignIn!LinksAreMailed'
    BY <1>1, SignInConstants DEF SignIn!Inv, SignIn!LinksAreMailed, SignIn!Shapes, SignIn!TypeOK,
        SignIn!LinksAreNew, SignIn!Asking, SignIn!BeginSignIn, SignIn!Go
<1>6. SignIn!LinksAgree'
    BY <1>1, SignInConstants DEF SignIn!Inv, SignIn!LinksAgree, SignIn!Shapes, SignIn!TypeOK,
        SignIn!LinksAreNew, SignIn!Asking, SignIn!BeginSignIn, SignIn!Go
<1>7. SignIn!RowsAreHeld'
    BY <1>1, SignInConstants DEF SignIn!Inv, SignIn!RowsAreHeld, SignIn!Shapes, SignIn!TypeOK,
        SignIn!Rows, SignIn!BeginSignIn, SignIn!Go
<1>8. SignIn!LinksAreSpent'
    BY <1>1, SignInConstants DEF SignIn!Inv, SignIn!LinksAreSpent, SignIn!Shapes, SignIn!TypeOK,
        SignIn!RowsAreHeld, SignIn!Rows, SignIn!BeginSignIn, SignIn!Go
<1>9. SignIn!SessionsHaveThePassword'
    BY <1>1, SignInConstants DEF SignIn!Inv, SignIn!SessionsHaveThePassword, SignIn!TypeOK,
        SignIn!RowsAreHeld, SignIn!Shapes, SignIn!BeginSignIn, SignIn!Go
<1>10. QED
    BY <1>2, <1>3, <1>4, <1>5, <1>6, <1>7, <1>8, <1>9 DEF SignIn!Inv

LEMMA SignInLockCredential ==
    ASSUME SignIn!Inv, NEW r \in Pair, SignIn!LockCredential(r)
    PROVE  SignIn!Inv'
<1>1. accountPc' \in [Pair -> SignIn!Places] /\ SignIn!Used' <= Connections
    BY SignInMove DEF SignIn!Inv, SignIn!LockCredential, SignIn!Go, SignIn!End, SignIn!Places, Waits
<1>2. SignIn!TypeOK'
    BY <1>1, SignInConstants DEF SignIn!Inv, SignIn!TypeOK, SignIn!Shapes, SignIn!Rows,
        SignIn!LinksAreNew, SignIn!Asking, SignIn!Brought, SignIn!LinksAreMailed,
        SignIn!RowsAreHeld, SignIn!LinksAreSpent, SignIn!Purposes, SignIn!LockCredential, SignIn!Go,
        SignIn!End, SignIn!NoWish
<1>3. SignIn!Shapes'
    <2>1. CASE credential # wish[r].password
        BY <1>1, <2>1, SignInConstants DEF SignIn!Inv, SignIn!Shapes, SignIn!TypeOK,
            SignIn!LinksAreNew, SignIn!Asking, SignIn!Purposes, SignIn!Brought,
            SignIn!LockCredential, SignIn!Go, SignIn!End, SignIn!NoWish
    <2>2. CASE ~(credential # wish[r].password)
        BY <1>1, <2>2, SignInConstants DEF SignIn!Inv, SignIn!Shapes, SignIn!TypeOK,
            SignIn!LinksAreNew, SignIn!Asking, SignIn!Purposes, SignIn!Brought,
            SignIn!LockCredential, SignIn!Go, SignIn!End, SignIn!NoWish
    <2>3. QED
        BY <2>1, <2>2
<1>4. SignIn!LinksAreNew'
    BY <1>1, SignInConstants DEF SignIn!Inv, SignIn!LinksAreNew, SignIn!Asking, SignIn!Shapes,
        SignIn!TypeOK, SignIn!Brought, SignIn!LockCredential, SignIn!Go, SignIn!End, SignIn!NoWish
<1>5. SignIn!LinksAreMailed'
    BY <1>1, SignInConstants DEF SignIn!Inv, SignIn!LinksAreMailed, SignIn!Shapes, SignIn!TypeOK,
        SignIn!LinksAreNew, SignIn!Asking, SignIn!LockCredential, SignIn!Go, SignIn!End,
        SignIn!NoWish
<1>6. SignIn!LinksAgree'
    BY <1>1, SignInConstants DEF SignIn!Inv, SignIn!LinksAgree, SignIn!Shapes, SignIn!TypeOK,
        SignIn!LinksAreNew, SignIn!Asking, SignIn!LockCredential, SignIn!Go, SignIn!End,
        SignIn!NoWish
<1>7. SignIn!RowsAreHeld'
    BY <1>1, SignInConstants DEF SignIn!Inv, SignIn!RowsAreHeld, SignIn!Shapes, SignIn!TypeOK,
        SignIn!Rows, SignIn!LockCredential, SignIn!Go, SignIn!End, SignIn!NoWish
<1>8. SignIn!LinksAreSpent'
    BY <1>1, SignInConstants DEF SignIn!Inv, SignIn!LinksAreSpent, SignIn!Shapes, SignIn!TypeOK,
        SignIn!RowsAreHeld, SignIn!Rows, SignIn!LockCredential, SignIn!Go, SignIn!End, SignIn!NoWish
<1>9. SignIn!SessionsHaveThePassword'
    BY <1>1, SignInConstants DEF SignIn!Inv, SignIn!SessionsHaveThePassword, SignIn!TypeOK,
        SignIn!RowsAreHeld, SignIn!Shapes, SignIn!LockCredential, SignIn!Go, SignIn!End,
        SignIn!NoWish
<1>10. QED
    BY <1>2, <1>3, <1>4, <1>5, <1>6, <1>7, <1>8, <1>9 DEF SignIn!Inv

LEMMA SignInReadAccount ==
    ASSUME SignIn!Inv, NEW r \in Pair, SignIn!ReadAccount(r)
    PROVE  SignIn!Inv'
<1>1. accountPc' \in [Pair -> SignIn!Places] /\ SignIn!Used' <= Connections
    BY SignInMove DEF SignIn!Inv, SignIn!ReadAccount, SignIn!Go, SignIn!End, SignIn!Places, Waits
<1>2. SignIn!TypeOK'
    BY <1>1, SignInConstants DEF SignIn!Inv, SignIn!TypeOK, SignIn!Shapes, SignIn!Rows,
        SignIn!LinksAreNew, SignIn!Asking, SignIn!Brought, SignIn!LinksAreMailed,
        SignIn!RowsAreHeld, SignIn!LinksAreSpent, SignIn!Purposes, SignIn!ReadAccount, SignIn!Go
<1>3. SignIn!Shapes'
    BY <1>1, SignInConstants DEF SignIn!Inv, SignIn!Shapes, SignIn!TypeOK, SignIn!LinksAreNew,
        SignIn!Asking, SignIn!Purposes, SignIn!Brought, SignIn!ReadAccount, SignIn!Go
<1>4. SignIn!LinksAreNew'
    BY <1>1, SignInConstants DEF SignIn!Inv, SignIn!LinksAreNew, SignIn!Asking, SignIn!Shapes,
        SignIn!TypeOK, SignIn!Brought, SignIn!ReadAccount, SignIn!Go
<1>5. SignIn!LinksAreMailed'
    BY <1>1, SignInConstants DEF SignIn!Inv, SignIn!LinksAreMailed, SignIn!Shapes, SignIn!TypeOK,
        SignIn!LinksAreNew, SignIn!Asking, SignIn!ReadAccount, SignIn!Go
<1>6. SignIn!LinksAgree'
    BY <1>1, SignInConstants DEF SignIn!Inv, SignIn!LinksAgree, SignIn!Shapes, SignIn!TypeOK,
        SignIn!LinksAreNew, SignIn!Asking, SignIn!ReadAccount, SignIn!Go
<1>7. SignIn!RowsAreHeld'
    BY <1>1, SignInConstants DEF SignIn!Inv, SignIn!RowsAreHeld, SignIn!Shapes, SignIn!TypeOK,
        SignIn!Rows, SignIn!ReadAccount, SignIn!Go
<1>8. SignIn!LinksAreSpent'
    BY <1>1, SignInConstants DEF SignIn!Inv, SignIn!LinksAreSpent, SignIn!Shapes, SignIn!TypeOK,
        SignIn!RowsAreHeld, SignIn!Rows, SignIn!ReadAccount, SignIn!Go
<1>9. SignIn!SessionsHaveThePassword'
    BY <1>1, SignInConstants DEF SignIn!Inv, SignIn!SessionsHaveThePassword, SignIn!TypeOK,
        SignIn!RowsAreHeld, SignIn!Shapes, SignIn!ReadAccount, SignIn!Go
<1>10. QED
    BY <1>2, <1>3, <1>4, <1>5, <1>6, <1>7, <1>8, <1>9 DEF SignIn!Inv

LEMMA SignInCreateSession ==
    ASSUME SignIn!Inv, NEW r \in Pair, SignIn!CreateSession(r)
    PROVE  SignIn!Inv'
<1>1. accountPc' \in [Pair -> SignIn!Places] /\ SignIn!Used' <= Connections
    BY SignInMove DEF SignIn!Inv, SignIn!CreateSession, SignIn!Go, SignIn!End, SignIn!Places, Waits
<1>2. SignIn!TypeOK'
    BY <1>1, SignInConstants DEF SignIn!Inv, SignIn!TypeOK, SignIn!Shapes, SignIn!Rows,
        SignIn!LinksAreNew, SignIn!Asking, SignIn!Brought, SignIn!LinksAreMailed,
        SignIn!RowsAreHeld, SignIn!LinksAreSpent, SignIn!Purposes, SignIn!CreateSession, SignIn!Go,
        SignIn!End, SignIn!Unlocked, SignIn!NoWish
<1>3. SignIn!Shapes'
    BY <1>1, SignInConstants DEF SignIn!Inv, SignIn!Shapes, SignIn!TypeOK, SignIn!LinksAreNew,
        SignIn!Asking, SignIn!Purposes, SignIn!Brought, SignIn!CreateSession, SignIn!Go, SignIn!End,
        SignIn!Unlocked, SignIn!NoWish
<1>4. SignIn!LinksAreNew'
    <2>1. CASE enabled
        BY <1>1, <2>1, SignInConstants DEF SignIn!Inv, SignIn!LinksAreNew, SignIn!Asking,
            SignIn!Shapes, SignIn!TypeOK, SignIn!Brought, SignIn!CreateSession, SignIn!Go,
            SignIn!End, SignIn!Unlocked, SignIn!NoWish
    <2>2. CASE ~(enabled)
        BY <1>1, <2>2, SignInConstants DEF SignIn!Inv, SignIn!LinksAreNew, SignIn!Asking,
            SignIn!Shapes, SignIn!TypeOK, SignIn!Brought, SignIn!CreateSession, SignIn!Go,
            SignIn!End, SignIn!Unlocked, SignIn!NoWish
    <2>3. QED
        BY <2>1, <2>2
<1>5. SignIn!LinksAreMailed'
    BY <1>1, SignInConstants DEF SignIn!Inv, SignIn!LinksAreMailed, SignIn!Shapes, SignIn!TypeOK,
        SignIn!LinksAreNew, SignIn!Asking, SignIn!CreateSession, SignIn!Go, SignIn!End,
        SignIn!Unlocked, SignIn!NoWish
<1>6. SignIn!LinksAgree'
    BY <1>1, SignInConstants DEF SignIn!Inv, SignIn!LinksAgree, SignIn!Shapes, SignIn!TypeOK,
        SignIn!LinksAreNew, SignIn!Asking, SignIn!CreateSession, SignIn!Go, SignIn!End,
        SignIn!Unlocked, SignIn!NoWish
<1>7. SignIn!RowsAreHeld'
    BY <1>1, SignInConstants DEF SignIn!Inv, SignIn!RowsAreHeld, SignIn!Shapes, SignIn!TypeOK,
        SignIn!Rows, SignIn!CreateSession, SignIn!Go, SignIn!End, SignIn!Unlocked, SignIn!NoWish
<1>8. SignIn!LinksAreSpent'
    BY <1>1, SignInConstants DEF SignIn!Inv, SignIn!LinksAreSpent, SignIn!Shapes, SignIn!TypeOK,
        SignIn!RowsAreHeld, SignIn!Rows, SignIn!CreateSession, SignIn!Go, SignIn!End,
        SignIn!Unlocked, SignIn!NoWish
<1>9. SignIn!SessionsHaveThePassword'
    BY <1>1, SignInConstants DEF SignIn!Inv, SignIn!SessionsHaveThePassword, SignIn!TypeOK,
        SignIn!RowsAreHeld, SignIn!Shapes, SignIn!CreateSession, SignIn!Go, SignIn!End,
        SignIn!Unlocked, SignIn!NoWish
<1>10. QED
    BY <1>2, <1>3, <1>4, <1>5, <1>6, <1>7, <1>8, <1>9 DEF SignIn!Inv

LEMMA SignInCommitSignIn ==
    ASSUME SignIn!Inv, NEW r \in Pair, SignIn!CommitSignIn(r)
    PROVE  SignIn!Inv'
<1>1. accountPc' \in [Pair -> SignIn!Places] /\ SignIn!Used' <= Connections
    BY SignInMove DEF SignIn!Inv, SignIn!CommitSignIn, SignIn!Go, SignIn!End, SignIn!Places, Waits
<1>2. SignIn!TypeOK'
    BY <1>1, SignInConstants DEF SignIn!Inv, SignIn!TypeOK, SignIn!Shapes, SignIn!Rows,
        SignIn!LinksAreNew, SignIn!Asking, SignIn!Brought, SignIn!LinksAreMailed,
        SignIn!RowsAreHeld, SignIn!LinksAreSpent, SignIn!Purposes, SignIn!CommitSignIn, SignIn!End,
        SignIn!Unlocked, SignIn!NoWish
<1>3. SignIn!Shapes'
    BY <1>1, SignInConstants DEF SignIn!Inv, SignIn!Shapes, SignIn!TypeOK, SignIn!LinksAreNew,
        SignIn!Asking, SignIn!Purposes, SignIn!Brought, SignIn!CommitSignIn, SignIn!End,
        SignIn!Unlocked, SignIn!NoWish
<1>4. SignIn!LinksAreNew'
    BY <1>1, SignInConstants DEF SignIn!Inv, SignIn!LinksAreNew, SignIn!Asking, SignIn!Shapes,
        SignIn!TypeOK, SignIn!Brought, SignIn!CommitSignIn, SignIn!End, SignIn!Unlocked,
        SignIn!NoWish
<1>5. SignIn!LinksAreMailed'
    BY <1>1, SignInConstants DEF SignIn!Inv, SignIn!LinksAreMailed, SignIn!Shapes, SignIn!TypeOK,
        SignIn!LinksAreNew, SignIn!Asking, SignIn!CommitSignIn, SignIn!End, SignIn!Unlocked,
        SignIn!NoWish
<1>6. SignIn!LinksAgree'
    BY <1>1, SignInConstants DEF SignIn!Inv, SignIn!LinksAgree, SignIn!Shapes, SignIn!TypeOK,
        SignIn!LinksAreNew, SignIn!Asking, SignIn!CommitSignIn, SignIn!End, SignIn!Unlocked,
        SignIn!NoWish
<1>7. SignIn!RowsAreHeld'
    BY <1>1, SignInConstants DEF SignIn!Inv, SignIn!RowsAreHeld, SignIn!Shapes, SignIn!TypeOK,
        SignIn!Rows, SignIn!CommitSignIn, SignIn!End, SignIn!Unlocked, SignIn!NoWish
<1>8. SignIn!LinksAreSpent'
    BY <1>1, SignInConstants DEF SignIn!Inv, SignIn!LinksAreSpent, SignIn!Shapes, SignIn!TypeOK,
        SignIn!RowsAreHeld, SignIn!Rows, SignIn!CommitSignIn, SignIn!End, SignIn!Unlocked,
        SignIn!NoWish
<1>9. SignIn!SessionsHaveThePassword'
    BY <1>1, SignInConstants DEF SignIn!Inv, SignIn!SessionsHaveThePassword, SignIn!TypeOK,
        SignIn!RowsAreHeld, SignIn!Shapes, SignIn!CommitSignIn, SignIn!End, SignIn!Unlocked,
        SignIn!NoWish
<1>10. QED
    BY <1>2, <1>3, <1>4, <1>5, <1>6, <1>7, <1>8, <1>9 DEF SignIn!Inv

LEMMA SignInPoolTimeout ==
    ASSUME SignIn!Inv, NEW r \in Pair, SignIn!PoolTimeout(r)
    PROVE  SignIn!Inv'
<1>1. accountPc' \in [Pair -> SignIn!Places] /\ SignIn!Used' <= Connections
    BY SignInMove DEF SignIn!Inv, SignIn!PoolTimeout, SignIn!Go, SignIn!End, SignIn!Places, Waits
<1>2. SignIn!TypeOK'
    BY <1>1, SignInConstants DEF SignIn!Inv, SignIn!TypeOK, SignIn!Shapes, SignIn!Rows,
        SignIn!LinksAreNew, SignIn!Asking, SignIn!Brought, SignIn!LinksAreMailed,
        SignIn!RowsAreHeld, SignIn!LinksAreSpent, SignIn!Purposes, SignIn!PoolTimeout, SignIn!End,
        SignIn!Unlocked, SignIn!NoWish
<1>3. SignIn!Shapes'
    BY <1>1, SignInConstants DEF SignIn!Inv, SignIn!Shapes, SignIn!TypeOK, SignIn!LinksAreNew,
        SignIn!Asking, SignIn!Purposes, SignIn!Brought, SignIn!PoolTimeout, SignIn!End,
        SignIn!Unlocked, SignIn!NoWish
<1>4. SignIn!LinksAreNew'
    BY <1>1, SignInConstants DEF SignIn!Inv, SignIn!LinksAreNew, SignIn!Asking, SignIn!Shapes,
        SignIn!TypeOK, SignIn!Brought, SignIn!PoolTimeout, SignIn!End, SignIn!Unlocked,
        SignIn!NoWish
<1>5. SignIn!LinksAreMailed'
    BY <1>1, SignInConstants DEF SignIn!Inv, SignIn!LinksAreMailed, SignIn!Shapes, SignIn!TypeOK,
        SignIn!LinksAreNew, SignIn!Asking, SignIn!PoolTimeout, SignIn!End, SignIn!Unlocked,
        SignIn!NoWish
<1>6. SignIn!LinksAgree'
    BY <1>1, SignInConstants DEF SignIn!Inv, SignIn!LinksAgree, SignIn!Shapes, SignIn!TypeOK,
        SignIn!LinksAreNew, SignIn!Asking, SignIn!PoolTimeout, SignIn!End, SignIn!Unlocked,
        SignIn!NoWish
<1>7. SignIn!RowsAreHeld'
    BY <1>1, SignInConstants DEF SignIn!Inv, SignIn!RowsAreHeld, SignIn!Shapes, SignIn!TypeOK,
        SignIn!Rows, SignIn!PoolTimeout, SignIn!End, SignIn!Unlocked, SignIn!NoWish
<1>8. SignIn!LinksAreSpent'
    BY <1>1, SignInConstants DEF SignIn!Inv, SignIn!LinksAreSpent, SignIn!Shapes, SignIn!TypeOK,
        SignIn!RowsAreHeld, SignIn!Rows, SignIn!PoolTimeout, SignIn!End, SignIn!Unlocked,
        SignIn!NoWish
<1>9. SignIn!SessionsHaveThePassword'
    BY <1>1, SignInConstants DEF SignIn!Inv, SignIn!SessionsHaveThePassword, SignIn!TypeOK,
        SignIn!RowsAreHeld, SignIn!Shapes, SignIn!PoolTimeout, SignIn!End, SignIn!Unlocked,
        SignIn!NoWish
<1>10. QED
    BY <1>2, <1>3, <1>4, <1>5, <1>6, <1>7, <1>8, <1>9 DEF SignIn!Inv

LEMMA SignInRevoke ==
    ASSUME SignIn!Inv, NEW r \in Pair, SignIn!Revoke(r)
    PROVE  SignIn!Inv'
<1>1. accountPc' \in [Pair -> SignIn!Places] /\ SignIn!Used' <= Connections
    BY SignInUsed DEF SignIn!Inv, SignIn!TypeOK, SignIn!Revoke
<1>2. SignIn!TypeOK'
    <2>1. session \in [Pair -> {None} \cup [password : Passwords, live : BOOLEAN]]
        BY DEF SignIn!Inv, SignIn!TypeOK
    <2>2. \A q \in Pair : session[q] # None => [session[q] EXCEPT !.live = FALSE] \in [password : Passwords, live : BOOLEAN]
        BY <2>1
    <2>3. session' \in [Pair -> {None} \cup [password : Passwords, live : BOOLEAN]]
        BY <2>1, <2>2 DEF SignIn!Revoke
    <2>4. QED
        BY <1>1, <2>3, SignInConstants DEF SignIn!Inv, SignIn!TypeOK, SignIn!Shapes,
            SignIn!Rows, SignIn!LinksAreNew, SignIn!Asking, SignIn!Brought,
            SignIn!LinksAreMailed, SignIn!RowsAreHeld, SignIn!LinksAreSpent, SignIn!Purposes,
            SignIn!Revoke
<1>3. SignIn!Shapes'
    BY <1>1, SignInConstants DEF SignIn!Inv, SignIn!Shapes, SignIn!TypeOK, SignIn!LinksAreNew,
        SignIn!Asking, SignIn!Purposes, SignIn!Brought, SignIn!Revoke
<1>4. SignIn!LinksAreNew'
    BY <1>1, SignInConstants DEF SignIn!Inv, SignIn!LinksAreNew, SignIn!Asking, SignIn!Shapes,
        SignIn!TypeOK, SignIn!Brought, SignIn!Revoke
<1>5. SignIn!LinksAreMailed'
    BY <1>1, SignInConstants DEF SignIn!Inv, SignIn!LinksAreMailed, SignIn!Shapes, SignIn!TypeOK,
        SignIn!LinksAreNew, SignIn!Asking, SignIn!Revoke
<1>6. SignIn!LinksAgree'
    BY <1>1, SignInConstants DEF SignIn!Inv, SignIn!LinksAgree, SignIn!Shapes, SignIn!TypeOK,
        SignIn!LinksAreNew, SignIn!Asking, SignIn!Revoke
<1>7. SignIn!RowsAreHeld'
    BY <1>1, SignInConstants DEF SignIn!Inv, SignIn!RowsAreHeld, SignIn!Shapes, SignIn!TypeOK,
        SignIn!Rows, SignIn!Revoke
<1>8. SignIn!LinksAreSpent'
    BY <1>1, SignInConstants DEF SignIn!Inv, SignIn!LinksAreSpent, SignIn!Shapes, SignIn!TypeOK,
        SignIn!RowsAreHeld, SignIn!Rows, SignIn!Revoke
<1>9. SignIn!SessionsHaveThePassword'
    BY <1>1, SignInConstants DEF SignIn!Inv, SignIn!SessionsHaveThePassword, SignIn!TypeOK,
        SignIn!RowsAreHeld, SignIn!Shapes, SignIn!Revoke
<1>10. QED
    BY <1>2, <1>3, <1>4, <1>5, <1>6, <1>7, <1>8, <1>9 DEF SignIn!Inv

LEMMA SignInExpire ==
    ASSUME SignIn!Inv, NEW p \in SignIn!Purposes, SignIn!Expire(p)
    PROVE  SignIn!Inv'
<1>1. accountPc' \in [Pair -> SignIn!Places] /\ SignIn!Used' <= Connections
    BY SignInUsed DEF SignIn!Inv, SignIn!TypeOK, SignIn!Expire
<1>2. SignIn!TypeOK'
    BY <1>1, SignInConstants DEF SignIn!Inv, SignIn!TypeOK, SignIn!Shapes, SignIn!Rows,
        SignIn!LinksAreNew, SignIn!Asking, SignIn!Brought, SignIn!LinksAreMailed,
        SignIn!RowsAreHeld, SignIn!LinksAreSpent, SignIn!Purposes, SignIn!Expire
<1>3. SignIn!Shapes'
    BY <1>1, SignInConstants DEF SignIn!Inv, SignIn!Shapes, SignIn!TypeOK, SignIn!LinksAreNew,
        SignIn!Asking, SignIn!Purposes, SignIn!Brought, SignIn!Expire
<1>4. SignIn!LinksAreNew'
    BY <1>1, SignInConstants DEF SignIn!Inv, SignIn!LinksAreNew, SignIn!Asking, SignIn!Shapes,
        SignIn!TypeOK, SignIn!Brought, SignIn!Expire
<1>5. SignIn!LinksAreMailed'
    BY <1>1, SignInConstants DEF SignIn!Inv, SignIn!LinksAreMailed, SignIn!Shapes, SignIn!TypeOK,
        SignIn!LinksAreNew, SignIn!Asking, SignIn!Expire
<1>6. SignIn!LinksAgree'
    BY <1>1, SignInConstants DEF SignIn!Inv, SignIn!LinksAgree, SignIn!Shapes, SignIn!TypeOK,
        SignIn!LinksAreNew, SignIn!Asking, SignIn!Expire
<1>7. SignIn!RowsAreHeld'
    BY <1>1, SignInConstants DEF SignIn!Inv, SignIn!RowsAreHeld, SignIn!Shapes, SignIn!TypeOK,
        SignIn!Rows, SignIn!Expire
<1>8. SignIn!LinksAreSpent'
    BY <1>1, SignInConstants DEF SignIn!Inv, SignIn!LinksAreSpent, SignIn!Shapes, SignIn!TypeOK,
        SignIn!RowsAreHeld, SignIn!Rows, SignIn!Expire
<1>9. SignIn!SessionsHaveThePassword'
    BY <1>1, SignInConstants DEF SignIn!Inv, SignIn!SessionsHaveThePassword, SignIn!TypeOK,
        SignIn!RowsAreHeld, SignIn!Shapes, SignIn!Expire
<1>10. QED
    BY <1>2, <1>3, <1>4, <1>5, <1>6, <1>7, <1>8, <1>9 DEF SignIn!Inv

LEMMA SignInDisable ==
    ASSUME SignIn!Inv, SignIn!Disable
    PROVE  SignIn!Inv'
<1>1. accountPc' \in [Pair -> SignIn!Places] /\ SignIn!Used' <= Connections
    BY SignInUsed DEF SignIn!Inv, SignIn!TypeOK, SignIn!Disable
<1>2. SignIn!TypeOK'
    BY <1>1, SignInConstants DEF SignIn!Inv, SignIn!TypeOK, SignIn!Shapes, SignIn!Rows,
        SignIn!LinksAreNew, SignIn!Asking, SignIn!Brought, SignIn!LinksAreMailed,
        SignIn!RowsAreHeld, SignIn!LinksAreSpent, SignIn!Purposes, SignIn!Disable
<1>3. SignIn!Shapes'
    BY <1>1, SignInConstants DEF SignIn!Inv, SignIn!Shapes, SignIn!TypeOK, SignIn!LinksAreNew,
        SignIn!Asking, SignIn!Purposes, SignIn!Brought, SignIn!Disable
<1>4. SignIn!LinksAreNew'
    BY <1>1, SignInConstants DEF SignIn!Inv, SignIn!LinksAreNew, SignIn!Asking, SignIn!Shapes,
        SignIn!TypeOK, SignIn!Brought, SignIn!Disable
<1>5. SignIn!LinksAreMailed'
    BY <1>1, SignInConstants DEF SignIn!Inv, SignIn!LinksAreMailed, SignIn!Shapes, SignIn!TypeOK,
        SignIn!LinksAreNew, SignIn!Asking, SignIn!Disable
<1>6. SignIn!LinksAgree'
    BY <1>1, SignInConstants DEF SignIn!Inv, SignIn!LinksAgree, SignIn!Shapes, SignIn!TypeOK,
        SignIn!LinksAreNew, SignIn!Asking, SignIn!Disable
<1>7. SignIn!RowsAreHeld'
    BY <1>1, SignInConstants DEF SignIn!Inv, SignIn!RowsAreHeld, SignIn!Shapes, SignIn!TypeOK,
        SignIn!Rows, SignIn!Disable
<1>8. SignIn!LinksAreSpent'
    BY <1>1, SignInConstants DEF SignIn!Inv, SignIn!LinksAreSpent, SignIn!Shapes, SignIn!TypeOK,
        SignIn!RowsAreHeld, SignIn!Rows, SignIn!Disable
<1>9. SignIn!SessionsHaveThePassword'
    BY <1>1, SignInConstants DEF SignIn!Inv, SignIn!SessionsHaveThePassword, SignIn!TypeOK,
        SignIn!RowsAreHeld, SignIn!Shapes, SignIn!Disable
<1>10. QED
    BY <1>2, <1>3, <1>4, <1>5, <1>6, <1>7, <1>8, <1>9 DEF SignIn!Inv

LEMMA SignInNext == SignIn!Inv /\ SignIn!Next => SignIn!Inv'
BY SignInAskForLink, SignInBeginLink, SignInWriteLink, SignInOpenLink, SignInBeginConfirm,
   SignInLockChallenge, SignInConfirm, SignInRefuseLink, SignInSignIn, SignInBeginSignIn,
   SignInLockCredential, SignInReadAccount, SignInCreateSession, SignInCommitSignIn, SignInPoolTimeout,
   SignInRevoke, SignInExpire, SignInDisable
   DEF SignIn!Next, SignIn!Serve

LEMMA SignInStep == SignIn!Inv /\ [Step]_vars => SignIn!Inv'
<1> SUFFICES ASSUME SignIn!Inv, [Step]_vars PROVE SignIn!Inv'
    OBVIOUS
<1>1. CASE SignIn!Next
    BY <1>1, SignInNext
<1>2. CASE UNCHANGED AccountsVars
    <2>1. SignIn!Used' = SignIn!Used
        BY <1>2, SignInUsed DEF AccountsVars
    <2>2. QED
        BY <1>2, <2>1 DEF AccountsVars, SignIn!Inv, SignIn!TypeOK, SignIn!Shapes, SignIn!LinksAreNew,
            SignIn!Asking, SignIn!LinksAreMailed, SignIn!LinksAgree, SignIn!RowsAreHeld,
            SignIn!LinksAreSpent, SignIn!SessionsHaveThePassword
<1>3. QED
    BY <1>1, <1>2 DEF Step, vars

\* An account gets its first password from the link that is opened.
LEMMA SignInVerified ==
    ASSUME SignIn!Inv, SignIn!Next, credential = None, credential' # None
    PROVE  \E r \in Pair : /\ accountPc[r] = "confirmed"
                          /\ mailed[wish[r].token] # None
                          /\ credential' = mailed[wish[r].token].password
<1>1. PICK r \in Pair : SignIn!Confirm(r)
    <2>1. \A r \in Pair :
            \/ \E p \in SignIn!Purposes, t \in Tokens, w \in Passwords : SignIn!AskForLink(r, p, t, w)
            \/ \E t \in Tokens, w \in Passwords : SignIn!OpenLink(r, t, w)
            \/ \E w \in Passwords : SignIn!SignIn(r, w)
            \/ SignIn!BeginLink(r) \/ SignIn!WriteLink(r) \/ SignIn!BeginConfirm(r)
            \/ SignIn!LockChallenge(r) \/ SignIn!RefuseLink(r) \/ SignIn!BeginSignIn(r)
            \/ SignIn!LockCredential(r) \/ SignIn!ReadAccount(r) \/ SignIn!CreateSession(r)
            \/ SignIn!CommitSignIn(r) \/ SignIn!PoolTimeout(r) \/ SignIn!Revoke(r)
            => credential' = credential
        BY DEF SignIn!AskForLink, SignIn!OpenLink, SignIn!SignIn, SignIn!BeginLink, SignIn!WriteLink,
            SignIn!BeginConfirm, SignIn!LockChallenge, SignIn!RefuseLink, SignIn!BeginSignIn,
            SignIn!LockCredential, SignIn!ReadAccount, SignIn!CreateSession, SignIn!CommitSignIn,
            SignIn!PoolTimeout, SignIn!Revoke
    <2>2. (\E p \in SignIn!Purposes : SignIn!Expire(p)) \/ SignIn!Disable => credential' = credential
        BY DEF SignIn!Expire, SignIn!Disable
    <2>3. QED
        BY <2>1, <2>2 DEF SignIn!Next, SignIn!Serve
<1>2. /\ accountPc[r] = "confirmed" /\ wish[r].purpose = "verify"
      /\ credential' = challenge["verify"].password
    BY <1>1 DEF SignIn!Confirm, SignIn!Refused, SignIn!Inv, SignIn!LinksAreMailed, SignIn!Purposes
<1>3. /\ challenge["verify"] # None /\ challenge["verify"].token = wish[r].token
      /\ mailed[wish[r].token] # None /\ mailed[wish[r].token].purpose = "verify"
    BY <1>2 DEF SignIn!Inv, SignIn!LinksAreMailed, SignIn!LinksAreSpent
<1>4. mailed[wish[r].token].password = challenge["verify"].password
    BY <1>3 DEF SignIn!Inv, SignIn!LinksAgree, SignIn!Purposes
<1>5. QED
    BY <1>2, <1>3, <1>4

\* A session that lives was opened with the password in force, a link is
\* spent once, and the first password is the one that came with the link that
\* was opened, however requests interleave and time out (identity/local_accounts.py).
THEOREM CredentialsHold == Spec => CredentialsAreCurrent
<1>1. Begin => SignIn!Inv
    BY SignInInit DEF Begin
<1>2. SignIn!Inv => SignIn!TypeOK /\ SignIn!SessionsHaveThePassword /\ SignIn!LinksAreSpent
    BY DEF SignIn!Inv
<1>3. SignIn!Inv /\ [Step]_vars =>
          [credential = None /\ credential' # None
             => \E r \in Pair :
                  /\ accountPc[r] = "confirmed"
                  /\ mailed[wish[r].token] # None
                  /\ credential' = mailed[wish[r].token].password]_(SignIn!vars)
    <2>1. CASE SignIn!Inv /\ SignIn!Next
        BY <2>1, SignInVerified
    <2>2. CASE UNCHANGED AccountsVars
        BY <2>2 DEF AccountsVars, SignIn!vars
    <2>3. QED
        BY <2>1, <2>2 DEF Step, vars
<1>4. QED
    BY <1>1, <1>2, <1>3, SignInStep, PTL DEF Spec, CredentialsAreCurrent, SignIn!LinkBringsItsPassword

----------------------------------------------------------------------------
(* Sessions.                                                                *)

LEMMA LifetimesAre ==
    /\ Ttl \in Nat \ {0} /\ MaxTime \in Nat /\ Lifetimes \subseteq Nat /\ LongLifetime \in Nat
    /\ (\A l \in Lifetimes : l \in Nat /\ Ttl <= l) /\ Ttl <= LongLifetime /\ LongLifetime \in Lifetimes
    /\ \A l \in {LongLifetime} : l \in Nat /\ Ttl <= l
BY RenewalsAssumption, LifetimesAssumption DEF Renewals!SessionsAssumption

LEMMA RenewalsTypesInit == Renewals!Init => Renewals!TypesInv
<1> SUFFICES ASSUME Renewals!Init PROVE Renewals!TypesInv
    OBVIOUS
<1>1. lifetime \in Lifetimes /\ Ttl \in Ttl..lifetime
    BY LifetimesAre DEF Renewals!Init
<1>2. Renewals!TypeOK
    <2>1. expires = Ttl /\ now = 0 /\ used = 0 /\ cookie = Ttl /\ revoked = FALSE
        BY DEF Renewals!Init
    <2>2. \E l \in Lifetimes : expires \in Ttl..l
        BY <1>1, <2>1
    <2>3. now \in 0..MaxTime /\ used \in 0..now /\ cookie \in Nat
        BY <2>1, LifetimesAre
    <2>4. sessionPc \in [Pair -> {"idle", "read", "cookie"}]
        BY DEF Renewals!Init
    <2>5. QED
        BY <1>1, <2>1, <2>2, <2>3, <2>4 DEF Renewals!TypeOK
<1>3. Renewals!ReadsAreTyped
    BY <1>1, LifetimesAre DEF Renewals!Init, Renewals!ReadsAreTyped
<1>4. QED
    BY <1>2, <1>3 DEF Renewals!TypesInv

LEMMA RenewalsRenews ==
    ASSUME Renewals!TypesInv
    PROVE  /\ Renewals!Renewed \in Nat /\ expires \in Nat
           /\ \E l \in Lifetimes : Renewals!Renewed \in Ttl..l
<1>1. /\ now \in Nat /\ lifetime \in Lifetimes /\ lifetime \in Nat /\ Ttl \in Nat
    BY LifetimesAre DEF Renewals!TypesInv, Renewals!TypeOK
<1>2. PICK l \in Lifetimes : expires \in Ttl..l
    BY DEF Renewals!TypesInv, Renewals!TypeOK
<1>3. l \in Nat /\ expires \in Nat /\ Ttl <= expires /\ expires <= l
    BY <1>1, <1>2, LifetimesAre
<1>4. CASE Renewals!Renewed = expires
    BY <1>2, <1>3, <1>4
<1>5. CASE Renewals!Renewed # expires
    <2>1. /\ Renewals!Renewed = Renewals!Lower(now + Ttl, lifetime)
          /\ ~(Renewals!Renewed <= expires)
        BY <1>5 DEF Renewals!Renewed
    <2>2. Renewals!Renewed \in Nat /\ Renewals!Renewed <= lifetime
        BY <1>1, <2>1 DEF Renewals!Lower
    <2>3. Ttl <= Renewals!Renewed
        BY <1>1, <1>3, <2>1, <2>2
    <2>4. Renewals!Renewed \in Ttl..lifetime
        BY <1>1, <2>2, <2>3
    <2>5. QED
        BY <1>1, <1>3, <2>2, <2>4
<1>6. QED
    BY <1>4, <1>5

LEMMA RenewalsTypesNext == Renewals!TypesInv /\ Renewals!Next => Renewals!TypesInv'
<1> SUFFICES ASSUME Renewals!TypesInv, Renewals!Next PROVE Renewals!TypesInv'
    OBVIOUS
<1>1. MaxTime \in Nat /\ Ttl \in Nat
    BY LifetimesAre
<1>2. CASE Renewals!Tick
    BY <1>1, <1>2 DEF Renewals!TypesInv, Renewals!TypeOK, Renewals!ReadsAreTyped, Renewals!Tick
<1>3. CASE \E l \in Lifetimes : Renewals!Reconfigure(l)
    BY <1>3 DEF Renewals!TypesInv, Renewals!TypeOK, Renewals!ReadsAreTyped, Renewals!Reconfigure
<1>4. CASE Renewals!Revoke
    BY <1>4 DEF Renewals!TypesInv, Renewals!TypeOK, Renewals!ReadsAreTyped, Renewals!Revoke
<1>5. ASSUME NEW r \in Pair, Renewals!Authenticate(r) PROVE Renewals!TypesInv'
    <2>1. now \in 0..MaxTime /\ now \in Nat
        BY <1>1 DEF Renewals!TypesInv, Renewals!TypeOK
    <2> DEFINE row == [at |-> now, renew |-> Renewals!Renewed # expires, expires |-> Renewals!Renewed]
    <2>2. row \in [at : Nat, renew : BOOLEAN, expires : Nat] /\ row.expires = Renewals!Renewed
        BY <2>1, RenewalsRenews
    <2>3. read' = [read EXCEPT ![r] = row]
        BY <1>5 DEF Renewals!Authenticate
    <2> HIDE DEF row
    <2>4. Renewals!ReadsAreTyped'
        <3>1. read' \in [Pair -> [at : Nat, renew : BOOLEAN, expires : Nat]]
            BY <2>2, <2>3 DEF Renewals!TypesInv, Renewals!ReadsAreTyped
        <3>2. \A q \in Pair : read'[q] = IF q = r THEN row ELSE read[q]
            BY <2>3 DEF Renewals!TypesInv, Renewals!ReadsAreTyped
        <3>3. \E l \in Lifetimes : row.expires \in Ttl..l
            BY <2>2, RenewalsRenews
        <3>4. QED
            BY <3>1, <3>2, <3>3 DEF Renewals!TypesInv, Renewals!ReadsAreTyped
    <2>5. Renewals!TypeOK'
        BY <1>1, <1>5, <2>1 DEF Renewals!TypesInv, Renewals!TypeOK, Renewals!Authenticate
    <2>6. QED
        BY <2>4, <2>5 DEF Renewals!TypesInv
<1>6. ASSUME NEW r \in Pair, Renewals!Commit(r) PROVE Renewals!TypesInv'
    BY <1>6 DEF Renewals!TypesInv, Renewals!TypeOK, Renewals!ReadsAreTyped, Renewals!Commit
<1>7. ASSUME NEW r \in Pair, Renewals!Respond(r) \/ Renewals!LoseResponse(r) PROVE Renewals!TypesInv'
    <2>1. now \in Nat /\ now + Ttl \in Nat
        BY <1>1 DEF Renewals!TypesInv, Renewals!TypeOK
    <2>2. QED
        BY <1>7, <2>1 DEF Renewals!TypesInv, Renewals!TypeOK, Renewals!ReadsAreTyped, Renewals!Respond, Renewals!LoseResponse
<1>8. QED
    BY <1>2, <1>3, <1>4, <1>5, <1>6, <1>7 DEF Renewals!Next

LEMMA LongSessionsTypesInit == LongSessions!Init => LongSessions!TypesInv
<1> SUFFICES ASSUME LongSessions!Init PROVE LongSessions!TypesInv
    OBVIOUS
<1>1. lifetime \in {LongLifetime} /\ Ttl \in Ttl..lifetime
    BY LifetimesAre DEF LongSessions!Init
<1>2. LongSessions!TypeOK
    <2>1. expires = Ttl /\ now = 0 /\ used = 0 /\ cookie = Ttl /\ revoked = FALSE
        BY DEF LongSessions!Init
    <2>2. \E l \in {LongLifetime} : expires \in Ttl..l
        BY <1>1, <2>1
    <2>3. now \in 0..MaxTime /\ used \in 0..now /\ cookie \in Nat
        BY <2>1, LifetimesAre
    <2>4. sessionPc \in [Pair -> {"idle", "read", "cookie"}]
        BY DEF LongSessions!Init
    <2>5. QED
        BY <1>1, <2>1, <2>2, <2>3, <2>4 DEF LongSessions!TypeOK
<1>3. LongSessions!ReadsAreTyped
    BY <1>1, LifetimesAre DEF LongSessions!Init, LongSessions!ReadsAreTyped
<1>4. QED
    BY <1>2, <1>3 DEF LongSessions!TypesInv

LEMMA LongSessionsRenews ==
    ASSUME LongSessions!TypesInv
    PROVE  /\ LongSessions!Renewed \in Nat /\ expires \in Nat
           /\ \E l \in {LongLifetime} : LongSessions!Renewed \in Ttl..l
<1>1. /\ now \in Nat /\ lifetime \in {LongLifetime} /\ lifetime \in Nat /\ Ttl \in Nat
    BY LifetimesAre DEF LongSessions!TypesInv, LongSessions!TypeOK
<1>2. PICK l \in {LongLifetime} : expires \in Ttl..l
    BY DEF LongSessions!TypesInv, LongSessions!TypeOK
<1>3. l \in Nat /\ expires \in Nat /\ Ttl <= expires /\ expires <= l
    BY <1>1, <1>2, LifetimesAre
<1>4. CASE LongSessions!Renewed = expires
    BY <1>2, <1>3, <1>4
<1>5. CASE LongSessions!Renewed # expires
    <2>1. /\ LongSessions!Renewed = LongSessions!Lower(now + Ttl, lifetime)
          /\ ~(LongSessions!Renewed <= expires)
        BY <1>5 DEF LongSessions!Renewed
    <2>2. LongSessions!Renewed \in Nat /\ LongSessions!Renewed <= lifetime
        BY <1>1, <2>1 DEF LongSessions!Lower
    <2>3. Ttl <= LongSessions!Renewed
        BY <1>1, <1>3, <2>1, <2>2
    <2>4. LongSessions!Renewed \in Ttl..lifetime
        BY <1>1, <2>2, <2>3
    <2>5. QED
        BY <1>1, <1>3, <2>2, <2>4
<1>6. QED
    BY <1>4, <1>5

LEMMA LongSessionsTypesNext == LongSessions!TypesInv /\ LongSessions!Next => LongSessions!TypesInv'
<1> SUFFICES ASSUME LongSessions!TypesInv, LongSessions!Next PROVE LongSessions!TypesInv'
    OBVIOUS
<1>1. MaxTime \in Nat /\ Ttl \in Nat
    BY LifetimesAre
<1>2. CASE LongSessions!Tick
    BY <1>1, <1>2 DEF LongSessions!TypesInv, LongSessions!TypeOK, LongSessions!ReadsAreTyped, LongSessions!Tick
<1>3. CASE \E l \in {LongLifetime} : LongSessions!Reconfigure(l)
    BY <1>3 DEF LongSessions!TypesInv, LongSessions!TypeOK, LongSessions!ReadsAreTyped, LongSessions!Reconfigure
<1>4. CASE LongSessions!Revoke
    BY <1>4 DEF LongSessions!TypesInv, LongSessions!TypeOK, LongSessions!ReadsAreTyped, LongSessions!Revoke
<1>5. ASSUME NEW r \in Pair, LongSessions!Authenticate(r) PROVE LongSessions!TypesInv'
    <2>1. now \in 0..MaxTime /\ now \in Nat
        BY <1>1 DEF LongSessions!TypesInv, LongSessions!TypeOK
    <2> DEFINE row == [at |-> now, renew |-> LongSessions!Renewed # expires, expires |-> LongSessions!Renewed]
    <2>2. row \in [at : Nat, renew : BOOLEAN, expires : Nat] /\ row.expires = LongSessions!Renewed
        BY <2>1, LongSessionsRenews
    <2>3. read' = [read EXCEPT ![r] = row]
        BY <1>5 DEF LongSessions!Authenticate
    <2> HIDE DEF row
    <2>4. LongSessions!ReadsAreTyped'
        <3>1. read' \in [Pair -> [at : Nat, renew : BOOLEAN, expires : Nat]]
            BY <2>2, <2>3 DEF LongSessions!TypesInv, LongSessions!ReadsAreTyped
        <3>2. \A q \in Pair : read'[q] = IF q = r THEN row ELSE read[q]
            BY <2>3 DEF LongSessions!TypesInv, LongSessions!ReadsAreTyped
        <3>3. \E l \in {LongLifetime} : row.expires \in Ttl..l
            BY <2>2, LongSessionsRenews
        <3>4. QED
            BY <3>1, <3>2, <3>3 DEF LongSessions!TypesInv, LongSessions!ReadsAreTyped
    <2>5. LongSessions!TypeOK'
        BY <1>1, <1>5, <2>1 DEF LongSessions!TypesInv, LongSessions!TypeOK, LongSessions!Authenticate
    <2>6. QED
        BY <2>4, <2>5 DEF LongSessions!TypesInv
<1>6. ASSUME NEW r \in Pair, LongSessions!Commit(r) PROVE LongSessions!TypesInv'
    BY <1>6 DEF LongSessions!TypesInv, LongSessions!TypeOK, LongSessions!ReadsAreTyped, LongSessions!Commit
<1>7. ASSUME NEW r \in Pair, LongSessions!Respond(r) \/ LongSessions!LoseResponse(r) PROVE LongSessions!TypesInv'
    <2>1. now \in Nat /\ now + Ttl \in Nat
        BY <1>1 DEF LongSessions!TypesInv, LongSessions!TypeOK
    <2>2. QED
        BY <1>7, <2>1 DEF LongSessions!TypesInv, LongSessions!TypeOK, LongSessions!ReadsAreTyped, LongSessions!Respond, LongSessions!LoseResponse
<1>8. QED
    BY <1>2, <1>3, <1>4, <1>5, <1>6, <1>7 DEF LongSessions!Next

LEMMA LongTypes == LongSessions!TypesInv => Renewals!TypesInv
BY LifetimesAre DEF LongSessions!TypesInv, LongSessions!TypeOK, LongSessions!ReadsAreTyped,
    Renewals!TypesInv, Renewals!TypeOK, Renewals!ReadsAreTyped

LEMMA LongTyped ==
    ASSUME LongSessions!TypesInv
    PROVE  /\ now \in Nat /\ used \in Nat /\ used <= now /\ expires \in Nat /\ lifetime = LongLifetime
           /\ \A r \in Pair : read[r].expires \in Nat /\ read[r].renew \in BOOLEAN
<1>1. now \in Nat /\ used \in Nat /\ used <= now /\ lifetime = LongLifetime
    BY LifetimesAre DEF LongSessions!TypesInv, LongSessions!TypeOK
<1>2. expires \in Nat
    BY LongSessionsRenews
<1>3. QED
    BY <1>1, <1>2 DEF LongSessions!TypesInv, LongSessions!ReadsAreTyped

\* The row after a commit is renewed up to the request's own moment.
LEMMA LongNext == LongSessions!LiveInv /\ LongSessions!Next => LongSessions!LiveInv'
<1> SUFFICES ASSUME LongSessions!LiveInv, LongSessions!Next PROVE LongSessions!LiveInv'
    OBVIOUS
<1>1. LongSessions!TypesInv /\ LongSessions!TypesInv' /\ Ttl \in Nat \ {0} /\ LongLifetime \in Nat
    BY LongSessionsTypesNext, LifetimesAre DEF LongSessions!LiveInv
<1>2. lifetime' = lifetime
    BY <1>1 DEF LongSessions!TypesInv, LongSessions!TypeOK
<1>3. /\ now \in Nat /\ used \in Nat /\ used <= now /\ expires \in Nat /\ lifetime \in Nat
      /\ sessionPc \in [Pair -> {"idle", "read", "cookie"}]
      /\ \A r \in Pair : read[r].expires \in Nat /\ read[r].renew \in BOOLEAN
    BY <1>1, LongTyped DEF LongSessions!TypesInv, LongSessions!TypeOK
<1> DEFINE end == LongSessions!Lower(used + Ttl, lifetime)
<1>4. end \in Nat
    BY <1>1, <1>3 DEF LongSessions!Lower
<1>5. CASE LongSessions!Tick /\ \A r \in Pair : sessionPc[r] # "read"
    BY <1>1, <1>2, <1>5 DEF LongSessions!LiveInv, LongSessions!RenewalsAreDue, LongSessions!Kept,
        LongSessions!Tick
<1>6. CASE LongSessions!Revoke \/ \E l \in {LongLifetime} : LongSessions!Reconfigure(l)
    BY <1>1, <1>2, <1>6 DEF LongSessions!LiveInv, LongSessions!RenewalsAreDue, LongSessions!Kept,
        LongSessions!Revoke, LongSessions!Reconfigure
<1>7. ASSUME NEW r \in Pair, LongSessions!Respond(r) \/ LongSessions!LoseResponse(r)
      PROVE  LongSessions!LiveInv'
    BY <1>1, <1>2, <1>3, <1>7 DEF LongSessions!LiveInv, LongSessions!RenewalsAreDue, LongSessions!Kept,
        LongSessions!Respond, LongSessions!LoseResponse
<1>8. ASSUME NEW r \in Pair, LongSessions!Commit(r) PROVE LongSessions!LiveInv'
    <2>1. /\ used' = used /\ now' = now /\ read' = read /\ sessionPc[r] = "read" /\ sessionPc'[r] # "read"
          /\ expires' = IF read[r].renew THEN read[r].expires ELSE expires
          /\ \A q \in Pair : q # r => sessionPc'[q] = sessionPc[q]
        BY <1>3, <1>8 DEF LongSessions!Commit
    <2>2. (expires' = end \/ (expires' = expires /\ LongSessions!Kept)) /\ used = now
        <3>1. used = now /\ IF read[r].renew THEN read[r].expires = end ELSE LongSessions!Kept
            BY <2>1 DEF LongSessions!LiveInv, LongSessions!RenewalsAreDue
        <3> HIDE DEF end
        <3>2. CASE read[r].renew
            BY <2>1, <3>1, <3>2
        <3>3. CASE ~read[r].renew
            BY <2>1, <3>1, <3>3
        <3>4. QED
            BY <3>2, <3>3
    <2>3. LongSessions!Kept' /\ expires' <= LongSessions!Lower(used' + Ttl, lifetime')
        BY <1>2, <1>3, <1>4, <2>1, <2>2 DEF LongSessions!LiveInv, LongSessions!RenewalsAreDue, LongSessions!Kept
    <2>4. \A q \in Pair : sessionPc'[q] = "read" =>
            /\ used' = now'
            /\ read'[q].renew => read'[q].expires = LongSessions!Lower(used' + Ttl, lifetime')
        BY <1>2, <2>1 DEF LongSessions!LiveInv, LongSessions!RenewalsAreDue
    <2>5. QED
        BY <1>1, <2>3, <2>4 DEF LongSessions!LiveInv, LongSessions!RenewalsAreDue
<1>9. ASSUME NEW r \in Pair, LongSessions!Authenticate(r) PROVE LongSessions!LiveInv'
    <2>1. /\ used' = now /\ now' = now /\ expires' = expires /\ sessionPc'[r] = "read"
          /\ \A q \in Pair : q # r => sessionPc'[q] = sessionPc[q] /\ read'[q] = read[q]
        BY <1>1, <1>3, <1>9 DEF LongSessions!Authenticate, LongSessions!TypesInv, LongSessions!ReadsAreTyped
    <2>2. /\ read'[r].renew <=> LongSessions!Renewed # expires
          /\ read'[r].expires = LongSessions!Renewed
        BY <1>1, <1>9 DEF LongSessions!Authenticate, LongSessions!TypesInv, LongSessions!ReadsAreTyped
    <2> DEFINE new == LongSessions!Lower(now + Ttl, lifetime)
    <2>3. new \in Nat /\ expires <= new
        BY <1>1, <1>3 DEF LongSessions!LiveInv, LongSessions!RenewalsAreDue, LongSessions!Lower
    <2>4. LongSessions!Lower(used' + Ttl, lifetime') = new
        BY <1>2, <2>1
    <2>5. LongSessions!Kept' <=> 2 * (expires - now) > Ttl \/ expires = new
        BY <2>1, <2>4 DEF LongSessions!Kept
    <2>6. IF read'[r].renew THEN read'[r].expires = new ELSE LongSessions!Kept'
        <3>1. LongSessions!Renewed = IF 2 * (expires - now) > Ttl \/ new <= expires THEN expires ELSE new
            BY DEF LongSessions!Renewed
        <3> HIDE DEF new
        <3>2. CASE LongSessions!Renewed = expires
            <4>1. 2 * (expires - now) > Ttl \/ expires = new
                BY <1>3, <2>3, <3>1, <3>2
            <4>2. QED
                BY <2>2, <2>5, <3>2, <4>1 DEF new
        <3>3. CASE LongSessions!Renewed # expires
            BY <2>2, <3>1, <3>3
        <3>4. QED
            BY <3>2, <3>3
    <2>7. ASSUME NEW q \in Pair, q # r, sessionPc[q] = "read"
          PROVE  IF read'[q].renew THEN read'[q].expires = new ELSE LongSessions!Kept'
        <3>1. used = now
            BY <2>7 DEF LongSessions!LiveInv, LongSessions!RenewalsAreDue
        <3>2. LongSessions!Kept <=> LongSessions!Kept'
            BY <2>1, <2>5, <3>1 DEF LongSessions!Kept
        <3>3. QED
            BY <2>1, <2>7, <3>1, <3>2 DEF LongSessions!LiveInv, LongSessions!RenewalsAreDue
    <2> HIDE DEF new
    <2>8. \A q \in Pair : sessionPc'[q] = "read" =>
            IF read'[q].renew THEN read'[q].expires = new ELSE LongSessions!Kept'
        BY <2>1, <2>6, <2>7
    <2>9. QED
        BY <1>1, <2>1, <2>3, <2>4, <2>8 DEF LongSessions!LiveInv, LongSessions!RenewalsAreDue
<1>10. QED
    BY <1>5, <1>6, <1>7, <1>8, <1>9 DEF LongSessions!Next

\* A row that was kept when it was last used serves half an idle lifetime.
LEMMA LongLives == LongSessions!LiveInv => LongSessions!ActiveSessionsLive
<1> SUFFICES ASSUME LongSessions!LiveInv, \A r \in Pair : sessionPc[r] # "read", 2 * (now - used) <= Ttl
             PROVE  LongSessions!Lower(now + 1, lifetime) <= expires
    BY DEF LongSessions!ActiveSessionsLive
<1>1. /\ now \in Nat /\ used \in Nat /\ used <= now /\ expires \in Nat /\ lifetime \in Nat
      /\ Ttl \in Nat \ {0}
    BY LongTyped, LifetimesAre DEF LongSessions!LiveInv
<1>2. 2 * (expires - used) > Ttl \/ expires = LongSessions!Lower(used + Ttl, lifetime)
    BY DEF LongSessions!LiveInv, LongSessions!RenewalsAreDue, LongSessions!Kept
<1>3. QED
    BY <1>1, <1>2 DEF LongSessions!Lower

LEMMA LongInit == LongSessions!Init => LongSessions!LiveInv
<1> SUFFICES ASSUME LongSessions!Init PROVE LongSessions!LiveInv
    OBVIOUS
<1>1. LongSessions!TypesInv
    BY LongSessionsTypesInit
<1>2. expires = LongSessions!Lower(used + Ttl, lifetime) /\ expires \in Nat
    BY LifetimesAre DEF LongSessions!Init, LongSessions!Lower
<1>3. LongSessions!RenewalsAreDue
    BY <1>2 DEF LongSessions!Init, LongSessions!RenewalsAreDue, LongSessions!Kept
<1>4. QED
    BY <1>1, <1>3 DEF LongSessions!LiveInv

\* The session may be renewed, or lives on a server that is not reconfigured.
SessionInv == Renewals!TypesInv /\ (component # "sessions" => LongSessions!LiveInv)

LEMMA SessionStep == SessionInv /\ [Step]_vars => SessionInv'
<1> SUFFICES ASSUME SessionInv, [Step]_vars PROVE SessionInv'
    OBVIOUS
<1>1. component' = component
    BY DEF Step, vars
<1>2. CASE UNCHANGED SessionsVars
    BY <1>1, <1>2 DEF SessionsVars, SessionInv, Renewals!TypesInv, Renewals!TypeOK, Renewals!ReadsAreTyped,
        LongSessions!LiveInv, LongSessions!TypesInv, LongSessions!TypeOK, LongSessions!ReadsAreTyped,
        LongSessions!RenewalsAreDue, LongSessions!Kept
<1>3. CASE component = "sessions" /\ Renewals!Next
    BY <1>1, <1>3, RenewalsTypesNext DEF SessionInv
<1>4. CASE component = "long sessions" /\ LongSessions!Next
    <2>1. LongSessions!LiveInv'
        BY <1>4, LongNext DEF SessionInv
    <2>2. LongSessions!TypesInv'
        BY <2>1 DEF LongSessions!LiveInv
    <2>3. LongSessions!TypesInv' => Renewals!TypesInv'
        BY LifetimesAre DEF LongSessions!TypesInv, LongSessions!TypeOK, LongSessions!ReadsAreTyped,
            Renewals!TypesInv, Renewals!TypeOK, Renewals!ReadsAreTyped
    <2>4. QED
        BY <2>1, <2>2, <2>3 DEF SessionInv
<1>5. QED
    BY <1>2, <1>3, <1>4 DEF Step, vars

\* No request is admitted past the absolute lifetime, a revoked row stays
\* revoked, and who makes a request in every half of the idle lifetime stays
\* signed in until the absolute one is over, however requests that renew the
\* row interleave (identity/sessions.py).
THEOREM SessionsHold == Spec => SessionsEnd
<1>1. Begin => SessionInv
    BY RenewalsTypesInit, LongInit, LongTypes DEF Begin, SessionInv, LongSessions!LiveInv
<1>2. SessionInv => Renewals!TypeOK /\ (component = "long sessions" => LongSessions!ActiveSessionsLive)
    BY LongLives DEF SessionInv, Renewals!TypesInv
<1>3. SessionInv /\ [Step]_vars => /\ [used' # used => now < lifetime]_(Renewals!vars)
                                   /\ [revoked => revoked']_(Renewals!vars)
    <2> SUFFICES ASSUME SessionInv, [Step]_vars
                 PROVE  /\ UNCHANGED Renewals!vars \/ (used' # used => now < lifetime)
                        /\ UNCHANGED Renewals!vars \/ (revoked => revoked')
        OBVIOUS
    <2>1. CASE UNCHANGED SessionsVars
        BY <2>1 DEF SessionsVars, Renewals!vars
    <2>2. now \in Nat /\ lifetime \in Nat /\ expires \in Nat
        BY LifetimesAre, RenewalsRenews DEF SessionInv, Renewals!TypesInv, Renewals!TypeOK
    <2>3. CASE component = "sessions" /\ Renewals!Next
        <3>1. \A r \in Pair : Renewals!Authenticate(r) => now < lifetime /\ revoked' = revoked
            BY <2>2 DEF Renewals!Authenticate, Renewals!EffectiveExpiry, Renewals!Lower
        <3>2. QED
            BY <2>3, <3>1 DEF Renewals!Next, Renewals!Tick, Renewals!Reconfigure, Renewals!Revoke,
                Renewals!Commit, Renewals!Respond, Renewals!LoseResponse
    <2>4. CASE component = "long sessions" /\ LongSessions!Next
        <3>1. \A r \in Pair : LongSessions!Authenticate(r) => now < lifetime /\ revoked' = revoked
            <4>1. ASSUME NEW r \in Pair, LongSessions!Authenticate(r) PROVE now < LongSessions!EffectiveExpiry /\ revoked' = revoked
                BY <4>1 DEF LongSessions!Authenticate
            <4>2. LongSessions!EffectiveExpiry <= lifetime /\ LongSessions!EffectiveExpiry \in Nat
                BY <2>2 DEF LongSessions!EffectiveExpiry, LongSessions!Lower
            <4>3. QED
                BY <2>2, <4>1, <4>2
        <3>2. CASE LongSessions!Tick \/ LongSessions!Revoke \/ \E l \in {LongLifetime} : LongSessions!Reconfigure(l)
            BY <3>2 DEF LongSessions!Tick, LongSessions!Revoke, LongSessions!Reconfigure
        <3>3. ASSUME NEW r \in Pair,
                     LongSessions!Commit(r) \/ LongSessions!Respond(r) \/ LongSessions!LoseResponse(r)
              PROVE  used' = used /\ revoked' = revoked
            BY <3>3 DEF LongSessions!Commit, LongSessions!Respond, LongSessions!LoseResponse
        <3>4. QED
            BY <2>4, <3>1, <3>2, <3>3 DEF LongSessions!Next
    <2>5. QED
        BY <2>1, <2>3, <2>4 DEF Step, vars
<1>4. QED
    BY <1>1, <1>2, <1>3, SessionStep, PTL DEF Spec, SessionsEnd, Renewals!NoneAfterLifetime,
        Renewals!RevocationStays

----------------------------------------------------------------------------
(* Access to a course: requests.                                           *)

\* An idle request that becomes another one.
LEMMA OtherRequest ==
    ASSUME NEW kind, NEW at
    PROVE  [[kind |-> "none", at |-> "idle", rule |-> NoRule, seen |-> NoCourse] EXCEPT !.kind = kind, !.at = at]
            = [kind |-> kind, at |-> at, rule |-> NoRule, seen |-> NoCourse]
<1>1. [[kind |-> "none", at |-> "idle", rule |-> NoRule, seen |-> NoCourse] EXCEPT !.kind = kind]
        = [kind |-> kind, at |-> "idle", rule |-> NoRule, seen |-> NoCourse]
    OBVIOUS
<1>2. [[kind |-> kind, at |-> "idle", rule |-> NoRule, seen |-> NoCourse] EXCEPT !.at = at]
        = [kind |-> kind, at |-> at, rule |-> NoRule, seen |-> NoCourse]
    OBVIOUS
<1>3. QED
    BY <1>1, <1>2, Zenon

----------------------------------------------------------------------------
(* Access to a course: edits by the professor.                             *)

LEMMA EditsConstants ==
    /\ NoCourse \notin Edits!Policies /\ Nobody \notin Editors
    /\ \A rule \in Defaults : rule \in Edits!Defaults
    /\ \A rule \in {Open, Closed} : rule \in Edits!Rules
    /\ Edits!OpenedKinds = {"lecture", "upload", "course"}
    /\ 2 \in Nat
BY EditsAssumption DEF Edits!CourseAccessAssumption, Edits!Policies, Edits!Defaults, Edits!Rules, Edits!Modes, Edits!OpenedKinds,
    Dated, Defaults, Open, Closed, Now, Rule

\* What a request of the professor is doing.
EditsOps == [kind : {"none", "delete", "invite", "create", "lecture", "upload", "course"},
             at : {"idle", "locking", "locked", "stored", "sharing"},
             rule : Defaults \cup {Open, Closed} \cup {NoRule},
             seen : Edits!Policies \cup {NoCourse}]

\* The types of the course and of the professor's requests.
EditsTypes ==
    /\ db \in Edits!Policies \cup {NoCourse}
    /\ file \in Edits!Workspaces \cup {NoFile}
    /\ rest \subseteq {"uploads", "invite"}
    /\ lock \in Editors \cup {Nobody}
    /\ op \in [Editors -> EditsOps]
    /\ \A e \in Editors :
          /\ lock = e <=> op[e].at \in {"locked", "stored"}
          /\ op[e].at = "idle" => op[e] = Edits!Idle
          /\ op[e].kind = "none" => op[e].at = "idle"
          /\ op[e].at = "stored" => op[e].kind = "course"
          /\ op[e].kind = "course" => op[e].rule \in Defaults
          /\ op[e].kind = "lecture" => op[e].rule \in {Open, Closed} \cup {NoRule}
    /\ day \in 0 .. 2
    /\ created \in BOOLEAN

EditsCore == EditsTypes /\ Edits!Creation /\ Edits!Policy /\ Edits!DeletedCourseIsGone

\* Which of the professor's requests changes, and to what.
LEMMA EditsChanged ==
    ASSUME EditsTypes, NEW e \in Editors, NEW new \in EditsOps, op' = [op EXCEPT ![e] = new]
    PROVE  /\ op' \in [Editors -> EditsOps]
           /\ op'[e] = new
           /\ \A f \in Editors : f # e => op'[f] = op[f]
BY DEF EditsTypes

LEMMA EditsCreate ==
    ASSUME EditsCore, NEW e \in Editors, NEW rule \in Defaults, Edits!CreateCourse(e, rule)
    PROVE  EditsCore'
<1>1. op[e] \in EditsOps
    BY DEF EditsCore, EditsTypes
<1>2. PICK new \in EditsOps : new = [kind |-> "create", at |-> "locking", rule |-> NoRule, seen |-> rule.policy]
    BY <1>1, EditsConstants DEF EditsCore, EditsTypes, EditsOps, Edits!Idle, Edits!Defaults
<1>3. op' = [op EXCEPT ![e] = new]
    BY <1>1, <1>2 DEF EditsOps, Edits!Idle, Edits!CreateCourse, Edits!Start
<1>4. op' \in [Editors -> EditsOps] /\ op'[e] = new /\ \A f \in Editors : f # e => op'[f] = op[f]
    BY <1>3, EditsChanged DEF EditsCore
<1>5. EditsTypes'
    BY <1>1, <1>2, <1>4, EditsConstants DEF EditsCore, EditsTypes, Edits!Idle, Edits!Creation, Edits!Policy, Edits!Workspaces, Edits!Defaults, Edits!CreateCourse, Edits!Start
<1>6. Edits!Creation'
    BY <1>1, <1>2, <1>4, EditsConstants DEF EditsCore, EditsTypes, Edits!Idle, Edits!Creation, Edits!Policy, Edits!Defaults, Edits!CreateCourse, Edits!Start
<1>7. Edits!Policy'
    BY <1>1, <1>2, <1>4, EditsConstants DEF EditsCore, EditsTypes, Edits!Idle, Edits!Creation, Edits!Policy, Edits!Workspaces, Edits!Defaults, Edits!CreateCourse, Edits!Start
<1>8. Edits!DeletedCourseIsGone'
    BY <1>1, <1>2, <1>4, EditsConstants DEF EditsCore, EditsTypes, Edits!Idle, Edits!Creation, Edits!Policy, Edits!DeletedCourseIsGone, Edits!Busy, Edits!Defaults, Edits!CreateCourse, Edits!Start
<1>9. QED
    BY <1>5, <1>6, <1>7, <1>8 DEF EditsCore

LEMMA EditsBeginCourse ==
    ASSUME EditsCore, NEW e \in Editors, NEW rule \in Defaults, Edits!Begin(e, "course", rule)
    PROVE  EditsCore'
<1>1. op[e] \in EditsOps
    BY DEF EditsCore, EditsTypes
<1>2. PICK new \in EditsOps : new = [kind |-> "course", at |-> "locking", rule |-> rule, seen |-> NoCourse]
    BY <1>1, EditsConstants DEF EditsCore, EditsTypes, EditsOps, Edits!Idle, Edits!Defaults
<1>3. op' = [op EXCEPT ![e] = new]
    BY <1>1, <1>2 DEF EditsOps, Edits!Idle, Edits!Begin, Edits!Start, Edits!Owned
<1>4. op' \in [Editors -> EditsOps] /\ op'[e] = new /\ \A f \in Editors : f # e => op'[f] = op[f]
    BY <1>3, EditsChanged DEF EditsCore
<1>5. EditsTypes'
    BY <1>1, <1>2, <1>4, EditsConstants DEF EditsCore, EditsTypes, Edits!Idle, Edits!Creation, Edits!Policy, Edits!Workspaces, Edits!Defaults, Edits!Begin, Edits!Start, Edits!Owned
<1>6. Edits!Creation'
    BY <1>1, <1>2, <1>4, EditsConstants DEF EditsCore, EditsTypes, Edits!Idle, Edits!Creation, Edits!Policy, Edits!Defaults, Edits!Begin, Edits!Start, Edits!Owned
<1>7. Edits!Policy'
    BY <1>1, <1>2, <1>4, EditsConstants DEF EditsCore, EditsTypes, Edits!Idle, Edits!Creation, Edits!Policy, Edits!Workspaces, Edits!Defaults, Edits!Begin, Edits!Start, Edits!Owned
<1>8. Edits!DeletedCourseIsGone'
    BY <1>1, <1>2, <1>4, EditsConstants DEF EditsCore, EditsTypes, Edits!Idle, Edits!Creation, Edits!Policy, Edits!DeletedCourseIsGone, Edits!Busy, Edits!Defaults, Edits!Begin, Edits!Start, Edits!Owned
<1>9. QED
    BY <1>5, <1>6, <1>7, <1>8 DEF EditsCore

LEMMA EditsBeginLecture ==
    ASSUME EditsCore, NEW e \in Editors, NEW rule \in {Open, Closed} \cup {NoRule}, Edits!Begin(e, "lecture", rule)
    PROVE  EditsCore'
<1>1. op[e] \in EditsOps
    BY DEF EditsCore, EditsTypes
<1>2. PICK new \in EditsOps : new = [kind |-> "lecture", at |-> "locking", rule |-> rule, seen |-> NoCourse]
    BY <1>1, EditsConstants DEF EditsCore, EditsTypes, EditsOps, Edits!Idle, Edits!Defaults
<1>3. op' = [op EXCEPT ![e] = new]
    BY <1>1, <1>2 DEF EditsOps, Edits!Idle, Edits!Begin, Edits!Start, Edits!Owned
<1>4. op' \in [Editors -> EditsOps] /\ op'[e] = new /\ \A f \in Editors : f # e => op'[f] = op[f]
    BY <1>3, EditsChanged DEF EditsCore
<1>5. EditsTypes'
    BY <1>1, <1>2, <1>4, EditsConstants DEF EditsCore, EditsTypes, Edits!Idle, Edits!Creation, Edits!Policy, Edits!Workspaces, Edits!Defaults, Edits!Begin, Edits!Start, Edits!Owned
<1>6. Edits!Creation'
    BY <1>1, <1>2, <1>4, EditsConstants DEF EditsCore, EditsTypes, Edits!Idle, Edits!Creation, Edits!Policy, Edits!Defaults, Edits!Begin, Edits!Start, Edits!Owned
<1>7. Edits!Policy'
    BY <1>1, <1>2, <1>4, EditsConstants DEF EditsCore, EditsTypes, Edits!Idle, Edits!Creation, Edits!Policy, Edits!Workspaces, Edits!Defaults, Edits!Begin, Edits!Start, Edits!Owned
<1>8. Edits!DeletedCourseIsGone'
    BY <1>1, <1>2, <1>4, EditsConstants DEF EditsCore, EditsTypes, Edits!Idle, Edits!Creation, Edits!Policy, Edits!DeletedCourseIsGone, Edits!Busy, Edits!Defaults, Edits!Begin, Edits!Start, Edits!Owned
<1>9. QED
    BY <1>5, <1>6, <1>7, <1>8 DEF EditsCore

LEMMA EditsBeginUpload ==
    ASSUME EditsCore, NEW e \in Editors, Edits!Begin(e, "upload", NoRule)
    PROVE  EditsCore'
<1>1. op[e] \in EditsOps
    BY DEF EditsCore, EditsTypes
<1>2. PICK new \in EditsOps : new = [kind |-> "upload", at |-> "locking", rule |-> NoRule, seen |-> NoCourse]
    BY <1>1, EditsConstants DEF EditsCore, EditsTypes, EditsOps, Edits!Idle, Edits!Defaults
<1>3. op' = [op EXCEPT ![e] = new]
    BY <1>1, <1>2 DEF EditsOps, Edits!Idle, Edits!Begin, Edits!Start, Edits!Owned
<1>4. op' \in [Editors -> EditsOps] /\ op'[e] = new /\ \A f \in Editors : f # e => op'[f] = op[f]
    BY <1>3, EditsChanged DEF EditsCore
<1>5. EditsTypes'
    BY <1>1, <1>2, <1>4, EditsConstants DEF EditsCore, EditsTypes, Edits!Idle, Edits!Creation, Edits!Policy, Edits!Workspaces, Edits!Defaults, Edits!Begin, Edits!Start, Edits!Owned
<1>6. Edits!Creation'
    BY <1>1, <1>2, <1>4, EditsConstants DEF EditsCore, EditsTypes, Edits!Idle, Edits!Creation, Edits!Policy, Edits!Defaults, Edits!Begin, Edits!Start, Edits!Owned
<1>7. Edits!Policy'
    BY <1>1, <1>2, <1>4, EditsConstants DEF EditsCore, EditsTypes, Edits!Idle, Edits!Creation, Edits!Policy, Edits!Workspaces, Edits!Defaults, Edits!Begin, Edits!Start, Edits!Owned
<1>8. Edits!DeletedCourseIsGone'
    BY <1>1, <1>2, <1>4, EditsConstants DEF EditsCore, EditsTypes, Edits!Idle, Edits!Creation, Edits!Policy, Edits!DeletedCourseIsGone, Edits!Busy, Edits!Defaults, Edits!Begin, Edits!Start, Edits!Owned
<1>9. QED
    BY <1>5, <1>6, <1>7, <1>8 DEF EditsCore

LEMMA EditsDelete ==
    ASSUME EditsCore, NEW e \in Editors, Edits!DeleteCourse(e)
    PROVE  EditsCore'
<1>1. op[e] \in EditsOps
    BY DEF EditsCore, EditsTypes
<1>2. PICK new \in EditsOps : new = [kind |-> "delete", at |-> "locking", rule |-> NoRule, seen |-> NoCourse]
    BY <1>1, EditsConstants DEF EditsCore, EditsTypes, EditsOps, Edits!Idle, Edits!Defaults
<1>3. op' = [op EXCEPT ![e] = new]
    <2>1. [Edits!Idle EXCEPT !.kind = "delete", !.at = "locking"] = new
        BY <1>2, OtherRequest DEF Edits!Idle
    <2>2. QED
        BY <2>1 DEF Edits!DeleteCourse, Edits!Owned
<1>4. op' \in [Editors -> EditsOps] /\ op'[e] = new /\ \A f \in Editors : f # e => op'[f] = op[f]
    BY <1>3, EditsChanged DEF EditsCore
<1>5. EditsTypes'
    BY <1>1, <1>2, <1>4, EditsConstants DEF EditsCore, EditsTypes, Edits!Idle, Edits!Creation, Edits!Policy, Edits!Workspaces, Edits!Defaults, Edits!DeleteCourse, Edits!Owned
<1>6. Edits!Creation'
    BY <1>1, <1>2, <1>4, EditsConstants DEF EditsCore, EditsTypes, Edits!Idle, Edits!Creation, Edits!Policy, Edits!Defaults, Edits!DeleteCourse, Edits!Owned
<1>7. Edits!Policy'
    BY <1>1, <1>2, <1>4, EditsConstants DEF EditsCore, EditsTypes, Edits!Idle, Edits!Creation, Edits!Policy, Edits!Workspaces, Edits!Defaults, Edits!DeleteCourse, Edits!Owned
<1>8. Edits!DeletedCourseIsGone'
    BY <1>1, <1>2, <1>4, EditsConstants DEF EditsCore, EditsTypes, Edits!Idle, Edits!Creation, Edits!Policy, Edits!DeletedCourseIsGone, Edits!Busy, Edits!Defaults, Edits!DeleteCourse, Edits!Owned
<1>9. QED
    BY <1>5, <1>6, <1>7, <1>8 DEF EditsCore

LEMMA EditsLock ==
    ASSUME EditsCore, NEW e \in Editors, Edits!TakeLock(e)
    PROVE  EditsCore'
<1>1. op[e] \in EditsOps
    BY DEF EditsCore, EditsTypes
<1>2. PICK new \in EditsOps : new = [op[e] EXCEPT !.at = "locked"]
    BY <1>1, EditsConstants DEF EditsCore, EditsTypes, EditsOps, Edits!Idle, Edits!Defaults
<1>3. op' = [op EXCEPT ![e] = new]
    BY <1>1, <1>2 DEF EditsOps, Edits!Idle, Edits!TakeLock
<1>4. op' \in [Editors -> EditsOps] /\ op'[e] = new /\ \A f \in Editors : f # e => op'[f] = op[f]
    BY <1>3, EditsChanged DEF EditsCore
<1>5. EditsTypes'
    BY <1>1, <1>2, <1>4, EditsConstants DEF EditsCore, EditsTypes, Edits!Idle, Edits!Creation, Edits!Policy, Edits!Workspaces, Edits!Defaults, Edits!TakeLock
<1>6. Edits!Creation'
    BY <1>1, <1>2, <1>4, EditsConstants DEF EditsCore, EditsTypes, Edits!Idle, Edits!Creation, Edits!Policy, Edits!Defaults, Edits!TakeLock
<1>7. Edits!Policy'
    BY <1>1, <1>2, <1>4, EditsConstants DEF EditsCore, EditsTypes, Edits!Idle, Edits!Creation, Edits!Policy, Edits!Workspaces, Edits!Defaults, Edits!TakeLock
<1>8. Edits!DeletedCourseIsGone'
    BY <1>1, <1>2, <1>4, EditsConstants DEF EditsCore, EditsTypes, Edits!Idle, Edits!Creation, Edits!Policy, Edits!DeletedCourseIsGone, Edits!Busy, Edits!Defaults, Edits!TakeLock
<1>9. QED
    BY <1>5, <1>6, <1>7, <1>8 DEF EditsCore

LEMMA EditsRefuse ==
    ASSUME EditsCore, NEW e \in Editors, Edits!UpdateDatabasePolicy(e), file = NoFile \/ db = NoCourse
    PROVE  EditsCore'
<1>1. op[e] \in EditsOps
    BY DEF EditsCore, EditsTypes
<1>2. PICK new \in EditsOps : new = Edits!Idle
    BY <1>1, EditsConstants DEF EditsCore, EditsTypes, EditsOps, Edits!Idle, Edits!Defaults
<1>3. op' = [op EXCEPT ![e] = new]
    BY <1>1, <1>2 DEF EditsOps, Edits!Idle, Edits!UpdateDatabasePolicy, Edits!Finish, Edits!Holds
<1>4. op' \in [Editors -> EditsOps] /\ op'[e] = new /\ \A f \in Editors : f # e => op'[f] = op[f]
    BY <1>3, EditsChanged DEF EditsCore
<1>5. EditsTypes'
    BY <1>1, <1>2, <1>4, EditsConstants DEF EditsCore, EditsTypes, Edits!Idle, Edits!Creation, Edits!Policy, Edits!Workspaces, Edits!Defaults, Edits!UpdateDatabasePolicy, Edits!Finish, Edits!Holds
<1>6. Edits!Creation'
    BY <1>1, <1>2, <1>4, EditsConstants DEF EditsCore, EditsTypes, Edits!Idle, Edits!Creation, Edits!Policy, Edits!Defaults, Edits!UpdateDatabasePolicy, Edits!Finish, Edits!Holds
<1>7. Edits!Policy'
    BY <1>1, <1>2, <1>4, EditsConstants DEF EditsCore, EditsTypes, Edits!Idle, Edits!Creation, Edits!Policy, Edits!Workspaces, Edits!Defaults, Edits!UpdateDatabasePolicy, Edits!Finish, Edits!Holds
<1>8. Edits!DeletedCourseIsGone'
    BY <1>1, <1>2, <1>4, EditsConstants DEF EditsCore, EditsTypes, Edits!Idle, Edits!Creation, Edits!Policy, Edits!DeletedCourseIsGone, Edits!Busy, Edits!Defaults, Edits!UpdateDatabasePolicy, Edits!Finish, Edits!Holds
<1>9. QED
    BY <1>5, <1>6, <1>7, <1>8 DEF EditsCore

LEMMA EditsStore ==
    ASSUME EditsCore, NEW e \in Editors, Edits!UpdateDatabasePolicy(e), ~(file = NoFile \/ db = NoCourse)
    PROVE  EditsCore'
<1>1. op[e] \in EditsOps
    BY DEF EditsCore, EditsTypes
<1>2. PICK new \in EditsOps : new = [op[e] EXCEPT !.at = "stored", !.seen = db]
    BY <1>1, EditsConstants DEF EditsCore, EditsTypes, EditsOps, Edits!Idle, Edits!Defaults
<1>3. op' = [op EXCEPT ![e] = new]
    BY <1>1, <1>2 DEF EditsOps, Edits!Idle, Edits!UpdateDatabasePolicy, Edits!Holds
<1>4. op' \in [Editors -> EditsOps] /\ op'[e] = new /\ \A f \in Editors : f # e => op'[f] = op[f]
    BY <1>3, EditsChanged DEF EditsCore
<1>5. /\ op[e].kind = "course" /\ op[e].at = "locked" /\ lock = e /\ op[e].rule \in Defaults
      /\ new.kind = "course" /\ new.at = "stored" /\ new.rule = op[e].rule /\ new.seen = db
      /\ \A f \in Editors : op[f].at # "stored"
    BY <1>1, <1>2 DEF EditsCore, EditsTypes, EditsOps, Edits!UpdateDatabasePolicy, Edits!Holds
<1>6. EditsTypes'
    BY <1>1, <1>4, <1>5, EditsConstants DEF EditsCore, EditsTypes, Edits!Idle, Edits!Creation, Edits!Policy, Edits!Workspaces, Edits!Defaults, Edits!UpdateDatabasePolicy, Edits!Holds
<1>7. Edits!Creation'
    BY <1>1, <1>4, <1>5, EditsConstants DEF EditsCore, EditsTypes, Edits!Idle, Edits!Creation, Edits!Policy, Edits!Defaults, Edits!UpdateDatabasePolicy, Edits!Holds
<1>8. Edits!Policy'
    BY <1>1, <1>4, <1>5, EditsConstants DEF EditsCore, EditsTypes, Edits!Idle, Edits!Creation, Edits!Policy, Edits!Workspaces, Edits!Defaults, Edits!UpdateDatabasePolicy, Edits!Holds
<1>9. Edits!DeletedCourseIsGone'
    BY <1>1, <1>4, <1>5, EditsConstants DEF EditsCore, EditsTypes, Edits!Idle, Edits!Creation, Edits!Policy, Edits!DeletedCourseIsGone, Edits!Busy, Edits!Defaults, Edits!UpdateDatabasePolicy, Edits!Holds
<1>10. QED
    BY <1>6, <1>7, <1>8, <1>9 DEF EditsCore

LEMMA EditsWriteCourse ==
    ASSUME EditsCore, NEW e \in Editors, Edits!WriteCourseRule(e)
    PROVE  EditsCore'
<1>1. op[e] \in EditsOps
    BY DEF EditsCore, EditsTypes
<1>2. PICK new \in EditsOps : new = Edits!Idle
    BY <1>1, EditsConstants DEF EditsCore, EditsTypes, EditsOps, Edits!Idle, Edits!Defaults
<1>3. op' = [op EXCEPT ![e] = new]
    BY <1>1, <1>2 DEF EditsOps, Edits!Idle, Edits!WriteCourseRule, Edits!Finish, Edits!Holds
<1>4. op' \in [Editors -> EditsOps] /\ op'[e] = new /\ \A f \in Editors : f # e => op'[f] = op[f]
    BY <1>3, EditsChanged DEF EditsCore
<1>5. EditsTypes'
    BY <1>1, <1>2, <1>4, EditsConstants DEF EditsCore, EditsTypes, Edits!Idle, Edits!Creation, Edits!Policy, Edits!Workspaces, Edits!Defaults, Edits!WriteCourseRule, Edits!Finish, Edits!Holds
<1>6. Edits!Creation'
    BY <1>1, <1>2, <1>4, EditsConstants DEF EditsCore, EditsTypes, Edits!Idle, Edits!Creation, Edits!Policy, Edits!Defaults, Edits!WriteCourseRule, Edits!Finish, Edits!Holds
<1>7. Edits!Policy'
    BY <1>1, <1>2, <1>4, EditsConstants DEF EditsCore, EditsTypes, Edits!Idle, Edits!Creation, Edits!Policy, Edits!Workspaces, Edits!Defaults, Edits!WriteCourseRule, Edits!Finish, Edits!Holds
<1>8. Edits!DeletedCourseIsGone'
    BY <1>1, <1>2, <1>4, EditsConstants DEF EditsCore, EditsTypes, Edits!Idle, Edits!Creation, Edits!Policy, Edits!DeletedCourseIsGone, Edits!Busy, Edits!Defaults, Edits!WriteCourseRule, Edits!Finish, Edits!Holds
<1>9. QED
    BY <1>5, <1>6, <1>7, <1>8 DEF EditsCore

LEMMA EditsRestore ==
    ASSUME EditsCore, NEW e \in Editors, Edits!RestoreDatabasePolicy(e)
    PROVE  EditsCore'
<1>1. op[e] \in EditsOps
    BY DEF EditsCore, EditsTypes
<1>2. PICK new \in EditsOps : new = Edits!Idle
    BY <1>1, EditsConstants DEF EditsCore, EditsTypes, EditsOps, Edits!Idle, Edits!Defaults
<1>3. op' = [op EXCEPT ![e] = new]
    BY <1>1, <1>2 DEF EditsOps, Edits!Idle, Edits!RestoreDatabasePolicy, Edits!Finish, Edits!Holds
<1>4. op' \in [Editors -> EditsOps] /\ op'[e] = new /\ \A f \in Editors : f # e => op'[f] = op[f]
    BY <1>3, EditsChanged DEF EditsCore
<1>5. EditsTypes'
    BY <1>1, <1>2, <1>4, EditsConstants DEF EditsCore, EditsTypes, Edits!Idle, Edits!Creation, Edits!Policy, Edits!Workspaces, Edits!Defaults, Edits!RestoreDatabasePolicy, Edits!Finish, Edits!Holds
<1>6. Edits!Creation'
    BY <1>1, <1>2, <1>4, EditsConstants DEF EditsCore, EditsTypes, Edits!Idle, Edits!Creation, Edits!Policy, Edits!Defaults, Edits!RestoreDatabasePolicy, Edits!Finish, Edits!Holds
<1>7. Edits!Policy'
    BY <1>1, <1>2, <1>4, EditsConstants DEF EditsCore, EditsTypes, Edits!Idle, Edits!Creation, Edits!Policy, Edits!Workspaces, Edits!Defaults, Edits!RestoreDatabasePolicy, Edits!Finish, Edits!Holds
<1>8. Edits!DeletedCourseIsGone'
    BY <1>1, <1>2, <1>4, EditsConstants DEF EditsCore, EditsTypes, Edits!Idle, Edits!Creation, Edits!Policy, Edits!DeletedCourseIsGone, Edits!Busy, Edits!Defaults, Edits!RestoreDatabasePolicy, Edits!Finish, Edits!Holds
<1>9. QED
    BY <1>5, <1>6, <1>7, <1>8 DEF EditsCore

LEMMA EditsWriteOverride ==
    ASSUME EditsCore, NEW e \in Editors, Edits!WriteOverride(e)
    PROVE  EditsCore'
<1>1. op[e] \in EditsOps
    BY DEF EditsCore, EditsTypes
<1>2. PICK new \in EditsOps : new = Edits!Idle
    BY <1>1, EditsConstants DEF EditsCore, EditsTypes, EditsOps, Edits!Idle, Edits!Defaults
<1>3. op' = [op EXCEPT ![e] = new]
    BY <1>1, <1>2 DEF EditsOps, Edits!Idle, Edits!WriteOverride, Edits!Finish, Edits!Holds
<1>4. op' \in [Editors -> EditsOps] /\ op'[e] = new /\ \A f \in Editors : f # e => op'[f] = op[f]
    BY <1>3, EditsChanged DEF EditsCore
<1>5. file # NoFile => Edits!Materialize(op[e].rule) \in Edits!Rules \cup {NoRule}
    BY EditsConstants DEF EditsCore, EditsTypes, Edits!Materialize, Edits!Rules, Edits!WriteOverride, Edits!Holds
<1>6. EditsTypes'
    BY <1>1, <1>2, <1>4, <1>5, EditsConstants DEF EditsCore, EditsTypes, Edits!Idle, Edits!Creation, Edits!Policy, Edits!Workspaces, Edits!Defaults, Edits!WriteOverride, Edits!Finish, Edits!Holds
<1>7. Edits!Creation'
    BY <1>1, <1>2, <1>4, <1>5, EditsConstants DEF EditsCore, EditsTypes, Edits!Idle, Edits!Creation, Edits!Policy, Edits!Defaults, Edits!WriteOverride, Edits!Finish, Edits!Holds
<1>8. Edits!Policy'
    BY <1>1, <1>2, <1>4, <1>5, EditsConstants DEF EditsCore, EditsTypes, Edits!Idle, Edits!Creation, Edits!Policy, Edits!Workspaces, Edits!Defaults, Edits!WriteOverride, Edits!Finish, Edits!Holds
<1>9. Edits!DeletedCourseIsGone'
    BY <1>1, <1>2, <1>4, <1>5, EditsConstants DEF EditsCore, EditsTypes, Edits!Idle, Edits!Creation, Edits!Policy, Edits!DeletedCourseIsGone, Edits!Busy, Edits!Defaults, Edits!WriteOverride, Edits!Finish, Edits!Holds
<1>10. QED
    BY <1>6, <1>7, <1>8, <1>9 DEF EditsCore

LEMMA EditsWriteWorkspace ==
    ASSUME EditsCore, NEW e \in Editors, Edits!WriteWorkspace(e)
    PROVE  EditsCore'
<1>1. op[e] \in EditsOps
    BY DEF EditsCore, EditsTypes
<1>2. PICK new \in EditsOps : new = Edits!Idle
    BY <1>1, EditsConstants DEF EditsCore, EditsTypes, EditsOps, Edits!Idle, Edits!Defaults
<1>3. op' = [op EXCEPT ![e] = new]
    BY <1>1, <1>2 DEF EditsOps, Edits!Idle, Edits!WriteWorkspace, Edits!Finish, Edits!Holds, Edits!Merge
<1>4. op' \in [Editors -> EditsOps] /\ op'[e] = new /\ \A f \in Editors : f # e => op'[f] = op[f]
    BY <1>3, EditsChanged DEF EditsCore
<1>5. op[e].kind = "create" /\ op[e].at = "locked" /\ lock = e
    BY <1>1 DEF EditsOps, EditsCore, EditsTypes, Edits!WriteWorkspace, Edits!Holds
<1>6. /\ file' = [course |-> [policy |-> db, mode |-> "date"], override |-> NoRule]
      /\ db \in Edits!Policies /\ db # NoCourse /\ created
      /\ \A f \in Editors : op[f].kind = "create" => f = e
      /\ \A f \in Editors : op[f].at # "stored"
    BY <1>5, EditsConstants DEF EditsCore, EditsTypes, Edits!Creation, Edits!WriteWorkspace, Edits!Merge
<1>7. EditsTypes'
    BY <1>1, <1>2, <1>4, <1>5, <1>6, EditsConstants DEF EditsCore, EditsTypes, Edits!Idle, Edits!Creation, Edits!Policy, Edits!Workspaces, Edits!Defaults, Edits!WriteWorkspace, Edits!Finish, Edits!Holds, Edits!Merge
<1>8. Edits!Creation'
    BY <1>1, <1>2, <1>4, <1>5, <1>6, EditsConstants DEF EditsCore, EditsTypes, Edits!Idle, Edits!Creation, Edits!Policy, Edits!Defaults, Edits!WriteWorkspace, Edits!Finish, Edits!Holds, Edits!Merge
<1>9. Edits!Policy'
    BY <1>1, <1>2, <1>4, <1>5, <1>6, EditsConstants DEF EditsCore, EditsTypes, Edits!Idle, Edits!Creation, Edits!Policy, Edits!Workspaces, Edits!Defaults, Edits!WriteWorkspace, Edits!Finish, Edits!Holds, Edits!Merge
<1>10. Edits!DeletedCourseIsGone'
    BY <1>1, <1>2, <1>4, <1>5, <1>6, EditsConstants DEF EditsCore, EditsTypes, Edits!Idle, Edits!Creation, Edits!Policy, Edits!DeletedCourseIsGone, Edits!Busy, Edits!Defaults, Edits!WriteWorkspace, Edits!Finish, Edits!Holds, Edits!Merge
<1>11. QED
    BY <1>7, <1>8, <1>9, <1>10 DEF EditsCore

LEMMA EditsCreateFails ==
    ASSUME EditsCore, NEW e \in Editors, Edits!CreateFails(e)
    PROVE  EditsCore'
<1>1. op[e] \in EditsOps
    BY DEF EditsCore, EditsTypes
<1>2. PICK new \in EditsOps : new = [kind |-> "delete", at |-> "locking", rule |-> NoRule, seen |-> NoCourse]
    BY <1>1, EditsConstants DEF EditsCore, EditsTypes, EditsOps, Edits!Idle, Edits!Defaults
<1>3. op' = [op EXCEPT ![e] = new]
    <2>1. [Edits!Idle EXCEPT !.kind = "delete", !.at = "locking"] = new
        BY <1>2, OtherRequest DEF Edits!Idle
    <2>2. QED
        BY <2>1 DEF Edits!CreateFails, Edits!Holds
<1>4. op' \in [Editors -> EditsOps] /\ op'[e] = new /\ \A f \in Editors : f # e => op'[f] = op[f]
    BY <1>3, EditsChanged DEF EditsCore
<1>5. EditsTypes'
    BY <1>1, <1>2, <1>4, EditsConstants DEF EditsCore, EditsTypes, Edits!Idle, Edits!Creation, Edits!Policy, Edits!Workspaces, Edits!Defaults, Edits!CreateFails, Edits!Holds
<1>6. Edits!Creation'
    BY <1>1, <1>2, <1>4, EditsConstants DEF EditsCore, EditsTypes, Edits!Idle, Edits!Creation, Edits!Policy, Edits!Defaults, Edits!CreateFails, Edits!Holds
<1>7. Edits!Policy'
    BY <1>1, <1>2, <1>4, EditsConstants DEF EditsCore, EditsTypes, Edits!Idle, Edits!Creation, Edits!Policy, Edits!Workspaces, Edits!Defaults, Edits!CreateFails, Edits!Holds
<1>8. Edits!DeletedCourseIsGone'
    BY <1>1, <1>2, <1>4, EditsConstants DEF EditsCore, EditsTypes, Edits!Idle, Edits!Creation, Edits!Policy, Edits!DeletedCourseIsGone, Edits!Busy, Edits!Defaults, Edits!CreateFails, Edits!Holds
<1>9. QED
    BY <1>5, <1>6, <1>7, <1>8 DEF EditsCore

LEMMA EditsUpload ==
    ASSUME EditsCore, NEW e \in Editors, Edits!PromoteUpload(e)
    PROVE  EditsCore'
<1>1. op[e] \in EditsOps
    BY DEF EditsCore, EditsTypes
<1>2. PICK new \in EditsOps : new = Edits!Idle
    BY <1>1, EditsConstants DEF EditsCore, EditsTypes, EditsOps, Edits!Idle, Edits!Defaults
<1>3. op' = [op EXCEPT ![e] = new]
    BY <1>1, <1>2 DEF EditsOps, Edits!Idle, Edits!PromoteUpload, Edits!Finish, Edits!Holds
<1>4. op' \in [Editors -> EditsOps] /\ op'[e] = new /\ \A f \in Editors : f # e => op'[f] = op[f]
    BY <1>3, EditsChanged DEF EditsCore
<1>5. EditsTypes'
    BY <1>1, <1>2, <1>4, EditsConstants DEF EditsCore, EditsTypes, Edits!Idle, Edits!Creation, Edits!Policy, Edits!Workspaces, Edits!Defaults, Edits!PromoteUpload, Edits!Finish, Edits!Holds
<1>6. Edits!Creation'
    BY <1>1, <1>2, <1>4, EditsConstants DEF EditsCore, EditsTypes, Edits!Idle, Edits!Creation, Edits!Policy, Edits!Defaults, Edits!PromoteUpload, Edits!Finish, Edits!Holds
<1>7. Edits!Policy'
    BY <1>1, <1>2, <1>4, EditsConstants DEF EditsCore, EditsTypes, Edits!Idle, Edits!Creation, Edits!Policy, Edits!Workspaces, Edits!Defaults, Edits!PromoteUpload, Edits!Finish, Edits!Holds
<1>8. Edits!DeletedCourseIsGone'
    BY <1>1, <1>2, <1>4, EditsConstants DEF EditsCore, EditsTypes, Edits!Idle, Edits!Creation, Edits!Policy, Edits!DeletedCourseIsGone, Edits!Busy, Edits!Defaults, Edits!PromoteUpload, Edits!Finish, Edits!Holds
<1>9. QED
    BY <1>5, <1>6, <1>7, <1>8 DEF EditsCore

LEMMA EditsDeleteFiles ==
    ASSUME EditsCore, NEW e \in Editors, Edits!DeleteCourseFiles(e)
    PROVE  EditsCore'
<1>1. op[e] \in EditsOps
    BY DEF EditsCore, EditsTypes
<1>2. PICK new \in EditsOps : new = Edits!Idle
    BY <1>1, EditsConstants DEF EditsCore, EditsTypes, EditsOps, Edits!Idle, Edits!Defaults
<1>3. op' = [op EXCEPT ![e] = new]
    BY <1>1, <1>2 DEF EditsOps, Edits!Idle, Edits!DeleteCourseFiles, Edits!Finish, Edits!Holds
<1>4. op' \in [Editors -> EditsOps] /\ op'[e] = new /\ \A f \in Editors : f # e => op'[f] = op[f]
    BY <1>3, EditsChanged DEF EditsCore
<1>5. EditsTypes'
    BY <1>1, <1>2, <1>4, EditsConstants DEF EditsCore, EditsTypes, Edits!Idle, Edits!Creation, Edits!Policy, Edits!Workspaces, Edits!Defaults, Edits!DeleteCourseFiles, Edits!Finish, Edits!Holds
<1>6. Edits!Creation'
    BY <1>1, <1>2, <1>4, EditsConstants DEF EditsCore, EditsTypes, Edits!Idle, Edits!Creation, Edits!Policy, Edits!Defaults, Edits!DeleteCourseFiles, Edits!Finish, Edits!Holds
<1>7. Edits!Policy'
    BY <1>1, <1>2, <1>4, EditsConstants DEF EditsCore, EditsTypes, Edits!Idle, Edits!Creation, Edits!Policy, Edits!Workspaces, Edits!Defaults, Edits!DeleteCourseFiles, Edits!Finish, Edits!Holds
<1>8. Edits!DeletedCourseIsGone'
    BY <1>1, <1>2, <1>4, EditsConstants DEF EditsCore, EditsTypes, Edits!Idle, Edits!Creation, Edits!Policy, Edits!DeletedCourseIsGone, Edits!Busy, Edits!Defaults, Edits!DeleteCourseFiles, Edits!Finish, Edits!Holds
<1>9. QED
    BY <1>5, <1>6, <1>7, <1>8 DEF EditsCore

LEMMA EditsShare ==
    ASSUME EditsCore, NEW e \in Editors, Edits!ShareCourse(e)
    PROVE  EditsCore'
<1>1. op[e] \in EditsOps
    BY DEF EditsCore, EditsTypes
<1>2. PICK new \in EditsOps : new = [kind |-> "invite", at |-> "sharing", rule |-> NoRule, seen |-> NoCourse]
    BY <1>1, EditsConstants DEF EditsCore, EditsTypes, EditsOps, Edits!Idle, Edits!Defaults
<1>3. op' = [op EXCEPT ![e] = new]
    <2>1. [Edits!Idle EXCEPT !.kind = "invite", !.at = "sharing"] = new
        BY <1>2, OtherRequest DEF Edits!Idle
    <2>2. QED
        BY <2>1 DEF Edits!ShareCourse, Edits!Owned
<1>4. op' \in [Editors -> EditsOps] /\ op'[e] = new /\ \A f \in Editors : f # e => op'[f] = op[f]
    BY <1>3, EditsChanged DEF EditsCore
<1>5. EditsTypes'
    BY <1>1, <1>2, <1>4, EditsConstants DEF EditsCore, EditsTypes, Edits!Idle, Edits!Creation, Edits!Policy, Edits!Workspaces, Edits!Defaults, Edits!ShareCourse, Edits!Owned
<1>6. Edits!Creation'
    BY <1>1, <1>2, <1>4, EditsConstants DEF EditsCore, EditsTypes, Edits!Idle, Edits!Creation, Edits!Policy, Edits!Defaults, Edits!ShareCourse, Edits!Owned
<1>7. Edits!Policy'
    BY <1>1, <1>2, <1>4, EditsConstants DEF EditsCore, EditsTypes, Edits!Idle, Edits!Creation, Edits!Policy, Edits!Workspaces, Edits!Defaults, Edits!ShareCourse, Edits!Owned
<1>8. Edits!DeletedCourseIsGone'
    BY <1>1, <1>2, <1>4, EditsConstants DEF EditsCore, EditsTypes, Edits!Idle, Edits!Creation, Edits!Policy, Edits!DeletedCourseIsGone, Edits!Busy, Edits!Defaults, Edits!ShareCourse, Edits!Owned
<1>9. QED
    BY <1>5, <1>6, <1>7, <1>8 DEF EditsCore

LEMMA EditsRotate ==
    ASSUME EditsCore, NEW e \in Editors, Edits!RotateInvite(e)
    PROVE  EditsCore'
<1>1. op[e] \in EditsOps
    BY DEF EditsCore, EditsTypes
<1>2. PICK new \in EditsOps : new = Edits!Idle
    BY <1>1, EditsConstants DEF EditsCore, EditsTypes, EditsOps, Edits!Idle, Edits!Defaults
<1>3. op' = [op EXCEPT ![e] = new]
    BY <1>1, <1>2 DEF EditsOps, Edits!Idle, Edits!RotateInvite, Edits!Holds
<1>4. op' \in [Editors -> EditsOps] /\ op'[e] = new /\ \A f \in Editors : f # e => op'[f] = op[f]
    BY <1>3, EditsChanged DEF EditsCore
<1>5. EditsTypes'
    BY <1>1, <1>2, <1>4, EditsConstants DEF EditsCore, EditsTypes, Edits!Idle, Edits!Creation, Edits!Policy, Edits!Workspaces, Edits!Defaults, Edits!RotateInvite, Edits!Holds
<1>6. Edits!Creation'
    BY <1>1, <1>2, <1>4, EditsConstants DEF EditsCore, EditsTypes, Edits!Idle, Edits!Creation, Edits!Policy, Edits!Defaults, Edits!RotateInvite, Edits!Holds
<1>7. Edits!Policy'
    BY <1>1, <1>2, <1>4, EditsConstants DEF EditsCore, EditsTypes, Edits!Idle, Edits!Creation, Edits!Policy, Edits!Workspaces, Edits!Defaults, Edits!RotateInvite, Edits!Holds
<1>8. Edits!DeletedCourseIsGone'
    BY <1>1, <1>2, <1>4, EditsConstants DEF EditsCore, EditsTypes, Edits!Idle, Edits!Creation, Edits!Policy, Edits!DeletedCourseIsGone, Edits!Busy, Edits!Defaults, Edits!RotateInvite, Edits!Holds
<1>9. QED
    BY <1>5, <1>6, <1>7, <1>8 DEF EditsCore


\* What leaves the course and its requests alone.
LEMMA EditsSame ==
    ASSUME EditsCore, UNCHANGED <<db, file, lock, op, created>>, rest' \subseteq rest, day' \in 0 .. 2
    PROVE  EditsCore'
BY DEF EditsCore, EditsTypes, Edits!Idle, Edits!Creation, Edits!Policy, Edits!DeletedCourseIsGone, Edits!Busy

LEMMA EditsProfessor ==
    ASSUME EditsCore, NEW e \in Editors, Edits!Professor(e)
    PROVE  EditsCore'
<1>1. ASSUME NEW rule \in Defaults, Edits!CreateCourse(e, rule) \/ Edits!Begin(e, "course", rule)
      PROVE  EditsCore'
    BY <1>1, EditsCreate, EditsBeginCourse
<1>2. ASSUME NEW rule \in {Open, Closed} \cup {NoRule}, Edits!Begin(e, "lecture", rule)
      PROVE  EditsCore'
    BY <1>2, EditsBeginLecture
<1>3. ~Edits!Begin(e, "setup", NoRule)
    BY EditsConstants DEF Edits!Begin
<1>4. CASE Edits!Begin(e, "upload", NoRule)
    BY <1>4, EditsBeginUpload
<1>5. CASE Edits!UpdateDatabasePolicy(e)
    BY <1>5, EditsRefuse, EditsStore
<1>6. CASE Edits!DeleteCourse(e) \/ Edits!TakeLock(e) \/ Edits!WriteCourseRule(e) \/ Edits!RestoreDatabasePolicy(e)
           \/ Edits!WriteOverride(e) \/ Edits!WriteWorkspace(e)
    BY <1>6, EditsDelete, EditsLock, EditsWriteCourse, EditsRestore, EditsWriteOverride, EditsWriteWorkspace
<1>7. CASE Edits!CreateFails(e) \/ Edits!PromoteUpload(e) \/ Edits!DeleteCourseFiles(e) \/ Edits!ShareCourse(e)
           \/ Edits!RotateInvite(e)
    BY <1>7, EditsCreateFails, EditsUpload, EditsDeleteFiles, EditsShare, EditsRotate
<1>8. QED
    BY <1>1, <1>2, <1>3, <1>4, <1>5, <1>6, <1>7 DEF Edits!Professor

\* A learner changes nothing of the course.
LEMMA EditsLearner ==
    ASSUME NEW u \in {}, Edits!Learner(u)
    PROVE  UNCHANGED <<db, file, rest, lock, op, created, day>>
BY DEF Edits!Learner, Edits!RequireValidCode, Edits!Join, Edits!ReadRow, Edits!ReadCourse, Edits!ReadLectures, Edits!Decide,
    Edits!Unread

LEMMA EditsCoreNext ==
    ASSUME EditsCore, Edits!Next
    PROVE  EditsCore'
<1>1. CASE \E e \in Editors : Edits!Professor(e)
    BY <1>1, EditsProfessor
<1>2. CASE Edits!DisableInvite
    BY <1>2, EditsSame DEF Edits!DisableInvite, EditsCore, EditsTypes
<1>3. CASE \E u \in {} : Edits!Learner(u)
    BY <1>3, EditsLearner, EditsSame DEF EditsCore, EditsTypes
<1>4. CASE Edits!NextDay
    <2>1. day' \in 0 .. 2
        BY <1>4, EditsConstants DEF Edits!NextDay, EditsCore, EditsTypes
    <2>2. QED
        BY <1>4, <2>1, EditsSame DEF Edits!NextDay
<1>5. QED
    BY <1>1, <1>2, <1>3, <1>4 DEF Edits!Next, Edits!Crash

LEMMA EditsInit == Edits!Init => EditsCore
<1> SUFFICES ASSUME Edits!Init PROVE EditsCore
    OBVIOUS
<1>1. Edits!Idle \in EditsOps /\ Edits!Idle.kind = "none" /\ Edits!Idle.at = "idle"
    BY EditsConstants DEF Edits!Idle, EditsOps
<1>2. EditsTypes
    <2>1. op \in [Editors -> EditsOps] /\ \A e \in Editors : op[e] = Edits!Idle
        BY <1>1 DEF Edits!Init
    <2>2. \A e \in Editors : lock # e /\ op[e].at = "idle" /\ op[e].kind = "none"
        BY <1>1, <2>1, EditsConstants DEF Edits!Init
    <2>3. day \in 0 .. 2 /\ rest \subseteq {"uploads", "invite"}
        BY EditsConstants DEF Edits!Init
    <2>4. QED
        BY <2>1, <2>2, <2>3 DEF Edits!Init, EditsTypes
<1>3. QED
    BY <1>1, <1>2, EditsConstants DEF Edits!Init, EditsCore, Edits!Creation, Edits!Policy, Edits!DeletedCourseIsGone


----------------------------------------------------------------------------
(* Access to a course: what learners are told.                             *)

LEMMA AnswersConstants ==
    /\ NoCourse \notin Answers!Policies /\ Nobody \notin {Editor}
    /\ \A rule \in {Dated} : rule \in Answers!Defaults
    /\ \A rule \in {Now, Closed} : rule \in Answers!Rules
    /\ Answers!OpenedKinds = {"lecture", "upload", "course"}
    /\ 1 \in Nat
BY AnswersAssumption DEF Answers!CourseAccessAssumption, Answers!Policies, Answers!Defaults, Answers!Rules, Answers!Modes, Answers!OpenedKinds,
    Dated, Defaults, Open, Closed, Now, Rule

\* What a request of the professor is doing.
AnswersOps == [kind : {"none", "delete", "invite", "create", "lecture", "upload", "course"},
             at : {"idle", "locking", "locked", "stored", "sharing"},
             rule : {Dated} \cup {Now, Closed} \cup {NoRule},
             seen : Answers!Policies \cup {NoCourse}]

\* The types of the course and of the professor's requests.
AnswersTypes ==
    /\ db \in Answers!Policies \cup {NoCourse}
    /\ file \in Answers!Workspaces \cup {NoFile}
    /\ rest \subseteq {"uploads", "invite"}
    /\ lock \in {Editor} \cup {Nobody}
    /\ op \in [{Editor} -> AnswersOps]
    /\ \A e \in {Editor} :
          /\ lock = e <=> op[e].at \in {"locked", "stored"}
          /\ op[e].at = "idle" => op[e] = Answers!Idle
          /\ op[e].kind = "none" => op[e].at = "idle"
          /\ op[e].at = "stored" => op[e].kind = "course"
          /\ op[e].kind = "course" => op[e].rule \in {Dated}
          /\ op[e].kind = "lecture" => op[e].rule \in {Now, Closed} \cup {NoRule}
    /\ day \in 0 .. 1
    /\ created \in BOOLEAN

AnswersCore == AnswersTypes /\ Answers!Creation /\ Answers!Policy /\ Answers!DeletedCourseIsGone

\* Which of the professor's requests changes, and to what.
LEMMA AnswersChanged ==
    ASSUME AnswersTypes, NEW e \in {Editor}, NEW new \in AnswersOps, op' = [op EXCEPT ![e] = new]
    PROVE  /\ op' \in [{Editor} -> AnswersOps]
           /\ op'[e] = new
           /\ \A f \in {Editor} : f # e => op'[f] = op[f]
BY DEF AnswersTypes

LEMMA AnswersCreate ==
    ASSUME AnswersCore, NEW e \in {Editor}, NEW rule \in {Dated}, Answers!CreateCourse(e, rule)
    PROVE  AnswersCore'
<1>1. op[e] \in AnswersOps
    BY DEF AnswersCore, AnswersTypes
<1>2. PICK new \in AnswersOps : new = [kind |-> "create", at |-> "locking", rule |-> NoRule, seen |-> rule.policy]
    BY <1>1, AnswersConstants DEF AnswersCore, AnswersTypes, AnswersOps, Answers!Idle, Answers!Defaults
<1>3. op' = [op EXCEPT ![e] = new]
    BY <1>1, <1>2 DEF AnswersOps, Answers!Idle, Answers!CreateCourse, Answers!Start
<1>4. op' \in [{Editor} -> AnswersOps] /\ op'[e] = new /\ \A f \in {Editor} : f # e => op'[f] = op[f]
    BY <1>3, AnswersChanged DEF AnswersCore
<1>5. AnswersTypes'
    BY <1>1, <1>2, <1>4, AnswersConstants DEF AnswersCore, AnswersTypes, Answers!Idle, Answers!Creation, Answers!Policy, Answers!Workspaces, Answers!Defaults, Answers!CreateCourse, Answers!Start
<1>6. Answers!Creation'
    BY <1>1, <1>2, <1>4, AnswersConstants DEF AnswersCore, AnswersTypes, Answers!Idle, Answers!Creation, Answers!Policy, Answers!Defaults, Answers!CreateCourse, Answers!Start
<1>7. Answers!Policy'
    BY <1>1, <1>2, <1>4, AnswersConstants DEF AnswersCore, AnswersTypes, Answers!Idle, Answers!Creation, Answers!Policy, Answers!Workspaces, Answers!Defaults, Answers!CreateCourse, Answers!Start
<1>8. Answers!DeletedCourseIsGone'
    BY <1>1, <1>2, <1>4, AnswersConstants DEF AnswersCore, AnswersTypes, Answers!Idle, Answers!Creation, Answers!Policy, Answers!DeletedCourseIsGone, Answers!Busy, Answers!Defaults, Answers!CreateCourse, Answers!Start
<1>9. QED
    BY <1>5, <1>6, <1>7, <1>8 DEF AnswersCore

LEMMA AnswersBeginCourse ==
    ASSUME AnswersCore, NEW e \in {Editor}, NEW rule \in {Dated}, Answers!Begin(e, "course", rule)
    PROVE  AnswersCore'
<1>1. op[e] \in AnswersOps
    BY DEF AnswersCore, AnswersTypes
<1>2. PICK new \in AnswersOps : new = [kind |-> "course", at |-> "locking", rule |-> rule, seen |-> NoCourse]
    BY <1>1, AnswersConstants DEF AnswersCore, AnswersTypes, AnswersOps, Answers!Idle, Answers!Defaults
<1>3. op' = [op EXCEPT ![e] = new]
    BY <1>1, <1>2 DEF AnswersOps, Answers!Idle, Answers!Begin, Answers!Start, Answers!Owned
<1>4. op' \in [{Editor} -> AnswersOps] /\ op'[e] = new /\ \A f \in {Editor} : f # e => op'[f] = op[f]
    BY <1>3, AnswersChanged DEF AnswersCore
<1>5. AnswersTypes'
    BY <1>1, <1>2, <1>4, AnswersConstants DEF AnswersCore, AnswersTypes, Answers!Idle, Answers!Creation, Answers!Policy, Answers!Workspaces, Answers!Defaults, Answers!Begin, Answers!Start, Answers!Owned
<1>6. Answers!Creation'
    BY <1>1, <1>2, <1>4, AnswersConstants DEF AnswersCore, AnswersTypes, Answers!Idle, Answers!Creation, Answers!Policy, Answers!Defaults, Answers!Begin, Answers!Start, Answers!Owned
<1>7. Answers!Policy'
    BY <1>1, <1>2, <1>4, AnswersConstants DEF AnswersCore, AnswersTypes, Answers!Idle, Answers!Creation, Answers!Policy, Answers!Workspaces, Answers!Defaults, Answers!Begin, Answers!Start, Answers!Owned
<1>8. Answers!DeletedCourseIsGone'
    BY <1>1, <1>2, <1>4, AnswersConstants DEF AnswersCore, AnswersTypes, Answers!Idle, Answers!Creation, Answers!Policy, Answers!DeletedCourseIsGone, Answers!Busy, Answers!Defaults, Answers!Begin, Answers!Start, Answers!Owned
<1>9. QED
    BY <1>5, <1>6, <1>7, <1>8 DEF AnswersCore

LEMMA AnswersBeginLecture ==
    ASSUME AnswersCore, NEW e \in {Editor}, NEW rule \in {Now, Closed} \cup {NoRule}, Answers!Begin(e, "lecture", rule)
    PROVE  AnswersCore'
<1>1. op[e] \in AnswersOps
    BY DEF AnswersCore, AnswersTypes
<1>2. PICK new \in AnswersOps : new = [kind |-> "lecture", at |-> "locking", rule |-> rule, seen |-> NoCourse]
    BY <1>1, AnswersConstants DEF AnswersCore, AnswersTypes, AnswersOps, Answers!Idle, Answers!Defaults
<1>3. op' = [op EXCEPT ![e] = new]
    BY <1>1, <1>2 DEF AnswersOps, Answers!Idle, Answers!Begin, Answers!Start, Answers!Owned
<1>4. op' \in [{Editor} -> AnswersOps] /\ op'[e] = new /\ \A f \in {Editor} : f # e => op'[f] = op[f]
    BY <1>3, AnswersChanged DEF AnswersCore
<1>5. AnswersTypes'
    BY <1>1, <1>2, <1>4, AnswersConstants DEF AnswersCore, AnswersTypes, Answers!Idle, Answers!Creation, Answers!Policy, Answers!Workspaces, Answers!Defaults, Answers!Begin, Answers!Start, Answers!Owned
<1>6. Answers!Creation'
    BY <1>1, <1>2, <1>4, AnswersConstants DEF AnswersCore, AnswersTypes, Answers!Idle, Answers!Creation, Answers!Policy, Answers!Defaults, Answers!Begin, Answers!Start, Answers!Owned
<1>7. Answers!Policy'
    BY <1>1, <1>2, <1>4, AnswersConstants DEF AnswersCore, AnswersTypes, Answers!Idle, Answers!Creation, Answers!Policy, Answers!Workspaces, Answers!Defaults, Answers!Begin, Answers!Start, Answers!Owned
<1>8. Answers!DeletedCourseIsGone'
    BY <1>1, <1>2, <1>4, AnswersConstants DEF AnswersCore, AnswersTypes, Answers!Idle, Answers!Creation, Answers!Policy, Answers!DeletedCourseIsGone, Answers!Busy, Answers!Defaults, Answers!Begin, Answers!Start, Answers!Owned
<1>9. QED
    BY <1>5, <1>6, <1>7, <1>8 DEF AnswersCore

LEMMA AnswersBeginUpload ==
    ASSUME AnswersCore, NEW e \in {Editor}, Answers!Begin(e, "upload", NoRule)
    PROVE  AnswersCore'
<1>1. op[e] \in AnswersOps
    BY DEF AnswersCore, AnswersTypes
<1>2. PICK new \in AnswersOps : new = [kind |-> "upload", at |-> "locking", rule |-> NoRule, seen |-> NoCourse]
    BY <1>1, AnswersConstants DEF AnswersCore, AnswersTypes, AnswersOps, Answers!Idle, Answers!Defaults
<1>3. op' = [op EXCEPT ![e] = new]
    BY <1>1, <1>2 DEF AnswersOps, Answers!Idle, Answers!Begin, Answers!Start, Answers!Owned
<1>4. op' \in [{Editor} -> AnswersOps] /\ op'[e] = new /\ \A f \in {Editor} : f # e => op'[f] = op[f]
    BY <1>3, AnswersChanged DEF AnswersCore
<1>5. AnswersTypes'
    BY <1>1, <1>2, <1>4, AnswersConstants DEF AnswersCore, AnswersTypes, Answers!Idle, Answers!Creation, Answers!Policy, Answers!Workspaces, Answers!Defaults, Answers!Begin, Answers!Start, Answers!Owned
<1>6. Answers!Creation'
    BY <1>1, <1>2, <1>4, AnswersConstants DEF AnswersCore, AnswersTypes, Answers!Idle, Answers!Creation, Answers!Policy, Answers!Defaults, Answers!Begin, Answers!Start, Answers!Owned
<1>7. Answers!Policy'
    BY <1>1, <1>2, <1>4, AnswersConstants DEF AnswersCore, AnswersTypes, Answers!Idle, Answers!Creation, Answers!Policy, Answers!Workspaces, Answers!Defaults, Answers!Begin, Answers!Start, Answers!Owned
<1>8. Answers!DeletedCourseIsGone'
    BY <1>1, <1>2, <1>4, AnswersConstants DEF AnswersCore, AnswersTypes, Answers!Idle, Answers!Creation, Answers!Policy, Answers!DeletedCourseIsGone, Answers!Busy, Answers!Defaults, Answers!Begin, Answers!Start, Answers!Owned
<1>9. QED
    BY <1>5, <1>6, <1>7, <1>8 DEF AnswersCore

LEMMA AnswersDelete ==
    ASSUME AnswersCore, NEW e \in {Editor}, Answers!DeleteCourse(e)
    PROVE  AnswersCore'
<1>1. op[e] \in AnswersOps
    BY DEF AnswersCore, AnswersTypes
<1>2. PICK new \in AnswersOps : new = [kind |-> "delete", at |-> "locking", rule |-> NoRule, seen |-> NoCourse]
    BY <1>1, AnswersConstants DEF AnswersCore, AnswersTypes, AnswersOps, Answers!Idle, Answers!Defaults
<1>3. op' = [op EXCEPT ![e] = new]
    <2>1. [Answers!Idle EXCEPT !.kind = "delete", !.at = "locking"] = new
        BY <1>2, OtherRequest DEF Answers!Idle
    <2>2. QED
        BY <2>1 DEF Answers!DeleteCourse, Answers!Owned
<1>4. op' \in [{Editor} -> AnswersOps] /\ op'[e] = new /\ \A f \in {Editor} : f # e => op'[f] = op[f]
    BY <1>3, AnswersChanged DEF AnswersCore
<1>5. AnswersTypes'
    BY <1>1, <1>2, <1>4, AnswersConstants DEF AnswersCore, AnswersTypes, Answers!Idle, Answers!Creation, Answers!Policy, Answers!Workspaces, Answers!Defaults, Answers!DeleteCourse, Answers!Owned
<1>6. Answers!Creation'
    BY <1>1, <1>2, <1>4, AnswersConstants DEF AnswersCore, AnswersTypes, Answers!Idle, Answers!Creation, Answers!Policy, Answers!Defaults, Answers!DeleteCourse, Answers!Owned
<1>7. Answers!Policy'
    BY <1>1, <1>2, <1>4, AnswersConstants DEF AnswersCore, AnswersTypes, Answers!Idle, Answers!Creation, Answers!Policy, Answers!Workspaces, Answers!Defaults, Answers!DeleteCourse, Answers!Owned
<1>8. Answers!DeletedCourseIsGone'
    BY <1>1, <1>2, <1>4, AnswersConstants DEF AnswersCore, AnswersTypes, Answers!Idle, Answers!Creation, Answers!Policy, Answers!DeletedCourseIsGone, Answers!Busy, Answers!Defaults, Answers!DeleteCourse, Answers!Owned
<1>9. QED
    BY <1>5, <1>6, <1>7, <1>8 DEF AnswersCore

LEMMA AnswersLock ==
    ASSUME AnswersCore, NEW e \in {Editor}, Answers!TakeLock(e)
    PROVE  AnswersCore'
<1>1. op[e] \in AnswersOps
    BY DEF AnswersCore, AnswersTypes
<1>2. PICK new \in AnswersOps : new = [op[e] EXCEPT !.at = "locked"]
    BY <1>1, AnswersConstants DEF AnswersCore, AnswersTypes, AnswersOps, Answers!Idle, Answers!Defaults
<1>3. op' = [op EXCEPT ![e] = new]
    BY <1>1, <1>2 DEF AnswersOps, Answers!Idle, Answers!TakeLock
<1>4. op' \in [{Editor} -> AnswersOps] /\ op'[e] = new /\ \A f \in {Editor} : f # e => op'[f] = op[f]
    BY <1>3, AnswersChanged DEF AnswersCore
<1>5. AnswersTypes'
    BY <1>1, <1>2, <1>4, AnswersConstants DEF AnswersCore, AnswersTypes, Answers!Idle, Answers!Creation, Answers!Policy, Answers!Workspaces, Answers!Defaults, Answers!TakeLock
<1>6. Answers!Creation'
    BY <1>1, <1>2, <1>4, AnswersConstants DEF AnswersCore, AnswersTypes, Answers!Idle, Answers!Creation, Answers!Policy, Answers!Defaults, Answers!TakeLock
<1>7. Answers!Policy'
    BY <1>1, <1>2, <1>4, AnswersConstants DEF AnswersCore, AnswersTypes, Answers!Idle, Answers!Creation, Answers!Policy, Answers!Workspaces, Answers!Defaults, Answers!TakeLock
<1>8. Answers!DeletedCourseIsGone'
    BY <1>1, <1>2, <1>4, AnswersConstants DEF AnswersCore, AnswersTypes, Answers!Idle, Answers!Creation, Answers!Policy, Answers!DeletedCourseIsGone, Answers!Busy, Answers!Defaults, Answers!TakeLock
<1>9. QED
    BY <1>5, <1>6, <1>7, <1>8 DEF AnswersCore

LEMMA AnswersRefuse ==
    ASSUME AnswersCore, NEW e \in {Editor}, Answers!UpdateDatabasePolicy(e), file = NoFile \/ db = NoCourse
    PROVE  AnswersCore'
<1>1. op[e] \in AnswersOps
    BY DEF AnswersCore, AnswersTypes
<1>2. PICK new \in AnswersOps : new = Answers!Idle
    BY <1>1, AnswersConstants DEF AnswersCore, AnswersTypes, AnswersOps, Answers!Idle, Answers!Defaults
<1>3. op' = [op EXCEPT ![e] = new]
    BY <1>1, <1>2 DEF AnswersOps, Answers!Idle, Answers!UpdateDatabasePolicy, Answers!Finish, Answers!Holds
<1>4. op' \in [{Editor} -> AnswersOps] /\ op'[e] = new /\ \A f \in {Editor} : f # e => op'[f] = op[f]
    BY <1>3, AnswersChanged DEF AnswersCore
<1>5. AnswersTypes'
    BY <1>1, <1>2, <1>4, AnswersConstants DEF AnswersCore, AnswersTypes, Answers!Idle, Answers!Creation, Answers!Policy, Answers!Workspaces, Answers!Defaults, Answers!UpdateDatabasePolicy, Answers!Finish, Answers!Holds
<1>6. Answers!Creation'
    BY <1>1, <1>2, <1>4, AnswersConstants DEF AnswersCore, AnswersTypes, Answers!Idle, Answers!Creation, Answers!Policy, Answers!Defaults, Answers!UpdateDatabasePolicy, Answers!Finish, Answers!Holds
<1>7. Answers!Policy'
    BY <1>1, <1>2, <1>4, AnswersConstants DEF AnswersCore, AnswersTypes, Answers!Idle, Answers!Creation, Answers!Policy, Answers!Workspaces, Answers!Defaults, Answers!UpdateDatabasePolicy, Answers!Finish, Answers!Holds
<1>8. Answers!DeletedCourseIsGone'
    BY <1>1, <1>2, <1>4, AnswersConstants DEF AnswersCore, AnswersTypes, Answers!Idle, Answers!Creation, Answers!Policy, Answers!DeletedCourseIsGone, Answers!Busy, Answers!Defaults, Answers!UpdateDatabasePolicy, Answers!Finish, Answers!Holds
<1>9. QED
    BY <1>5, <1>6, <1>7, <1>8 DEF AnswersCore

LEMMA AnswersStore ==
    ASSUME AnswersCore, NEW e \in {Editor}, Answers!UpdateDatabasePolicy(e), ~(file = NoFile \/ db = NoCourse)
    PROVE  AnswersCore'
<1>1. op[e] \in AnswersOps
    BY DEF AnswersCore, AnswersTypes
<1>2. PICK new \in AnswersOps : new = [op[e] EXCEPT !.at = "stored", !.seen = db]
    BY <1>1, AnswersConstants DEF AnswersCore, AnswersTypes, AnswersOps, Answers!Idle, Answers!Defaults
<1>3. op' = [op EXCEPT ![e] = new]
    BY <1>1, <1>2 DEF AnswersOps, Answers!Idle, Answers!UpdateDatabasePolicy, Answers!Holds
<1>4. op' \in [{Editor} -> AnswersOps] /\ op'[e] = new /\ \A f \in {Editor} : f # e => op'[f] = op[f]
    BY <1>3, AnswersChanged DEF AnswersCore
<1>5. /\ op[e].kind = "course" /\ op[e].at = "locked" /\ lock = e /\ op[e].rule \in {Dated}
      /\ new.kind = "course" /\ new.at = "stored" /\ new.rule = op[e].rule /\ new.seen = db
      /\ \A f \in {Editor} : op[f].at # "stored"
    BY <1>1, <1>2 DEF AnswersCore, AnswersTypes, AnswersOps, Answers!UpdateDatabasePolicy, Answers!Holds
<1>6. AnswersTypes'
    BY <1>1, <1>4, <1>5, AnswersConstants DEF AnswersCore, AnswersTypes, Answers!Idle, Answers!Creation, Answers!Policy, Answers!Workspaces, Answers!Defaults, Answers!UpdateDatabasePolicy, Answers!Holds
<1>7. Answers!Creation'
    BY <1>1, <1>4, <1>5, AnswersConstants DEF AnswersCore, AnswersTypes, Answers!Idle, Answers!Creation, Answers!Policy, Answers!Defaults, Answers!UpdateDatabasePolicy, Answers!Holds
<1>8. Answers!Policy'
    BY <1>1, <1>4, <1>5, AnswersConstants DEF AnswersCore, AnswersTypes, Answers!Idle, Answers!Creation, Answers!Policy, Answers!Workspaces, Answers!Defaults, Answers!UpdateDatabasePolicy, Answers!Holds
<1>9. Answers!DeletedCourseIsGone'
    BY <1>1, <1>4, <1>5, AnswersConstants DEF AnswersCore, AnswersTypes, Answers!Idle, Answers!Creation, Answers!Policy, Answers!DeletedCourseIsGone, Answers!Busy, Answers!Defaults, Answers!UpdateDatabasePolicy, Answers!Holds
<1>10. QED
    BY <1>6, <1>7, <1>8, <1>9 DEF AnswersCore

LEMMA AnswersWriteCourse ==
    ASSUME AnswersCore, NEW e \in {Editor}, Answers!WriteCourseRule(e)
    PROVE  AnswersCore'
<1>1. op[e] \in AnswersOps
    BY DEF AnswersCore, AnswersTypes
<1>2. PICK new \in AnswersOps : new = Answers!Idle
    BY <1>1, AnswersConstants DEF AnswersCore, AnswersTypes, AnswersOps, Answers!Idle, Answers!Defaults
<1>3. op' = [op EXCEPT ![e] = new]
    BY <1>1, <1>2 DEF AnswersOps, Answers!Idle, Answers!WriteCourseRule, Answers!Finish, Answers!Holds
<1>4. op' \in [{Editor} -> AnswersOps] /\ op'[e] = new /\ \A f \in {Editor} : f # e => op'[f] = op[f]
    BY <1>3, AnswersChanged DEF AnswersCore
<1>5. AnswersTypes'
    BY <1>1, <1>2, <1>4, AnswersConstants DEF AnswersCore, AnswersTypes, Answers!Idle, Answers!Creation, Answers!Policy, Answers!Workspaces, Answers!Defaults, Answers!WriteCourseRule, Answers!Finish, Answers!Holds
<1>6. Answers!Creation'
    BY <1>1, <1>2, <1>4, AnswersConstants DEF AnswersCore, AnswersTypes, Answers!Idle, Answers!Creation, Answers!Policy, Answers!Defaults, Answers!WriteCourseRule, Answers!Finish, Answers!Holds
<1>7. Answers!Policy'
    BY <1>1, <1>2, <1>4, AnswersConstants DEF AnswersCore, AnswersTypes, Answers!Idle, Answers!Creation, Answers!Policy, Answers!Workspaces, Answers!Defaults, Answers!WriteCourseRule, Answers!Finish, Answers!Holds
<1>8. Answers!DeletedCourseIsGone'
    BY <1>1, <1>2, <1>4, AnswersConstants DEF AnswersCore, AnswersTypes, Answers!Idle, Answers!Creation, Answers!Policy, Answers!DeletedCourseIsGone, Answers!Busy, Answers!Defaults, Answers!WriteCourseRule, Answers!Finish, Answers!Holds
<1>9. QED
    BY <1>5, <1>6, <1>7, <1>8 DEF AnswersCore

LEMMA AnswersRestore ==
    ASSUME AnswersCore, NEW e \in {Editor}, Answers!RestoreDatabasePolicy(e)
    PROVE  AnswersCore'
<1>1. op[e] \in AnswersOps
    BY DEF AnswersCore, AnswersTypes
<1>2. PICK new \in AnswersOps : new = Answers!Idle
    BY <1>1, AnswersConstants DEF AnswersCore, AnswersTypes, AnswersOps, Answers!Idle, Answers!Defaults
<1>3. op' = [op EXCEPT ![e] = new]
    BY <1>1, <1>2 DEF AnswersOps, Answers!Idle, Answers!RestoreDatabasePolicy, Answers!Finish, Answers!Holds
<1>4. op' \in [{Editor} -> AnswersOps] /\ op'[e] = new /\ \A f \in {Editor} : f # e => op'[f] = op[f]
    BY <1>3, AnswersChanged DEF AnswersCore
<1>5. AnswersTypes'
    BY <1>1, <1>2, <1>4, AnswersConstants DEF AnswersCore, AnswersTypes, Answers!Idle, Answers!Creation, Answers!Policy, Answers!Workspaces, Answers!Defaults, Answers!RestoreDatabasePolicy, Answers!Finish, Answers!Holds
<1>6. Answers!Creation'
    BY <1>1, <1>2, <1>4, AnswersConstants DEF AnswersCore, AnswersTypes, Answers!Idle, Answers!Creation, Answers!Policy, Answers!Defaults, Answers!RestoreDatabasePolicy, Answers!Finish, Answers!Holds
<1>7. Answers!Policy'
    BY <1>1, <1>2, <1>4, AnswersConstants DEF AnswersCore, AnswersTypes, Answers!Idle, Answers!Creation, Answers!Policy, Answers!Workspaces, Answers!Defaults, Answers!RestoreDatabasePolicy, Answers!Finish, Answers!Holds
<1>8. Answers!DeletedCourseIsGone'
    BY <1>1, <1>2, <1>4, AnswersConstants DEF AnswersCore, AnswersTypes, Answers!Idle, Answers!Creation, Answers!Policy, Answers!DeletedCourseIsGone, Answers!Busy, Answers!Defaults, Answers!RestoreDatabasePolicy, Answers!Finish, Answers!Holds
<1>9. QED
    BY <1>5, <1>6, <1>7, <1>8 DEF AnswersCore

LEMMA AnswersWriteOverride ==
    ASSUME AnswersCore, NEW e \in {Editor}, Answers!WriteOverride(e)
    PROVE  AnswersCore'
<1>1. op[e] \in AnswersOps
    BY DEF AnswersCore, AnswersTypes
<1>2. PICK new \in AnswersOps : new = Answers!Idle
    BY <1>1, AnswersConstants DEF AnswersCore, AnswersTypes, AnswersOps, Answers!Idle, Answers!Defaults
<1>3. op' = [op EXCEPT ![e] = new]
    BY <1>1, <1>2 DEF AnswersOps, Answers!Idle, Answers!WriteOverride, Answers!Finish, Answers!Holds
<1>4. op' \in [{Editor} -> AnswersOps] /\ op'[e] = new /\ \A f \in {Editor} : f # e => op'[f] = op[f]
    BY <1>3, AnswersChanged DEF AnswersCore
<1>5. file # NoFile => Answers!Materialize(op[e].rule) \in Answers!Rules \cup {NoRule}
    BY AnswersConstants DEF AnswersCore, AnswersTypes, Answers!Materialize, Answers!Rules, Answers!WriteOverride, Answers!Holds
<1>6. AnswersTypes'
    BY <1>1, <1>2, <1>4, <1>5, AnswersConstants DEF AnswersCore, AnswersTypes, Answers!Idle, Answers!Creation, Answers!Policy, Answers!Workspaces, Answers!Defaults, Answers!WriteOverride, Answers!Finish, Answers!Holds
<1>7. Answers!Creation'
    BY <1>1, <1>2, <1>4, <1>5, AnswersConstants DEF AnswersCore, AnswersTypes, Answers!Idle, Answers!Creation, Answers!Policy, Answers!Defaults, Answers!WriteOverride, Answers!Finish, Answers!Holds
<1>8. Answers!Policy'
    BY <1>1, <1>2, <1>4, <1>5, AnswersConstants DEF AnswersCore, AnswersTypes, Answers!Idle, Answers!Creation, Answers!Policy, Answers!Workspaces, Answers!Defaults, Answers!WriteOverride, Answers!Finish, Answers!Holds
<1>9. Answers!DeletedCourseIsGone'
    BY <1>1, <1>2, <1>4, <1>5, AnswersConstants DEF AnswersCore, AnswersTypes, Answers!Idle, Answers!Creation, Answers!Policy, Answers!DeletedCourseIsGone, Answers!Busy, Answers!Defaults, Answers!WriteOverride, Answers!Finish, Answers!Holds
<1>10. QED
    BY <1>6, <1>7, <1>8, <1>9 DEF AnswersCore

LEMMA AnswersWriteWorkspace ==
    ASSUME AnswersCore, NEW e \in {Editor}, Answers!WriteWorkspace(e)
    PROVE  AnswersCore'
<1>1. op[e] \in AnswersOps
    BY DEF AnswersCore, AnswersTypes
<1>2. PICK new \in AnswersOps : new = Answers!Idle
    BY <1>1, AnswersConstants DEF AnswersCore, AnswersTypes, AnswersOps, Answers!Idle, Answers!Defaults
<1>3. op' = [op EXCEPT ![e] = new]
    BY <1>1, <1>2 DEF AnswersOps, Answers!Idle, Answers!WriteWorkspace, Answers!Finish, Answers!Holds, Answers!Merge
<1>4. op' \in [{Editor} -> AnswersOps] /\ op'[e] = new /\ \A f \in {Editor} : f # e => op'[f] = op[f]
    BY <1>3, AnswersChanged DEF AnswersCore
<1>5. op[e].kind = "create" /\ op[e].at = "locked" /\ lock = e
    BY <1>1 DEF AnswersOps, AnswersCore, AnswersTypes, Answers!WriteWorkspace, Answers!Holds
<1>6. /\ file' = [course |-> [policy |-> db, mode |-> "date"], override |-> NoRule]
      /\ db \in Answers!Policies /\ db # NoCourse /\ created
      /\ \A f \in {Editor} : op[f].kind = "create" => f = e
      /\ \A f \in {Editor} : op[f].at # "stored"
    BY <1>5, AnswersConstants DEF AnswersCore, AnswersTypes, Answers!Creation, Answers!WriteWorkspace, Answers!Merge
<1>7. AnswersTypes'
    BY <1>1, <1>2, <1>4, <1>5, <1>6, AnswersConstants DEF AnswersCore, AnswersTypes, Answers!Idle, Answers!Creation, Answers!Policy, Answers!Workspaces, Answers!Defaults, Answers!WriteWorkspace, Answers!Finish, Answers!Holds, Answers!Merge
<1>8. Answers!Creation'
    BY <1>1, <1>2, <1>4, <1>5, <1>6, AnswersConstants DEF AnswersCore, AnswersTypes, Answers!Idle, Answers!Creation, Answers!Policy, Answers!Defaults, Answers!WriteWorkspace, Answers!Finish, Answers!Holds, Answers!Merge
<1>9. Answers!Policy'
    BY <1>1, <1>2, <1>4, <1>5, <1>6, AnswersConstants DEF AnswersCore, AnswersTypes, Answers!Idle, Answers!Creation, Answers!Policy, Answers!Workspaces, Answers!Defaults, Answers!WriteWorkspace, Answers!Finish, Answers!Holds, Answers!Merge
<1>10. Answers!DeletedCourseIsGone'
    BY <1>1, <1>2, <1>4, <1>5, <1>6, AnswersConstants DEF AnswersCore, AnswersTypes, Answers!Idle, Answers!Creation, Answers!Policy, Answers!DeletedCourseIsGone, Answers!Busy, Answers!Defaults, Answers!WriteWorkspace, Answers!Finish, Answers!Holds, Answers!Merge
<1>11. QED
    BY <1>7, <1>8, <1>9, <1>10 DEF AnswersCore

LEMMA AnswersCreateFails ==
    ASSUME AnswersCore, NEW e \in {Editor}, Answers!CreateFails(e)
    PROVE  AnswersCore'
<1>1. op[e] \in AnswersOps
    BY DEF AnswersCore, AnswersTypes
<1>2. PICK new \in AnswersOps : new = [kind |-> "delete", at |-> "locking", rule |-> NoRule, seen |-> NoCourse]
    BY <1>1, AnswersConstants DEF AnswersCore, AnswersTypes, AnswersOps, Answers!Idle, Answers!Defaults
<1>3. op' = [op EXCEPT ![e] = new]
    <2>1. [Answers!Idle EXCEPT !.kind = "delete", !.at = "locking"] = new
        BY <1>2, OtherRequest DEF Answers!Idle
    <2>2. QED
        BY <2>1 DEF Answers!CreateFails, Answers!Holds
<1>4. op' \in [{Editor} -> AnswersOps] /\ op'[e] = new /\ \A f \in {Editor} : f # e => op'[f] = op[f]
    BY <1>3, AnswersChanged DEF AnswersCore
<1>5. AnswersTypes'
    BY <1>1, <1>2, <1>4, AnswersConstants DEF AnswersCore, AnswersTypes, Answers!Idle, Answers!Creation, Answers!Policy, Answers!Workspaces, Answers!Defaults, Answers!CreateFails, Answers!Holds
<1>6. Answers!Creation'
    BY <1>1, <1>2, <1>4, AnswersConstants DEF AnswersCore, AnswersTypes, Answers!Idle, Answers!Creation, Answers!Policy, Answers!Defaults, Answers!CreateFails, Answers!Holds
<1>7. Answers!Policy'
    BY <1>1, <1>2, <1>4, AnswersConstants DEF AnswersCore, AnswersTypes, Answers!Idle, Answers!Creation, Answers!Policy, Answers!Workspaces, Answers!Defaults, Answers!CreateFails, Answers!Holds
<1>8. Answers!DeletedCourseIsGone'
    BY <1>1, <1>2, <1>4, AnswersConstants DEF AnswersCore, AnswersTypes, Answers!Idle, Answers!Creation, Answers!Policy, Answers!DeletedCourseIsGone, Answers!Busy, Answers!Defaults, Answers!CreateFails, Answers!Holds
<1>9. QED
    BY <1>5, <1>6, <1>7, <1>8 DEF AnswersCore

LEMMA AnswersUpload ==
    ASSUME AnswersCore, NEW e \in {Editor}, Answers!PromoteUpload(e)
    PROVE  AnswersCore'
<1>1. op[e] \in AnswersOps
    BY DEF AnswersCore, AnswersTypes
<1>2. PICK new \in AnswersOps : new = Answers!Idle
    BY <1>1, AnswersConstants DEF AnswersCore, AnswersTypes, AnswersOps, Answers!Idle, Answers!Defaults
<1>3. op' = [op EXCEPT ![e] = new]
    BY <1>1, <1>2 DEF AnswersOps, Answers!Idle, Answers!PromoteUpload, Answers!Finish, Answers!Holds
<1>4. op' \in [{Editor} -> AnswersOps] /\ op'[e] = new /\ \A f \in {Editor} : f # e => op'[f] = op[f]
    BY <1>3, AnswersChanged DEF AnswersCore
<1>5. AnswersTypes'
    BY <1>1, <1>2, <1>4, AnswersConstants DEF AnswersCore, AnswersTypes, Answers!Idle, Answers!Creation, Answers!Policy, Answers!Workspaces, Answers!Defaults, Answers!PromoteUpload, Answers!Finish, Answers!Holds
<1>6. Answers!Creation'
    BY <1>1, <1>2, <1>4, AnswersConstants DEF AnswersCore, AnswersTypes, Answers!Idle, Answers!Creation, Answers!Policy, Answers!Defaults, Answers!PromoteUpload, Answers!Finish, Answers!Holds
<1>7. Answers!Policy'
    BY <1>1, <1>2, <1>4, AnswersConstants DEF AnswersCore, AnswersTypes, Answers!Idle, Answers!Creation, Answers!Policy, Answers!Workspaces, Answers!Defaults, Answers!PromoteUpload, Answers!Finish, Answers!Holds
<1>8. Answers!DeletedCourseIsGone'
    BY <1>1, <1>2, <1>4, AnswersConstants DEF AnswersCore, AnswersTypes, Answers!Idle, Answers!Creation, Answers!Policy, Answers!DeletedCourseIsGone, Answers!Busy, Answers!Defaults, Answers!PromoteUpload, Answers!Finish, Answers!Holds
<1>9. QED
    BY <1>5, <1>6, <1>7, <1>8 DEF AnswersCore

LEMMA AnswersDeleteFiles ==
    ASSUME AnswersCore, NEW e \in {Editor}, Answers!DeleteCourseFiles(e)
    PROVE  AnswersCore'
<1>1. op[e] \in AnswersOps
    BY DEF AnswersCore, AnswersTypes
<1>2. PICK new \in AnswersOps : new = Answers!Idle
    BY <1>1, AnswersConstants DEF AnswersCore, AnswersTypes, AnswersOps, Answers!Idle, Answers!Defaults
<1>3. op' = [op EXCEPT ![e] = new]
    BY <1>1, <1>2 DEF AnswersOps, Answers!Idle, Answers!DeleteCourseFiles, Answers!Finish, Answers!Holds
<1>4. op' \in [{Editor} -> AnswersOps] /\ op'[e] = new /\ \A f \in {Editor} : f # e => op'[f] = op[f]
    BY <1>3, AnswersChanged DEF AnswersCore
<1>5. AnswersTypes'
    BY <1>1, <1>2, <1>4, AnswersConstants DEF AnswersCore, AnswersTypes, Answers!Idle, Answers!Creation, Answers!Policy, Answers!Workspaces, Answers!Defaults, Answers!DeleteCourseFiles, Answers!Finish, Answers!Holds
<1>6. Answers!Creation'
    BY <1>1, <1>2, <1>4, AnswersConstants DEF AnswersCore, AnswersTypes, Answers!Idle, Answers!Creation, Answers!Policy, Answers!Defaults, Answers!DeleteCourseFiles, Answers!Finish, Answers!Holds
<1>7. Answers!Policy'
    BY <1>1, <1>2, <1>4, AnswersConstants DEF AnswersCore, AnswersTypes, Answers!Idle, Answers!Creation, Answers!Policy, Answers!Workspaces, Answers!Defaults, Answers!DeleteCourseFiles, Answers!Finish, Answers!Holds
<1>8. Answers!DeletedCourseIsGone'
    BY <1>1, <1>2, <1>4, AnswersConstants DEF AnswersCore, AnswersTypes, Answers!Idle, Answers!Creation, Answers!Policy, Answers!DeletedCourseIsGone, Answers!Busy, Answers!Defaults, Answers!DeleteCourseFiles, Answers!Finish, Answers!Holds
<1>9. QED
    BY <1>5, <1>6, <1>7, <1>8 DEF AnswersCore

LEMMA AnswersShare ==
    ASSUME AnswersCore, NEW e \in {Editor}, Answers!ShareCourse(e)
    PROVE  AnswersCore'
<1>1. op[e] \in AnswersOps
    BY DEF AnswersCore, AnswersTypes
<1>2. PICK new \in AnswersOps : new = [kind |-> "invite", at |-> "sharing", rule |-> NoRule, seen |-> NoCourse]
    BY <1>1, AnswersConstants DEF AnswersCore, AnswersTypes, AnswersOps, Answers!Idle, Answers!Defaults
<1>3. op' = [op EXCEPT ![e] = new]
    <2>1. [Answers!Idle EXCEPT !.kind = "invite", !.at = "sharing"] = new
        BY <1>2, OtherRequest DEF Answers!Idle
    <2>2. QED
        BY <2>1 DEF Answers!ShareCourse, Answers!Owned
<1>4. op' \in [{Editor} -> AnswersOps] /\ op'[e] = new /\ \A f \in {Editor} : f # e => op'[f] = op[f]
    BY <1>3, AnswersChanged DEF AnswersCore
<1>5. AnswersTypes'
    BY <1>1, <1>2, <1>4, AnswersConstants DEF AnswersCore, AnswersTypes, Answers!Idle, Answers!Creation, Answers!Policy, Answers!Workspaces, Answers!Defaults, Answers!ShareCourse, Answers!Owned
<1>6. Answers!Creation'
    BY <1>1, <1>2, <1>4, AnswersConstants DEF AnswersCore, AnswersTypes, Answers!Idle, Answers!Creation, Answers!Policy, Answers!Defaults, Answers!ShareCourse, Answers!Owned
<1>7. Answers!Policy'
    BY <1>1, <1>2, <1>4, AnswersConstants DEF AnswersCore, AnswersTypes, Answers!Idle, Answers!Creation, Answers!Policy, Answers!Workspaces, Answers!Defaults, Answers!ShareCourse, Answers!Owned
<1>8. Answers!DeletedCourseIsGone'
    BY <1>1, <1>2, <1>4, AnswersConstants DEF AnswersCore, AnswersTypes, Answers!Idle, Answers!Creation, Answers!Policy, Answers!DeletedCourseIsGone, Answers!Busy, Answers!Defaults, Answers!ShareCourse, Answers!Owned
<1>9. QED
    BY <1>5, <1>6, <1>7, <1>8 DEF AnswersCore

LEMMA AnswersRotate ==
    ASSUME AnswersCore, NEW e \in {Editor}, Answers!RotateInvite(e)
    PROVE  AnswersCore'
<1>1. op[e] \in AnswersOps
    BY DEF AnswersCore, AnswersTypes
<1>2. PICK new \in AnswersOps : new = Answers!Idle
    BY <1>1, AnswersConstants DEF AnswersCore, AnswersTypes, AnswersOps, Answers!Idle, Answers!Defaults
<1>3. op' = [op EXCEPT ![e] = new]
    BY <1>1, <1>2 DEF AnswersOps, Answers!Idle, Answers!RotateInvite, Answers!Holds
<1>4. op' \in [{Editor} -> AnswersOps] /\ op'[e] = new /\ \A f \in {Editor} : f # e => op'[f] = op[f]
    BY <1>3, AnswersChanged DEF AnswersCore
<1>5. AnswersTypes'
    BY <1>1, <1>2, <1>4, AnswersConstants DEF AnswersCore, AnswersTypes, Answers!Idle, Answers!Creation, Answers!Policy, Answers!Workspaces, Answers!Defaults, Answers!RotateInvite, Answers!Holds
<1>6. Answers!Creation'
    BY <1>1, <1>2, <1>4, AnswersConstants DEF AnswersCore, AnswersTypes, Answers!Idle, Answers!Creation, Answers!Policy, Answers!Defaults, Answers!RotateInvite, Answers!Holds
<1>7. Answers!Policy'
    BY <1>1, <1>2, <1>4, AnswersConstants DEF AnswersCore, AnswersTypes, Answers!Idle, Answers!Creation, Answers!Policy, Answers!Workspaces, Answers!Defaults, Answers!RotateInvite, Answers!Holds
<1>8. Answers!DeletedCourseIsGone'
    BY <1>1, <1>2, <1>4, AnswersConstants DEF AnswersCore, AnswersTypes, Answers!Idle, Answers!Creation, Answers!Policy, Answers!DeletedCourseIsGone, Answers!Busy, Answers!Defaults, Answers!RotateInvite, Answers!Holds
<1>9. QED
    BY <1>5, <1>6, <1>7, <1>8 DEF AnswersCore


\* What leaves the course and its requests alone.
LEMMA AnswersSame ==
    ASSUME AnswersCore, UNCHANGED <<db, file, lock, op, created>>, rest' \subseteq rest, day' \in 0 .. 1
    PROVE  AnswersCore'
BY DEF AnswersCore, AnswersTypes, Answers!Idle, Answers!Creation, Answers!Policy, Answers!DeletedCourseIsGone, Answers!Busy

LEMMA AnswersProfessor ==
    ASSUME AnswersCore, NEW e \in {Editor}, Answers!Professor(e)
    PROVE  AnswersCore'
<1>1. ASSUME NEW rule \in {Dated}, Answers!CreateCourse(e, rule) \/ Answers!Begin(e, "course", rule)
      PROVE  AnswersCore'
    BY <1>1, AnswersCreate, AnswersBeginCourse
<1>2. ASSUME NEW rule \in {Now, Closed} \cup {NoRule}, Answers!Begin(e, "lecture", rule)
      PROVE  AnswersCore'
    BY <1>2, AnswersBeginLecture
<1>3. ~Answers!Begin(e, "setup", NoRule)
    BY AnswersConstants DEF Answers!Begin
<1>4. CASE Answers!Begin(e, "upload", NoRule)
    BY <1>4, AnswersBeginUpload
<1>5. CASE Answers!UpdateDatabasePolicy(e)
    BY <1>5, AnswersRefuse, AnswersStore
<1>6. CASE Answers!DeleteCourse(e) \/ Answers!TakeLock(e) \/ Answers!WriteCourseRule(e) \/ Answers!RestoreDatabasePolicy(e)
           \/ Answers!WriteOverride(e) \/ Answers!WriteWorkspace(e)
    BY <1>6, AnswersDelete, AnswersLock, AnswersWriteCourse, AnswersRestore, AnswersWriteOverride, AnswersWriteWorkspace
<1>7. CASE Answers!CreateFails(e) \/ Answers!PromoteUpload(e) \/ Answers!DeleteCourseFiles(e) \/ Answers!ShareCourse(e)
           \/ Answers!RotateInvite(e)
    BY <1>7, AnswersCreateFails, AnswersUpload, AnswersDeleteFiles, AnswersShare, AnswersRotate
<1>8. QED
    BY <1>1, <1>2, <1>3, <1>4, <1>5, <1>6, <1>7 DEF Answers!Professor

\* A learner changes nothing of the course.
LEMMA AnswersLearner ==
    ASSUME NEW u \in {Student}, Answers!Learner(u)
    PROVE  UNCHANGED <<db, file, rest, lock, op, created, day>>
BY DEF Answers!Learner, Answers!RequireValidCode, Answers!Join, Answers!ReadRow, Answers!ReadCourse, Answers!ReadLectures, Answers!Decide,
    Answers!Unread

LEMMA AnswersCoreNext ==
    ASSUME AnswersCore, Answers!Next
    PROVE  AnswersCore'
<1>1. CASE \E e \in {Editor} : Answers!Professor(e)
    BY <1>1, AnswersProfessor
<1>2. CASE Answers!DisableInvite
    BY <1>2, AnswersSame DEF Answers!DisableInvite, AnswersCore, AnswersTypes
<1>3. CASE \E u \in {Student} : Answers!Learner(u)
    BY <1>3, AnswersLearner, AnswersSame DEF AnswersCore, AnswersTypes
<1>4. CASE Answers!NextDay
    <2>1. day' \in 0 .. 1
        BY <1>4, AnswersConstants DEF Answers!NextDay, AnswersCore, AnswersTypes
    <2>2. QED
        BY <1>4, <2>1, AnswersSame DEF Answers!NextDay
<1>5. QED
    BY <1>1, <1>2, <1>3, <1>4 DEF Answers!Next, Answers!Crash

LEMMA AnswersInit == Answers!Init => AnswersCore
<1> SUFFICES ASSUME Answers!Init PROVE AnswersCore
    OBVIOUS
<1>1. Answers!Idle \in AnswersOps /\ Answers!Idle.kind = "none" /\ Answers!Idle.at = "idle"
    BY AnswersConstants DEF Answers!Idle, AnswersOps
<1>2. AnswersTypes
    <2>1. op \in [{Editor} -> AnswersOps] /\ \A e \in {Editor} : op[e] = Answers!Idle
        BY <1>1 DEF Answers!Init
    <2>2. \A e \in {Editor} : lock # e /\ op[e].at = "idle" /\ op[e].kind = "none"
        BY <1>1, <2>1, AnswersConstants DEF Answers!Init
    <2>3. day \in 0 .. 1 /\ rest \subseteq {"uploads", "invite"}
        BY AnswersConstants DEF Answers!Init
    <2>4. QED
        BY <2>1, <2>2, <2>3 DEF Answers!Init, AnswersTypes
<1>3. QED
    BY <1>1, <1>2, AnswersConstants DEF Answers!Init, AnswersCore, Answers!Creation, Answers!Policy, Answers!DeletedCourseIsGone


\* While the course itself is not changed, its row is not, nor its rule.
LEMMA AnswersStable ==
    ASSUME AnswersCore, NEW e \in {Editor}, Answers!Professor(e),
           ~Answers!Busy({"course", "setup", "create", "delete"}),
           ~Answers!Busy({"course", "setup", "create", "delete"})'
    PROVE  /\ UNCHANGED <<db, req>>
           /\ file' = file \/ (file # NoFile /\ file'.course = file.course)
<1>1. op[e].kind \notin {"course", "setup", "create", "delete"} /\ op \in [{Editor} -> AnswersOps]
    BY DEF Answers!Busy, AnswersCore, AnswersTypes
<1>2. op'[e].kind \notin {"course", "setup", "create", "delete"}
    BY DEF Answers!Busy
<1>3. ASSUME NEW rule \in {Dated} PROVE ~Answers!CreateCourse(e, rule)
    BY <1>1, <1>2 DEF Answers!CreateCourse, Answers!Start
<1>4. ~Answers!DeleteCourse(e)
    BY <1>1, <1>2 DEF Answers!DeleteCourse, Answers!Idle
<1>5. /\ ~Answers!UpdateDatabasePolicy(e) /\ ~Answers!WriteCourseRule(e) /\ ~Answers!RestoreDatabasePolicy(e)
      /\ ~Answers!WriteWorkspace(e) /\ ~Answers!CreateFails(e) /\ ~Answers!DeleteCourseFiles(e)
    BY <1>1 DEF Answers!UpdateDatabasePolicy, Answers!WriteCourseRule, Answers!RestoreDatabasePolicy,
        Answers!WriteWorkspace, Answers!CreateFails, Answers!DeleteCourseFiles, Answers!Holds
<1>6. CASE Answers!WriteOverride(e)
    BY <1>6 DEF Answers!WriteOverride, AnswersCore, AnswersTypes, Answers!Workspaces
<1>7. ASSUME NEW kind, NEW rule, Answers!Begin(e, kind, rule)
      PROVE  UNCHANGED <<db, req, file>>
    BY <1>7 DEF Answers!Begin, Answers!Start
<1>8. CASE Answers!TakeLock(e) \/ Answers!PromoteUpload(e) \/ Answers!ShareCourse(e) \/ Answers!RotateInvite(e)
    BY <1>8 DEF Answers!TakeLock, Answers!PromoteUpload, Answers!ShareCourse, Answers!RotateInvite
<1>9. QED
    BY <1>3, <1>4, <1>5, <1>6, <1>7, <1>8 DEF Answers!Professor

\* What the learner's request has read.
AnswersAsked ==
    [at : {"idle", "row", "course", "lectures", "granted", "refused"},
     course : Answers!Policies \cup {NoCourse, NoRule} \cup Answers!Defaults,
     override : Answers!Rules \cup {NoRule}]

AnswersAsks ==
    /\ req \in [{Student} -> AnswersAsked]
    /\ req[Student].at = "row" => req[Student].course \in Answers!Policies \cup {NoCourse}

\* Who does not ask changes nothing of what was read.
LEMMA AnswersOthers ==
    ASSUME Answers!Next
    PROVE  \/ req' = req
           \/ Answers!ReadRow(Student) \/ Answers!ReadCourse(Student) \/ Answers!ReadLectures(Student)
           \/ Answers!Decide(Student)
<1>1. ASSUME NEW e \in {Editor}, Answers!Professor(e) PROVE req' = req
    BY <1>1 DEF Answers!Professor, Answers!CreateCourse, Answers!Begin, Answers!Start, Answers!DeleteCourse,
        Answers!TakeLock, Answers!UpdateDatabasePolicy, Answers!WriteCourseRule, Answers!RestoreDatabasePolicy,
        Answers!WriteOverride, Answers!WriteWorkspace, Answers!CreateFails, Answers!PromoteUpload,
        Answers!DeleteCourseFiles, Answers!ShareCourse, Answers!RotateInvite
<1>2. CASE Answers!DisableInvite \/ Answers!NextDay
    BY <1>2 DEF Answers!DisableInvite, Answers!NextDay
<1>3. CASE Answers!Learner(Student)
    BY <1>3 DEF Answers!Learner, Answers!RequireValidCode, Answers!Join
<1>4. QED
    BY <1>1, <1>2, <1>3 DEF Answers!Next, Answers!Crash

\* What a step of the learner's request reads.
LEMMA AnswersRead ==
    ASSUME AnswersCore, AnswersAsks
    PROVE  /\ Answers!ReadRow(Student) =>
                 /\ req[Student].at \in {"idle", "granted", "refused"} /\ req' \in [{Student} -> AnswersAsked]
                 /\ req'[Student].at = "row" /\ req'[Student].course = db
           /\ Answers!ReadCourse(Student) =>
                 /\ req[Student].at = "row" /\ req' \in [{Student} -> AnswersAsked]
                 /\ \/ file = NoFile /\ req'[Student].at = "refused"
                    \/ /\ file # NoFile /\ req'[Student].at = "course"
                       /\ req[Student].course # NoCourse =>
                             req'[Student].course = [file.course EXCEPT !.policy = req[Student].course]
           /\ Answers!ReadLectures(Student) =>
                 /\ req[Student].at = "course" /\ req' \in [{Student} -> AnswersAsked]
                 /\ \/ file = NoFile /\ req'[Student].at = "refused"
                    \/ /\ file # NoFile /\ req'[Student].at = "lectures"
                       /\ req'[Student].course = req[Student].course /\ req'[Student].override = file.override
           /\ Answers!Decide(Student) =>
                 /\ req[Student].at = "lectures" /\ req' \in [{Student} -> AnswersAsked]
                 /\ req'[Student].at = IF Answers!CanConsume(Student, req[Student].course, req[Student].override)
                                         THEN "granted" ELSE "refused"
<1> DEFINE old == req[Student]
<1>0. old \in AnswersAsked
    BY DEF AnswersAsks
<1>1. Answers!Waiting = [at |-> "idle", course |-> NoRule, override |-> NoRule]
    BY DEF Answers!Waiting
<1>2. \A at \in {"refused", "granted"} :
          [Answers!Waiting EXCEPT !.at = at] \in AnswersAsked /\ [Answers!Waiting EXCEPT !.at = at].at = at
    BY <1>1 DEF AnswersAsked
<1>3. \A new \in AnswersAsked : [req EXCEPT ![Student] = new] \in [{Student} -> AnswersAsked]
                                /\ [req EXCEPT ![Student] = new][Student] = new
    BY DEF AnswersAsks
<1>4. ASSUME Answers!ReadRow(Student)
      PROVE  /\ req[Student].at \in {"idle", "granted", "refused"} /\ req' \in [{Student} -> AnswersAsked]
             /\ req'[Student].at = "row" /\ req'[Student].course = db
    <2>1. PICK new : new = [Answers!Waiting EXCEPT !.at = "row", !.course = db]
        OBVIOUS
    <2>2. new \in AnswersAsked /\ new.at = "row" /\ new.course = db
        BY <1>1, <2>1 DEF AnswersCore, AnswersTypes, AnswersAsked
    <2>3. QED
        BY <1>3, <1>4, <2>1, <2>2 DEF Answers!ReadRow, Answers!Ask
<1>5. ASSUME Answers!ReadCourse(Student)
      PROVE  /\ req[Student].at = "row" /\ req' \in [{Student} -> AnswersAsked]
             /\ \/ file = NoFile /\ req'[Student].at = "refused"
                \/ /\ file # NoFile /\ req'[Student].at = "course"
                   /\ req[Student].course # NoCourse =>
                         req'[Student].course = [file.course EXCEPT !.policy = req[Student].course]
    <2>1. CASE file = NoFile
        BY <1>2, <1>3, <1>5, <2>1 DEF Answers!ReadCourse, Answers!Ask, Answers!Refused
    <2>2. CASE file # NoFile
        <3>1. PICK course : course = IF old.course = NoCourse THEN file.course ELSE [file.course EXCEPT !.policy = old.course]
            OBVIOUS
        <3>2. course \in Answers!Defaults
            BY <1>5, <2>2, <3>1 DEF AnswersCore, AnswersTypes, AnswersAsks, Answers!Workspaces, Answers!Defaults,
                Answers!ReadCourse
        <3>3. PICK new : new = [old EXCEPT !.at = "course", !.course = course]
            OBVIOUS
        <3>4. new \in AnswersAsked /\ new.at = "course" /\ new.course = course
            BY <1>0, <3>2, <3>3 DEF AnswersAsked
        <3>5. req' = [req EXCEPT ![Student] = new] /\ old.at = "row"
            BY <1>5, <2>2, <3>1, <3>3 DEF Answers!ReadCourse, Answers!Ask
        <3>6. QED
            BY <1>3, <2>2, <3>1, <3>4, <3>5
    <2>3. QED
        BY <2>1, <2>2
<1>6. ASSUME Answers!ReadLectures(Student)
      PROVE  /\ req[Student].at = "course" /\ req' \in [{Student} -> AnswersAsked]
             /\ \/ file = NoFile /\ req'[Student].at = "refused"
                \/ /\ file # NoFile /\ req'[Student].at = "lectures"
                   /\ req'[Student].course = req[Student].course /\ req'[Student].override = file.override
    <2>1. CASE file = NoFile
        BY <1>2, <1>3, <1>6, <2>1 DEF Answers!ReadLectures, Answers!Ask, Answers!Refused
    <2>2. CASE file # NoFile
        <3>1. PICK new : new = [old EXCEPT !.at = "lectures", !.override = file.override]
            OBVIOUS
        <3>2. new \in AnswersAsked /\ new.at = "lectures" /\ new.course = old.course /\ new.override = file.override
            BY <1>0, <2>2, <3>1 DEF AnswersAsked, AnswersCore, AnswersTypes, Answers!Workspaces
        <3>3. QED
            BY <1>3, <1>6, <2>2, <3>1, <3>2 DEF Answers!ReadLectures, Answers!Ask
    <2>3. QED
        BY <2>1, <2>2
<1>7. ASSUME Answers!Decide(Student)
      PROVE  /\ req[Student].at = "lectures" /\ req' \in [{Student} -> AnswersAsked]
             /\ req'[Student].at = IF Answers!CanConsume(Student, req[Student].course, req[Student].override)
                                     THEN "granted" ELSE "refused"
    BY <1>2, <1>3, <1>7 DEF Answers!Decide, Answers!Ask
<1>8. QED
    BY <1>4, <1>5, <1>6, <1>7

LEMMA AnswersAsksNext ==
    ASSUME AnswersCore, AnswersAsks, Answers!Next
    PROVE  AnswersAsks'
BY AnswersOthers, AnswersRead DEF AnswersAsks, AnswersCore, AnswersTypes

\* How the history of the learner's request goes on.
LEMMA AnswersWitness ==
    ASSUME Answers!Witness
    PROVE  /\ req'[Student].at = "row" /\ req[Student].at # "row" /\ ~mixed'[Student] =>
                 ~Answers!Busy({"course", "setup", "create", "delete"})'
           /\ /\ req[Student].at \in {"row", "course", "lectures"}
              /\ req'[Student].at = "row" => req[Student].at = "row"
              => /\ Answers!InForce' \subseteq inForce'[Student]
                 /\ ~mixed'[Student] => ~mixed[Student] /\ ~Answers!Busy({"course", "setup", "create", "delete"})'
                 /\ inForce[Student] \subseteq inForce'[Student]
<1> DEFINE begins == req'[Student].at = "row" /\ req[Student].at # "row"
<1>1. inForce'[Student] = IF begins \/ req[Student].at \in {"row", "course", "lectures"}
                              THEN Answers!InForce' \cup (IF begins THEN {} ELSE inForce[Student]) ELSE {}
    BY DEF Answers!Witness
<1>2. mixed'[Student] <=>
          /\ begins \/ req[Student].at \in {"row", "course", "lectures"}
          /\ (~begins /\ mixed[Student]) \/ Answers!Busy({"course", "setup", "create", "delete"})'
    BY DEF Answers!Witness
<1>3. QED
    BY <1>1, <1>2

\* What was read stays what is so, or was in force.
LEMMA AnswersReads ==
    ASSUME AnswersCore, AnswersAsks, Answers!ReadsAreInForce, Answers!Next
    PROVE  Answers!ReadsAreInForce'
<1> DEFINE changes == {"course", "setup", "create", "delete"}
<1> DEFINE asking == {"row", "course", "lectures"}
<1> SUFFICES ASSUME ~mixed'[Student], req'[Student].at \in asking
             PROVE  /\ ~Answers!Busy(changes)'
                    /\ req'[Student].at = "row" => req'[Student].course = db'
                    /\ req'[Student].at = "course" /\ file' # NoFile => req'[Student].course = file'.course
                    /\ req'[Student].at = "lectures" =>
                          [course |-> req'[Student].course, override |-> req'[Student].override] \in inForce'[Student]
    BY DEF Answers!ReadsAreInForce
<1>0. Answers!Witness
    BY DEF Answers!Next
<1>1. CASE Answers!ReadRow(Student)
    <2>1. req'[Student].at = "row" /\ req'[Student].course = db /\ req[Student].at # "row"
        BY <1>1, AnswersRead
    <2>2. db' = db
        BY <1>1 DEF Answers!ReadRow, Answers!Unread
    <2>3. QED
        BY <1>0, <2>1, <2>2, AnswersWitness
<1>2. CASE ~Answers!ReadRow(Student)
    <2>1. req[Student].at \in asking /\ (req'[Student].at = "row" => req[Student].at = "row")
        BY <1>2, AnswersOthers, AnswersRead
    <2>2. /\ ~mixed[Student] /\ ~Answers!Busy(changes)' /\ Answers!InForce' \subseteq inForce'[Student]
          /\ inForce[Student] \subseteq inForce'[Student]
        BY <1>0, <2>1, AnswersWitness
    <2>3. /\ ~Answers!Busy(changes)
          /\ req[Student].at = "row" => req[Student].course = db
          /\ req[Student].at = "course" /\ file # NoFile => req[Student].course = file.course
          /\ req[Student].at = "lectures" =>
                [course |-> req[Student].course, override |-> req[Student].override] \in inForce[Student]
        BY <2>1, <2>2 DEF Answers!ReadsAreInForce
    <2>4. db' = db /\ (file' = file \/ (file # NoFile /\ file'.course = file.course))
        <3>1. ASSUME NEW e \in {Editor}, Answers!Professor(e)
              PROVE  db' = db /\ (file' = file \/ (file # NoFile /\ file'.course = file.course))
            BY <2>2, <2>3, <3>1, AnswersStable
        <3>2. QED
            BY <3>1, AnswersLearner DEF Answers!Next, Answers!Crash, Answers!DisableInvite, Answers!NextDay
    <2>5. CASE req' = req
        BY <2>2, <2>3, <2>4, <2>5
    <2>6. CASE Answers!ReadCourse(Student)
        <3>1. req[Student].at = "row" /\ req[Student].course = db /\ req'[Student].at = "course" /\ file # NoFile
            BY <2>3, <2>6, AnswersRead
        <3>2. file' = file
            BY <2>6 DEF Answers!ReadCourse, Answers!Unread
        <3>3. db # NoCourse
            BY <2>3, <3>1 DEF AnswersCore, Answers!Creation, Answers!DeletedCourseIsGone, Answers!Busy, AnswersTypes
        <3>4. file.course.policy = db /\ file.course \in Answers!Defaults
            <4>1. \A e \in {Editor} : op[e].at # "stored"
                BY <2>3 DEF AnswersCore, AnswersTypes, Answers!Busy
            <4>2. QED
                BY <3>1, <3>3, <4>1 DEF AnswersCore, AnswersTypes, Answers!Policy, Answers!Workspaces
        <3>5. [file.course EXCEPT !.policy = db] = file.course
            BY <3>4 DEF Answers!Defaults
        <3>6. QED
            BY <2>2, <2>6, <3>1, <3>2, <3>3, <3>5, AnswersRead
    <2>7. CASE Answers!ReadLectures(Student)
        <3>1. /\ req[Student].at = "course" /\ file # NoFile /\ req[Student].course = file.course
              /\ req'[Student].at = "lectures" /\ req'[Student].course = file.course
              /\ req'[Student].override = file.override
            BY <2>3, <2>7, AnswersRead
        <3>2. file' = file
            BY <2>7 DEF Answers!ReadLectures, Answers!Unread
        <3>3. [course |-> file'.course, override |-> file'.override] \in Answers!InForce'
            BY <3>1, <3>2 DEF Answers!InForce
        <3>4. QED
            BY <2>2, <3>1, <3>2, <3>3
    <2>8. ~Answers!Decide(Student)
        BY AnswersRead
    <2>9. QED
        BY <1>2, <2>5, <2>6, <2>7, <2>8, AnswersOthers
<1>3. QED
    BY <1>1, <1>2

\* An answer is that of rules that were in force.
LEMMA AnswersRuled ==
    ASSUME AnswersCore, AnswersAsks, Answers!ReadsAreInForce, Answers!Next
    PROVE  Answers!RuledAnswer(Student)
<1> DEFINE rules == [course |-> req[Student].course, override |-> req[Student].override]
<1> DEFINE answer == Answers!CanConsume(Student, req[Student].course, req[Student].override)
<1> SUFFICES ASSUME ~mixed'[Student], req[Student].at = "lectures", req'[Student].at \in {"granted", "refused"}
             PROVE  /\ req'[Student].at = "granted" => TRUE \in Answers!Opens(Student)
                    /\ req'[Student].at = "refused" => FALSE \in Answers!Opens(Student)
    BY Zenon DEF Answers!RuledAnswer, Answers!Answers
<1>1. rules \in inForce'[Student]
    <2>1. ~mixed[Student] /\ inForce[Student] \subseteq inForce'[Student]
        BY AnswersWitness DEF Answers!Next
    <2>2. QED
        BY <2>1 DEF Answers!ReadsAreInForce
<1>2. Answers!CanConsume(Student, rules.course, rules.override) \in Answers!Opens(Student)
    BY <1>1 DEF Answers!Opens
<1>3. rules.course = req[Student].course /\ rules.override = req[Student].override
    OBVIOUS
<1>4. answer \in Answers!Opens(Student)
    BY <1>2, <1>3
<1>5. Answers!Decide(Student)
    BY AnswersOthers, AnswersRead
<1>6. req'[Student].at = IF answer THEN "granted" ELSE "refused"
    BY <1>5, AnswersRead
<1>7. answer \in BOOLEAN
    BY DEF Answers!CanConsume, Answers!AudienceAllows, Answers!Released
<1>8. (answer => req'[Student].at = "granted") /\ (~answer => req'[Student].at = "refused")
    BY <1>6
<1> HIDE DEF answer
<1>9. CASE answer
    BY <1>4, <1>7, <1>8, <1>9
<1>10. CASE ~answer
    BY <1>4, <1>7, <1>8, <1>10
<1>11. QED
    BY <1>9, <1>10

\* Nobody asks while the professor's edits are followed.
EditsUnasked == enrolled \subseteq {} /\ joining \subseteq {} /\ mixed \in [{} -> BOOLEAN]

LEMMA EditsUnaskedNext ==
    ASSUME EditsUnasked, Edits!Next
    PROVE  EditsUnasked'
<1>1. mixed' \in [{} -> BOOLEAN]
    BY DEF Edits!Next, Edits!Witness
<1>2. ASSUME NEW e \in Editors, Edits!Professor(e) PROVE enrolled' \subseteq {} /\ joining' = joining
    BY <1>2 DEF EditsUnasked, Edits!Professor, Edits!CreateCourse, Edits!Begin, Edits!Start, Edits!DeleteCourse,
        Edits!TakeLock, Edits!UpdateDatabasePolicy, Edits!WriteCourseRule, Edits!RestoreDatabasePolicy,
        Edits!WriteOverride, Edits!WriteWorkspace, Edits!CreateFails, Edits!PromoteUpload,
        Edits!DeleteCourseFiles, Edits!ShareCourse, Edits!RotateInvite
<1>3. CASE Edits!DisableInvite \/ Edits!NextDay
    BY <1>1, <1>3 DEF EditsUnasked, Edits!DisableInvite, Edits!NextDay
<1>4. QED
    BY <1>1, <1>2, <1>3 DEF EditsUnasked, Edits!Next, Edits!Crash

LEMMA EditsAgree ==
    ASSUME EditsCore, EditsUnasked
    PROVE  Edits!TypeOK /\ Edits!RowAndFileAgree /\ Edits!DeletedCourseIsGone
<1>1. Edits!TypeOK
    BY DEF EditsCore, EditsTypes, EditsOps, EditsUnasked, Edits!TypeOK
<1>2. lock = Nobody => \A e \in Editors : op[e].at # "stored"
    BY EditsConstants DEF EditsCore, EditsTypes
<1>3. QED
    BY <1>1, <1>2 DEF EditsCore, Edits!Policy, Edits!RowAndFileAgree

AccessInv ==
    /\ component = "edits of access" => EditsCore /\ EditsUnasked
    /\ component # "edits of access" => AnswersCore /\ AnswersAsks /\ Answers!ReadsAreInForce

LEMMA AccessInit == Begin => AccessInv
<1>1. Edits!Init => EditsUnasked
    BY DEF Edits!Init, EditsUnasked
<1>2. Answers!Init => AnswersAsks /\ Answers!ReadsAreInForce
    BY DEF Answers!Init, Answers!Waiting, AnswersAsks, AnswersAsked, Answers!ReadsAreInForce
<1>3. QED
    BY <1>1, <1>2, EditsInit, AnswersInit DEF Begin, AccessInv

LEMMA AccessStep == AccessInv /\ [Step]_vars => AccessInv'
<1> SUFFICES ASSUME AccessInv, [Step]_vars PROVE AccessInv'
    OBVIOUS
<1>1. component' = component
    BY DEF Step, vars
<1>2. CASE UNCHANGED CourseAccessVars
    <2>1. EditsCore /\ EditsUnasked => (EditsCore /\ EditsUnasked)'
        BY <1>2 DEF CourseAccessVars, EditsCore, EditsTypes, EditsUnasked, Edits!Creation, Edits!Policy,
            Edits!DeletedCourseIsGone, Edits!Busy
    <2>2. AnswersCore /\ AnswersAsks /\ Answers!ReadsAreInForce
              => (AnswersCore /\ AnswersAsks /\ Answers!ReadsAreInForce)'
        BY <1>2 DEF CourseAccessVars, AnswersCore, AnswersTypes, AnswersAsks, Answers!Creation, Answers!Policy,
            Answers!DeletedCourseIsGone, Answers!ReadsAreInForce, Answers!Busy
    <2>3. QED
        BY <1>1, <2>1, <2>2 DEF AccessInv
<1>3. CASE component = "edits of access" /\ Edits!Next
    BY <1>1, <1>3, EditsCoreNext, EditsUnaskedNext DEF AccessInv
<1>4. CASE component = "answers" /\ Answers!Next
    BY <1>1, <1>4, AnswersCoreNext, AnswersAsksNext, AnswersReads DEF AccessInv
<1>5. QED
    BY <1>2, <1>3, <1>4 DEF Step, vars

\* Whenever nobody changes a course, its row and its file name the same audience,
\* of a deleted course nothing comes back, and a request of a learner that
\* overlaps no change of the course is answered by rules that were in force
\* together while it ran, though it reads the row and the file twice without a
\* lock (courses/course_access.py, lecture_access_policy.py).
THEOREM AccessHolds == Spec => AccessFollowsTheRules
<1>1. AccessInv => (component = "edits of access" =>
                       /\ Edits!TypeOK /\ Edits!RowAndFileAgree /\ Edits!DeletedCourseIsGone)
    BY EditsAgree DEF AccessInv
<1>2. AccessInv /\ [Step]_vars => [component = "answers" => Answers!RuledAnswer(Student)]_vars
    <2> SUFFICES ASSUME AccessInv, Step, component = "answers" PROVE Answers!RuledAnswer(Student)
        OBVIOUS
    <2>1. Answers!Next
        BY DEF Step
    <2>2. QED
        BY <2>1, AnswersRuled DEF AccessInv
<1>3. QED
    BY <1>1, <1>2, AccessInit, AccessStep, PTL DEF Spec, AccessFollowsTheRules

----------------------------------------------------------------------------
(* Requests to models.                                                      *)

LEMMA CallsConstants ==
    /\ IsFiniteSet(Clients)
    /\ MaxAttempts \in Nat \ {0} /\ RequestLimit \in Nat \ {0} /\ TokenLimit \in Nat \ {0}
    /\ Amounts \subseteq Nat /\ Budgets \subseteq Nat \ {0}
BY ModelCallsAssumption DEF ModelCalls!RequestsAssumption, ModelCalls!IsFiniteSet, IsFiniteSet

LEMMA CallsCount ==
    ASSUME NEW S
    PROVE  ModelCalls!Cardinality(S) = Cardinality(S)
BY DEF ModelCalls!Cardinality, Cardinality

\* The requests sent by all calls.
AllSent == ModelCalls!MapThenSumSet(LAMBDA c : sent[c], Clients)

LEMMA AllSentIs ==
    /\ \E g : Summed(g, sent, Clients) /\ g[Clients] = AllSent
    /\ \E g : Summed(g, sent', Clients) /\ g[Clients] = AllSent'
<1>1. (\E g : Summed(g, sent, Clients)) /\ (\E g : Summed(g, sent', Clients))
    BY SumExists, CallsConstants
<1>2. \E g : Summed(g, sent, Clients) /\ g[Clients] = AllSent
    BY <1>1 DEF AllSent, ModelCalls!MapThenSumSet, ModelCalls!MapThenFoldSet, Summed, Some
<1>3. \E g : Summed(g, sent', Clients) /\ g[Clients] = AllSent'
    BY <1>1 DEF AllSent, ModelCalls!MapThenSumSet, ModelCalls!MapThenFoldSet, Summed, Some
<1>4. QED
    BY <1>2, <1>3

\* One more is one more in all.
LEMMA AllSentRises ==
    ASSUME sent \in [Clients -> Nat], NEW c \in Clients, sent' = [sent EXCEPT ![c] = @ + 1]
    PROVE  AllSent' = AllSent + 1
<1>1. PICK g : Summed(g, sent, Clients) /\ g[Clients] = AllSent
    BY AllSentIs
<1>2. PICK h : Summed(h, sent', Clients) /\ h[Clients] = AllSent'
    BY AllSentIs
<1>3. \A x \in Clients : sent[x] \in Nat /\ sent'[x] \in Nat
    OBVIOUS
<1>4. \A x \in Clients \ {c} : sent[x] = sent'[x]
    OBVIOUS
<1> DEFINE e == sent'
<1>5. /\ g[Clients] \in Nat /\ h[Clients] \in Nat
      /\ g[Clients] + e[c] = h[Clients] + sent[c]
    <2>1. Summed(h, e, Clients) /\ (\A x \in Clients : e[x] \in Nat) /\ \A x \in Clients \ {c} : sent[x] = e[x]
        BY <1>2, <1>3, <1>4
    <2> HIDE DEF e
    <2>2. QED
        BY <1>1, <1>3, <2>1, CallsConstants, SumsDiffer
<1>6. QED
    BY <1>1, <1>2, <1>3, <1>5

LEMMA AllSentStays ==
    ASSUME sent' = sent
    PROVE  AllSent' = AllSent
BY DEF AllSent, ModelCalls!MapThenSumSet, ModelCalls!MapThenFoldSet

LEMMA AllSentAtFirst ==
    ASSUME \A c \in Clients : sent[c] = 0
    PROVE  AllSent = 0
<1>1. PICK g : Summed(g, sent, Clients) /\ g[Clients] = AllSent
    BY AllSentIs
<1>2. QED
    BY <1>1, SumOfNothing, CallsConstants

LEMMA CallsInit == ModelCalls!Init => ModelCalls!Inv
<1> SUFFICES ASSUME ModelCalls!Init PROVE ModelCalls!Inv
    OBVIOUS
<1>1. ModelCalls!Holders = {}
    BY DEF ModelCalls!Init, ModelCalls!Holders
<1>2. ModelCalls!TypeOK
    <2>1. active = ModelCalls!Cardinality(ModelCalls!Holders)
        BY <1>1, CallsCount, FS_EmptySet DEF ModelCalls!Init
    <2>2. 1 \in 1..MaxAttempts /\ 0 \in 0..RequestLimit
        BY CallsConstants
    <2>3. total \in [Clients -> Nat] /\ events \in [Clients -> Nat]
          /\ sent \in [Clients -> Nat] /\ charged \in [Clients -> Nat]
        BY DEF ModelCalls!Init
    <2>4. QED
        BY <2>1, <2>2, <2>3 DEF ModelCalls!Init, ModelCalls!TypeOK, ModelCalls!Over
<1>3. AllSent = 0
    BY AllSentAtFirst DEF ModelCalls!Init
<1>4. ModelCalls!Accounted
    BY <1>3 DEF ModelCalls!Init, ModelCalls!Accounted, AllSent
<1>5. QED
    BY <1>2, <1>4 DEF ModelCalls!Init, ModelCalls!Inv, ModelCalls!NoLostWakeUp,
        ModelCalls!KnownTotalsAreExact

\* A slot is taken or given up with the step of the call that holds it.
LEMMA CallsHolders ==
    ASSUME ModelCalls!TypeOK, NEW c \in Clients,
           \A d \in Clients \ {c} : d \in ModelCalls!Holders' <=> d \in ModelCalls!Holders
    PROVE  /\ active \in Nat
           /\ c \in ModelCalls!Holders => active > 0
           /\ ModelCalls!Cardinality(ModelCalls!Holders)' =
                 IF c \in ModelCalls!Holders' THEN IF c \in ModelCalls!Holders THEN active ELSE active + 1
                 ELSE IF c \in ModelCalls!Holders THEN active - 1 ELSE active
<1> DEFINE H == ModelCalls!Holders
           G == ModelCalls!Holders'
<1>1. H \subseteq Clients /\ G \subseteq Clients
    BY DEF ModelCalls!Holders
<1>2. IsFiniteSet(H) /\ Cardinality(H) \in Nat
    BY <1>1, CallsConstants, FS_Subset, FS_CardinalityType
<1>3. active = Cardinality(H) /\ ModelCalls!Cardinality(ModelCalls!Holders)' = Cardinality(G)
    BY CallsCount DEF ModelCalls!TypeOK
<1> HIDE DEF H, G
<1>4. G = IF c \in G THEN H \cup {c} ELSE H \ {c}
    <2>1. \A d \in Clients \ {c} : d \in G <=> d \in H
        BY DEF G, H
    <2>2. QED
        BY <1>1, <2>1
<1>5. Cardinality(H \cup {c}) = IF c \in H THEN Cardinality(H) ELSE Cardinality(H) + 1
    BY <1>2, FS_AddElement
<1>6. Cardinality(H \ {c}) = IF c \in H THEN Cardinality(H) - 1 ELSE Cardinality(H)
    BY <1>2, FS_RemoveElement
<1>7. c \in H => Cardinality(H) # 0
    BY <1>2, FS_EmptySet
<1>8. QED
    BY <1>2, <1>3, <1>4, <1>5, <1>6, <1>7 DEF G, H

LEMMA CallsPassPause ==
    ASSUME ModelCalls!Inv, NEW c \in Clients, ModelCalls!PassPause(c)
    PROVE  ModelCalls!Inv'
<1>1. \A d \in Clients \ {c} : d \in ModelCalls!Holders' <=> d \in ModelCalls!Holders
    BY DEF ModelCalls!Inv, ModelCalls!TypeOK, ModelCalls!Holders, ModelCalls!PassPause,
        ModelCalls!Goto, ModelCalls!waiting, ModelCalls!budget, ModelCalls!usage, ModelCalls!history
<1>2. active' = ModelCalls!Cardinality(ModelCalls!Holders)' /\ active \in Nat
    BY <1>1, CallsHolders DEF ModelCalls!Inv, ModelCalls!TypeOK, ModelCalls!Holders,
        ModelCalls!PassPause, ModelCalls!Goto, ModelCalls!waiting, ModelCalls!budget,
        ModelCalls!usage, ModelCalls!history
<1>3. ModelCalls!TypeOK'
    BY <1>2, CallsConstants DEF ModelCalls!Inv, ModelCalls!TypeOK, ModelCalls!Over,
        ModelCalls!Accounted, ModelCalls!PassPause, ModelCalls!Goto, ModelCalls!waiting,
        ModelCalls!budget, ModelCalls!usage, ModelCalls!history
<1>4. ModelCalls!NoLostWakeUp'
    BY <1>1, <1>2, CallsHolders, CallsConstants DEF ModelCalls!Inv, ModelCalls!TypeOK,
        ModelCalls!NoLostWakeUp, ModelCalls!PassPause, ModelCalls!Goto, ModelCalls!waiting,
        ModelCalls!budget, ModelCalls!usage, ModelCalls!history
<1>5. ModelCalls!KnownTotalsAreExact'
    BY CallsConstants DEF ModelCalls!Inv, ModelCalls!TypeOK, ModelCalls!KnownTotalsAreExact,
        ModelCalls!PassPause, ModelCalls!Goto, ModelCalls!waiting, ModelCalls!budget,
        ModelCalls!usage, ModelCalls!history
<1>6. requests' = AllSent'
    BY AllSentStays DEF AllSent, ModelCalls!Inv, ModelCalls!TypeOK, ModelCalls!Accounted,
        ModelCalls!PassPause, ModelCalls!Goto, ModelCalls!waiting, ModelCalls!budget,
        ModelCalls!usage, ModelCalls!history
<1>7. ModelCalls!Accounted'
    BY <1>6 DEF AllSent, ModelCalls!Inv, ModelCalls!TypeOK, ModelCalls!Accounted,
        ModelCalls!PassPause, ModelCalls!Goto, ModelCalls!waiting, ModelCalls!budget,
        ModelCalls!usage, ModelCalls!history
<1>8. QED
    BY <1>3, <1>4, <1>5, <1>7 DEF ModelCalls!Inv

LEMMA CallsWake ==
    ASSUME ModelCalls!Inv, NEW c \in Clients, ModelCalls!Wake(c)
    PROVE  ModelCalls!Inv'
<1>1. \A d \in Clients \ {c} : d \in ModelCalls!Holders' <=> d \in ModelCalls!Holders
    BY DEF ModelCalls!Inv, ModelCalls!TypeOK, ModelCalls!Holders, ModelCalls!Wake, ModelCalls!Goto,
        ModelCalls!waiting, ModelCalls!budget, ModelCalls!usage, ModelCalls!history
<1>2. active' = ModelCalls!Cardinality(ModelCalls!Holders)' /\ active \in Nat
    BY <1>1, CallsHolders DEF ModelCalls!Inv, ModelCalls!TypeOK, ModelCalls!Holders,
        ModelCalls!Wake, ModelCalls!Goto, ModelCalls!waiting, ModelCalls!budget, ModelCalls!usage,
        ModelCalls!history
<1>3. ModelCalls!TypeOK'
    BY <1>2, CallsConstants DEF ModelCalls!Inv, ModelCalls!TypeOK, ModelCalls!Over,
        ModelCalls!Accounted, ModelCalls!Wake, ModelCalls!Goto, ModelCalls!waiting,
        ModelCalls!budget, ModelCalls!usage, ModelCalls!history
<1>4. ModelCalls!NoLostWakeUp'
    BY <1>1, <1>2, CallsHolders, CallsConstants DEF ModelCalls!Inv, ModelCalls!TypeOK,
        ModelCalls!NoLostWakeUp, ModelCalls!Wake, ModelCalls!Goto, ModelCalls!waiting,
        ModelCalls!budget, ModelCalls!usage, ModelCalls!history
<1>5. ModelCalls!KnownTotalsAreExact'
    BY CallsConstants DEF ModelCalls!Inv, ModelCalls!TypeOK, ModelCalls!KnownTotalsAreExact,
        ModelCalls!Wake, ModelCalls!Goto, ModelCalls!waiting, ModelCalls!budget, ModelCalls!usage,
        ModelCalls!history
<1>6. requests' = AllSent'
    BY AllSentStays DEF AllSent, ModelCalls!Inv, ModelCalls!TypeOK, ModelCalls!Accounted,
        ModelCalls!Wake, ModelCalls!Goto, ModelCalls!waiting, ModelCalls!budget, ModelCalls!usage,
        ModelCalls!history
<1>7. ModelCalls!Accounted'
    BY <1>6 DEF AllSent, ModelCalls!Inv, ModelCalls!TypeOK, ModelCalls!Accounted, ModelCalls!Wake,
        ModelCalls!Goto, ModelCalls!waiting, ModelCalls!budget, ModelCalls!usage, ModelCalls!history
<1>8. QED
    BY <1>3, <1>4, <1>5, <1>7 DEF ModelCalls!Inv

LEMMA CallsTakeSlot ==
    ASSUME ModelCalls!Inv, NEW c \in Clients, ModelCalls!TakeSlot(c)
    PROVE  ModelCalls!Inv'
<1>1. \A d \in Clients \ {c} : d \in ModelCalls!Holders' <=> d \in ModelCalls!Holders
    BY DEF ModelCalls!Inv, ModelCalls!TypeOK, ModelCalls!Holders, ModelCalls!TakeSlot,
        ModelCalls!Goto, ModelCalls!Free, ModelCalls!waiting, ModelCalls!budget, ModelCalls!usage,
        ModelCalls!history
<1>2. active' = ModelCalls!Cardinality(ModelCalls!Holders)' /\ active \in Nat
    BY <1>1, CallsHolders DEF ModelCalls!Inv, ModelCalls!TypeOK, ModelCalls!Holders,
        ModelCalls!TakeSlot, ModelCalls!Goto, ModelCalls!Free, ModelCalls!waiting,
        ModelCalls!budget, ModelCalls!usage, ModelCalls!history
<1>3. ModelCalls!TypeOK'
    BY <1>2, CallsConstants DEF ModelCalls!Inv, ModelCalls!TypeOK, ModelCalls!Over,
        ModelCalls!Accounted, ModelCalls!TakeSlot, ModelCalls!Goto, ModelCalls!Free,
        ModelCalls!waiting, ModelCalls!budget, ModelCalls!usage, ModelCalls!history
<1>4. ModelCalls!NoLostWakeUp'
    BY <1>1, <1>2, CallsHolders, CallsConstants DEF ModelCalls!Inv, ModelCalls!TypeOK,
        ModelCalls!NoLostWakeUp, ModelCalls!TakeSlot, ModelCalls!Goto, ModelCalls!Free,
        ModelCalls!waiting, ModelCalls!budget, ModelCalls!usage, ModelCalls!history
<1>5. ModelCalls!KnownTotalsAreExact'
    BY CallsConstants DEF ModelCalls!Inv, ModelCalls!TypeOK, ModelCalls!KnownTotalsAreExact,
        ModelCalls!TakeSlot, ModelCalls!Goto, ModelCalls!Free, ModelCalls!waiting,
        ModelCalls!budget, ModelCalls!usage, ModelCalls!history
<1>6. requests' = AllSent'
    BY AllSentStays DEF AllSent, ModelCalls!Inv, ModelCalls!TypeOK, ModelCalls!Accounted,
        ModelCalls!TakeSlot, ModelCalls!Goto, ModelCalls!Free, ModelCalls!waiting,
        ModelCalls!budget, ModelCalls!usage, ModelCalls!history
<1>7. ModelCalls!Accounted'
    BY <1>6 DEF AllSent, ModelCalls!Inv, ModelCalls!TypeOK, ModelCalls!Accounted,
        ModelCalls!TakeSlot, ModelCalls!Goto, ModelCalls!Free, ModelCalls!waiting,
        ModelCalls!budget, ModelCalls!usage, ModelCalls!history
<1>8. QED
    BY <1>3, <1>4, <1>5, <1>7 DEF ModelCalls!Inv

LEMMA CallsSend ==
    ASSUME ModelCalls!Inv, NEW c \in Clients, ModelCalls!Send(c)
    PROVE  ModelCalls!Inv'
<1>1. \A d \in Clients \ {c} : d \in ModelCalls!Holders' <=> d \in ModelCalls!Holders
    BY DEF ModelCalls!Inv, ModelCalls!TypeOK, ModelCalls!Holders, ModelCalls!Send, ModelCalls!Goto,
        ModelCalls!MayReserve, ModelCalls!waiting, ModelCalls!usage
<1>2. active' = ModelCalls!Cardinality(ModelCalls!Holders)' /\ active \in Nat
    BY <1>1, CallsHolders DEF ModelCalls!Inv, ModelCalls!TypeOK, ModelCalls!Holders,
        ModelCalls!Send, ModelCalls!Goto, ModelCalls!MayReserve, ModelCalls!waiting,
        ModelCalls!usage
<1>3. ModelCalls!TypeOK'
    BY <1>2, CallsConstants DEF ModelCalls!Inv, ModelCalls!TypeOK, ModelCalls!Over,
        ModelCalls!Accounted, ModelCalls!Send, ModelCalls!Goto, ModelCalls!MayReserve,
        ModelCalls!waiting, ModelCalls!usage
<1>4. ModelCalls!NoLostWakeUp'
    BY <1>1, <1>2, CallsHolders, CallsConstants DEF ModelCalls!Inv, ModelCalls!TypeOK,
        ModelCalls!NoLostWakeUp, ModelCalls!Send, ModelCalls!Goto, ModelCalls!MayReserve,
        ModelCalls!waiting, ModelCalls!usage
<1>5. ModelCalls!KnownTotalsAreExact'
    BY CallsConstants DEF ModelCalls!Inv, ModelCalls!TypeOK, ModelCalls!KnownTotalsAreExact,
        ModelCalls!Send, ModelCalls!Goto, ModelCalls!MayReserve, ModelCalls!waiting,
        ModelCalls!usage
<1>6. requests' = AllSent'
    BY AllSentRises DEF AllSent, ModelCalls!Inv, ModelCalls!TypeOK, ModelCalls!Accounted,
        ModelCalls!Send, ModelCalls!Goto, ModelCalls!MayReserve, ModelCalls!waiting,
        ModelCalls!usage
<1>7. ModelCalls!Accounted'
    BY <1>6 DEF AllSent, ModelCalls!Inv, ModelCalls!TypeOK, ModelCalls!Accounted, ModelCalls!Send,
        ModelCalls!Goto, ModelCalls!MayReserve, ModelCalls!waiting, ModelCalls!usage
<1>8. QED
    BY <1>3, <1>4, <1>5, <1>7 DEF ModelCalls!Inv

LEMMA CallsBudgetSpent ==
    ASSUME ModelCalls!Inv, NEW c \in Clients, ModelCalls!BudgetSpent(c)
    PROVE  ModelCalls!Inv'
<1>1. \A d \in Clients \ {c} : d \in ModelCalls!Holders' <=> d \in ModelCalls!Holders
    BY DEF ModelCalls!Inv, ModelCalls!TypeOK, ModelCalls!Holders, ModelCalls!BudgetSpent,
        ModelCalls!Release, ModelCalls!Woken, ModelCalls!MayReserve, ModelCalls!waiting,
        ModelCalls!budget, ModelCalls!usage, ModelCalls!history
<1>2. active' = ModelCalls!Cardinality(ModelCalls!Holders)' /\ active \in Nat
    BY <1>1, CallsHolders DEF ModelCalls!Inv, ModelCalls!TypeOK, ModelCalls!Holders,
        ModelCalls!BudgetSpent, ModelCalls!Release, ModelCalls!Woken, ModelCalls!MayReserve,
        ModelCalls!waiting, ModelCalls!budget, ModelCalls!usage, ModelCalls!history
<1>3. ModelCalls!TypeOK'
    BY <1>2, CallsConstants DEF ModelCalls!Inv, ModelCalls!TypeOK, ModelCalls!Over,
        ModelCalls!Accounted, ModelCalls!BudgetSpent, ModelCalls!Release, ModelCalls!Woken,
        ModelCalls!MayReserve, ModelCalls!waiting, ModelCalls!budget, ModelCalls!usage,
        ModelCalls!history
<1>4. ModelCalls!NoLostWakeUp'
    BY <1>1, <1>2, CallsHolders, CallsConstants DEF ModelCalls!Inv, ModelCalls!TypeOK,
        ModelCalls!NoLostWakeUp, ModelCalls!BudgetSpent, ModelCalls!Release, ModelCalls!Woken,
        ModelCalls!MayReserve, ModelCalls!waiting, ModelCalls!budget, ModelCalls!usage,
        ModelCalls!history
<1>5. ModelCalls!KnownTotalsAreExact'
    BY CallsConstants DEF ModelCalls!Inv, ModelCalls!TypeOK, ModelCalls!KnownTotalsAreExact,
        ModelCalls!BudgetSpent, ModelCalls!Release, ModelCalls!Woken, ModelCalls!MayReserve,
        ModelCalls!waiting, ModelCalls!budget, ModelCalls!usage, ModelCalls!history
<1>6. requests' = AllSent'
    BY AllSentStays DEF AllSent, ModelCalls!Inv, ModelCalls!TypeOK, ModelCalls!Accounted,
        ModelCalls!BudgetSpent, ModelCalls!Release, ModelCalls!Woken, ModelCalls!MayReserve,
        ModelCalls!waiting, ModelCalls!budget, ModelCalls!usage, ModelCalls!history
<1>7. ModelCalls!Accounted'
    BY <1>6 DEF AllSent, ModelCalls!Inv, ModelCalls!TypeOK, ModelCalls!Accounted,
        ModelCalls!BudgetSpent, ModelCalls!Release, ModelCalls!Woken, ModelCalls!MayReserve,
        ModelCalls!waiting, ModelCalls!budget, ModelCalls!usage, ModelCalls!history
<1>8. QED
    BY <1>3, <1>4, <1>5, <1>7 DEF ModelCalls!Inv

LEMMA CallsRetry ==
    ASSUME ModelCalls!Inv, NEW c \in Clients, ModelCalls!Retry(c)
    PROVE  ModelCalls!Inv'
<1>1. \A d \in Clients \ {c} : d \in ModelCalls!Holders' <=> d \in ModelCalls!Holders
    BY DEF ModelCalls!Inv, ModelCalls!TypeOK, ModelCalls!Holders, ModelCalls!Retry, ModelCalls!Goto,
        ModelCalls!waiting, ModelCalls!budget, ModelCalls!usage, ModelCalls!history
<1>2. active' = ModelCalls!Cardinality(ModelCalls!Holders)' /\ active \in Nat
    BY <1>1, CallsHolders DEF ModelCalls!Inv, ModelCalls!TypeOK, ModelCalls!Holders,
        ModelCalls!Retry, ModelCalls!Goto, ModelCalls!waiting, ModelCalls!budget, ModelCalls!usage,
        ModelCalls!history
<1>3. ModelCalls!TypeOK'
    BY <1>2, CallsConstants DEF ModelCalls!Inv, ModelCalls!TypeOK, ModelCalls!Over,
        ModelCalls!Accounted, ModelCalls!Retry, ModelCalls!Goto, ModelCalls!waiting,
        ModelCalls!budget, ModelCalls!usage, ModelCalls!history
<1>4. ModelCalls!NoLostWakeUp'
    BY <1>1, <1>2, CallsHolders, CallsConstants DEF ModelCalls!Inv, ModelCalls!TypeOK,
        ModelCalls!NoLostWakeUp, ModelCalls!Retry, ModelCalls!Goto, ModelCalls!waiting,
        ModelCalls!budget, ModelCalls!usage, ModelCalls!history
<1>5. ModelCalls!KnownTotalsAreExact'
    BY CallsConstants DEF ModelCalls!Inv, ModelCalls!TypeOK, ModelCalls!KnownTotalsAreExact,
        ModelCalls!Retry, ModelCalls!Goto, ModelCalls!waiting, ModelCalls!budget, ModelCalls!usage,
        ModelCalls!history
<1>6. requests' = AllSent'
    BY AllSentStays DEF AllSent, ModelCalls!Inv, ModelCalls!TypeOK, ModelCalls!Accounted,
        ModelCalls!Retry, ModelCalls!Goto, ModelCalls!waiting, ModelCalls!budget, ModelCalls!usage,
        ModelCalls!history
<1>7. ModelCalls!Accounted'
    BY <1>6 DEF AllSent, ModelCalls!Inv, ModelCalls!TypeOK, ModelCalls!Accounted, ModelCalls!Retry,
        ModelCalls!Goto, ModelCalls!waiting, ModelCalls!budget, ModelCalls!usage, ModelCalls!history
<1>8. QED
    BY <1>3, <1>4, <1>5, <1>7 DEF ModelCalls!Inv

LEMMA CallsAnswer ==
    ASSUME ModelCalls!Inv, NEW c \in Clients, NEW n \in Amounts, ModelCalls!Answer(c, n)
    PROVE  ModelCalls!Inv'
<1>1. \A d \in Clients \ {c} : d \in ModelCalls!Holders' <=> d \in ModelCalls!Holders
    BY DEF ModelCalls!Inv, ModelCalls!TypeOK, ModelCalls!Holders, ModelCalls!Answer,
        ModelCalls!Release, ModelCalls!Woken, ModelCalls!Observe
<1>2. active' = ModelCalls!Cardinality(ModelCalls!Holders)' /\ active \in Nat
    BY <1>1, CallsHolders DEF ModelCalls!Inv, ModelCalls!TypeOK, ModelCalls!Holders,
        ModelCalls!Answer, ModelCalls!Release, ModelCalls!Woken, ModelCalls!Observe
<1>3. ModelCalls!TypeOK'
    <2>1. total \in [Clients -> Nat] /\ events \in [Clients -> Nat]
          /\ sent \in [Clients -> Nat] /\ charged \in [Clients -> Nat]
        BY DEF ModelCalls!Inv, ModelCalls!TypeOK
    <2>2. total' \in [Clients -> Nat] /\ events' \in [Clients -> Nat]
          /\ sent' \in [Clients -> Nat] /\ charged' \in [Clients -> Nat]
        BY <2>1, CallsConstants DEF ModelCalls!Answer, ModelCalls!Release, ModelCalls!Woken,
            ModelCalls!Observe
    <2>3. callPc' \in [Clients -> ModelCalls!Over \cup {"start", "asleep", "queue", "waiting", "slot",
                                                       "calling", "pausing"}]
        BY DEF ModelCalls!Inv, ModelCalls!TypeOK, ModelCalls!Over, ModelCalls!Answer,
            ModelCalls!Release, ModelCalls!Woken, ModelCalls!Observe
    <2>4. /\ tokens' \in Nat /\ attempt' = attempt /\ requests' = requests /\ known' = known
          /\ limit' \in Budgets \cup {0}
        <3>1. tokens \in Nat /\ n \in Nat /\ tokens' = tokens + n
            BY CallsConstants DEF ModelCalls!Inv, ModelCalls!TypeOK, ModelCalls!Answer
        <3>2. QED
            BY <3>1 DEF ModelCalls!Inv, ModelCalls!TypeOK, ModelCalls!Answer, ModelCalls!Observe
    <2>5. blocked' \in BOOLEAN /\ notifying' \in BOOLEAN
        BY Zenon DEF ModelCalls!Inv, ModelCalls!TypeOK, ModelCalls!Answer, ModelCalls!Observe
    <2>6. QED
        BY <1>2, <2>2, <2>3, <2>4, <2>5 DEF ModelCalls!Inv, ModelCalls!TypeOK
<1>4. ModelCalls!NoLostWakeUp'
    BY <1>1, <1>2, CallsHolders, CallsConstants DEF ModelCalls!Inv, ModelCalls!TypeOK,
        ModelCalls!NoLostWakeUp, ModelCalls!Answer, ModelCalls!Release, ModelCalls!Woken,
        ModelCalls!Observe
<1>5. ModelCalls!KnownTotalsAreExact'
    BY CallsConstants DEF ModelCalls!Inv, ModelCalls!TypeOK, ModelCalls!KnownTotalsAreExact,
        ModelCalls!Answer, ModelCalls!Release, ModelCalls!Woken, ModelCalls!Observe
<1>6. requests' = AllSent'
    BY AllSentStays DEF AllSent, ModelCalls!Inv, ModelCalls!TypeOK, ModelCalls!Accounted,
        ModelCalls!Answer, ModelCalls!Release, ModelCalls!Woken, ModelCalls!Observe
<1>7. ModelCalls!Accounted'
    BY <1>6 DEF AllSent, ModelCalls!Inv, ModelCalls!TypeOK, ModelCalls!Accounted, ModelCalls!Answer,
        ModelCalls!Release, ModelCalls!Woken, ModelCalls!Observe
<1>8. QED
    BY <1>3, <1>4, <1>5, <1>7 DEF ModelCalls!Inv

LEMMA CallsFail ==
    ASSUME ModelCalls!Inv, NEW c \in Clients, NEW n \in Amounts, ModelCalls!Fail(c, n)
    PROVE  ModelCalls!Inv'
<1>1. \A d \in Clients \ {c} : d \in ModelCalls!Holders' <=> d \in ModelCalls!Holders
    BY DEF ModelCalls!Inv, ModelCalls!TypeOK, ModelCalls!Holders, ModelCalls!Fail,
        ModelCalls!Release, ModelCalls!Woken, ModelCalls!Observe, ModelCalls!Unknown,
        ModelCalls!waiting, ModelCalls!budget
<1>2. active' = ModelCalls!Cardinality(ModelCalls!Holders)' /\ active \in Nat
    BY <1>1, CallsHolders DEF ModelCalls!Inv, ModelCalls!TypeOK, ModelCalls!Holders,
        ModelCalls!Fail, ModelCalls!Release, ModelCalls!Woken, ModelCalls!Observe,
        ModelCalls!Unknown, ModelCalls!waiting, ModelCalls!budget
<1>3. ModelCalls!TypeOK'
    <2>1. total \in [Clients -> Nat] /\ events \in [Clients -> Nat]
          /\ sent \in [Clients -> Nat] /\ charged \in [Clients -> Nat]
        BY DEF ModelCalls!Inv, ModelCalls!TypeOK
    <2>2. total' \in [Clients -> Nat] /\ events' \in [Clients -> Nat]
          /\ sent' \in [Clients -> Nat] /\ charged' \in [Clients -> Nat]
        BY <2>1, CallsConstants DEF ModelCalls!Fail, ModelCalls!Release, ModelCalls!Woken,
            ModelCalls!Observe, ModelCalls!Unknown, ModelCalls!waiting, ModelCalls!budget
    <2>3. callPc' \in [Clients -> ModelCalls!Over \cup {"start", "asleep", "queue", "waiting", "slot",
                                                       "calling", "pausing"}]
        BY DEF ModelCalls!Inv, ModelCalls!TypeOK, ModelCalls!Over, ModelCalls!Fail,
            ModelCalls!Release, ModelCalls!Woken, ModelCalls!Observe, ModelCalls!Unknown,
            ModelCalls!waiting, ModelCalls!budget
    <2>4. QED
        BY <1>2, <2>2, <2>3, CallsConstants DEF ModelCalls!Inv, ModelCalls!TypeOK,
            ModelCalls!Fail, ModelCalls!Release, ModelCalls!Woken, ModelCalls!Observe,
            ModelCalls!Unknown, ModelCalls!waiting, ModelCalls!budget
<1>4. ModelCalls!NoLostWakeUp'
    BY <1>1, <1>2, CallsHolders, CallsConstants DEF ModelCalls!Inv, ModelCalls!TypeOK,
        ModelCalls!NoLostWakeUp, ModelCalls!Fail, ModelCalls!Release, ModelCalls!Woken,
        ModelCalls!Observe, ModelCalls!Unknown, ModelCalls!waiting, ModelCalls!budget
<1>5. ModelCalls!KnownTotalsAreExact'
    BY CallsConstants DEF ModelCalls!Inv, ModelCalls!TypeOK, ModelCalls!KnownTotalsAreExact,
        ModelCalls!Fail, ModelCalls!Release, ModelCalls!Woken, ModelCalls!Observe,
        ModelCalls!Unknown, ModelCalls!waiting, ModelCalls!budget
<1>6. requests' = AllSent'
    BY AllSentStays DEF AllSent, ModelCalls!Inv, ModelCalls!TypeOK, ModelCalls!Accounted,
        ModelCalls!Fail, ModelCalls!Release, ModelCalls!Woken, ModelCalls!Observe,
        ModelCalls!Unknown, ModelCalls!waiting, ModelCalls!budget
<1>7. ModelCalls!Accounted'
    BY <1>6 DEF AllSent, ModelCalls!Inv, ModelCalls!TypeOK, ModelCalls!Accounted, ModelCalls!Fail,
        ModelCalls!Release, ModelCalls!Woken, ModelCalls!Observe, ModelCalls!Unknown,
        ModelCalls!waiting, ModelCalls!budget
<1>8. QED
    BY <1>3, <1>4, <1>5, <1>7 DEF ModelCalls!Inv

LEMMA CallsGiveUp ==
    ASSUME ModelCalls!Inv, NEW c \in Clients, ModelCalls!GiveUp(c)
    PROVE  ModelCalls!Inv'
<1>1. \A d \in Clients \ {c} : d \in ModelCalls!Holders' <=> d \in ModelCalls!Holders
    BY DEF ModelCalls!Inv, ModelCalls!TypeOK, ModelCalls!Holders, ModelCalls!GiveUp,
        ModelCalls!Goto, ModelCalls!waiting, ModelCalls!budget, ModelCalls!usage, ModelCalls!history
<1>2. active' = ModelCalls!Cardinality(ModelCalls!Holders)' /\ active \in Nat
    BY <1>1, CallsHolders DEF ModelCalls!Inv, ModelCalls!TypeOK, ModelCalls!Holders,
        ModelCalls!GiveUp, ModelCalls!Goto, ModelCalls!waiting, ModelCalls!budget, ModelCalls!usage,
        ModelCalls!history
<1>3. ModelCalls!TypeOK'
    BY <1>2, CallsConstants DEF ModelCalls!Inv, ModelCalls!TypeOK, ModelCalls!Over,
        ModelCalls!Accounted, ModelCalls!GiveUp, ModelCalls!Goto, ModelCalls!waiting,
        ModelCalls!budget, ModelCalls!usage, ModelCalls!history
<1>4. ModelCalls!NoLostWakeUp'
    BY <1>1, <1>2, CallsHolders, CallsConstants DEF ModelCalls!Inv, ModelCalls!TypeOK,
        ModelCalls!NoLostWakeUp, ModelCalls!GiveUp, ModelCalls!Goto, ModelCalls!waiting,
        ModelCalls!budget, ModelCalls!usage, ModelCalls!history
<1>5. ModelCalls!KnownTotalsAreExact'
    BY CallsConstants DEF ModelCalls!Inv, ModelCalls!TypeOK, ModelCalls!KnownTotalsAreExact,
        ModelCalls!GiveUp, ModelCalls!Goto, ModelCalls!waiting, ModelCalls!budget, ModelCalls!usage,
        ModelCalls!history
<1>6. requests' = AllSent'
    BY AllSentStays DEF AllSent, ModelCalls!Inv, ModelCalls!TypeOK, ModelCalls!Accounted,
        ModelCalls!GiveUp, ModelCalls!Goto, ModelCalls!waiting, ModelCalls!budget, ModelCalls!usage,
        ModelCalls!history
<1>7. ModelCalls!Accounted'
    BY <1>6 DEF AllSent, ModelCalls!Inv, ModelCalls!TypeOK, ModelCalls!Accounted, ModelCalls!GiveUp,
        ModelCalls!Goto, ModelCalls!waiting, ModelCalls!budget, ModelCalls!usage, ModelCalls!history
<1>8. QED
    BY <1>3, <1>4, <1>5, <1>7 DEF ModelCalls!Inv

LEMMA CallsCancel ==
    ASSUME ModelCalls!Inv, NEW c \in Clients, NEW n \in Amounts, ModelCalls!Cancel(c, n)
    PROVE  ModelCalls!Inv'
<1>1. \A d \in Clients \ {c} : d \in ModelCalls!Holders' <=> d \in ModelCalls!Holders
    BY DEF ModelCalls!Inv, ModelCalls!TypeOK, ModelCalls!Holders, ModelCalls!Cancel,
        ModelCalls!Goto, ModelCalls!Release, ModelCalls!Woken, ModelCalls!Unknown,
        ModelCalls!waiting, ModelCalls!budget, ModelCalls!usage, ModelCalls!history
<1>2. active' = ModelCalls!Cardinality(ModelCalls!Holders)' /\ active \in Nat
    BY <1>1, CallsHolders DEF ModelCalls!Inv, ModelCalls!TypeOK, ModelCalls!Holders,
        ModelCalls!Cancel, ModelCalls!Goto, ModelCalls!Release, ModelCalls!Woken,
        ModelCalls!Unknown, ModelCalls!waiting, ModelCalls!budget, ModelCalls!usage,
        ModelCalls!history
<1>3. ModelCalls!TypeOK'
    <2>1. total \in [Clients -> Nat] /\ events \in [Clients -> Nat]
          /\ sent \in [Clients -> Nat] /\ charged \in [Clients -> Nat]
        BY DEF ModelCalls!Inv, ModelCalls!TypeOK
    <2>2. total' \in [Clients -> Nat] /\ events' \in [Clients -> Nat]
          /\ sent' \in [Clients -> Nat] /\ charged' \in [Clients -> Nat]
        BY <2>1, CallsConstants DEF ModelCalls!Cancel, ModelCalls!Goto, ModelCalls!Release,
            ModelCalls!Woken, ModelCalls!Unknown, ModelCalls!waiting, ModelCalls!budget,
            ModelCalls!usage, ModelCalls!history
    <2>3. callPc' \in [Clients -> ModelCalls!Over \cup {"start", "asleep", "queue", "waiting", "slot",
                                                       "calling", "pausing"}]
        BY DEF ModelCalls!Inv, ModelCalls!TypeOK, ModelCalls!Over, ModelCalls!Cancel,
            ModelCalls!Goto, ModelCalls!Release, ModelCalls!Woken, ModelCalls!Unknown,
            ModelCalls!waiting, ModelCalls!budget, ModelCalls!usage, ModelCalls!history
    <2>4. QED
        BY <1>2, <2>2, <2>3, CallsConstants DEF ModelCalls!Inv, ModelCalls!TypeOK,
            ModelCalls!Cancel, ModelCalls!Goto, ModelCalls!Release, ModelCalls!Woken,
            ModelCalls!Unknown, ModelCalls!waiting, ModelCalls!budget, ModelCalls!usage,
            ModelCalls!history
<1>4. ModelCalls!NoLostWakeUp'
    BY <1>1, <1>2, CallsHolders, CallsConstants DEF ModelCalls!Inv, ModelCalls!TypeOK,
        ModelCalls!NoLostWakeUp, ModelCalls!Cancel, ModelCalls!Goto, ModelCalls!Release,
        ModelCalls!Woken, ModelCalls!Unknown, ModelCalls!waiting, ModelCalls!budget,
        ModelCalls!usage, ModelCalls!history
<1>5. ModelCalls!KnownTotalsAreExact'
    BY CallsConstants DEF ModelCalls!Inv, ModelCalls!TypeOK, ModelCalls!KnownTotalsAreExact,
        ModelCalls!Cancel, ModelCalls!Goto, ModelCalls!Release, ModelCalls!Woken,
        ModelCalls!Unknown, ModelCalls!waiting, ModelCalls!budget, ModelCalls!usage,
        ModelCalls!history
<1>6. requests' = AllSent'
    BY AllSentStays DEF AllSent, ModelCalls!Inv, ModelCalls!TypeOK, ModelCalls!Accounted,
        ModelCalls!Cancel, ModelCalls!Goto, ModelCalls!Release, ModelCalls!Woken,
        ModelCalls!Unknown, ModelCalls!waiting, ModelCalls!budget, ModelCalls!usage,
        ModelCalls!history
<1>7. ModelCalls!Accounted'
    BY <1>6 DEF AllSent, ModelCalls!Inv, ModelCalls!TypeOK, ModelCalls!Accounted, ModelCalls!Cancel,
        ModelCalls!Goto, ModelCalls!Release, ModelCalls!Woken, ModelCalls!Unknown,
        ModelCalls!waiting, ModelCalls!budget, ModelCalls!usage, ModelCalls!history
<1>8. QED
    BY <1>3, <1>4, <1>5, <1>7 DEF ModelCalls!Inv

\* The provider's pause ends, or the waiting calls are woken.
LEMMA CallsWoken ==
    ASSUME ModelCalls!Inv, ModelCalls!Notify \/ ModelCalls!PauseEnds
    PROVE  ModelCalls!Inv'
<1>1. ModelCalls!Holders' = ModelCalls!Holders
    BY DEF ModelCalls!Inv, ModelCalls!TypeOK, ModelCalls!Holders, ModelCalls!Notify,
        ModelCalls!PauseEnds
<1>2. ModelCalls!Cardinality(ModelCalls!Holders)' = active
    BY <1>1, CallsCount DEF ModelCalls!Inv, ModelCalls!TypeOK
<1>3. requests' = AllSent'
    BY AllSentStays DEF AllSent, ModelCalls!Inv, ModelCalls!Accounted, ModelCalls!Notify,
        ModelCalls!PauseEnds, ModelCalls!budget, ModelCalls!history
<1>4. ModelCalls!TypeOK'
    BY <1>2 DEF ModelCalls!Inv, ModelCalls!TypeOK, ModelCalls!Over, ModelCalls!Notify,
        ModelCalls!PauseEnds, ModelCalls!budget, ModelCalls!usage, ModelCalls!history
<1>5. ModelCalls!NoLostWakeUp' /\ ModelCalls!KnownTotalsAreExact'
    BY DEF ModelCalls!Inv, ModelCalls!TypeOK, ModelCalls!NoLostWakeUp, ModelCalls!KnownTotalsAreExact,
        ModelCalls!Notify, ModelCalls!PauseEnds, ModelCalls!usage, ModelCalls!history
<1>6. ModelCalls!Accounted'
    BY <1>3 DEF AllSent, ModelCalls!Inv, ModelCalls!TypeOK, ModelCalls!Accounted, ModelCalls!Notify,
        ModelCalls!PauseEnds, ModelCalls!usage, ModelCalls!history
<1>7. QED
    BY <1>4, <1>5, <1>6 DEF ModelCalls!Inv

LEMMA CallsNext == ModelCalls!Inv /\ ModelCalls!Next => ModelCalls!Inv'
BY CallsPassPause, CallsWake, CallsTakeSlot, CallsSend, CallsBudgetSpent, CallsRetry, CallsAnswer,
   CallsFail, CallsGiveUp, CallsCancel, CallsWoken
   DEF ModelCalls!Next, ModelCalls!Step, ModelCalls!Provider

LEMMA CallsStep == ModelCalls!Inv /\ [Step]_vars => ModelCalls!Inv'
<1> SUFFICES ASSUME ModelCalls!Inv, [Step]_vars PROVE ModelCalls!Inv'
    OBVIOUS
<1>1. CASE ModelCalls!Next
    BY <1>1, CallsNext
<1>2. CASE UNCHANGED ModelRequestsVars
    <2>1. ModelCalls!Holders' = ModelCalls!Holders
        BY <1>2 DEF ModelRequestsVars, ModelCalls!Holders
    <2>2. ModelCalls!Cardinality(ModelCalls!Holders)' = active'
        BY <1>2, <2>1, CallsCount DEF ModelRequestsVars, ModelCalls!Inv, ModelCalls!TypeOK
    <2>3. requests' = AllSent'
        BY <1>2, AllSentStays DEF ModelRequestsVars, AllSent, ModelCalls!Inv, ModelCalls!Accounted
    <2>4. ModelCalls!Accounted'
        BY <1>2, <2>3 DEF ModelRequestsVars, AllSent, ModelCalls!Inv, ModelCalls!Accounted
    <2>5. QED
        BY <1>2, <2>2, <2>4 DEF ModelRequestsVars, ModelCalls!Inv, ModelCalls!TypeOK,
            ModelCalls!NoLostWakeUp, ModelCalls!KnownTotalsAreExact
<1>3. QED
    BY <1>1, <1>2 DEF Step, vars

\* No call waits for a slot that nobody holds unless it is about to be woken,
\* a job sends no more requests than its budget, retries included, and each
\* of them is recorded, with a total that is exact where it is called known
\* (llm/model_rate_limits.py, llm/model_usage.py, authoring/authoring_limits.py).
THEOREM RequestsHold == Spec => []RequestsAreBudgeted
<1>1. Begin => ModelCalls!Inv
    BY CallsInit DEF Begin
<1>2. ModelCalls!Inv => RequestsAreBudgeted
    <2> SUFFICES ASSUME ModelCalls!Inv PROVE RequestsAreBudgeted
        OBVIOUS
    <2>1. AllSent <= RequestLimit
        BY DEF AllSent, ModelCalls!Inv, ModelCalls!TypeOK, ModelCalls!Accounted
    <2>2. ModelCalls!RequestBudgetHolds
        BY <2>1 DEF AllSent, ModelCalls!RequestBudgetHolds
    <2>3. ModelCalls!EveryRequestIsRecorded
        BY DEF ModelCalls!Inv, ModelCalls!Accounted, ModelCalls!EveryRequestIsRecorded
    <2>4. QED
        BY <2>2, <2>3 DEF ModelCalls!Inv, RequestsAreBudgeted
<1>3. QED
    BY <1>1, <1>2, CallsStep, PTL DEF Spec

----------------------------------------------------------------------------
(* The daily quota: slots and tokens.                                      *)

LEMMA QuotaConstants ==
    /\ IsFiniteSet(Clients)
    /\ TurnsPerDay \in Nat \ {0} /\ ImagesPerDay \in Nat \ {0} /\ ConcurrentTurns \in Nat \ {0}
    /\ LastDay \in Nat \ {0} /\ MaxCrashes \in Nat /\ Quota!Days = 1..LastDay
    /\ Reservations \subseteq Nat /\ Reported \subseteq Nat /\ None \notin Nat
    /\ None \notin [turns : Nat, reserved : Nat, images : Nat, active : Nat]
BY QuotaAssumption DEF Quota!QuotaAssumption, Quota!Days, Quota!IsFiniteSet, IsFiniteSet

LEMMA QuotaCount ==
    ASSUME NEW S
    PROVE  Quota!Cardinality(S) = Cardinality(S)
BY DEF Quota!Cardinality, Cardinality

\* What a request of a turn under way reserved, and what they all did.
QuotaReserved == [t \in Clients |-> turn[t].reservation]

LEMMA QuotaOutstanding ==
    ASSUME NEW d \in Quota!Days
    PROVE  \E g : Summed(g, QuotaReserved, Quota!Holding(d)) /\ g[Quota!Holding(d)] = Quota!Outstanding(d)
<1> DEFINE H == Quota!Holding(d)
           P(iter) == iter = [s \in SUBSET H |->
               IF s = {} THEN 0 ELSE turn[Some(s)].reservation + iter[s \ {Some(s)}]]
<1>1. H \subseteq Clients /\ IsFiniteSet(H)
    BY QuotaConstants, FS_Subset DEF Quota!Holding
<1>2. \A iter : P(iter) <=> Summed(iter, QuotaReserved, H)
    <2>1. \A s \in SUBSET H : s # {} => QuotaReserved[Some(s)] = turn[Some(s)].reservation
        BY <1>1 DEF QuotaReserved, Some
    <2> HIDE DEF H
    <2>2. QED
        BY <2>1 DEF Summed
<1>3. \E iter : P(iter)
    BY <1>1, <1>2, SumExists
<1>4. P(CHOOSE iter : P(iter))
    BY <1>3
<1>5. Quota!Outstanding(d) = (CHOOSE iter : P(iter))[H]
    BY DEF Quota!Outstanding, Quota!MapThenSumSet, Quota!MapThenFoldSet, Some
<1>6. QED
    BY <1>2, <1>4, <1>5

LEMMA QuotaOutstandingNext ==
    ASSUME NEW d \in Quota!Days
    PROVE  \E g : Summed(g, QuotaReserved', Quota!Holding(d)') /\ g[Quota!Holding(d)'] = Quota!Outstanding(d)'
<1> DEFINE H == Quota!Holding(d)'
           P(iter) == iter = [s \in SUBSET H |->
               IF s = {} THEN 0 ELSE turn'[Some(s)].reservation + iter[s \ {Some(s)}]]
<1>1. H \subseteq Clients /\ IsFiniteSet(H)
    BY QuotaConstants, FS_Subset DEF Quota!Holding
<1>2. \A iter : P(iter) <=> Summed(iter, QuotaReserved', H)
    <2>1. \A s \in SUBSET H : s # {} => QuotaReserved'[Some(s)] = turn'[Some(s)].reservation
        BY <1>1 DEF QuotaReserved, Some
    <2> HIDE DEF H
    <2>2. QED
        BY <2>1 DEF Summed
<1>3. \E iter : P(iter)
    BY <1>1, <1>2, SumExists
<1>4. P(CHOOSE iter : P(iter))
    BY <1>3
<1>5. Quota!Outstanding(d)' = (CHOOSE iter : P(iter))[H]
    BY DEF Quota!Outstanding, Quota!MapThenSumSet, Quota!MapThenFoldSet, Some
<1>6. QED
    BY <1>2, <1>4, <1>5

LEMMA QuotaRequest ==
    ASSUME Quota!TypesInv, NEW t \in Clients, quotaPc[t] # "idle"
    PROVE  /\ turn[t] \in Quota!Request /\ Quota!Day(t) \in Quota!Days /\ Quota!Day(t) = turn[t].day
           /\ turn[t].reservation \in Nat /\ turn[t].used \in Nat /\ turn[t].known \in BOOLEAN
           /\ Quota!Concurrent(t) \in {0, 1}
           /\ quotaPc[t] \in {"running", "imaging"} => counter[Quota!Day(t)] \in Quota!Row
           /\ quotaPc[t] = "imaging" => imageDay[t] \in Quota!Days /\ counter[imageDay[t]] \in Quota!Row
<1>1. turn[t] \in Quota!Request
    BY DEF Quota!TypesInv, Quota!Kept
<1>2. /\ Quota!Day(t) \in Quota!Days /\ Quota!Day(t) = turn[t].day
      /\ turn[t].reservation \in Reservations
      /\ turn[t].used \in Reported \cup {0}
      /\ turn[t].known \in BOOLEAN
    BY <1>1 DEF Quota!Request, Quota!Day
<1>3. quotaPc[t] \in {"running", "imaging"} => counter[Quota!Day(t)] \in Quota!Row
    BY <1>2 DEF Quota!TypesInv, Quota!TypeOK, Quota!Kept, Quota!Holding, Quota!Day
<1>4. quotaPc[t] = "imaging" => imageDay[t] \in Quota!Days /\ counter[imageDay[t]] \in Quota!Row
    BY DEF Quota!TypesInv, Quota!TypeOK, Quota!Kept
<1>5. turn[t].reservation \in Nat /\ turn[t].used \in Nat
    <2>1. Reservations \subseteq Nat /\ Reported \subseteq Nat
        BY QuotaConstants
    <2>2. turn[t].reservation \in Nat
        BY <1>2, <2>1
    <2>3. turn[t].used \in Nat
        <3>1. CASE turn[t].used \in Reported
            BY <2>1, <3>1
        <3>2. CASE turn[t].used = 0
            BY <3>2
        <3>3. QED
            BY <1>2, <3>1, <3>2
    <2>4. QED
        BY <2>2, <2>3
<1>6. Quota!Concurrent(t) \in {0, 1}
    BY DEF Quota!Concurrent
<1>7. QED
    BY <1>1, <1>2, <1>3, <1>4, <1>5, <1>6

\* A row is no absence of one, and a request that is admitted is charged to it.
LEMMA QuotaRows ==
    /\ None \notin Quota!Row
    /\ \A row \in Quota!Row : /\ row.turns \in 1..TurnsPerDay /\ row.turns \in Nat /\ row.reserved \in Nat
                            /\ row.images \in Nat /\ row.active \in Nat
BY QuotaConstants DEF Quota!Row

LEMMA QuotaCharge ==
    ASSUME Quota!TypesInv, NEW t \in Clients, quotaPc[t] # "idle", Quota!Admits(t),
           NEW row, row = counter[Quota!Day(t)], NEW new, new = Quota!Charged(row, t)
    PROVE  /\ new \in Quota!Row
           /\ row = None \/ row \in Quota!Row
           /\ new.reserved = (IF row = None THEN 0 ELSE row.reserved) + turn[t].reservation
           /\ new.active = (IF row = None THEN 0 ELSE row.active) + Quota!Concurrent(t)
           /\ new.images = IF row = None THEN 0 ELSE row.images
           /\ Quota!Concurrent(t) = 1 => new.active <= ConcurrentTurns
<1>1. /\ turn[t].reservation \in Nat /\ Quota!Concurrent(t) \in {0, 1} /\ row \in Quota!Row \cup {None}
    BY QuotaRequest DEF Quota!TypesInv, Quota!TypeOK
<1>2. CASE row = None
    BY <1>1, <1>2, QuotaConstants DEF Quota!Charged, Quota!Row
<1>3. CASE row # None
    <2>1. row \in Quota!Row /\ row.turns < TurnsPerDay /\ (Quota!Concurrent(t) = 1 => row.active < ConcurrentTurns)
        BY <1>1, <1>3 DEF Quota!Admits, Quota!Concurrent
    <2>2. new = [row EXCEPT !.turns = row.turns + 1, !.reserved = row.reserved + turn[t].reservation,
                            !.active = row.active + Quota!Concurrent(t)]
        BY <1>3 DEF Quota!Charged
    <2>3. /\ row.turns + 1 \in 1..TurnsPerDay /\ row.reserved + turn[t].reservation \in Nat
          /\ row.active + Quota!Concurrent(t) \in Nat
        <3>1. /\ row.turns \in 1..TurnsPerDay /\ row.turns \in Nat /\ row.reserved \in Nat
              /\ row.active \in Nat /\ TurnsPerDay \in Nat
            BY <2>1, QuotaRows, QuotaConstants
        <3>2. QED
            BY <1>1, <2>1, <3>1
    <2>4. new \in Quota!Row
        BY <2>1, <2>2, <2>3 DEF Quota!Row
    <2>5. /\ new.reserved = row.reserved + turn[t].reservation /\ new.images = row.images
          /\ new.active = row.active + Quota!Concurrent(t)
        BY <2>1, <2>2 DEF Quota!Row
    <2>6. QED
        BY <1>1, <1>3, <2>1, <2>4, <2>5, QuotaRows, QuotaConstants
<1>4. QED
    BY <1>2, <1>3

\* What the end of a request leaves of its row.
LEMMA QuotaSettle ==
    ASSUME Quota!TypesInv, NEW t \in Clients, Quota!Release(t), NEW row, row = counter[Quota!Day(t)]
    PROVE  /\ row \in Quota!Row /\ counter'[Quota!Day(t)] \in Quota!Row
           /\ counter' = [counter EXCEPT ![Quota!Day(t)] = counter'[Quota!Day(t)]]
           /\ counter'[Quota!Day(t)].active = Quota!AtLeast0(row.active - Quota!Concurrent(t))
           /\ counter'[Quota!Day(t)].reserved = Quota!AtLeast0(row.reserved - Quota!Refund(t))
           /\ Quota!Refund(t) = turn[t].reservation
                 - (settled'[Quota!Day(t)] - settled[Quota!Day(t)])
           /\ settled'[Quota!Day(t)] - settled[Quota!Day(t)] \in Nat
           /\ settled' = [settled EXCEPT ![Quota!Day(t)] = settled'[Quota!Day(t)]]
           /\ settled'[Quota!Day(t)] \in Nat
<1>1. /\ turn[t].reservation \in Nat /\ turn[t].used \in Nat /\ Quota!Concurrent(t) \in {0, 1}
      /\ row \in Quota!Row /\ Quota!Day(t) \in Quota!Days
    BY QuotaRequest DEF Quota!Release
<1>2. row.active \in Nat /\ row.reserved \in Nat
    BY <1>1, QuotaRows
<1>3. /\ Quota!AtLeast0(row.active - Quota!Concurrent(t)) \in Nat
      /\ Quota!AtLeast0(row.reserved - Quota!Refund(t)) \in Nat
    BY <1>1, <1>2 DEF Quota!AtLeast0, Quota!Refund
<1> DEFINE new == [row EXCEPT !.active = Quota!AtLeast0(row.active - Quota!Concurrent(t)),
                              !.reserved = Quota!AtLeast0(row.reserved - Quota!Refund(t))]
           tokens2 == IF turn[t].known THEN turn[t].used ELSE turn[t].reservation
<1>4. /\ new \in Quota!Row
      /\ new.active = Quota!AtLeast0(row.active - Quota!Concurrent(t))
      /\ new.reserved = Quota!AtLeast0(row.reserved - Quota!Refund(t))
    BY <1>1, <1>3 DEF Quota!Row
<1>5. counter' = [counter EXCEPT ![Quota!Day(t)] = new]
    BY DEF Quota!Release
<1>6. settled' = [settled EXCEPT ![Quota!Day(t)] = settled[Quota!Day(t)] + tokens2]
    BY DEF Quota!Release
<1> HIDE DEF new
<1>7. counter'[Quota!Day(t)] = new
    BY <1>1, <1>5 DEF Quota!TypesInv, Quota!TypeOK
<1>8. tokens2 \in Nat /\ Quota!Refund(t) = turn[t].reservation - tokens2
    BY <1>1 DEF Quota!Refund
<1>9. settled \in [Quota!Days -> Nat]
    BY DEF Quota!TypesInv, Quota!TypeOK
<1> HIDE DEF tokens2
<1>10. settled'[Quota!Day(t)] = settled[Quota!Day(t)] + tokens2 /\ settled[Quota!Day(t)] \in Nat
    BY <1>1, <1>6, <1>9
<1>11. settled'[Quota!Day(t)] - settled[Quota!Day(t)] = tokens2 /\ settled'[Quota!Day(t)] \in Nat
    BY <1>8, <1>10
<1>12. QED
    BY <1>1, <1>4, <1>5, <1>6, <1>7, <1>8, <1>10, <1>11

LEMMA QuotaNatural ==
    ASSUME Quota!TypesInv, NEW d \in Quota!Days
    PROVE  /\ Quota!Outstanding(d) \in Nat
           /\ IsFiniteSet(Quota!Holding(d)) /\ Quota!TutorTurns(Quota!Holding(d)) \in Nat
           /\ \A t \in Quota!Holding(d) : t \in Clients /\ turn[t].reservation \in Nat
<1>1. \A t \in Quota!Holding(d) : t \in Clients /\ turn[t].reservation \in Nat
    BY QuotaRequest DEF Quota!Holding
<1>2. Quota!Holding(d) \subseteq Clients /\ IsFiniteSet(Quota!Holding(d))
    BY QuotaConstants, FS_Subset DEF Quota!Holding
<1>3. Quota!TutorTurns(Quota!Holding(d)) \in Nat
    <2>1. IsFiniteSet({t \in Quota!Holding(d) : turn[t].kind = "tutor"})
        BY <1>2, FS_Subset
    <2>2. QED
        BY <2>1, QuotaCount, FS_CardinalityType DEF Quota!TutorTurns
<1>4. Quota!Outstanding(d) \in Nat
    <2>1. PICK g : Summed(g, QuotaReserved, Quota!Holding(d)) /\ g[Quota!Holding(d)] = Quota!Outstanding(d)
        BY QuotaOutstanding
    <2>2. \A t \in Quota!Holding(d) : QuotaReserved[t] \in Nat
        BY <1>1 DEF QuotaReserved
    <2>3. QED
        BY <1>2, <2>1, <2>2, SumIsNatural
<1>5. QED
    BY <1>1, <1>2, <1>3, <1>4

LEMMA QuotaTypesInit == Quota!Init => Quota!TypesInv
<1> SUFFICES ASSUME Quota!Init PROVE Quota!TypesInv
    OBVIOUS
<1>1. 1 \in Quota!Days /\ 0 \in 0..MaxCrashes
    BY QuotaConstants
<1>2. Quota!TypeOK
    BY <1>1 DEF Quota!Init, Quota!TypeOK
<1>3. Quota!Kept
    BY DEF Quota!Init, Quota!Kept, Quota!Holding
<1>4. QED
    BY <1>2, <1>3 DEF Quota!TypesInv

LEMMA QuotaTypesNextDay ==
    ASSUME Quota!TypesInv, Quota!NextDay
    PROVE  Quota!TypesInv'
<1>1. /\ counter' \in [Quota!Days -> Quota!Row \cup {None}]
      /\ \A d \in Quota!Days : counter'[d] = None => counter[d] = None
    BY QuotaConstants DEF Quota!TypesInv, Quota!TypeOK, Quota!Kept, Quota!Row, Quota!NextDay
<1>2. /\ turn' \in [Clients -> Quota!Request \cup {None}]
      /\ \A u \in Clients : quotaPc'[u] # "idle" => turn'[u] \in Quota!Request
    BY DEF Quota!TypesInv, Quota!TypeOK, Quota!Kept, Quota!Request, Quota!NextDay
<1>3. /\ lost' \in [Quota!Days -> [slots : Nat, tokens : Nat]]
      /\ settled' \in [Quota!Days -> Nat] /\ images' \in [Quota!Days -> Nat]
    BY QuotaConstants DEF Quota!TypesInv, Quota!TypeOK, Quota!Kept, Quota!Request, Quota!NextDay
<1>4. Quota!TypeOK'
    BY <1>1, <1>2, <1>3, QuotaConstants DEF Quota!TypesInv, Quota!TypeOK, Quota!Kept, Quota!NextDay
<1>5. \A d \in Quota!Days : counter'[d] = None =>
          /\ Quota!Holding(d)' = {}
          /\ lost'[d].slots = 0 /\ lost'[d].tokens = 0 /\ settled'[d] = 0 /\ images'[d] = 0
    <2>1. SUFFICES ASSUME NEW d \in Quota!Days, counter'[d] = None
                   PROVE  Quota!Holding(d)' = {} /\ lost'[d].slots = 0 /\ lost'[d].tokens = 0 /\ settled'[d] = 0 /\ images'[d] = 0
        OBVIOUS
    <2>2. lost'[d].slots = 0 /\ lost'[d].tokens = 0 /\ settled'[d] = 0 /\ images'[d] = 0
        BY <1>1, <2>1, QuotaConstants DEF Quota!TypesInv, Quota!TypeOK, Quota!Kept, Quota!Holding, Quota!Day,
            Quota!Request, Quota!NextDay
    <2>3. Quota!Holding(d)' = {}
        BY <1>1, <2>1, QuotaConstants DEF Quota!TypesInv, Quota!TypeOK, Quota!Kept, Quota!Holding, Quota!Day,
            Quota!Request, Quota!NextDay
    <2>4. QED
        BY <2>2, <2>3
<1>6. Quota!Kept'
    BY <1>1, <1>2, <1>5, QuotaConstants DEF Quota!TypesInv, Quota!TypeOK, Quota!Kept, Quota!NextDay
<1>7. QED
    BY <1>4, <1>6 DEF Quota!TypesInv

LEMMA QuotaTypesBegin ==
    ASSUME Quota!TypesInv, NEW t \in Clients, NEW kind \in Quota!Kinds, NEW n \in Reservations,
           Quota!Begin(t, kind, n)
    PROVE  Quota!TypesInv'
<1>1. /\ counter' \in [Quota!Days -> Quota!Row \cup {None}]
      /\ \A d \in Quota!Days : counter'[d] = None => counter[d] = None
    BY QuotaConstants DEF Quota!TypesInv, Quota!TypeOK, Quota!Kept, Quota!Row, Quota!Begin
<1>2. /\ turn' \in [Clients -> Quota!Request \cup {None}]
      /\ \A u \in Clients : quotaPc'[u] # "idle" => turn'[u] \in Quota!Request
    BY DEF Quota!TypesInv, Quota!TypeOK, Quota!Kept, Quota!Request, Quota!Begin
<1>3. /\ lost' \in [Quota!Days -> [slots : Nat, tokens : Nat]]
      /\ settled' \in [Quota!Days -> Nat] /\ images' \in [Quota!Days -> Nat]
    BY QuotaConstants DEF Quota!TypesInv, Quota!TypeOK, Quota!Kept, Quota!Request, Quota!Begin
<1>4. Quota!TypeOK'
    BY <1>1, <1>2, <1>3, QuotaConstants DEF Quota!TypesInv, Quota!TypeOK, Quota!Kept, Quota!Begin
<1>5. \A d \in Quota!Days : counter'[d] = None =>
          /\ Quota!Holding(d)' = {}
          /\ lost'[d].slots = 0 /\ lost'[d].tokens = 0 /\ settled'[d] = 0 /\ images'[d] = 0
    <2>1. SUFFICES ASSUME NEW d \in Quota!Days, counter'[d] = None
                   PROVE  Quota!Holding(d)' = {} /\ lost'[d].slots = 0 /\ lost'[d].tokens = 0 /\ settled'[d] = 0 /\ images'[d] = 0
        OBVIOUS
    <2>2. lost'[d].slots = 0 /\ lost'[d].tokens = 0 /\ settled'[d] = 0 /\ images'[d] = 0
        BY <1>1, <2>1, QuotaConstants DEF Quota!TypesInv, Quota!TypeOK, Quota!Kept, Quota!Holding, Quota!Day,
            Quota!Request, Quota!Begin
    <2>3. Quota!Holding(d)' = {}
        BY <1>1, <2>1, QuotaConstants DEF Quota!TypesInv, Quota!TypeOK, Quota!Kept, Quota!Holding, Quota!Day,
            Quota!Request, Quota!Begin
    <2>4. QED
        BY <2>2, <2>3
<1>6. Quota!Kept'
    BY <1>1, <1>2, <1>5, QuotaConstants DEF Quota!TypesInv, Quota!TypeOK, Quota!Kept, Quota!Begin
<1>7. QED
    BY <1>4, <1>6 DEF Quota!TypesInv

LEMMA QuotaTypesReserve ==
    ASSUME Quota!TypesInv, NEW t \in Clients, Quota!Reserve(t)
    PROVE  Quota!TypesInv'
<1>1. /\ counter' \in [Quota!Days -> Quota!Row \cup {None}]
      /\ \A d \in Quota!Days : counter'[d] = None => counter[d] = None
    <2>1. Quota!Day(t) \in Quota!Days /\ Quota!Charged(counter[Quota!Day(t)], t) \in Quota!Row
        BY QuotaRequest, QuotaCharge DEF Quota!Reserve
    <2>2. counter' = [counter EXCEPT ![Quota!Day(t)] = Quota!Charged(counter[Quota!Day(t)], t)]
        BY DEF Quota!Reserve
    <2>3. QED
        BY <2>1, <2>2, QuotaRows DEF Quota!TypesInv, Quota!TypeOK
<1>2. /\ turn' \in [Clients -> Quota!Request \cup {None}]
      /\ \A u \in Clients : quotaPc'[u] # "idle" => turn'[u] \in Quota!Request
    BY DEF Quota!TypesInv, Quota!TypeOK, Quota!Kept, Quota!Request, Quota!Reserve, Quota!Admits,
        Quota!Charged, Quota!Day, Quota!Concurrent
<1>3. /\ lost' \in [Quota!Days -> [slots : Nat, tokens : Nat]]
      /\ settled' \in [Quota!Days -> Nat] /\ images' \in [Quota!Days -> Nat]
    BY QuotaConstants DEF Quota!TypesInv, Quota!TypeOK, Quota!Kept, Quota!Request, Quota!Reserve,
        Quota!Admits, Quota!Charged, Quota!Day, Quota!Concurrent
<1>4. Quota!TypeOK'
    BY <1>1, <1>2, <1>3, QuotaConstants DEF Quota!TypesInv, Quota!TypeOK, Quota!Kept, Quota!Reserve,
        Quota!Admits, Quota!Charged, Quota!Day, Quota!Concurrent
<1>5. \A d \in Quota!Days : counter'[d] = None =>
          /\ Quota!Holding(d)' = {}
          /\ lost'[d].slots = 0 /\ lost'[d].tokens = 0 /\ settled'[d] = 0 /\ images'[d] = 0
    <2>1. SUFFICES ASSUME NEW d \in Quota!Days, counter'[d] = None
                   PROVE  Quota!Holding(d)' = {} /\ lost'[d].slots = 0 /\ lost'[d].tokens = 0 /\ settled'[d] = 0 /\ images'[d] = 0
        OBVIOUS
    <2>2. lost'[d].slots = 0 /\ lost'[d].tokens = 0 /\ settled'[d] = 0 /\ images'[d] = 0
        BY <1>1, <2>1, QuotaConstants DEF Quota!TypesInv, Quota!TypeOK, Quota!Kept, Quota!Holding, Quota!Day,
            Quota!Request, Quota!Reserve, Quota!Admits, Quota!Charged, Quota!Day,
            Quota!Concurrent
    <2>3. Quota!Holding(d)' = {}
        BY <1>1, <2>1, QuotaConstants DEF Quota!TypesInv, Quota!TypeOK, Quota!Kept, Quota!Holding, Quota!Day,
            Quota!Request, Quota!Reserve, Quota!Admits, Quota!Charged, Quota!Day,
            Quota!Concurrent
    <2>4. QED
        BY <2>2, <2>3
<1>6. Quota!Kept'
    BY <1>1, <1>2, <1>5, QuotaConstants DEF Quota!TypesInv, Quota!TypeOK, Quota!Kept, Quota!Reserve,
        Quota!Admits, Quota!Charged, Quota!Day, Quota!Concurrent
<1>7. QED
    BY <1>4, <1>6 DEF Quota!TypesInv

LEMMA QuotaTypesRefused ==
    ASSUME Quota!TypesInv, NEW t \in Clients, Quota!Refused(t)
    PROVE  Quota!TypesInv'
<1>1. /\ counter' \in [Quota!Days -> Quota!Row \cup {None}]
      /\ \A d \in Quota!Days : counter'[d] = None => counter[d] = None
    BY QuotaConstants DEF Quota!TypesInv, Quota!TypeOK, Quota!Kept, Quota!Row, Quota!Refused,
        Quota!Admits, Quota!Day
<1>2. /\ turn' \in [Clients -> Quota!Request \cup {None}]
      /\ \A u \in Clients : quotaPc'[u] # "idle" => turn'[u] \in Quota!Request
    BY DEF Quota!TypesInv, Quota!TypeOK, Quota!Kept, Quota!Request, Quota!Refused, Quota!Admits,
        Quota!Day
<1>3. /\ lost' \in [Quota!Days -> [slots : Nat, tokens : Nat]]
      /\ settled' \in [Quota!Days -> Nat] /\ images' \in [Quota!Days -> Nat]
    BY QuotaConstants DEF Quota!TypesInv, Quota!TypeOK, Quota!Kept, Quota!Request, Quota!Refused,
        Quota!Admits, Quota!Day
<1>4. Quota!TypeOK'
    BY <1>1, <1>2, <1>3, QuotaConstants DEF Quota!TypesInv, Quota!TypeOK, Quota!Kept, Quota!Refused,
        Quota!Admits, Quota!Day
<1>5. \A d \in Quota!Days : counter'[d] = None =>
          /\ Quota!Holding(d)' = {}
          /\ lost'[d].slots = 0 /\ lost'[d].tokens = 0 /\ settled'[d] = 0 /\ images'[d] = 0
    <2>1. SUFFICES ASSUME NEW d \in Quota!Days, counter'[d] = None
                   PROVE  Quota!Holding(d)' = {} /\ lost'[d].slots = 0 /\ lost'[d].tokens = 0 /\ settled'[d] = 0 /\ images'[d] = 0
        OBVIOUS
    <2>2. lost'[d].slots = 0 /\ lost'[d].tokens = 0 /\ settled'[d] = 0 /\ images'[d] = 0
        BY <1>1, <2>1, QuotaConstants DEF Quota!TypesInv, Quota!TypeOK, Quota!Kept, Quota!Holding, Quota!Day,
            Quota!Request, Quota!Refused, Quota!Admits, Quota!Day
    <2>3. Quota!Holding(d)' = {}
        BY <1>1, <2>1, QuotaConstants DEF Quota!TypesInv, Quota!TypeOK, Quota!Kept, Quota!Holding, Quota!Day,
            Quota!Request, Quota!Refused, Quota!Admits, Quota!Day
    <2>4. QED
        BY <2>2, <2>3
<1>6. Quota!Kept'
    BY <1>1, <1>2, <1>5, QuotaConstants DEF Quota!TypesInv, Quota!TypeOK, Quota!Kept, Quota!Refused,
        Quota!Admits, Quota!Day
<1>7. QED
    BY <1>4, <1>6 DEF Quota!TypesInv

LEMMA QuotaTypesCancelReserving ==
    ASSUME Quota!TypesInv, NEW t \in Clients, Quota!CancelReserving(t)
    PROVE  Quota!TypesInv'
<1>1. /\ counter' \in [Quota!Days -> Quota!Row \cup {None}]
      /\ \A d \in Quota!Days : counter'[d] = None => counter[d] = None
    BY QuotaConstants DEF Quota!TypesInv, Quota!TypeOK, Quota!Kept, Quota!Row, Quota!CancelReserving
<1>2. /\ turn' \in [Clients -> Quota!Request \cup {None}]
      /\ \A u \in Clients : quotaPc'[u] # "idle" => turn'[u] \in Quota!Request
    BY DEF Quota!TypesInv, Quota!TypeOK, Quota!Kept, Quota!Request, Quota!CancelReserving
<1>3. /\ lost' \in [Quota!Days -> [slots : Nat, tokens : Nat]]
      /\ settled' \in [Quota!Days -> Nat] /\ images' \in [Quota!Days -> Nat]
    BY QuotaConstants DEF Quota!TypesInv, Quota!TypeOK, Quota!Kept, Quota!Request, Quota!CancelReserving
<1>4. Quota!TypeOK'
    BY <1>1, <1>2, <1>3, QuotaConstants DEF Quota!TypesInv, Quota!TypeOK, Quota!Kept,
        Quota!CancelReserving
<1>5. \A d \in Quota!Days : counter'[d] = None =>
          /\ Quota!Holding(d)' = {}
          /\ lost'[d].slots = 0 /\ lost'[d].tokens = 0 /\ settled'[d] = 0 /\ images'[d] = 0
    <2>1. SUFFICES ASSUME NEW d \in Quota!Days, counter'[d] = None
                   PROVE  Quota!Holding(d)' = {} /\ lost'[d].slots = 0 /\ lost'[d].tokens = 0 /\ settled'[d] = 0 /\ images'[d] = 0
        OBVIOUS
    <2>2. lost'[d].slots = 0 /\ lost'[d].tokens = 0 /\ settled'[d] = 0 /\ images'[d] = 0
        BY <1>1, <2>1, QuotaConstants DEF Quota!TypesInv, Quota!TypeOK, Quota!Kept, Quota!Holding, Quota!Day,
            Quota!Request, Quota!CancelReserving
    <2>3. Quota!Holding(d)' = {}
        BY <1>1, <2>1, QuotaConstants DEF Quota!TypesInv, Quota!TypeOK, Quota!Kept, Quota!Holding, Quota!Day,
            Quota!Request, Quota!CancelReserving
    <2>4. QED
        BY <2>2, <2>3
<1>6. Quota!Kept'
    BY <1>1, <1>2, <1>5, QuotaConstants DEF Quota!TypesInv, Quota!TypeOK, Quota!Kept,
        Quota!CancelReserving
<1>7. QED
    BY <1>4, <1>6 DEF Quota!TypesInv

LEMMA QuotaTypesReserveForNobody ==
    ASSUME Quota!TypesInv, NEW t \in Clients, Quota!ReserveForNobody(t)
    PROVE  Quota!TypesInv'
<1>1. /\ counter' \in [Quota!Days -> Quota!Row \cup {None}]
      /\ \A d \in Quota!Days : counter'[d] = None => counter[d] = None
    <2>1. Quota!Day(t) \in Quota!Days /\ Quota!Charged(counter[Quota!Day(t)], t) \in Quota!Row
        BY QuotaRequest, QuotaCharge DEF Quota!ReserveForNobody
    <2>2. counter' = [counter EXCEPT ![Quota!Day(t)] = Quota!Charged(counter[Quota!Day(t)], t)]
        BY DEF Quota!ReserveForNobody
    <2>3. QED
        BY <2>1, <2>2, QuotaRows DEF Quota!TypesInv, Quota!TypeOK
<1>2. /\ turn' \in [Clients -> Quota!Request \cup {None}]
      /\ \A u \in Clients : quotaPc'[u] # "idle" => turn'[u] \in Quota!Request
    BY DEF Quota!TypesInv, Quota!TypeOK, Quota!Kept, Quota!Request, Quota!ReserveForNobody,
        Quota!Admits, Quota!Charged, Quota!Concurrent, Quota!Day, Quota!Lose
<1>3. /\ lost' \in [Quota!Days -> [slots : Nat, tokens : Nat]]
      /\ settled' \in [Quota!Days -> Nat] /\ images' \in [Quota!Days -> Nat]
    <2>1. Quota!Day(t) \in Quota!Days /\ turn[t].reservation \in Nat /\ Quota!Concurrent(t) \in Nat
        BY QuotaRequest DEF Quota!ReserveForNobody
    <2>2. lost \in [Quota!Days -> [slots : Nat, tokens : Nat]]
        BY DEF Quota!TypesInv, Quota!TypeOK
    <2>3. [slots |-> lost[Quota!Day(t)].slots + Quota!Concurrent(t),
           tokens |-> lost[Quota!Day(t)].tokens + turn[t].reservation] \in [slots : Nat, tokens : Nat]
        BY <2>1, <2>2
    <2>4. lost' \in [Quota!Days -> [slots : Nat, tokens : Nat]]
        BY <2>2, <2>3 DEF Quota!ReserveForNobody, Quota!Lose
    <2>5. QED
        BY <2>4 DEF Quota!ReserveForNobody, Quota!TypesInv, Quota!TypeOK
<1>4. Quota!TypeOK'
    BY <1>1, <1>2, <1>3, QuotaConstants DEF Quota!TypesInv, Quota!TypeOK, Quota!Kept,
        Quota!ReserveForNobody, Quota!Admits, Quota!Charged, Quota!Concurrent, Quota!Day, Quota!Lose
<1>5. \A d \in Quota!Days : counter'[d] = None =>
          /\ Quota!Holding(d)' = {}
          /\ lost'[d].slots = 0 /\ lost'[d].tokens = 0 /\ settled'[d] = 0 /\ images'[d] = 0
    <2>1. Quota!Day(t) \in Quota!Days /\ Quota!Charged(counter[Quota!Day(t)], t) \in Quota!Row
        BY QuotaRequest, QuotaCharge DEF Quota!ReserveForNobody
    <2>2. \A d \in Quota!Days : counter'[d] = None => d # Quota!Day(t)
        BY <2>1, QuotaRows DEF Quota!ReserveForNobody, Quota!TypesInv, Quota!TypeOK
    <2>3. \A d \in Quota!Days : d # Quota!Day(t) => lost'[d] = lost[d]
        BY DEF Quota!ReserveForNobody, Quota!Lose, Quota!TypesInv, Quota!TypeOK
    <2>4. /\ settled' = settled /\ images' = images
          /\ \A d \in Quota!Days : Quota!Holding(d)' \subseteq Quota!Holding(d)
        BY DEF Quota!ReserveForNobody, Quota!Holding, Quota!Day, Quota!TypesInv, Quota!TypeOK
    <2>5. QED
        BY <1>1, <2>2, <2>3, <2>4 DEF Quota!TypesInv, Quota!Kept
<1>6. Quota!Kept'
    BY <1>1, <1>2, <1>5, QuotaConstants DEF Quota!TypesInv, Quota!TypeOK, Quota!Kept,
        Quota!ReserveForNobody, Quota!Admits, Quota!Charged, Quota!Concurrent, Quota!Day, Quota!Lose
<1>7. QED
    BY <1>4, <1>6 DEF Quota!TypesInv

LEMMA QuotaTypesCall ==
    ASSUME Quota!TypesInv, NEW t \in Clients, Quota!Call(t)
    PROVE  Quota!TypesInv'
<1>1. /\ counter' \in [Quota!Days -> Quota!Row \cup {None}]
      /\ \A d \in Quota!Days : counter'[d] = None => counter[d] = None
    BY QuotaConstants DEF Quota!TypesInv, Quota!TypeOK, Quota!Kept, Quota!Row, Quota!Call
<1>2. /\ turn' \in [Clients -> Quota!Request \cup {None}]
      /\ \A u \in Clients : quotaPc'[u] # "idle" => turn'[u] \in Quota!Request
    <2>1. turn[t] \in Quota!Request /\ turn \in [Clients -> Quota!Request \cup {None}]
        BY QuotaRequest DEF Quota!Call, Quota!TypesInv, Quota!TypeOK
    <2>2. PICK n \in Reported \cup {0}, k \in BOOLEAN : turn' = [turn EXCEPT ![t] = [turn[t] EXCEPT !.used = n, !.known = k]]
        <3>1. CASE \E n \in Reported : turn' = [turn EXCEPT ![t].used = n]
            <4>1. PICK n \in Reported : turn' = [turn EXCEPT ![t].used = n]
                BY <3>1
            <4>2. \A m \in Reported : [turn[t] EXCEPT !.used = m] = [turn[t] EXCEPT !.used = m, !.known = turn[t].known]
                BY <2>1 DEF Quota!Request
            <4>3. QED
                BY <2>1, <4>1, <4>2 DEF Quota!Request
        <3>2. CASE turn' = [turn EXCEPT ![t].known = FALSE]
            <4>1. [turn[t] EXCEPT !.known = FALSE] = [turn[t] EXCEPT !.used = turn[t].used, !.known = FALSE]
                BY <2>1 DEF Quota!Request
            <4>2. QED
                BY <2>1, <3>2, <4>1 DEF Quota!Request
        <3>3. QED
            BY <3>1, <3>2 DEF Quota!Call
    <2>3. [turn[t] EXCEPT !.used = n, !.known = k] \in Quota!Request
        BY <2>1 DEF Quota!Request
    <2>4. QED
        BY <2>1, <2>2, <2>3 DEF Quota!TypesInv, Quota!Kept, Quota!Call
<1>3. /\ lost' \in [Quota!Days -> [slots : Nat, tokens : Nat]]
      /\ settled' \in [Quota!Days -> Nat] /\ images' \in [Quota!Days -> Nat]
    BY QuotaConstants DEF Quota!TypesInv, Quota!TypeOK, Quota!Kept, Quota!Request, Quota!Call
<1>4. Quota!TypeOK'
    BY <1>1, <1>2, <1>3, QuotaConstants DEF Quota!TypesInv, Quota!TypeOK, Quota!Kept, Quota!Call
<1>5. \A d \in Quota!Days : counter'[d] = None =>
          /\ Quota!Holding(d)' = {}
          /\ lost'[d].slots = 0 /\ lost'[d].tokens = 0 /\ settled'[d] = 0 /\ images'[d] = 0
    <2>0. turn[t] \in Quota!Request /\ turn \in [Clients -> Quota!Request \cup {None}]
        BY QuotaRequest DEF Quota!Call, Quota!TypesInv, Quota!TypeOK
    <2>1. \A u \in Clients : turn'[u].day = turn[u].day
        BY <2>0 DEF Quota!Call, Quota!Request
    <2>2. \A d \in Quota!Days : Quota!Holding(d)' = Quota!Holding(d)
        BY <2>1 DEF Quota!Holding, Quota!Day, Quota!Call
    <2>3. counter' = counter /\ lost' = lost /\ settled' = settled /\ images' = images
        BY DEF Quota!Call
    <2>4. QED
        BY <2>2, <2>3 DEF Quota!TypesInv, Quota!Kept
<1>6. Quota!Kept'
    BY <1>1, <1>2, <1>5, QuotaConstants DEF Quota!TypesInv, Quota!TypeOK, Quota!Kept, Quota!Call
<1>7. QED
    BY <1>4, <1>6 DEF Quota!TypesInv

LEMMA QuotaTypesRelease ==
    ASSUME Quota!TypesInv, NEW t \in Clients, Quota!Release(t)
    PROVE  Quota!TypesInv'
<1>1. /\ counter' \in [Quota!Days -> Quota!Row \cup {None}]
      /\ \A d \in Quota!Days : counter'[d] = None => counter[d] = None
    BY QuotaSettle, QuotaRows, QuotaRequest DEF Quota!TypesInv, Quota!TypeOK, Quota!Release
<1>2. /\ turn' \in [Clients -> Quota!Request \cup {None}]
      /\ \A u \in Clients : quotaPc'[u] # "idle" => turn'[u] \in Quota!Request
    BY DEF Quota!TypesInv, Quota!TypeOK, Quota!Kept, Quota!Request, Quota!Release, Quota!Concurrent,
        Quota!Day, Quota!AtLeast0, Quota!Refund
<1>3. /\ lost' \in [Quota!Days -> [slots : Nat, tokens : Nat]]
      /\ settled' \in [Quota!Days -> Nat] /\ images' \in [Quota!Days -> Nat]
    BY QuotaSettle, QuotaRequest DEF Quota!TypesInv, Quota!TypeOK, Quota!Release
<1>4. Quota!TypeOK'
    BY <1>1, <1>2, <1>3, QuotaConstants DEF Quota!TypesInv, Quota!TypeOK, Quota!Kept, Quota!Release,
        Quota!Concurrent, Quota!Day, Quota!AtLeast0, Quota!Refund
<1>5. \A d \in Quota!Days : counter'[d] = None =>
          /\ Quota!Holding(d)' = {}
          /\ lost'[d].slots = 0 /\ lost'[d].tokens = 0 /\ settled'[d] = 0 /\ images'[d] = 0
    <2>1. Quota!Day(t) \in Quota!Days /\ counter'[Quota!Day(t)] # None
        BY QuotaSettle, QuotaRows, QuotaRequest DEF Quota!Release
    <2>2. \A d \in Quota!Days : d # Quota!Day(t) => settled'[d] = settled[d]
        BY DEF Quota!Release, Quota!TypesInv, Quota!TypeOK
    <2>3. \A d \in Quota!Days : Quota!Holding(d)' \subseteq Quota!Holding(d)
        BY DEF Quota!Holding, Quota!Day, Quota!Release, Quota!TypesInv, Quota!TypeOK
    <2>4. lost' = lost /\ images' = images
        BY DEF Quota!Release
    <2>5. QED
        BY <1>1, <2>1, <2>2, <2>3, <2>4 DEF Quota!TypesInv, Quota!Kept
<1>6. Quota!Kept'
    <2>1. /\ imageDay' = imageDay /\ quotaPc[t] = "running"
          /\ quotaPc' = [quotaPc EXCEPT ![t] = "idle"]
          /\ quotaPc \in [Clients -> {"idle", "reserving", "orphaned", "running", "imaging"}]
        BY DEF Quota!Release, Quota!TypesInv, Quota!TypeOK
    <2>2. \A u \in Clients : imageDay[u] # None => imageDay[u] \in Quota!Days
        BY DEF Quota!TypesInv, Quota!TypeOK
    <2>3. QED
        BY <1>1, <1>2, <1>5, <2>1, <2>2 DEF Quota!TypesInv, Quota!Kept
<1>7. QED
    BY <1>4, <1>6 DEF Quota!TypesInv

LEMMA QuotaTypesConsumeImage ==
    ASSUME Quota!TypesInv, NEW t \in Clients, Quota!ConsumeImage(t)
    PROVE  Quota!TypesInv'
<1>1. /\ counter' \in [Quota!Days -> Quota!Row \cup {None}]
      /\ \A d \in Quota!Days : counter'[d] = None => counter[d] = None
    <2> DEFINE row == counter[today]
               new == [row EXCEPT !.images = row.images + 1]
    <2>1. today \in Quota!Days /\ row \in Quota!Row
        BY QuotaRequest DEF Quota!ConsumeImage, Quota!TypesInv, Quota!TypeOK
    <2>2. new \in Quota!Row
        BY <2>1, QuotaRows DEF Quota!ConsumeImage, Quota!Row
    <2>3. counter' = counter \/ counter' = [counter EXCEPT ![today] = new]
        BY DEF Quota!ConsumeImage
    <2> HIDE DEF row, new
    <2>4. QED
        BY <2>1, <2>2, <2>3, QuotaRows DEF Quota!TypesInv, Quota!TypeOK
<1>2. /\ turn' \in [Clients -> Quota!Request \cup {None}]
      /\ \A u \in Clients : quotaPc'[u] # "idle" => turn'[u] \in Quota!Request
    BY DEF Quota!TypesInv, Quota!TypeOK, Quota!Kept, Quota!Request, Quota!ConsumeImage
<1>3. /\ lost' \in [Quota!Days -> [slots : Nat, tokens : Nat]]
      /\ settled' \in [Quota!Days -> Nat] /\ images' \in [Quota!Days -> Nat]
    BY QuotaConstants DEF Quota!TypesInv, Quota!TypeOK, Quota!Kept, Quota!Request, Quota!ConsumeImage
<1>4. Quota!TypeOK'
    BY <1>1, <1>2, <1>3, QuotaConstants DEF Quota!TypesInv, Quota!TypeOK, Quota!Kept, Quota!ConsumeImage
<1>5. \A d \in Quota!Days : counter'[d] = None =>
          /\ Quota!Holding(d)' = {}
          /\ lost'[d].slots = 0 /\ lost'[d].tokens = 0 /\ settled'[d] = 0 /\ images'[d] = 0
    <2>1. SUFFICES ASSUME NEW d \in Quota!Days, counter'[d] = None
                   PROVE  Quota!Holding(d)' = {} /\ lost'[d].slots = 0 /\ lost'[d].tokens = 0 /\ settled'[d] = 0 /\ images'[d] = 0
        OBVIOUS
    <2>2. lost'[d].slots = 0 /\ lost'[d].tokens = 0 /\ settled'[d] = 0 /\ images'[d] = 0
        BY <1>1, <2>1, QuotaConstants DEF Quota!TypesInv, Quota!TypeOK, Quota!Kept, Quota!Holding, Quota!Day,
            Quota!Request, Quota!ConsumeImage
    <2>3. Quota!Holding(d)' = {}
        BY <1>1, <2>1, QuotaConstants DEF Quota!TypesInv, Quota!TypeOK, Quota!Kept, Quota!Holding, Quota!Day,
            Quota!Request, Quota!ConsumeImage
    <2>4. QED
        BY <2>2, <2>3
<1>6. Quota!Kept'
    BY <1>1, <1>2, <1>5, QuotaConstants DEF Quota!TypesInv, Quota!TypeOK, Quota!Kept, Quota!ConsumeImage
<1>7. QED
    BY <1>4, <1>6 DEF Quota!TypesInv

LEMMA QuotaTypesImageMade ==
    ASSUME Quota!TypesInv, NEW t \in Clients, Quota!ImageMade(t)
    PROVE  Quota!TypesInv'
<1>1. /\ counter' \in [Quota!Days -> Quota!Row \cup {None}]
      /\ \A d \in Quota!Days : counter'[d] = None => counter[d] = None
    BY QuotaConstants DEF Quota!TypesInv, Quota!TypeOK, Quota!Kept, Quota!Row, Quota!ImageMade
<1>2. /\ turn' \in [Clients -> Quota!Request \cup {None}]
      /\ \A u \in Clients : quotaPc'[u] # "idle" => turn'[u] \in Quota!Request
    BY DEF Quota!TypesInv, Quota!TypeOK, Quota!Kept, Quota!Request, Quota!ImageMade
<1>3. /\ lost' \in [Quota!Days -> [slots : Nat, tokens : Nat]]
      /\ settled' \in [Quota!Days -> Nat] /\ images' \in [Quota!Days -> Nat]
    <2>1. imageDay[t] \in Quota!Days /\ images \in [Quota!Days -> Nat]
        BY QuotaRequest DEF Quota!ImageMade, Quota!TypesInv, Quota!TypeOK
    <2>2. images' \in [Quota!Days -> Nat]
        BY <2>1 DEF Quota!ImageMade
    <2>3. QED
        BY <2>2 DEF Quota!ImageMade, Quota!TypesInv, Quota!TypeOK
<1>4. Quota!TypeOK'
    BY <1>1, <1>2, <1>3, QuotaConstants DEF Quota!TypesInv, Quota!TypeOK, Quota!Kept, Quota!ImageMade
<1>5. \A d \in Quota!Days : counter'[d] = None =>
          /\ Quota!Holding(d)' = {}
          /\ lost'[d].slots = 0 /\ lost'[d].tokens = 0 /\ settled'[d] = 0 /\ images'[d] = 0
    <2>1. SUFFICES ASSUME NEW d \in Quota!Days, counter'[d] = None
                   PROVE  Quota!Holding(d)' = {} /\ lost'[d].slots = 0 /\ lost'[d].tokens = 0 /\ settled'[d] = 0 /\ images'[d] = 0
        OBVIOUS
    <2>2. lost'[d].slots = 0 /\ lost'[d].tokens = 0 /\ settled'[d] = 0 /\ images'[d] = 0
        BY <1>1, <2>1, QuotaConstants DEF Quota!TypesInv, Quota!TypeOK, Quota!Kept, Quota!Holding, Quota!Day,
            Quota!Request, Quota!ImageMade
    <2>3. Quota!Holding(d)' = {}
        BY <1>1, <2>1, QuotaConstants DEF Quota!TypesInv, Quota!TypeOK, Quota!Kept, Quota!Holding, Quota!Day,
            Quota!Request, Quota!ImageMade
    <2>4. QED
        BY <2>2, <2>3
<1>6. Quota!Kept'
    BY <1>1, <1>2, <1>5, QuotaConstants DEF Quota!TypesInv, Quota!TypeOK, Quota!Kept, Quota!ImageMade
<1>7. QED
    BY <1>4, <1>6 DEF Quota!TypesInv

LEMMA QuotaTypesRefundImage ==
    ASSUME Quota!TypesInv, NEW t \in Clients, Quota!RefundImage(t)
    PROVE  Quota!TypesInv'
<1>1. /\ counter' \in [Quota!Days -> Quota!Row \cup {None}]
      /\ \A d \in Quota!Days : counter'[d] = None => counter[d] = None
    <2> DEFINE row == counter[imageDay[t]]
               new == [row EXCEPT !.images = IF row.images > 0 THEN row.images - 1 ELSE row.images]
    <2>1. imageDay[t] \in Quota!Days /\ row \in Quota!Row
        BY QuotaRequest DEF Quota!RefundImage, Quota!TypesInv, Quota!TypeOK
    <2>2. new \in Quota!Row
        BY <2>1, QuotaRows DEF Quota!RefundImage, Quota!Row
    <2>3. counter' = counter \/ counter' = [counter EXCEPT ![imageDay[t]] = new]
        BY DEF Quota!RefundImage
    <2> HIDE DEF row, new
    <2>4. QED
        BY <2>1, <2>2, <2>3, QuotaRows DEF Quota!TypesInv, Quota!TypeOK
<1>2. /\ turn' \in [Clients -> Quota!Request \cup {None}]
      /\ \A u \in Clients : quotaPc'[u] # "idle" => turn'[u] \in Quota!Request
    BY DEF Quota!TypesInv, Quota!TypeOK, Quota!Kept, Quota!Request, Quota!RefundImage
<1>3. /\ lost' \in [Quota!Days -> [slots : Nat, tokens : Nat]]
      /\ settled' \in [Quota!Days -> Nat] /\ images' \in [Quota!Days -> Nat]
    BY QuotaConstants DEF Quota!TypesInv, Quota!TypeOK, Quota!Kept, Quota!Request, Quota!RefundImage
<1>4. Quota!TypeOK'
    BY <1>1, <1>2, <1>3, QuotaConstants DEF Quota!TypesInv, Quota!TypeOK, Quota!Kept, Quota!RefundImage
<1>5. \A d \in Quota!Days : counter'[d] = None =>
          /\ Quota!Holding(d)' = {}
          /\ lost'[d].slots = 0 /\ lost'[d].tokens = 0 /\ settled'[d] = 0 /\ images'[d] = 0
    <2>1. SUFFICES ASSUME NEW d \in Quota!Days, counter'[d] = None
                   PROVE  Quota!Holding(d)' = {} /\ lost'[d].slots = 0 /\ lost'[d].tokens = 0 /\ settled'[d] = 0 /\ images'[d] = 0
        OBVIOUS
    <2>2. lost'[d].slots = 0 /\ lost'[d].tokens = 0 /\ settled'[d] = 0 /\ images'[d] = 0
        BY <1>1, <2>1, QuotaConstants DEF Quota!TypesInv, Quota!TypeOK, Quota!Kept, Quota!Holding, Quota!Day,
            Quota!Request, Quota!RefundImage
    <2>3. Quota!Holding(d)' = {}
        <3>1. counter[d] = None /\ Quota!Holding(d) = {}
            BY <1>1, <2>1 DEF Quota!TypesInv, Quota!Kept
        <3>2. /\ turn' = turn
              /\ \A u \in Clients : quotaPc'[u] \in {"running", "imaging"} => quotaPc[u] \in {"running", "imaging"}
            BY DEF Quota!RefundImage, Quota!TypesInv, Quota!TypeOK
        <3>3. QED
            BY <3>1, <3>2 DEF Quota!Holding, Quota!Day
    <2>4. QED
        BY <2>2, <2>3
<1>6. Quota!Kept'
    BY <1>1, <1>2, <1>5, QuotaConstants DEF Quota!TypesInv, Quota!TypeOK, Quota!Kept, Quota!RefundImage
<1>7. QED
    BY <1>4, <1>6 DEF Quota!TypesInv

LEMMA QuotaTypesAbandonImage ==
    ASSUME Quota!TypesInv, NEW t \in Clients, Quota!AbandonImage(t)
    PROVE  Quota!TypesInv'
<1>1. /\ counter' \in [Quota!Days -> Quota!Row \cup {None}]
      /\ \A d \in Quota!Days : counter'[d] = None => counter[d] = None
    BY QuotaConstants DEF Quota!TypesInv, Quota!TypeOK, Quota!Kept, Quota!Row, Quota!AbandonImage
<1>2. /\ turn' \in [Clients -> Quota!Request \cup {None}]
      /\ \A u \in Clients : quotaPc'[u] # "idle" => turn'[u] \in Quota!Request
    <2>1. turn[t] \in Quota!Request /\ turn \in [Clients -> Quota!Request \cup {None}]
        BY QuotaRequest DEF Quota!AbandonImage, Quota!TypesInv, Quota!TypeOK
    <2>2. [turn[t] EXCEPT !.known = FALSE] \in Quota!Request
        BY <2>1 DEF Quota!Request
    <2>3. turn' = [turn EXCEPT ![t] = [turn[t] EXCEPT !.known = FALSE]]
        BY DEF Quota!AbandonImage
    <2>4. QED
        BY <2>1, <2>2, <2>3 DEF Quota!TypesInv, Quota!TypeOK, Quota!Kept, Quota!AbandonImage
<1>3. /\ lost' \in [Quota!Days -> [slots : Nat, tokens : Nat]]
      /\ settled' \in [Quota!Days -> Nat] /\ images' \in [Quota!Days -> Nat]
    <2>1. imageDay[t] \in Quota!Days /\ images \in [Quota!Days -> Nat]
        BY QuotaRequest DEF Quota!AbandonImage, Quota!TypesInv, Quota!TypeOK
    <2>2. images' \in [Quota!Days -> Nat]
        BY <2>1 DEF Quota!AbandonImage
    <2>3. QED
        BY <2>2 DEF Quota!AbandonImage, Quota!TypesInv, Quota!TypeOK
<1>4. Quota!TypeOK'
    BY <1>1, <1>2, <1>3, QuotaConstants DEF Quota!TypesInv, Quota!TypeOK, Quota!Kept, Quota!AbandonImage
<1>5. \A d \in Quota!Days : counter'[d] = None =>
          /\ Quota!Holding(d)' = {}
          /\ lost'[d].slots = 0 /\ lost'[d].tokens = 0 /\ settled'[d] = 0 /\ images'[d] = 0
    <2>1. SUFFICES ASSUME NEW d \in Quota!Days, counter'[d] = None
                   PROVE  Quota!Holding(d)' = {} /\ lost'[d].slots = 0 /\ lost'[d].tokens = 0 /\ settled'[d] = 0 /\ images'[d] = 0
        OBVIOUS
    <2>2. lost'[d].slots = 0 /\ lost'[d].tokens = 0 /\ settled'[d] = 0 /\ images'[d] = 0
        BY <1>1, <2>1, QuotaConstants DEF Quota!TypesInv, Quota!TypeOK, Quota!Kept, Quota!Holding, Quota!Day,
            Quota!Request, Quota!AbandonImage
    <2>3. Quota!Holding(d)' = {}
        BY <1>1, <2>1, QuotaConstants DEF Quota!TypesInv, Quota!TypeOK, Quota!Kept, Quota!Holding, Quota!Day,
            Quota!Request, Quota!AbandonImage
    <2>4. QED
        BY <2>2, <2>3
<1>6. Quota!Kept'
    BY <1>1, <1>2, <1>5, QuotaConstants DEF Quota!TypesInv, Quota!TypeOK, Quota!Kept, Quota!AbandonImage
<1>7. QED
    BY <1>4, <1>6 DEF Quota!TypesInv

LEMMA QuotaTypesCrash ==
    ASSUME Quota!TypesInv, Quota!Crash
    PROVE  Quota!TypesInv'
<1>1. \A d \in Quota!Days : Quota!Outstanding(d) \in Nat /\ Quota!TutorTurns(Quota!Holding(d)) \in Nat
    BY QuotaNatural
<1>2. lost' \in [Quota!Days -> [slots : Nat, tokens : Nat]]
    BY <1>1 DEF Quota!TypesInv, Quota!TypeOK, Quota!Crash
<1>3. Quota!TypeOK'
    BY <1>2, QuotaConstants DEF Quota!TypesInv, Quota!TypeOK, Quota!Crash
<1>4. \A d \in Quota!Days : Quota!Holding(d) = {} => Quota!Outstanding(d) = 0 /\ Quota!TutorTurns(Quota!Holding(d)) = 0
    <2>1. SUFFICES ASSUME NEW d \in Quota!Days, Quota!Holding(d) = {}
                   PROVE  Quota!Outstanding(d) = 0 /\ Quota!TutorTurns(Quota!Holding(d)) = 0
        OBVIOUS
    <2>2. Quota!Outstanding(d) = 0
        BY <2>1, QuotaOutstanding, SumSteps
    <2>3. {t \in Quota!Holding(d) : turn[t].kind = "tutor"} = {}
        BY <2>1
    <2>4. Quota!TutorTurns(Quota!Holding(d)) = 0
        BY <2>3, QuotaCount, FS_EmptySet DEF Quota!TutorTurns
    <2>5. QED
        BY <2>2, <2>4
<1>5. Quota!Kept'
    BY <1>4 DEF Quota!TypesInv, Quota!TypeOK, Quota!Kept, Quota!Holding, Quota!Crash
<1>6. QED
    BY <1>3, <1>5 DEF Quota!TypesInv

LEMMA QuotaTypesNext == Quota!TypesInv /\ Quota!Next => Quota!TypesInv'
BY QuotaTypesNextDay, QuotaTypesBegin, QuotaTypesReserve, QuotaTypesRefused, QuotaTypesCancelReserving,
   QuotaTypesReserveForNobody, QuotaTypesCall, QuotaTypesRelease, QuotaTypesConsumeImage, QuotaTypesImageMade,
   QuotaTypesRefundImage, QuotaTypesAbandonImage, QuotaTypesCrash
   DEF Quota!Next

LEMMA QuotaNothing ==
    ASSUME NEW d \in Quota!Days
    PROVE  /\ Quota!Holding(d) = {} => Quota!Outstanding(d) = 0 /\ Quota!TutorTurns(Quota!Holding(d)) = 0
           /\ Quota!Holding(d)' = {} => Quota!Outstanding(d)' = 0 /\ Quota!TutorTurns(Quota!Holding(d))' = 0
<1>1. (Quota!Holding(d) = {} => Quota!Outstanding(d) = 0) /\ (Quota!Holding(d)' = {} => Quota!Outstanding(d)' = 0)
    BY QuotaOutstanding, QuotaOutstandingNext, SumSteps
<1>2. ASSUME Quota!Holding(d) = {} PROVE Quota!TutorTurns(Quota!Holding(d)) = 0
    <2>1. {t \in Quota!Holding(d) : turn[t].kind = "tutor"} = {}
        BY <1>2
    <2>2. QED
        BY <2>1, QuotaCount, FS_EmptySet DEF Quota!TutorTurns
<1>3. ASSUME Quota!Holding(d)' = {} PROVE Quota!TutorTurns(Quota!Holding(d))' = 0
    <2>1. {t \in Quota!Holding(d)' : turn'[t].kind = "tutor"} = {}
        BY <1>3
    <2>2. QED
        BY <2>1, QuotaCount, FS_EmptySet DEF Quota!TutorTurns
<1>4. QED
    BY <1>1, <1>2, <1>3

\* A day whose requests under way stay the same.
LEMMA QuotaSame ==
    ASSUME Quota!TypesInv, NEW d \in Quota!Days, Quota!Holding(d)' = Quota!Holding(d),
           \A t \in Quota!Holding(d) : /\ turn'[t].kind = turn[t].kind
                                     /\ turn'[t].reservation = turn[t].reservation
    PROVE  /\ Quota!Outstanding(d)' = Quota!Outstanding(d)
           /\ Quota!TutorTurns(Quota!Holding(d))' = Quota!TutorTurns(Quota!Holding(d))
<1> DEFINE H == Quota!Holding(d)
<1>1. H \subseteq Clients /\ IsFiniteSet(H) /\ \A t \in H : QuotaReserved[t] = QuotaReserved'[t]
    BY QuotaNatural DEF QuotaReserved
<1>2. PICK g : Summed(g, QuotaReserved, H) /\ g[H] = Quota!Outstanding(d)
    BY QuotaOutstanding
<1>3. PICK h : Summed(h, QuotaReserved', H) /\ h[H] = Quota!Outstanding(d)'
    BY QuotaOutstandingNext
<1>4. g[H] = h[H]
    <2> DEFINE f == QuotaReserved
               e == QuotaReserved'
    <2>1. Summed(g, f, H) /\ Summed(h, e, H) /\ \A t \in H : f[t] = e[t]
        BY <1>1, <1>2, <1>3
    <2> HIDE DEF f, e, H
    <2>2. QED
        BY <1>1, <2>1, SumsAgree
<1>5. {t \in Quota!Holding(d)' : turn'[t].kind = "tutor"} = {t \in H : turn[t].kind = "tutor"}
    OBVIOUS
<1>6. QED
    BY <1>2, <1>3, <1>4, <1>5, QuotaCount DEF Quota!TutorTurns

\* A day with one request more.
LEMMA QuotaJoins ==
    ASSUME Quota!TypesInv, NEW d \in Quota!Days, NEW t \in Clients \ Quota!Holding(d),
           Quota!Holding(d)' = Quota!Holding(d) \cup {t}, turn' = turn, turn[t].reservation \in Nat
    PROVE  /\ Quota!Outstanding(d)' = Quota!Outstanding(d) + turn[t].reservation
           /\ Quota!TutorTurns(Quota!Holding(d))' = Quota!TutorTurns(Quota!Holding(d)) + Quota!Concurrent(t)
<1> DEFINE H == Quota!Holding(d)
           G == Quota!Holding(d) \cup {t}
           f == QuotaReserved
<1>1. /\ IsFiniteSet(H) /\ IsFiniteSet(G) /\ (\A u \in G : f[u] \in Nat)
      /\ t \in G /\ G \ {t} = H /\ f[t] = turn[t].reservation
    BY QuotaNatural, FS_AddElement DEF QuotaReserved
<1>2. PICK g : Summed(g, f, H) /\ g[H] = Quota!Outstanding(d)
    BY QuotaOutstanding
<1>3. PICK h : Summed(h, f, G) /\ h[G] = Quota!Outstanding(d)'
    BY QuotaOutstandingNext DEF QuotaReserved
<1>4. h[G] = f[t] + h[H] /\ h[H] = g[H] /\ g[H] \in Nat
    <2> HIDE DEF f, H, G
    <2>1. h[G] = f[t] + h[G \ {t}]
        BY <1>1, <1>3, SumWithout
    <2>2. g[H] \in Nat
        BY <1>1, <1>2, SumIsNatural
    <2>3. H \in SUBSET H /\ H \subseteq G
        BY <1>1
    <2>4. g[H] = h[H]
        BY <1>1, <1>2, <1>3, <2>3, SumsAgree
    <2>5. QED
        BY <1>1, <2>1, <2>2, <2>4
<1>5. Quota!TutorTurns(Quota!Holding(d))' = Quota!TutorTurns(Quota!Holding(d)) + Quota!Concurrent(t)
    <2> DEFINE K == {u \in H : turn[u].kind = "tutor"}
               L == {u \in Quota!Holding(d)' : turn'[u].kind = "tutor"}
    <2>1. IsFiniteSet(K) /\ t \notin K /\ Cardinality(K) \in Nat
        BY <1>1, FS_Subset, FS_CardinalityType
    <2>2. L = IF turn[t].kind = "tutor" THEN K \cup {t} ELSE K
        OBVIOUS
    <2>3. /\ Quota!TutorTurns(Quota!Holding(d)) = Cardinality(K)
          /\ Quota!TutorTurns(Quota!Holding(d))' = Cardinality(L)
        BY QuotaCount DEF Quota!TutorTurns
    <2> HIDE DEF K, L
    <2>4. Cardinality(K \cup {t}) = Cardinality(K) + 1
        BY <2>1, FS_AddElement
    <2>5. QED
        BY <2>1, <2>2, <2>3, <2>4 DEF Quota!Concurrent
<1>6. QED
    BY <1>1, <1>2, <1>3, <1>4, <1>5

\* A day with one request less.
LEMMA QuotaLeaves ==
    ASSUME Quota!TypesInv, NEW d \in Quota!Days, NEW t \in Quota!Holding(d),
           Quota!Holding(d)' = Quota!Holding(d) \ {t}, turn' = turn
    PROVE  /\ Quota!Outstanding(d) = Quota!Outstanding(d)' + turn[t].reservation
           /\ Quota!TutorTurns(Quota!Holding(d)) = Quota!TutorTurns(Quota!Holding(d))' + Quota!Concurrent(t)
           /\ Quota!Outstanding(d)' \in Nat /\ Quota!TutorTurns(Quota!Holding(d))' \in Nat
           /\ turn[t].reservation \in Nat
<1> DEFINE H == Quota!Holding(d)
           G == Quota!Holding(d) \ {t}
           f == QuotaReserved
<1>1. /\ IsFiniteSet(H) /\ IsFiniteSet(G) /\ (\A u \in H : f[u] \in Nat) /\ \A u \in G : f[u] \in Nat
      /\ t \in H /\ H \ {t} = G /\ f[t] = turn[t].reservation
    BY QuotaNatural, FS_RemoveElement DEF QuotaReserved
<1>2. PICK g : Summed(g, f, H) /\ g[H] = Quota!Outstanding(d)
    BY QuotaOutstanding
<1>3. PICK h : Summed(h, f, G) /\ h[G] = Quota!Outstanding(d)'
    BY QuotaOutstandingNext DEF QuotaReserved
<1>4. g[H] = f[t] + g[G] /\ h[G] = g[G] /\ h[G] \in Nat
    <2> HIDE DEF f, H, G
    <2>1. g[H] = f[t] + g[H \ {t}]
        BY <1>1, <1>2, SumWithout
    <2>2. h[G] \in Nat
        BY <1>1, <1>3, SumIsNatural
    <2>3. G \in SUBSET G /\ G \subseteq H
        BY <1>1
    <2>4. h[G] = g[G]
        BY <1>1, <1>2, <1>3, <2>3, SumsAgree
    <2>5. QED
        BY <1>1, <2>1, <2>2, <2>4
<1>5. /\ Quota!TutorTurns(Quota!Holding(d)) = Quota!TutorTurns(Quota!Holding(d))' + Quota!Concurrent(t)
      /\ Quota!TutorTurns(Quota!Holding(d))' \in Nat
    <2> DEFINE K == {u \in H : turn[u].kind = "tutor"}
               L == {u \in Quota!Holding(d)' : turn'[u].kind = "tutor"}
    <2>1. IsFiniteSet(K) /\ Cardinality(K) \in Nat /\ (t \in K <=> turn[t].kind = "tutor")
        BY <1>1, FS_Subset, FS_CardinalityType
    <2>2. L = IF turn[t].kind = "tutor" THEN K \ {t} ELSE K
        OBVIOUS
    <2>3. /\ Quota!TutorTurns(Quota!Holding(d)) = Cardinality(K)
          /\ Quota!TutorTurns(Quota!Holding(d))' = Cardinality(L)
        BY QuotaCount DEF Quota!TutorTurns
    <2> HIDE DEF K, L
    <2>4. t \in K => IsFiniteSet(K \ {t}) /\ Cardinality(K \ {t}) = Cardinality(K) - 1
        BY <2>1, FS_RemoveElement
    <2>5. IsFiniteSet(L)
        BY <2>1, <2>2, <2>4
    <2>6. Cardinality(L) \in Nat
        BY <2>5, FS_CardinalityType
    <2>7. QED
        BY <2>1, <2>2, <2>3, <2>4, <2>6 DEF Quota!Concurrent
<1>6. QED
    BY <1>1, <1>2, <1>3, <1>4, <1>5

\* A day on which nothing is reserved, released or lost stays accounted for.
LEMMA QuotaQuiet ==
    ASSUME Quota!Inv, Quota!TypesInv', lost' = lost, settled' = settled,
           \A d \in Quota!Days :
               /\ Quota!Holding(d)' = Quota!Holding(d)
               /\ counter'[d] # None => /\ counter[d] # None
                                        /\ counter'[d].active = counter[d].active
                                        /\ counter'[d].reserved = counter[d].reserved
               /\ \A t \in Quota!Holding(d) : /\ turn'[t].kind = turn[t].kind
                                            /\ turn'[t].reservation = turn[t].reservation
    PROVE  Quota!Inv'
<1>1. \A d \in Quota!Days : /\ Quota!Outstanding(d)' = Quota!Outstanding(d)
                          /\ Quota!TutorTurns(Quota!Holding(d))' = Quota!TutorTurns(Quota!Holding(d))
    BY QuotaSame DEF Quota!Inv
<1>2. Quota!SlotsAreAccounted'
    BY <1>1 DEF Quota!Inv, Quota!SlotsAreAccounted
<1>3. Quota!TokensAreAccounted'
    BY <1>1 DEF Quota!Inv, Quota!TokensAreAccounted
<1>4. Quota!TurnsOfADay'
    BY <1>1 DEF Quota!Inv, Quota!TurnsOfADay
<1>5. QED
    BY <1>2, <1>3, <1>4 DEF Quota!Inv

LEMMA QuotaQuietly ==
    ASSUME Quota!Inv, Quota!TypesInv', NEW t \in Clients,
           \/ \E kind \in Quota!Kinds, n \in Reservations : Quota!Begin(t, kind, n)
           \/ Quota!Refused(t) \/ Quota!CancelReserving(t)
           \/ Quota!Call(t) \/ Quota!ConsumeImage(t) \/ Quota!ImageMade(t) \/ Quota!RefundImage(t)
           \/ Quota!AbandonImage(t)
    PROVE  Quota!Inv'
<1>1. lost' = lost /\ settled' = settled
    BY DEF Quota!Begin, Quota!Refused, Quota!CancelReserving, Quota!Call, Quota!ConsumeImage,
        Quota!ImageMade, Quota!RefundImage, Quota!AbandonImage
<1>2. \A u \in Clients : \/ turn'[u] = turn[u]
                     \/ /\ quotaPc[u] \notin {"running", "imaging"} /\ quotaPc'[u] \notin {"running", "imaging"}
                     \/ /\ turn'[u].kind = turn[u].kind /\ turn'[u].day = turn[u].day
                        /\ turn'[u].reservation = turn[u].reservation
    <2>1. /\ turn \in [Clients -> Quota!Request \cup {None}]
          /\ quotaPc \in [Clients -> {"idle", "reserving", "orphaned", "running", "imaging"}]
        BY DEF Quota!Inv, Quota!TypesInv, Quota!TypeOK
    <2>2. Quota!TypesInv
        BY DEF Quota!Inv
    <2>3. quotaPc[t] # "idle" => turn[t] \in Quota!Request
        BY <2>2, QuotaRequest
    <2>4. CASE \E kind \in Quota!Kinds, n \in Reservations : Quota!Begin(t, kind, n)
        BY <2>1, <2>4 DEF Quota!Begin
    <2>5. CASE Quota!Call(t) \/ Quota!AbandonImage(t)
        BY <2>1, <2>3, <2>5 DEF Quota!Call, Quota!AbandonImage, Quota!Request
    <2>6. CASE turn' = turn
        BY <2>6
    <2>7. QED
        BY <2>4, <2>5, <2>6 DEF Quota!Refused, Quota!CancelReserving, Quota!ConsumeImage,
            Quota!ImageMade,
            Quota!RefundImage
<1>3. \A u \in Clients : quotaPc'[u] \in {"running", "imaging"} <=> quotaPc[u] \in {"running", "imaging"}
    BY DEF Quota!Inv, Quota!TypesInv, Quota!TypeOK, Quota!Begin, Quota!Refused,
        Quota!CancelReserving, Quota!Call,
        Quota!ConsumeImage, Quota!ImageMade, Quota!RefundImage, Quota!AbandonImage
<1>4. \A d \in Quota!Days :
          /\ Quota!Holding(d)' = Quota!Holding(d)
          /\ \A u \in Quota!Holding(d) : /\ turn'[u].kind = turn[u].kind
                                       /\ turn'[u].reservation = turn[u].reservation
    BY <1>2, <1>3 DEF Quota!Holding, Quota!Day
<1>5. \A d \in Quota!Days : counter'[d] # None => /\ counter[d] # None
                                                /\ counter'[d].active = counter[d].active
                                                /\ counter'[d].reserved = counter[d].reserved
    <2>1. counter \in [Quota!Days -> Quota!Row \cup {None}] /\ Quota!TypesInv
        BY DEF Quota!Inv, Quota!TypesInv, Quota!TypeOK
    <2>2. CASE counter' = counter
        BY <2>2
    <2>3. CASE Quota!ConsumeImage(t)
        BY <2>1, <2>3, QuotaRows DEF Quota!ConsumeImage, Quota!Row, Quota!TypesInv, Quota!TypeOK
    <2>4. CASE Quota!RefundImage(t)
        BY <2>1, <2>4, QuotaRows, QuotaRequest DEF Quota!RefundImage, Quota!Row
    <2>5. QED
        BY <2>2, <2>3, <2>4 DEF Quota!Begin, Quota!Refused, Quota!CancelReserving, Quota!Call,
            Quota!ImageMade,
            Quota!AbandonImage
<1>6. QED
    BY <1>1, <1>4, <1>5, QuotaQuiet

LEMMA QuotaReserve ==
    ASSUME Quota!Inv, Quota!TypesInv', NEW t \in Clients, Quota!Reserve(t)
    PROVE  Quota!Inv'
<1>0. PICK e \in Quota!Days : e = Quota!Day(t)
    BY QuotaRequest DEF Quota!Inv, Quota!Reserve
<1> DEFINE row == counter[e]
           new == Quota!Charged(row, t)
<1>1. Quota!TypesInv /\ e = Quota!Day(t) /\ turn[t].reservation \in Nat /\ Quota!Concurrent(t) \in {0, 1}
    BY <1>0, QuotaRequest DEF Quota!Inv, Quota!Reserve
<1>2. /\ new \in Quota!Row /\ (row = None \/ row \in Quota!Row)
      /\ new.reserved = (IF row = None THEN 0 ELSE row.reserved) + turn[t].reservation
      /\ new.active = (IF row = None THEN 0 ELSE row.active) + Quota!Concurrent(t)
      /\ Quota!Concurrent(t) = 1 => new.active <= ConcurrentTurns
    BY <1>1, QuotaCharge DEF Quota!Reserve
<1>3. counter'[e] = new /\ \A d \in Quota!Days : d # e => counter'[d] = counter[d]
    BY <1>1 DEF Quota!Reserve, Quota!TypesInv, Quota!TypeOK
<1>4. turn' = turn /\ lost' = lost /\ settled' = settled
    BY DEF Quota!Reserve
<1>5. /\ Quota!Holding(e)' = Quota!Holding(e) \cup {t} /\ t \notin Quota!Holding(e)
      /\ \A d \in Quota!Days : d # e => Quota!Holding(d)' = Quota!Holding(d)
    BY <1>1 DEF Quota!Reserve, Quota!Holding, Quota!Day, Quota!TypesInv, Quota!TypeOK
<1>6. /\ Quota!Outstanding(e)' = Quota!Outstanding(e) + turn[t].reservation
      /\ Quota!TutorTurns(Quota!Holding(e))' = Quota!TutorTurns(Quota!Holding(e)) + Quota!Concurrent(t)
    BY <1>1, <1>4, <1>5, QuotaJoins
<1>7. /\ lost[e].slots \in Nat /\ lost[e].tokens \in Nat /\ settled[e] \in Nat
      /\ Quota!Outstanding(e) \in Nat /\ Quota!TutorTurns(Quota!Holding(e)) \in Nat
    BY <1>1, QuotaNatural DEF Quota!TypesInv, Quota!TypeOK
<1>8. /\ (IF row = None THEN 0 ELSE row.active) = Quota!TutorTurns(Quota!Holding(e)) + lost[e].slots
      /\ (IF row = None THEN 0 ELSE row.reserved) = Quota!Outstanding(e) + settled[e] + lost[e].tokens
    <2>1. CASE row = None
        BY <1>1, <2>1, QuotaNothing DEF Quota!TypesInv, Quota!Kept
    <2>2. CASE row # None
        BY <1>1, <2>2 DEF Quota!Inv, Quota!SlotsAreAccounted, Quota!TokensAreAccounted
    <2>3. QED
        BY <2>1, <2>2
<1> HIDE DEF row, new
<1>9. /\ counter'[e].active = Quota!TutorTurns(Quota!Holding(e))' + lost'[e].slots
      /\ counter'[e].reserved = Quota!Outstanding(e)' + settled'[e] + lost'[e].tokens
    <2>1. Quota!Concurrent(t) \in Nat /\ turn[t].reservation \in Nat
        BY <1>1
    <2>2. /\ counter'[e].active = Quota!TutorTurns(Quota!Holding(e)) + lost[e].slots + Quota!Concurrent(t)
          /\ counter'[e].reserved = Quota!Outstanding(e) + settled[e] + lost[e].tokens + turn[t].reservation
        BY <1>2, <1>3, <1>8
    <2>3. lost' = lost /\ settled' = settled
        BY <1>4
    <2>4. QED
        BY <1>6, <1>7, <2>1, <2>2, <2>3
<1>10. Quota!TutorTurns(Quota!Holding(e))' <= ConcurrentTurns
    <2>1. Quota!TutorTurns(Quota!Holding(e)) <= ConcurrentTurns
        BY <1>1 DEF Quota!Inv, Quota!TurnsOfADay
    <2>2. QED
        BY <1>1, <1>2, <1>3, <1>4, <1>6, <1>7, <1>9, <2>1, QuotaConstants
<1>11. \A d \in Quota!Days : d # e => /\ Quota!Outstanding(d)' = Quota!Outstanding(d)
                                    /\ Quota!TutorTurns(Quota!Holding(d))' = Quota!TutorTurns(Quota!Holding(d))
    BY <1>1, <1>4, <1>5, QuotaSame
<1>12. Quota!SlotsAreAccounted'
    BY <1>3, <1>4, <1>9, <1>11 DEF Quota!Inv, Quota!SlotsAreAccounted
<1>13. Quota!TokensAreAccounted'
    BY <1>3, <1>4, <1>9, <1>11 DEF Quota!Inv, Quota!TokensAreAccounted
<1>14. Quota!TurnsOfADay'
    BY <1>10, <1>11 DEF Quota!Inv, Quota!TurnsOfADay
<1>15. QED
    BY <1>12, <1>13, <1>14 DEF Quota!Inv

LEMMA QuotaReserveForNobody ==
    ASSUME Quota!Inv, Quota!TypesInv', NEW t \in Clients, Quota!ReserveForNobody(t)
    PROVE  Quota!Inv'
<1>0. PICK e \in Quota!Days : e = Quota!Day(t)
    BY QuotaRequest DEF Quota!Inv, Quota!ReserveForNobody
<1> DEFINE row == counter[e]
           new == Quota!Charged(row, t)
<1>1. Quota!TypesInv /\ e = Quota!Day(t) /\ turn[t].reservation \in Nat /\ Quota!Concurrent(t) \in {0, 1}
    BY <1>0, QuotaRequest DEF Quota!Inv, Quota!ReserveForNobody
<1>2. /\ new \in Quota!Row /\ (row = None \/ row \in Quota!Row)
      /\ new.reserved = (IF row = None THEN 0 ELSE row.reserved) + turn[t].reservation
      /\ new.active = (IF row = None THEN 0 ELSE row.active) + Quota!Concurrent(t)
    BY <1>1, QuotaCharge DEF Quota!ReserveForNobody
<1>3. counter'[e] = new /\ \A d \in Quota!Days : d # e => counter'[d] = counter[d]
    BY <1>1 DEF Quota!ReserveForNobody, Quota!TypesInv, Quota!TypeOK
<1>4. turn' = turn /\ settled' = settled
    BY DEF Quota!ReserveForNobody
<1>5. \A d \in Quota!Days : Quota!Holding(d)' = Quota!Holding(d)
    BY <1>1 DEF Quota!ReserveForNobody, Quota!Holding, Quota!Day, Quota!TypesInv, Quota!TypeOK
<1>6. \A d \in Quota!Days : /\ Quota!Outstanding(d)' = Quota!Outstanding(d)
                          /\ Quota!TutorTurns(Quota!Holding(d))' = Quota!TutorTurns(Quota!Holding(d))
    BY <1>1, <1>4, <1>5, QuotaSame
<1>7. /\ lost[e].slots \in Nat /\ lost[e].tokens \in Nat /\ settled[e] \in Nat
      /\ Quota!Outstanding(e) \in Nat /\ Quota!TutorTurns(Quota!Holding(e)) \in Nat
    BY <1>1, QuotaNatural DEF Quota!TypesInv, Quota!TypeOK
<1>8. /\ (IF row = None THEN 0 ELSE row.active) = Quota!TutorTurns(Quota!Holding(e)) + lost[e].slots
      /\ (IF row = None THEN 0 ELSE row.reserved) = Quota!Outstanding(e) + settled[e] + lost[e].tokens
    <2>1. CASE row = None
        BY <1>1, <2>1, QuotaNothing DEF Quota!TypesInv, Quota!Kept
    <2>2. CASE row # None
        BY <1>1, <2>2 DEF Quota!Inv, Quota!SlotsAreAccounted, Quota!TokensAreAccounted
    <2>3. QED
        BY <2>1, <2>2
<1>9. /\ lost'[e].slots = lost[e].slots + Quota!Concurrent(t)
      /\ lost'[e].tokens = lost[e].tokens + turn[t].reservation
      /\ \A d \in Quota!Days : d # e => lost'[d] = lost[d]
    BY <1>1 DEF Quota!ReserveForNobody, Quota!Lose, Quota!TypesInv, Quota!TypeOK
<1> HIDE DEF row, new
<1>10. /\ counter'[e].active = Quota!TutorTurns(Quota!Holding(e)) + lost'[e].slots
       /\ counter'[e].reserved = Quota!Outstanding(e) + settled[e] + lost'[e].tokens
    <2>1. Quota!Concurrent(t) \in Nat /\ turn[t].reservation \in Nat
        BY <1>1
    <2>2. /\ counter'[e].active = Quota!TutorTurns(Quota!Holding(e)) + lost[e].slots + Quota!Concurrent(t)
          /\ counter'[e].reserved = Quota!Outstanding(e) + settled[e] + lost[e].tokens + turn[t].reservation
        BY <1>2, <1>3, <1>8
    <2>3. QED
        BY <1>7, <1>9, <2>1, <2>2
<1>11. /\ counter'[e].active = Quota!TutorTurns(Quota!Holding(e))' + lost'[e].slots
       /\ counter'[e].reserved = Quota!Outstanding(e)' + settled'[e] + lost'[e].tokens
    BY <1>1, <1>4, <1>6, <1>10
<1>12. Quota!SlotsAreAccounted'
    BY <1>3, <1>6, <1>9, <1>11 DEF Quota!Inv, Quota!SlotsAreAccounted
<1>13. Quota!TokensAreAccounted'
    BY <1>3, <1>4, <1>6, <1>9, <1>11 DEF Quota!Inv, Quota!TokensAreAccounted
<1>14. Quota!TurnsOfADay'
    BY <1>6 DEF Quota!Inv, Quota!TurnsOfADay
<1>15. QED
    BY <1>12, <1>13, <1>14 DEF Quota!Inv

LEMMA QuotaRelease ==
    ASSUME Quota!Inv, Quota!TypesInv', NEW t \in Clients, Quota!Release(t)
    PROVE  Quota!Inv'
<1>0. PICK e \in Quota!Days : e = Quota!Day(t)
    BY QuotaRequest DEF Quota!Inv, Quota!Release
<1> DEFINE row == counter[e]
<1>1. /\ Quota!TypesInv /\ e = Quota!Day(t) /\ turn[t].reservation \in Nat
      /\ Quota!Concurrent(t) \in {0, 1} /\ row \in Quota!Row
    BY <1>0, QuotaRequest DEF Quota!Inv, Quota!Release
<1>2. /\ counter' = [counter EXCEPT ![e] = counter'[e]]
      /\ counter'[e].active = Quota!AtLeast0(row.active - Quota!Concurrent(t))
      /\ counter'[e].reserved = Quota!AtLeast0(row.reserved - Quota!Refund(t))
      /\ Quota!Refund(t) = turn[t].reservation - (settled'[e] - settled[e])
      /\ settled'[e] - settled[e] \in Nat /\ settled'[e] \in Nat
      /\ settled' = [settled EXCEPT ![e] = settled'[e]]
    BY <1>1, QuotaSettle
<1>3. \A d \in Quota!Days : d # e => counter'[d] = counter[d] /\ settled'[d] = settled[d]
    BY <1>1, <1>2 DEF Quota!TypesInv, Quota!TypeOK
<1>4. turn' = turn /\ lost' = lost
    BY DEF Quota!Release
<1>5. /\ Quota!Holding(e)' = Quota!Holding(e) \ {t} /\ t \in Quota!Holding(e)
      /\ \A d \in Quota!Days : d # e => Quota!Holding(d)' = Quota!Holding(d)
    BY <1>1 DEF Quota!Release, Quota!Holding, Quota!Day, Quota!TypesInv, Quota!TypeOK
<1>6. /\ Quota!Outstanding(e) = Quota!Outstanding(e)' + turn[t].reservation
      /\ Quota!TutorTurns(Quota!Holding(e)) = Quota!TutorTurns(Quota!Holding(e))' + Quota!Concurrent(t)
      /\ Quota!Outstanding(e)' \in Nat /\ Quota!TutorTurns(Quota!Holding(e))' \in Nat
    BY <1>1, <1>4, <1>5, QuotaLeaves
<1>7. lost[e].slots \in Nat /\ lost[e].tokens \in Nat /\ settled[e] \in Nat
    BY <1>1 DEF Quota!TypesInv, Quota!TypeOK
<1>8. /\ row.active = Quota!TutorTurns(Quota!Holding(e)) + lost[e].slots
      /\ row.reserved = Quota!Outstanding(e) + settled[e] + lost[e].tokens
    BY <1>1, QuotaRows DEF Quota!Inv, Quota!SlotsAreAccounted, Quota!TokensAreAccounted
<1> HIDE DEF row
<1>9. /\ row.active - Quota!Concurrent(t) = Quota!TutorTurns(Quota!Holding(e))' + lost[e].slots
      /\ row.active - Quota!Concurrent(t) \in Nat
    <2>1. Quota!Concurrent(t) \in Nat
        BY <1>1
    <2>2. QED
        BY <1>6, <1>7, <1>8, <2>1
<1>10. /\ row.reserved - Quota!Refund(t) = Quota!Outstanding(e)' + settled'[e] + lost[e].tokens
       /\ row.reserved - Quota!Refund(t) \in Nat
    BY <1>1, <1>2, <1>6, <1>7, <1>8
<1>11. /\ counter'[e].active = Quota!TutorTurns(Quota!Holding(e))' + lost'[e].slots
       /\ counter'[e].reserved = Quota!Outstanding(e)' + settled'[e] + lost'[e].tokens
    BY <1>2, <1>4, <1>9, <1>10 DEF Quota!AtLeast0
<1>12. Quota!TutorTurns(Quota!Holding(e))' <= ConcurrentTurns
    <2>1. Quota!TutorTurns(Quota!Holding(e)) <= ConcurrentTurns
        BY <1>1 DEF Quota!Inv, Quota!TurnsOfADay
    <2>2. QED
        BY <1>1, <1>6, <2>1, QuotaConstants
<1>13. \A d \in Quota!Days : d # e => /\ Quota!Outstanding(d)' = Quota!Outstanding(d)
                                    /\ Quota!TutorTurns(Quota!Holding(d))' = Quota!TutorTurns(Quota!Holding(d))
    BY <1>1, <1>4, <1>5, QuotaSame
<1>14. Quota!SlotsAreAccounted'
    BY <1>3, <1>4, <1>11, <1>13 DEF Quota!Inv, Quota!SlotsAreAccounted
<1>15. Quota!TokensAreAccounted'
    BY <1>3, <1>4, <1>11, <1>13 DEF Quota!Inv, Quota!TokensAreAccounted
<1>16. Quota!TurnsOfADay'
    BY <1>12, <1>13 DEF Quota!Inv, Quota!TurnsOfADay
<1>17. QED
    BY <1>14, <1>15, <1>16 DEF Quota!Inv

LEMMA QuotaCrash ==
    ASSUME Quota!Inv, Quota!TypesInv', Quota!Crash
    PROVE  Quota!Inv'
<1>1. \A d \in Quota!Days : Quota!Outstanding(d)' = 0 /\ Quota!TutorTurns(Quota!Holding(d))' = 0
    <2>1. \A d \in Quota!Days : Quota!Holding(d)' = {}
        BY DEF Quota!Crash, Quota!Holding
    <2>2. QED
        BY <2>1, QuotaNothing
<1>2. counter' = counter /\ settled' = settled
    BY DEF Quota!Crash
<1>3. \A d \in Quota!Days : /\ lost'[d].slots = lost[d].slots + Quota!TutorTurns(Quota!Holding(d))
                          /\ lost'[d].tokens = lost[d].tokens + Quota!Outstanding(d)
    BY DEF Quota!Crash
<1>4. \A d \in Quota!Days : /\ lost[d].slots \in Nat /\ lost[d].tokens \in Nat /\ settled[d] \in Nat
                          /\ Quota!Outstanding(d) \in Nat /\ Quota!TutorTurns(Quota!Holding(d)) \in Nat
    BY QuotaNatural DEF Quota!Inv, Quota!TypesInv, Quota!TypeOK
<1>5. Quota!SlotsAreAccounted'
    BY <1>1, <1>2, <1>3, <1>4 DEF Quota!Inv, Quota!SlotsAreAccounted
<1>6. Quota!TokensAreAccounted'
    BY <1>1, <1>2, <1>3, <1>4 DEF Quota!Inv, Quota!TokensAreAccounted
<1>7. Quota!TurnsOfADay'
    BY <1>1, QuotaConstants DEF Quota!TurnsOfADay
<1>8. QED
    BY <1>5, <1>6, <1>7 DEF Quota!Inv

LEMMA QuotaInvInit == Quota!Init => Quota!Inv
<1> SUFFICES ASSUME Quota!Init PROVE Quota!Inv
    OBVIOUS
<1>1. \A d \in Quota!Days : Quota!Holding(d) = {} /\ counter[d] = None
    BY DEF Quota!Init, Quota!Holding
<1>2. Quota!TurnsOfADay
    BY <1>1, QuotaNothing, QuotaConstants DEF Quota!TurnsOfADay
<1>3. QED
    BY <1>1, <1>2, QuotaTypesInit DEF Quota!Inv, Quota!SlotsAreAccounted, Quota!TokensAreAccounted

LEMMA QuotaNext == Quota!Inv /\ Quota!Next => Quota!Inv'
<1> SUFFICES ASSUME Quota!Inv, Quota!Next PROVE Quota!Inv'
    OBVIOUS
<1>1. Quota!TypesInv
    BY DEF Quota!Inv
<1>2. Quota!TypesInv'
    BY <1>1, QuotaTypesNext
<1>3. CASE Quota!NextDay
    BY <1>2, <1>3, QuotaQuiet DEF Quota!NextDay, Quota!Holding, Quota!Day
<1>4. CASE Quota!Crash
    BY <1>2, <1>4, QuotaCrash
<1>5. ASSUME NEW t \in Clients,
             \/ \E kind \in Quota!Kinds, n \in Reservations : Quota!Begin(t, kind, n)
             \/ Quota!Reserve(t) \/ Quota!Refused(t) \/ Quota!CancelReserving(t) \/ Quota!ReserveForNobody(t)
             \/ Quota!Call(t) \/ Quota!Release(t)
             \/ Quota!ConsumeImage(t) \/ Quota!ImageMade(t) \/ Quota!RefundImage(t) \/ Quota!AbandonImage(t)
      PROVE  Quota!Inv'
    BY <1>2, <1>5, QuotaQuietly, QuotaReserve, QuotaReserveForNobody, QuotaRelease
<1>6. QED
    BY <1>3, <1>4, <1>5 DEF Quota!Next

----------------------------------------------------------------------------
(* The daily quota: images.                                                *)

LEMMA ImagesConstants ==
    /\ IsFiniteSet(Pair)
    /\ TurnsPerDay \in Nat \ {0} /\ ImagesPerDay \in Nat \ {0} /\ ConcurrentTurns \in Nat \ {0}
    /\ ImageDays \in Nat \ {0} /\ MaxCrashes \in Nat /\ Images!Days = 1..ImageDays
    /\ {1} \subseteq Nat /\ {0} \subseteq Nat /\ None \notin Nat
    /\ None \notin [turns : Nat, reserved : Nat, images : Nat, active : Nat]
BY ImagesAssumption DEF Images!QuotaAssumption, Images!Days, Images!IsFiniteSet, IsFiniteSet

LEMMA ImagesCount ==
    ASSUME NEW S
    PROVE  Images!Cardinality(S) = Cardinality(S)
BY DEF Images!Cardinality, Cardinality

\* What a request of a turn under way reserved, and what they all did.
ImagesReserved == [t \in Pair |-> turn[t].reservation]

LEMMA ImagesOutstanding ==
    ASSUME NEW d \in Images!Days
    PROVE  \E g : Summed(g, ImagesReserved, Images!Holding(d)) /\ g[Images!Holding(d)] = Images!Outstanding(d)
<1> DEFINE H == Images!Holding(d)
           P(iter) == iter = [s \in SUBSET H |->
               IF s = {} THEN 0 ELSE turn[Some(s)].reservation + iter[s \ {Some(s)}]]
<1>1. H \subseteq Pair /\ IsFiniteSet(H)
    BY ImagesConstants, FS_Subset DEF Images!Holding
<1>2. \A iter : P(iter) <=> Summed(iter, ImagesReserved, H)
    <2>1. \A s \in SUBSET H : s # {} => ImagesReserved[Some(s)] = turn[Some(s)].reservation
        BY <1>1 DEF ImagesReserved, Some
    <2> HIDE DEF H
    <2>2. QED
        BY <2>1 DEF Summed
<1>3. \E iter : P(iter)
    BY <1>1, <1>2, SumExists
<1>4. P(CHOOSE iter : P(iter))
    BY <1>3
<1>5. Images!Outstanding(d) = (CHOOSE iter : P(iter))[H]
    BY DEF Images!Outstanding, Images!MapThenSumSet, Images!MapThenFoldSet, Some
<1>6. QED
    BY <1>2, <1>4, <1>5

LEMMA ImagesOutstandingNext ==
    ASSUME NEW d \in Images!Days
    PROVE  \E g : Summed(g, ImagesReserved', Images!Holding(d)') /\ g[Images!Holding(d)'] = Images!Outstanding(d)'
<1> DEFINE H == Images!Holding(d)'
           P(iter) == iter = [s \in SUBSET H |->
               IF s = {} THEN 0 ELSE turn'[Some(s)].reservation + iter[s \ {Some(s)}]]
<1>1. H \subseteq Pair /\ IsFiniteSet(H)
    BY ImagesConstants, FS_Subset DEF Images!Holding
<1>2. \A iter : P(iter) <=> Summed(iter, ImagesReserved', H)
    <2>1. \A s \in SUBSET H : s # {} => ImagesReserved'[Some(s)] = turn'[Some(s)].reservation
        BY <1>1 DEF ImagesReserved, Some
    <2> HIDE DEF H
    <2>2. QED
        BY <2>1 DEF Summed
<1>3. \E iter : P(iter)
    BY <1>1, <1>2, SumExists
<1>4. P(CHOOSE iter : P(iter))
    BY <1>3
<1>5. Images!Outstanding(d)' = (CHOOSE iter : P(iter))[H]
    BY DEF Images!Outstanding, Images!MapThenSumSet, Images!MapThenFoldSet, Some
<1>6. QED
    BY <1>2, <1>4, <1>5

LEMMA ImagesRequest ==
    ASSUME Images!TypesInv, NEW t \in Pair, quotaPc[t] # "idle"
    PROVE  /\ turn[t] \in Images!Request /\ Images!Day(t) \in Images!Days /\ Images!Day(t) = turn[t].day
           /\ turn[t].reservation \in Nat /\ turn[t].used \in Nat /\ turn[t].known \in BOOLEAN
           /\ Images!Concurrent(t) \in {0, 1}
           /\ quotaPc[t] \in {"running", "imaging"} => counter[Images!Day(t)] \in Images!Row
           /\ quotaPc[t] = "imaging" => imageDay[t] \in Images!Days /\ counter[imageDay[t]] \in Images!Row
<1>1. turn[t] \in Images!Request
    BY DEF Images!TypesInv, Images!Kept
<1>2. /\ Images!Day(t) \in Images!Days /\ Images!Day(t) = turn[t].day
      /\ turn[t].reservation \in {1} /\ turn[t].used \in {0} \cup {0} /\ turn[t].known \in BOOLEAN
    BY <1>1 DEF Images!Request, Images!Day
<1>3. quotaPc[t] \in {"running", "imaging"} => counter[Images!Day(t)] \in Images!Row
    BY <1>2 DEF Images!TypesInv, Images!TypeOK, Images!Kept, Images!Holding, Images!Day
<1>4. quotaPc[t] = "imaging" => imageDay[t] \in Images!Days /\ counter[imageDay[t]] \in Images!Row
    BY DEF Images!TypesInv, Images!TypeOK, Images!Kept
<1>5. turn[t].reservation \in Nat /\ turn[t].used \in Nat
    <2>1. (\A n \in {1} : n \in Nat) /\ (\A n \in {0} \cup {0} : n \in Nat)
        BY ImagesConstants
    <2>2. QED
        BY <1>2, <2>1
<1>6. Images!Concurrent(t) \in {0, 1}
    BY DEF Images!Concurrent
<1>7. QED
    BY <1>1, <1>2, <1>3, <1>4, <1>5, <1>6

\* A row is no absence of one, and a request that is admitted is charged to it.
LEMMA ImagesRows ==
    /\ None \notin Images!Row
    /\ \A row \in Images!Row : /\ row.turns \in 1..TurnsPerDay /\ row.turns \in Nat /\ row.reserved \in Nat
                            /\ row.images \in Nat /\ row.active \in Nat
BY ImagesConstants DEF Images!Row

LEMMA ImagesCharge ==
    ASSUME Images!TypesInv, NEW t \in Pair, quotaPc[t] # "idle", Images!Admits(t),
           NEW row, row = counter[Images!Day(t)], NEW new, new = Images!Charged(row, t)
    PROVE  /\ new \in Images!Row
           /\ row = None \/ row \in Images!Row
           /\ new.reserved = (IF row = None THEN 0 ELSE row.reserved) + turn[t].reservation
           /\ new.active = (IF row = None THEN 0 ELSE row.active) + Images!Concurrent(t)
           /\ new.images = IF row = None THEN 0 ELSE row.images
           /\ Images!Concurrent(t) = 1 => new.active <= ConcurrentTurns
<1>1. /\ turn[t].reservation \in Nat
      /\ Images!Concurrent(t) \in {0, 1}
      /\ row \in Images!Row \cup {None}
    BY ImagesRequest DEF Images!TypesInv, Images!TypeOK
<1>2. CASE row = None
    BY <1>1, <1>2, ImagesConstants DEF Images!Charged, Images!Row
<1>3. CASE row # None
    <2>1. row \in Images!Row /\ row.turns < TurnsPerDay /\ (Images!Concurrent(t) = 1 => row.active < ConcurrentTurns)
        BY <1>1, <1>3 DEF Images!Admits, Images!Concurrent
    <2>2. new = [row EXCEPT !.turns = row.turns + 1, !.reserved = row.reserved + turn[t].reservation,
                            !.active = row.active + Images!Concurrent(t)]
        BY <1>3 DEF Images!Charged
    <2>3. /\ row.turns + 1 \in 1..TurnsPerDay /\ row.reserved + turn[t].reservation \in Nat
          /\ row.active + Images!Concurrent(t) \in Nat
        <3>1. /\ row.turns \in 1..TurnsPerDay /\ row.turns \in Nat /\ row.reserved \in Nat
              /\ row.active \in Nat /\ TurnsPerDay \in Nat
            BY <2>1, ImagesRows, ImagesConstants
        <3>2. QED
            BY <1>1, <2>1, <3>1
    <2>4. new \in Images!Row
        BY <2>1, <2>2, <2>3 DEF Images!Row
    <2>5. /\ new.reserved = row.reserved + turn[t].reservation /\ new.images = row.images
          /\ new.active = row.active + Images!Concurrent(t)
        BY <2>1, <2>2 DEF Images!Row
    <2>6. QED
        BY <1>1, <1>3, <2>1, <2>4, <2>5, ImagesRows, ImagesConstants
<1>4. QED
    BY <1>2, <1>3

\* What the end of a request leaves of its row.
LEMMA ImagesSettle ==
    ASSUME Images!TypesInv, NEW t \in Pair, Images!Release(t), NEW row, row = counter[Images!Day(t)]
    PROVE  /\ row \in Images!Row /\ counter'[Images!Day(t)] \in Images!Row
           /\ counter' = [counter EXCEPT ![Images!Day(t)] = counter'[Images!Day(t)]]
           /\ counter'[Images!Day(t)].active = Images!AtLeast0(row.active - Images!Concurrent(t))
           /\ counter'[Images!Day(t)].reserved = Images!AtLeast0(row.reserved - Images!Refund(t))
           /\ Images!Refund(t) = turn[t].reservation
                 - (settled'[Images!Day(t)] - settled[Images!Day(t)])
           /\ settled'[Images!Day(t)] - settled[Images!Day(t)] \in Nat
           /\ settled' = [settled EXCEPT ![Images!Day(t)] = settled'[Images!Day(t)]]
           /\ settled'[Images!Day(t)] \in Nat
<1>1. /\ turn[t].reservation \in Nat /\ turn[t].used \in Nat /\ Images!Concurrent(t) \in {0, 1}
      /\ row \in Images!Row /\ Images!Day(t) \in Images!Days
    BY ImagesRequest DEF Images!Release
<1>2. row.active \in Nat /\ row.reserved \in Nat
    BY <1>1, ImagesRows
<1>3. /\ Images!AtLeast0(row.active - Images!Concurrent(t)) \in Nat
      /\ Images!AtLeast0(row.reserved - Images!Refund(t)) \in Nat
    BY <1>1, <1>2 DEF Images!AtLeast0, Images!Refund
<1> DEFINE new == [row EXCEPT !.active = Images!AtLeast0(row.active - Images!Concurrent(t)),
                              !.reserved = Images!AtLeast0(row.reserved - Images!Refund(t))]
           tokens2 == IF turn[t].known THEN turn[t].used ELSE turn[t].reservation
<1>4. /\ new \in Images!Row
      /\ new.active = Images!AtLeast0(row.active - Images!Concurrent(t))
      /\ new.reserved = Images!AtLeast0(row.reserved - Images!Refund(t))
    BY <1>1, <1>3 DEF Images!Row
<1>5. counter' = [counter EXCEPT ![Images!Day(t)] = new]
    BY DEF Images!Release
<1>6. settled' = [settled EXCEPT ![Images!Day(t)] = settled[Images!Day(t)] + tokens2]
    BY DEF Images!Release
<1> HIDE DEF new
<1>7. counter'[Images!Day(t)] = new
    BY <1>1, <1>5 DEF Images!TypesInv, Images!TypeOK
<1>8. tokens2 \in Nat /\ Images!Refund(t) = turn[t].reservation - tokens2
    BY <1>1 DEF Images!Refund
<1>9. settled \in [Images!Days -> Nat]
    BY DEF Images!TypesInv, Images!TypeOK
<1> HIDE DEF tokens2
<1>10. settled'[Images!Day(t)] = settled[Images!Day(t)] + tokens2 /\ settled[Images!Day(t)] \in Nat
    BY <1>1, <1>6, <1>9
<1>11. settled'[Images!Day(t)] - settled[Images!Day(t)] = tokens2 /\ settled'[Images!Day(t)] \in Nat
    BY <1>8, <1>10
<1>12. QED
    BY <1>1, <1>4, <1>5, <1>6, <1>7, <1>8, <1>10, <1>11

LEMMA ImagesNatural ==
    ASSUME Images!TypesInv, NEW d \in Images!Days
    PROVE  /\ Images!Outstanding(d) \in Nat
           /\ IsFiniteSet(Images!Holding(d)) /\ Images!TutorTurns(Images!Holding(d)) \in Nat
           /\ \A t \in Images!Holding(d) : t \in Pair /\ turn[t].reservation \in Nat
<1>1. \A t \in Images!Holding(d) : t \in Pair /\ turn[t].reservation \in Nat
    BY ImagesRequest DEF Images!Holding
<1>2. Images!Holding(d) \subseteq Pair /\ IsFiniteSet(Images!Holding(d))
    BY ImagesConstants, FS_Subset DEF Images!Holding
<1>3. Images!TutorTurns(Images!Holding(d)) \in Nat
    <2>1. IsFiniteSet({t \in Images!Holding(d) : turn[t].kind = "tutor"})
        BY <1>2, FS_Subset
    <2>2. QED
        BY <2>1, ImagesCount, FS_CardinalityType DEF Images!TutorTurns
<1>4. Images!Outstanding(d) \in Nat
    <2>1. PICK g : Summed(g, ImagesReserved, Images!Holding(d)) /\ g[Images!Holding(d)] = Images!Outstanding(d)
        BY ImagesOutstanding
    <2>2. \A t \in Images!Holding(d) : ImagesReserved[t] \in Nat
        BY <1>1 DEF ImagesReserved
    <2>3. QED
        BY <1>2, <2>1, <2>2, SumIsNatural
<1>5. QED
    BY <1>1, <1>2, <1>3, <1>4

LEMMA ImagesTypesInit == Images!Init => Images!TypesInv
<1> SUFFICES ASSUME Images!Init PROVE Images!TypesInv
    OBVIOUS
<1>1. 1 \in Images!Days /\ 0 \in 0..MaxCrashes
    BY ImagesConstants
<1>2. Images!TypeOK
    BY <1>1 DEF Images!Init, Images!TypeOK
<1>3. Images!Kept
    BY DEF Images!Init, Images!Kept, Images!Holding
<1>4. QED
    BY <1>2, <1>3 DEF Images!TypesInv

LEMMA ImagesTypesNextDay ==
    ASSUME Images!TypesInv, Images!NextDay
    PROVE  Images!TypesInv'
<1>1. /\ counter' \in [Images!Days -> Images!Row \cup {None}]
      /\ \A d \in Images!Days : counter'[d] = None => counter[d] = None
    BY ImagesConstants DEF Images!TypesInv, Images!TypeOK, Images!Kept, Images!Row, Images!NextDay
<1>2. /\ turn' \in [Pair -> Images!Request \cup {None}]
      /\ \A u \in Pair : quotaPc'[u] # "idle" => turn'[u] \in Images!Request
    BY DEF Images!TypesInv, Images!TypeOK, Images!Kept, Images!Request, Images!NextDay
<1>3. /\ lost' \in [Images!Days -> [slots : Nat, tokens : Nat]]
      /\ settled' \in [Images!Days -> Nat] /\ images' \in [Images!Days -> Nat]
    BY ImagesConstants DEF Images!TypesInv, Images!TypeOK, Images!Kept, Images!Request, Images!NextDay
<1>4. Images!TypeOK'
    BY <1>1, <1>2, <1>3, ImagesConstants DEF Images!TypesInv, Images!TypeOK, Images!Kept, Images!NextDay
<1>5. \A d \in Images!Days : counter'[d] = None =>
          /\ Images!Holding(d)' = {}
          /\ lost'[d].slots = 0 /\ lost'[d].tokens = 0 /\ settled'[d] = 0 /\ images'[d] = 0
    <2>1. SUFFICES ASSUME NEW d \in Images!Days, counter'[d] = None
                   PROVE  Images!Holding(d)' = {} /\ lost'[d].slots = 0 /\ lost'[d].tokens = 0 /\ settled'[d] = 0 /\ images'[d] = 0
        OBVIOUS
    <2>2. lost'[d].slots = 0 /\ lost'[d].tokens = 0 /\ settled'[d] = 0 /\ images'[d] = 0
        BY <1>1, <2>1, ImagesConstants DEF Images!TypesInv, Images!TypeOK, Images!Kept, Images!Holding,
            Images!Day, Images!Request, Images!NextDay
    <2>3. Images!Holding(d)' = {}
        BY <1>1, <2>1, ImagesConstants DEF Images!TypesInv, Images!TypeOK, Images!Kept, Images!Holding,
            Images!Day, Images!Request, Images!NextDay
    <2>4. QED
        BY <2>2, <2>3
<1>6. Images!Kept'
    BY <1>1, <1>2, <1>5, ImagesConstants DEF Images!TypesInv, Images!TypeOK, Images!Kept, Images!NextDay
<1>7. QED
    BY <1>4, <1>6 DEF Images!TypesInv

LEMMA ImagesTypesBegin ==
    ASSUME Images!TypesInv, NEW t \in Pair, NEW kind \in Images!Kinds, NEW n \in {1},
           Images!Begin(t, kind, n)
    PROVE  Images!TypesInv'
<1>1. /\ counter' \in [Images!Days -> Images!Row \cup {None}]
      /\ \A d \in Images!Days : counter'[d] = None => counter[d] = None
    BY ImagesConstants DEF Images!TypesInv, Images!TypeOK, Images!Kept, Images!Row, Images!Begin
<1>2. /\ turn' \in [Pair -> Images!Request \cup {None}]
      /\ \A u \in Pair : quotaPc'[u] # "idle" => turn'[u] \in Images!Request
    BY DEF Images!TypesInv, Images!TypeOK, Images!Kept, Images!Request, Images!Begin
<1>3. /\ lost' \in [Images!Days -> [slots : Nat, tokens : Nat]]
      /\ settled' \in [Images!Days -> Nat] /\ images' \in [Images!Days -> Nat]
    BY ImagesConstants DEF Images!TypesInv, Images!TypeOK, Images!Kept, Images!Request, Images!Begin
<1>4. Images!TypeOK'
    BY <1>1, <1>2, <1>3, ImagesConstants DEF Images!TypesInv, Images!TypeOK, Images!Kept, Images!Begin
<1>5. \A d \in Images!Days : counter'[d] = None =>
          /\ Images!Holding(d)' = {}
          /\ lost'[d].slots = 0 /\ lost'[d].tokens = 0 /\ settled'[d] = 0 /\ images'[d] = 0
    <2>1. SUFFICES ASSUME NEW d \in Images!Days, counter'[d] = None
                   PROVE  Images!Holding(d)' = {} /\ lost'[d].slots = 0 /\ lost'[d].tokens = 0 /\ settled'[d] = 0 /\ images'[d] = 0
        OBVIOUS
    <2>2. lost'[d].slots = 0 /\ lost'[d].tokens = 0 /\ settled'[d] = 0 /\ images'[d] = 0
        BY <1>1, <2>1, ImagesConstants DEF Images!TypesInv, Images!TypeOK, Images!Kept, Images!Holding,
            Images!Day, Images!Request, Images!Begin
    <2>3. Images!Holding(d)' = {}
        BY <1>1, <2>1, ImagesConstants DEF Images!TypesInv, Images!TypeOK, Images!Kept, Images!Holding,
            Images!Day, Images!Request, Images!Begin
    <2>4. QED
        BY <2>2, <2>3
<1>6. Images!Kept'
    BY <1>1, <1>2, <1>5, ImagesConstants DEF Images!TypesInv, Images!TypeOK, Images!Kept, Images!Begin
<1>7. QED
    BY <1>4, <1>6 DEF Images!TypesInv

LEMMA ImagesTypesReserve ==
    ASSUME Images!TypesInv, NEW t \in Pair, Images!Reserve(t)
    PROVE  Images!TypesInv'
<1>1. /\ counter' \in [Images!Days -> Images!Row \cup {None}]
      /\ \A d \in Images!Days : counter'[d] = None => counter[d] = None
    <2>1. Images!Day(t) \in Images!Days /\ Images!Charged(counter[Images!Day(t)], t) \in Images!Row
        BY ImagesRequest, ImagesCharge DEF Images!Reserve
    <2>2. counter' = [counter EXCEPT ![Images!Day(t)] = Images!Charged(counter[Images!Day(t)], t)]
        BY DEF Images!Reserve
    <2>3. QED
        BY <2>1, <2>2, ImagesRows DEF Images!TypesInv, Images!TypeOK
<1>2. /\ turn' \in [Pair -> Images!Request \cup {None}]
      /\ \A u \in Pair : quotaPc'[u] # "idle" => turn'[u] \in Images!Request
    BY DEF Images!TypesInv, Images!TypeOK, Images!Kept, Images!Request, Images!Reserve,
        Images!Admits, Images!Charged, Images!Day, Images!Concurrent
<1>3. /\ lost' \in [Images!Days -> [slots : Nat, tokens : Nat]]
      /\ settled' \in [Images!Days -> Nat] /\ images' \in [Images!Days -> Nat]
    BY ImagesConstants DEF Images!TypesInv, Images!TypeOK, Images!Kept, Images!Request,
        Images!Reserve, Images!Admits, Images!Charged, Images!Day, Images!Concurrent
<1>4. Images!TypeOK'
    BY <1>1, <1>2, <1>3, ImagesConstants DEF Images!TypesInv, Images!TypeOK, Images!Kept,
        Images!Reserve, Images!Admits, Images!Charged, Images!Day, Images!Concurrent
<1>5. \A d \in Images!Days : counter'[d] = None =>
          /\ Images!Holding(d)' = {}
          /\ lost'[d].slots = 0 /\ lost'[d].tokens = 0 /\ settled'[d] = 0 /\ images'[d] = 0
    <2>1. SUFFICES ASSUME NEW d \in Images!Days, counter'[d] = None
                   PROVE  Images!Holding(d)' = {} /\ lost'[d].slots = 0 /\ lost'[d].tokens = 0 /\ settled'[d] = 0 /\ images'[d] = 0
        OBVIOUS
    <2>2. lost'[d].slots = 0 /\ lost'[d].tokens = 0 /\ settled'[d] = 0 /\ images'[d] = 0
        BY <1>1, <2>1, ImagesConstants DEF Images!TypesInv, Images!TypeOK, Images!Kept, Images!Holding,
            Images!Day, Images!Request, Images!Reserve, Images!Admits, Images!Charged,
            Images!Day, Images!Concurrent
    <2>3. Images!Holding(d)' = {}
        BY <1>1, <2>1, ImagesConstants DEF Images!TypesInv, Images!TypeOK, Images!Kept, Images!Holding,
            Images!Day, Images!Request, Images!Reserve, Images!Admits, Images!Charged,
            Images!Day, Images!Concurrent
    <2>4. QED
        BY <2>2, <2>3
<1>6. Images!Kept'
    BY <1>1, <1>2, <1>5, ImagesConstants DEF Images!TypesInv, Images!TypeOK, Images!Kept,
        Images!Reserve, Images!Admits, Images!Charged, Images!Day, Images!Concurrent
<1>7. QED
    BY <1>4, <1>6 DEF Images!TypesInv

LEMMA ImagesTypesRefused ==
    ASSUME Images!TypesInv, NEW t \in Pair, Images!Refused(t)
    PROVE  Images!TypesInv'
<1>1. /\ counter' \in [Images!Days -> Images!Row \cup {None}]
      /\ \A d \in Images!Days : counter'[d] = None => counter[d] = None
    BY ImagesConstants DEF Images!TypesInv, Images!TypeOK, Images!Kept, Images!Row, Images!Refused,
        Images!Admits, Images!Day
<1>2. /\ turn' \in [Pair -> Images!Request \cup {None}]
      /\ \A u \in Pair : quotaPc'[u] # "idle" => turn'[u] \in Images!Request
    BY DEF Images!TypesInv, Images!TypeOK, Images!Kept, Images!Request, Images!Refused,
        Images!Admits, Images!Day
<1>3. /\ lost' \in [Images!Days -> [slots : Nat, tokens : Nat]]
      /\ settled' \in [Images!Days -> Nat] /\ images' \in [Images!Days -> Nat]
    BY ImagesConstants DEF Images!TypesInv, Images!TypeOK, Images!Kept, Images!Request,
        Images!Refused, Images!Admits, Images!Day
<1>4. Images!TypeOK'
    BY <1>1, <1>2, <1>3, ImagesConstants DEF Images!TypesInv, Images!TypeOK, Images!Kept,
        Images!Refused, Images!Admits, Images!Day
<1>5. \A d \in Images!Days : counter'[d] = None =>
          /\ Images!Holding(d)' = {}
          /\ lost'[d].slots = 0 /\ lost'[d].tokens = 0 /\ settled'[d] = 0 /\ images'[d] = 0
    <2>1. SUFFICES ASSUME NEW d \in Images!Days, counter'[d] = None
                   PROVE  Images!Holding(d)' = {} /\ lost'[d].slots = 0 /\ lost'[d].tokens = 0 /\ settled'[d] = 0 /\ images'[d] = 0
        OBVIOUS
    <2>2. lost'[d].slots = 0 /\ lost'[d].tokens = 0 /\ settled'[d] = 0 /\ images'[d] = 0
        BY <1>1, <2>1, ImagesConstants DEF Images!TypesInv, Images!TypeOK, Images!Kept, Images!Holding,
            Images!Day, Images!Request, Images!Refused, Images!Admits, Images!Day
    <2>3. Images!Holding(d)' = {}
        BY <1>1, <2>1, ImagesConstants DEF Images!TypesInv, Images!TypeOK, Images!Kept, Images!Holding,
            Images!Day, Images!Request, Images!Refused, Images!Admits, Images!Day
    <2>4. QED
        BY <2>2, <2>3
<1>6. Images!Kept'
    BY <1>1, <1>2, <1>5, ImagesConstants DEF Images!TypesInv, Images!TypeOK, Images!Kept,
        Images!Refused, Images!Admits, Images!Day
<1>7. QED
    BY <1>4, <1>6 DEF Images!TypesInv

LEMMA ImagesTypesCancelReserving ==
    ASSUME Images!TypesInv, NEW t \in Pair, Images!CancelReserving(t)
    PROVE  Images!TypesInv'
<1>1. /\ counter' \in [Images!Days -> Images!Row \cup {None}]
      /\ \A d \in Images!Days : counter'[d] = None => counter[d] = None
    BY ImagesConstants DEF Images!TypesInv, Images!TypeOK, Images!Kept, Images!Row,
        Images!CancelReserving
<1>2. /\ turn' \in [Pair -> Images!Request \cup {None}]
      /\ \A u \in Pair : quotaPc'[u] # "idle" => turn'[u] \in Images!Request
    BY DEF Images!TypesInv, Images!TypeOK, Images!Kept, Images!Request, Images!CancelReserving
<1>3. /\ lost' \in [Images!Days -> [slots : Nat, tokens : Nat]]
      /\ settled' \in [Images!Days -> Nat] /\ images' \in [Images!Days -> Nat]
    BY ImagesConstants DEF Images!TypesInv, Images!TypeOK, Images!Kept, Images!Request,
        Images!CancelReserving
<1>4. Images!TypeOK'
    BY <1>1, <1>2, <1>3, ImagesConstants DEF Images!TypesInv, Images!TypeOK, Images!Kept,
        Images!CancelReserving
<1>5. \A d \in Images!Days : counter'[d] = None =>
          /\ Images!Holding(d)' = {}
          /\ lost'[d].slots = 0 /\ lost'[d].tokens = 0 /\ settled'[d] = 0 /\ images'[d] = 0
    <2>1. SUFFICES ASSUME NEW d \in Images!Days, counter'[d] = None
                   PROVE  Images!Holding(d)' = {} /\ lost'[d].slots = 0 /\ lost'[d].tokens = 0 /\ settled'[d] = 0 /\ images'[d] = 0
        OBVIOUS
    <2>2. lost'[d].slots = 0 /\ lost'[d].tokens = 0 /\ settled'[d] = 0 /\ images'[d] = 0
        BY <1>1, <2>1, ImagesConstants DEF Images!TypesInv, Images!TypeOK, Images!Kept, Images!Holding,
            Images!Day, Images!Request, Images!CancelReserving
    <2>3. Images!Holding(d)' = {}
        BY <1>1, <2>1, ImagesConstants DEF Images!TypesInv, Images!TypeOK, Images!Kept, Images!Holding,
            Images!Day, Images!Request, Images!CancelReserving
    <2>4. QED
        BY <2>2, <2>3
<1>6. Images!Kept'
    BY <1>1, <1>2, <1>5, ImagesConstants DEF Images!TypesInv, Images!TypeOK, Images!Kept,
        Images!CancelReserving
<1>7. QED
    BY <1>4, <1>6 DEF Images!TypesInv

LEMMA ImagesTypesReserveForNobody ==
    ASSUME Images!TypesInv, NEW t \in Pair, Images!ReserveForNobody(t)
    PROVE  Images!TypesInv'
<1>1. /\ counter' \in [Images!Days -> Images!Row \cup {None}]
      /\ \A d \in Images!Days : counter'[d] = None => counter[d] = None
    <2>1. Images!Day(t) \in Images!Days /\ Images!Charged(counter[Images!Day(t)], t) \in Images!Row
        BY ImagesRequest, ImagesCharge DEF Images!ReserveForNobody
    <2>2. counter' = [counter EXCEPT ![Images!Day(t)] = Images!Charged(counter[Images!Day(t)], t)]
        BY DEF Images!ReserveForNobody
    <2>3. QED
        BY <2>1, <2>2, ImagesRows DEF Images!TypesInv, Images!TypeOK
<1>2. /\ turn' \in [Pair -> Images!Request \cup {None}]
      /\ \A u \in Pair : quotaPc'[u] # "idle" => turn'[u] \in Images!Request
    BY DEF Images!TypesInv, Images!TypeOK, Images!Kept, Images!Request, Images!ReserveForNobody,
        Images!Admits, Images!Charged, Images!Concurrent, Images!Day, Images!Lose
<1>3. /\ lost' \in [Images!Days -> [slots : Nat, tokens : Nat]]
      /\ settled' \in [Images!Days -> Nat] /\ images' \in [Images!Days -> Nat]
    <2>1. Images!Day(t) \in Images!Days /\ turn[t].reservation \in Nat /\ Images!Concurrent(t) \in Nat
        BY ImagesRequest DEF Images!ReserveForNobody
    <2>2. lost \in [Images!Days -> [slots : Nat, tokens : Nat]]
        BY DEF Images!TypesInv, Images!TypeOK
    <2>3. [slots |-> lost[Images!Day(t)].slots + Images!Concurrent(t),
           tokens |-> lost[Images!Day(t)].tokens + turn[t].reservation] \in [slots : Nat, tokens : Nat]
        BY <2>1, <2>2
    <2>4. lost' \in [Images!Days -> [slots : Nat, tokens : Nat]]
        BY <2>2, <2>3 DEF Images!ReserveForNobody, Images!Lose
    <2>5. QED
        BY <2>4 DEF Images!ReserveForNobody, Images!TypesInv, Images!TypeOK
<1>4. Images!TypeOK'
    BY <1>1, <1>2, <1>3, ImagesConstants DEF Images!TypesInv, Images!TypeOK, Images!Kept,
        Images!ReserveForNobody, Images!Admits, Images!Charged, Images!Concurrent, Images!Day,
        Images!Lose
<1>5. \A d \in Images!Days : counter'[d] = None =>
          /\ Images!Holding(d)' = {}
          /\ lost'[d].slots = 0 /\ lost'[d].tokens = 0 /\ settled'[d] = 0 /\ images'[d] = 0
    <2>1. Images!Day(t) \in Images!Days /\ Images!Charged(counter[Images!Day(t)], t) \in Images!Row
        BY ImagesRequest, ImagesCharge DEF Images!ReserveForNobody
    <2>2. \A d \in Images!Days : counter'[d] = None => d # Images!Day(t)
        BY <2>1, ImagesRows DEF Images!ReserveForNobody, Images!TypesInv, Images!TypeOK
    <2>3. \A d \in Images!Days : d # Images!Day(t) => lost'[d] = lost[d]
        BY DEF Images!ReserveForNobody, Images!Lose, Images!TypesInv, Images!TypeOK
    <2>4. /\ settled' = settled /\ images' = images
          /\ \A d \in Images!Days : Images!Holding(d)' \subseteq Images!Holding(d)
        BY DEF Images!ReserveForNobody, Images!Holding, Images!Day, Images!TypesInv, Images!TypeOK
    <2>5. QED
        BY <1>1, <2>2, <2>3, <2>4 DEF Images!TypesInv, Images!Kept
<1>6. Images!Kept'
    BY <1>1, <1>2, <1>5, ImagesConstants DEF Images!TypesInv, Images!TypeOK, Images!Kept,
        Images!ReserveForNobody, Images!Admits, Images!Charged, Images!Concurrent, Images!Day,
        Images!Lose
<1>7. QED
    BY <1>4, <1>6 DEF Images!TypesInv

LEMMA ImagesTypesCall ==
    ASSUME Images!TypesInv, NEW t \in Pair, Images!Call(t)
    PROVE  Images!TypesInv'
<1>1. /\ counter' \in [Images!Days -> Images!Row \cup {None}]
      /\ \A d \in Images!Days : counter'[d] = None => counter[d] = None
    BY ImagesConstants DEF Images!TypesInv, Images!TypeOK, Images!Kept, Images!Row, Images!Call
<1>2. /\ turn' \in [Pair -> Images!Request \cup {None}]
      /\ \A u \in Pair : quotaPc'[u] # "idle" => turn'[u] \in Images!Request
    <2>1. turn[t] \in Images!Request /\ turn \in [Pair -> Images!Request \cup {None}]
        BY ImagesRequest DEF Images!Call, Images!TypesInv, Images!TypeOK
    <2>2. PICK n \in {0} \cup {0}, k \in BOOLEAN : turn' = [turn EXCEPT ![t] = [turn[t] EXCEPT !.used = n, !.known = k]]
        <3>1. CASE \E n \in {0} : turn' = [turn EXCEPT ![t].used = n]
            <4>1. PICK n \in {0} : turn' = [turn EXCEPT ![t].used = n]
                BY <3>1
            <4>2. \A m \in {0} : [turn[t] EXCEPT !.used = m] = [turn[t] EXCEPT !.used = m, !.known = turn[t].known]
                BY <2>1 DEF Images!Request
            <4>3. QED
                BY <2>1, <4>1, <4>2 DEF Images!Request
        <3>2. CASE turn' = [turn EXCEPT ![t].known = FALSE]
            <4>1. [turn[t] EXCEPT !.known = FALSE] = [turn[t] EXCEPT !.used = turn[t].used, !.known = FALSE]
                BY <2>1 DEF Images!Request
            <4>2. QED
                BY <2>1, <3>2, <4>1 DEF Images!Request
        <3>3. QED
            BY <3>1, <3>2 DEF Images!Call
    <2>3. [turn[t] EXCEPT !.used = n, !.known = k] \in Images!Request
        BY <2>1 DEF Images!Request
    <2>4. QED
        BY <2>1, <2>2, <2>3 DEF Images!TypesInv, Images!Kept, Images!Call
<1>3. /\ lost' \in [Images!Days -> [slots : Nat, tokens : Nat]]
      /\ settled' \in [Images!Days -> Nat] /\ images' \in [Images!Days -> Nat]
    BY ImagesConstants DEF Images!TypesInv, Images!TypeOK, Images!Kept, Images!Request, Images!Call
<1>4. Images!TypeOK'
    BY <1>1, <1>2, <1>3, ImagesConstants DEF Images!TypesInv, Images!TypeOK, Images!Kept, Images!Call
<1>5. \A d \in Images!Days : counter'[d] = None =>
          /\ Images!Holding(d)' = {}
          /\ lost'[d].slots = 0 /\ lost'[d].tokens = 0 /\ settled'[d] = 0 /\ images'[d] = 0
    <2>0. turn[t] \in Images!Request /\ turn \in [Pair -> Images!Request \cup {None}]
        BY ImagesRequest DEF Images!Call, Images!TypesInv, Images!TypeOK
    <2>1. \A u \in Pair : turn'[u].day = turn[u].day
        BY <2>0 DEF Images!Call, Images!Request
    <2>2. \A d \in Images!Days : Images!Holding(d)' = Images!Holding(d)
        BY <2>1 DEF Images!Holding, Images!Day, Images!Call
    <2>3. counter' = counter /\ lost' = lost /\ settled' = settled /\ images' = images
        BY DEF Images!Call
    <2>4. QED
        BY <2>2, <2>3 DEF Images!TypesInv, Images!Kept
<1>6. Images!Kept'
    BY <1>1, <1>2, <1>5, ImagesConstants DEF Images!TypesInv, Images!TypeOK, Images!Kept, Images!Call
<1>7. QED
    BY <1>4, <1>6 DEF Images!TypesInv

LEMMA ImagesTypesRelease ==
    ASSUME Images!TypesInv, NEW t \in Pair, Images!Release(t)
    PROVE  Images!TypesInv'
<1>1. /\ counter' \in [Images!Days -> Images!Row \cup {None}]
      /\ \A d \in Images!Days : counter'[d] = None => counter[d] = None
    BY ImagesSettle, ImagesRows, ImagesRequest DEF Images!TypesInv, Images!TypeOK, Images!Release
<1>2. /\ turn' \in [Pair -> Images!Request \cup {None}]
      /\ \A u \in Pair : quotaPc'[u] # "idle" => turn'[u] \in Images!Request
    BY DEF Images!TypesInv, Images!TypeOK, Images!Kept, Images!Request, Images!Release,
        Images!Concurrent, Images!Day, Images!AtLeast0, Images!Refund
<1>3. /\ lost' \in [Images!Days -> [slots : Nat, tokens : Nat]]
      /\ settled' \in [Images!Days -> Nat] /\ images' \in [Images!Days -> Nat]
    BY ImagesSettle, ImagesRequest DEF Images!TypesInv, Images!TypeOK, Images!Release
<1>4. Images!TypeOK'
    BY <1>1, <1>2, <1>3, ImagesConstants DEF Images!TypesInv, Images!TypeOK, Images!Kept,
        Images!Release, Images!Concurrent, Images!Day, Images!AtLeast0, Images!Refund
<1>5. \A d \in Images!Days : counter'[d] = None =>
          /\ Images!Holding(d)' = {}
          /\ lost'[d].slots = 0 /\ lost'[d].tokens = 0 /\ settled'[d] = 0 /\ images'[d] = 0
    <2>1. Images!Day(t) \in Images!Days /\ counter'[Images!Day(t)] # None
        BY ImagesSettle, ImagesRows, ImagesRequest DEF Images!Release
    <2>2. \A d \in Images!Days : d # Images!Day(t) => settled'[d] = settled[d]
        BY DEF Images!Release, Images!TypesInv, Images!TypeOK
    <2>3. \A d \in Images!Days : Images!Holding(d)' \subseteq Images!Holding(d)
        BY DEF Images!Holding, Images!Day, Images!Release, Images!TypesInv, Images!TypeOK
    <2>4. lost' = lost /\ images' = images
        BY DEF Images!Release
    <2>5. QED
        BY <1>1, <2>1, <2>2, <2>3, <2>4 DEF Images!TypesInv, Images!Kept
<1>6. Images!Kept'
    <2>1. /\ imageDay' = imageDay /\ quotaPc[t] = "running"
          /\ quotaPc' = [quotaPc EXCEPT ![t] = "idle"]
          /\ quotaPc \in [Pair -> {"idle", "reserving", "orphaned", "running", "imaging"}]
        BY DEF Images!Release, Images!TypesInv, Images!TypeOK
    <2>2. \A u \in Pair : imageDay[u] # None => imageDay[u] \in Images!Days
        BY DEF Images!TypesInv, Images!TypeOK
    <2>3. QED
        BY <1>1, <1>2, <1>5, <2>1, <2>2 DEF Images!TypesInv, Images!Kept
<1>7. QED
    BY <1>4, <1>6 DEF Images!TypesInv

LEMMA ImagesTypesConsumeImage ==
    ASSUME Images!TypesInv, NEW t \in Pair, Images!ConsumeImage(t)
    PROVE  Images!TypesInv'
<1>1. /\ counter' \in [Images!Days -> Images!Row \cup {None}]
      /\ \A d \in Images!Days : counter'[d] = None => counter[d] = None
    <2> DEFINE row == counter[today]
               new == [row EXCEPT !.images = row.images + 1]
    <2>1. today \in Images!Days /\ row \in Images!Row
        BY ImagesRequest DEF Images!ConsumeImage, Images!TypesInv, Images!TypeOK
    <2>2. new \in Images!Row
        BY <2>1, ImagesRows DEF Images!ConsumeImage, Images!Row
    <2>3. counter' = counter \/ counter' = [counter EXCEPT ![today] = new]
        BY DEF Images!ConsumeImage
    <2> HIDE DEF row, new
    <2>4. QED
        BY <2>1, <2>2, <2>3, ImagesRows DEF Images!TypesInv, Images!TypeOK
<1>2. /\ turn' \in [Pair -> Images!Request \cup {None}]
      /\ \A u \in Pair : quotaPc'[u] # "idle" => turn'[u] \in Images!Request
    BY DEF Images!TypesInv, Images!TypeOK, Images!Kept, Images!Request, Images!ConsumeImage
<1>3. /\ lost' \in [Images!Days -> [slots : Nat, tokens : Nat]]
      /\ settled' \in [Images!Days -> Nat] /\ images' \in [Images!Days -> Nat]
    BY ImagesConstants DEF Images!TypesInv, Images!TypeOK, Images!Kept, Images!Request,
        Images!ConsumeImage
<1>4. Images!TypeOK'
    BY <1>1, <1>2, <1>3, ImagesConstants DEF Images!TypesInv, Images!TypeOK, Images!Kept,
        Images!ConsumeImage
<1>5. \A d \in Images!Days : counter'[d] = None =>
          /\ Images!Holding(d)' = {}
          /\ lost'[d].slots = 0 /\ lost'[d].tokens = 0 /\ settled'[d] = 0 /\ images'[d] = 0
    <2>1. SUFFICES ASSUME NEW d \in Images!Days, counter'[d] = None
                   PROVE  Images!Holding(d)' = {} /\ lost'[d].slots = 0 /\ lost'[d].tokens = 0 /\ settled'[d] = 0 /\ images'[d] = 0
        OBVIOUS
    <2>2. lost'[d].slots = 0 /\ lost'[d].tokens = 0 /\ settled'[d] = 0 /\ images'[d] = 0
        BY <1>1, <2>1, ImagesConstants DEF Images!TypesInv, Images!TypeOK, Images!Kept, Images!Holding,
            Images!Day, Images!Request, Images!ConsumeImage
    <2>3. Images!Holding(d)' = {}
        BY <1>1, <2>1, ImagesConstants DEF Images!TypesInv, Images!TypeOK, Images!Kept, Images!Holding,
            Images!Day, Images!Request, Images!ConsumeImage
    <2>4. QED
        BY <2>2, <2>3
<1>6. Images!Kept'
    BY <1>1, <1>2, <1>5, ImagesConstants DEF Images!TypesInv, Images!TypeOK, Images!Kept,
        Images!ConsumeImage
<1>7. QED
    BY <1>4, <1>6 DEF Images!TypesInv

LEMMA ImagesTypesImageMade ==
    ASSUME Images!TypesInv, NEW t \in Pair, Images!ImageMade(t)
    PROVE  Images!TypesInv'
<1>1. /\ counter' \in [Images!Days -> Images!Row \cup {None}]
      /\ \A d \in Images!Days : counter'[d] = None => counter[d] = None
    BY ImagesConstants DEF Images!TypesInv, Images!TypeOK, Images!Kept, Images!Row, Images!ImageMade
<1>2. /\ turn' \in [Pair -> Images!Request \cup {None}]
      /\ \A u \in Pair : quotaPc'[u] # "idle" => turn'[u] \in Images!Request
    BY DEF Images!TypesInv, Images!TypeOK, Images!Kept, Images!Request, Images!ImageMade
<1>3. /\ lost' \in [Images!Days -> [slots : Nat, tokens : Nat]]
      /\ settled' \in [Images!Days -> Nat] /\ images' \in [Images!Days -> Nat]
    <2>1. imageDay[t] \in Images!Days /\ images \in [Images!Days -> Nat]
        BY ImagesRequest DEF Images!ImageMade, Images!TypesInv, Images!TypeOK
    <2>2. images' \in [Images!Days -> Nat]
        BY <2>1 DEF Images!ImageMade
    <2>3. QED
        BY <2>2 DEF Images!ImageMade, Images!TypesInv, Images!TypeOK
<1>4. Images!TypeOK'
    BY <1>1, <1>2, <1>3, ImagesConstants DEF Images!TypesInv, Images!TypeOK, Images!Kept,
        Images!ImageMade
<1>5. \A d \in Images!Days : counter'[d] = None =>
          /\ Images!Holding(d)' = {}
          /\ lost'[d].slots = 0 /\ lost'[d].tokens = 0 /\ settled'[d] = 0 /\ images'[d] = 0
    <2>1. SUFFICES ASSUME NEW d \in Images!Days, counter'[d] = None
                   PROVE  Images!Holding(d)' = {} /\ lost'[d].slots = 0 /\ lost'[d].tokens = 0 /\ settled'[d] = 0 /\ images'[d] = 0
        OBVIOUS
    <2>2. lost'[d].slots = 0 /\ lost'[d].tokens = 0 /\ settled'[d] = 0 /\ images'[d] = 0
        BY <1>1, <2>1, ImagesConstants DEF Images!TypesInv, Images!TypeOK, Images!Kept, Images!Holding,
            Images!Day, Images!Request, Images!ImageMade
    <2>3. Images!Holding(d)' = {}
        BY <1>1, <2>1, ImagesConstants DEF Images!TypesInv, Images!TypeOK, Images!Kept, Images!Holding,
            Images!Day, Images!Request, Images!ImageMade
    <2>4. QED
        BY <2>2, <2>3
<1>6. Images!Kept'
    BY <1>1, <1>2, <1>5, ImagesConstants DEF Images!TypesInv, Images!TypeOK, Images!Kept,
        Images!ImageMade
<1>7. QED
    BY <1>4, <1>6 DEF Images!TypesInv

LEMMA ImagesTypesRefundImage ==
    ASSUME Images!TypesInv, NEW t \in Pair, Images!RefundImage(t)
    PROVE  Images!TypesInv'
<1>1. /\ counter' \in [Images!Days -> Images!Row \cup {None}]
      /\ \A d \in Images!Days : counter'[d] = None => counter[d] = None
    <2> DEFINE row == counter[imageDay[t]]
               new == [row EXCEPT !.images = IF row.images > 0 THEN row.images - 1 ELSE row.images]
    <2>1. imageDay[t] \in Images!Days /\ row \in Images!Row
        BY ImagesRequest DEF Images!RefundImage, Images!TypesInv, Images!TypeOK
    <2>2. new \in Images!Row
        BY <2>1, ImagesRows DEF Images!RefundImage, Images!Row
    <2>3. counter' = counter \/ counter' = [counter EXCEPT ![imageDay[t]] = new]
        BY DEF Images!RefundImage
    <2> HIDE DEF row, new
    <2>4. QED
        BY <2>1, <2>2, <2>3, ImagesRows DEF Images!TypesInv, Images!TypeOK
<1>2. /\ turn' \in [Pair -> Images!Request \cup {None}]
      /\ \A u \in Pair : quotaPc'[u] # "idle" => turn'[u] \in Images!Request
    BY DEF Images!TypesInv, Images!TypeOK, Images!Kept, Images!Request, Images!RefundImage
<1>3. /\ lost' \in [Images!Days -> [slots : Nat, tokens : Nat]]
      /\ settled' \in [Images!Days -> Nat] /\ images' \in [Images!Days -> Nat]
    BY ImagesConstants DEF Images!TypesInv, Images!TypeOK, Images!Kept, Images!Request,
        Images!RefundImage
<1>4. Images!TypeOK'
    BY <1>1, <1>2, <1>3, ImagesConstants DEF Images!TypesInv, Images!TypeOK, Images!Kept,
        Images!RefundImage
<1>5. \A d \in Images!Days : counter'[d] = None =>
          /\ Images!Holding(d)' = {}
          /\ lost'[d].slots = 0 /\ lost'[d].tokens = 0 /\ settled'[d] = 0 /\ images'[d] = 0
    <2>1. SUFFICES ASSUME NEW d \in Images!Days, counter'[d] = None
                   PROVE  Images!Holding(d)' = {} /\ lost'[d].slots = 0 /\ lost'[d].tokens = 0 /\ settled'[d] = 0 /\ images'[d] = 0
        OBVIOUS
    <2>2. lost'[d].slots = 0 /\ lost'[d].tokens = 0 /\ settled'[d] = 0 /\ images'[d] = 0
        BY <1>1, <2>1, ImagesConstants DEF Images!TypesInv, Images!TypeOK, Images!Kept, Images!Holding,
            Images!Day, Images!Request, Images!RefundImage
    <2>3. Images!Holding(d)' = {}
        <3>1. counter[d] = None /\ Images!Holding(d) = {}
            BY <1>1, <2>1 DEF Images!TypesInv, Images!Kept
        <3>2. /\ turn' = turn
              /\ \A u \in Pair : quotaPc'[u] \in {"running", "imaging"} => quotaPc[u] \in {"running", "imaging"}
            BY DEF Images!RefundImage, Images!TypesInv, Images!TypeOK
        <3>3. QED
            BY <3>1, <3>2 DEF Images!Holding, Images!Day
    <2>4. QED
        BY <2>2, <2>3
<1>6. Images!Kept'
    BY <1>1, <1>2, <1>5, ImagesConstants DEF Images!TypesInv, Images!TypeOK, Images!Kept,
        Images!RefundImage
<1>7. QED
    BY <1>4, <1>6 DEF Images!TypesInv

LEMMA ImagesTypesAbandonImage ==
    ASSUME Images!TypesInv, NEW t \in Pair, Images!AbandonImage(t)
    PROVE  Images!TypesInv'
<1>1. /\ counter' \in [Images!Days -> Images!Row \cup {None}]
      /\ \A d \in Images!Days : counter'[d] = None => counter[d] = None
    BY ImagesConstants DEF Images!TypesInv, Images!TypeOK, Images!Kept, Images!Row, Images!AbandonImage
<1>2. /\ turn' \in [Pair -> Images!Request \cup {None}]
      /\ \A u \in Pair : quotaPc'[u] # "idle" => turn'[u] \in Images!Request
    <2>1. turn[t] \in Images!Request /\ turn \in [Pair -> Images!Request \cup {None}]
        BY ImagesRequest DEF Images!AbandonImage, Images!TypesInv, Images!TypeOK
    <2>2. [turn[t] EXCEPT !.known = FALSE] \in Images!Request
        BY <2>1 DEF Images!Request
    <2>3. turn' = [turn EXCEPT ![t] = [turn[t] EXCEPT !.known = FALSE]]
        BY DEF Images!AbandonImage
    <2>4. QED
        BY <2>1, <2>2, <2>3 DEF Images!TypesInv, Images!TypeOK, Images!Kept, Images!AbandonImage
<1>3. /\ lost' \in [Images!Days -> [slots : Nat, tokens : Nat]]
      /\ settled' \in [Images!Days -> Nat] /\ images' \in [Images!Days -> Nat]
    <2>1. imageDay[t] \in Images!Days /\ images \in [Images!Days -> Nat]
        BY ImagesRequest DEF Images!AbandonImage, Images!TypesInv, Images!TypeOK
    <2>2. images' \in [Images!Days -> Nat]
        BY <2>1 DEF Images!AbandonImage
    <2>3. QED
        BY <2>2 DEF Images!AbandonImage, Images!TypesInv, Images!TypeOK
<1>4. Images!TypeOK'
    BY <1>1, <1>2, <1>3, ImagesConstants DEF Images!TypesInv, Images!TypeOK, Images!Kept,
        Images!AbandonImage
<1>5. \A d \in Images!Days : counter'[d] = None =>
          /\ Images!Holding(d)' = {}
          /\ lost'[d].slots = 0 /\ lost'[d].tokens = 0 /\ settled'[d] = 0 /\ images'[d] = 0
    <2>1. SUFFICES ASSUME NEW d \in Images!Days, counter'[d] = None
                   PROVE  Images!Holding(d)' = {} /\ lost'[d].slots = 0 /\ lost'[d].tokens = 0 /\ settled'[d] = 0 /\ images'[d] = 0
        OBVIOUS
    <2>2. lost'[d].slots = 0 /\ lost'[d].tokens = 0 /\ settled'[d] = 0 /\ images'[d] = 0
        BY <1>1, <2>1, ImagesConstants DEF Images!TypesInv, Images!TypeOK, Images!Kept, Images!Holding,
            Images!Day, Images!Request, Images!AbandonImage
    <2>3. Images!Holding(d)' = {}
        BY <1>1, <2>1, ImagesConstants DEF Images!TypesInv, Images!TypeOK, Images!Kept, Images!Holding,
            Images!Day, Images!Request, Images!AbandonImage
    <2>4. QED
        BY <2>2, <2>3
<1>6. Images!Kept'
    BY <1>1, <1>2, <1>5, ImagesConstants DEF Images!TypesInv, Images!TypeOK, Images!Kept,
        Images!AbandonImage
<1>7. QED
    BY <1>4, <1>6 DEF Images!TypesInv

LEMMA ImagesTypesCrash ==
    ASSUME Images!TypesInv, Images!Crash
    PROVE  Images!TypesInv'
<1>1. \A d \in Images!Days : Images!Outstanding(d) \in Nat /\ Images!TutorTurns(Images!Holding(d)) \in Nat
    BY ImagesNatural
<1>2. lost' \in [Images!Days -> [slots : Nat, tokens : Nat]]
    BY <1>1 DEF Images!TypesInv, Images!TypeOK, Images!Crash
<1>3. Images!TypeOK'
    <2>1. crashes' \in 0..MaxCrashes
        BY ImagesConstants DEF Images!TypesInv, Images!TypeOK, Images!Crash
    <2>2. quotaPc' \in [Pair -> {"idle", "reserving", "orphaned", "running", "imaging"}]
        BY DEF Images!Crash
    <2>3. imageDay' \in [Pair -> Images!Days \cup {None}]
        BY DEF Images!Crash
    <2>4. UNCHANGED <<today, counter, turn, settled, images>>
        BY DEF Images!Crash
    <2>5. QED
        BY <1>2, <2>1, <2>2, <2>3, <2>4 DEF Images!TypesInv, Images!TypeOK
<1>4. \A d \in Images!Days : Images!Holding(d) = {} => Images!Outstanding(d) = 0 /\ Images!TutorTurns(Images!Holding(d)) = 0
    <2>1. SUFFICES ASSUME NEW d \in Images!Days, Images!Holding(d) = {}
                   PROVE  Images!Outstanding(d) = 0 /\ Images!TutorTurns(Images!Holding(d)) = 0
        OBVIOUS
    <2>2. Images!Outstanding(d) = 0
        BY <2>1, ImagesOutstanding, SumSteps
    <2>3. {t \in Images!Holding(d) : turn[t].kind = "tutor"} = {}
        BY <2>1
    <2>4. Images!TutorTurns(Images!Holding(d)) = 0
        BY <2>3, ImagesCount, FS_EmptySet DEF Images!TutorTurns
    <2>5. QED
        BY <2>2, <2>4
<1>5. Images!Kept'
    BY <1>4 DEF Images!TypesInv, Images!TypeOK, Images!Kept, Images!Holding, Images!Crash
<1>6. QED
    BY <1>3, <1>5 DEF Images!TypesInv

LEMMA ImagesTypesNext == Images!TypesInv /\ Images!Next => Images!TypesInv'
BY ImagesTypesNextDay, ImagesTypesBegin, ImagesTypesReserve, ImagesTypesRefused, ImagesTypesCancelReserving,
   ImagesTypesReserveForNobody, ImagesTypesCall, ImagesTypesRelease, ImagesTypesConsumeImage, ImagesTypesImageMade,
   ImagesTypesRefundImage, ImagesTypesAbandonImage, ImagesTypesCrash
   DEF Images!Next

\* The requests whose image is being made and counts on day d.
Imaging(d) == {t \in Pair : imageDay[t] = d}

LEMMA ImagingIsCounted ==
    /\ \A d : /\ IsFiniteSet(Imaging(d)) /\ Cardinality(Imaging(d)) \in Nat
              /\ IsFiniteSet(Imaging(d)') /\ Cardinality(Imaging(d)') \in Nat
    /\ Images!ImagesAreCounted <=>
           \A d \in Images!Days : counter[d] # None =>
               /\ counter[d].images <= ImagesPerDay
               /\ images[d] + Cardinality(Imaging(d)) <= counter[d].images
    /\ Images!ImagesAreCounted' <=>
           \A d \in Images!Days : counter'[d] # None =>
               /\ counter'[d].images <= ImagesPerDay
               /\ images'[d] + Cardinality(Imaging(d)') <= counter'[d].images
<1>1. \A d : Imaging(d) \subseteq Pair /\ Imaging(d)' \subseteq Pair
    BY DEF Imaging
<1>2. \A d : /\ IsFiniteSet(Imaging(d)) /\ Cardinality(Imaging(d)) \in Nat
             /\ IsFiniteSet(Imaging(d)') /\ Cardinality(Imaging(d)') \in Nat
    BY <1>1, ImagesConstants, FS_Subset, FS_CardinalityType
<1>3. \A d : /\ Images!Cardinality({t \in Pair : imageDay[t] = d}) = Cardinality(Imaging(d))
             /\ Images!Cardinality({t \in Pair : imageDay'[t] = d}) = Cardinality(Imaging(d)')
    BY ImagesCount DEF Imaging
<1>4. QED
    BY <1>2, <1>3 DEF Images!ImagesAreCounted

\* A step that makes, counts and refunds no image.
LEMMA ImagesStay ==
    ASSUME Images!ImageInv, Images!TypesInv', images' = images,
           \A d \in Images!Days :
               /\ Imaging(d)' \subseteq Imaging(d)
               /\ counter'[d] # None =>
                      counter'[d].images = IF counter[d] = None THEN 0 ELSE counter[d].images
    PROVE  Images!ImageInv'
<1>1. ASSUME NEW d \in Images!Days, counter'[d] # None
      PROVE  /\ counter'[d].images <= ImagesPerDay
             /\ images'[d] + Cardinality(Imaging(d)') <= counter'[d].images
    <2>1. Cardinality(Imaging(d)') <= Cardinality(Imaging(d))
        BY ImagingIsCounted, FS_Subset
    <2>2. images[d] \in Nat /\ Cardinality(Imaging(d)) \in Nat /\ Cardinality(Imaging(d)') \in Nat
        BY ImagingIsCounted DEF Images!ImageInv, Images!TypesInv, Images!TypeOK
    <2>3. CASE counter[d] = None
        <3>1. images[d] = 0 /\ Imaging(d) = {}
            <4>1. d \in Images!Days /\ d # None
                BY ImagesConstants
            <4>2. images[d] = 0
                BY <2>3 DEF Images!ImageInv, Images!TypesInv, Images!Kept
            <4>3. \A t \in Pair : imageDay[t] # d
                BY <2>3, <4>1 DEF Images!ImageInv, Images!TypesInv, Images!Kept
            <4>4. QED
                BY <4>2, <4>3 DEF Imaging
        <3>2. Cardinality(Imaging(d)) = 0
            BY <3>1, FS_EmptySet
        <3>3. QED
            BY <1>1, <2>1, <2>2, <2>3, <3>1, <3>2, ImagesConstants
    <2>4. CASE counter[d] # None
        <3>1. counter[d] \in Images!Row
            BY <2>4 DEF Images!ImageInv, Images!TypesInv, Images!TypeOK
        <3>2. counter[d].images \in Nat
            BY <3>1, ImagesRows
        <3>3. /\ counter[d].images <= ImagesPerDay
              /\ images[d] + Cardinality(Imaging(d)) <= counter[d].images
            BY <2>4, ImagingIsCounted DEF Images!ImageInv
        <3>4. QED
            BY <1>1, <2>1, <2>2, <2>4, <3>2, <3>3
    <2>5. QED
        BY <2>3, <2>4
<1>2. QED
    BY <1>1, ImagingIsCounted DEF Images!ImageInv

LEMMA ImagesQuietly ==
    ASSUME Images!ImageInv, Images!TypesInv', NEW t \in Pair,
           \/ \E kind \in Images!Kinds, n \in {1} : Images!Begin(t, kind, n)
           \/ Images!Reserve(t) \/ Images!Refused(t) \/ Images!CancelReserving(t)
           \/ Images!ReserveForNobody(t) \/ Images!Call(t) \/ Images!Release(t)
    PROVE  Images!ImageInv'
<1>1. images' = images /\ imageDay' = imageDay
    BY DEF Images!Begin, Images!Reserve, Images!Refused, Images!CancelReserving,
        Images!ReserveForNobody, Images!Call, Images!Release
<1>2. \A d : Imaging(d)' = Imaging(d)
    BY <1>1 DEF Imaging
<1>3. Images!TypesInv /\ counter \in [Images!Days -> Images!Row \cup {None}]
    BY DEF Images!ImageInv, Images!TypesInv, Images!TypeOK
<1>4. \A d \in Images!Days : counter'[d] # None =>
          counter'[d].images = IF counter[d] = None THEN 0 ELSE counter[d].images
    <2>1. CASE Images!Reserve(t) \/ Images!ReserveForNobody(t)
        <3> DEFINE new == Images!Charged(counter[Images!Day(t)], t)
        <3>1. Images!Day(t) \in Images!Days /\ quotaPc[t] # "idle" /\ Images!Admits(t)
            BY <1>3, <2>1, ImagesRequest DEF Images!Reserve, Images!ReserveForNobody
        <3>2. new.images = IF counter[Images!Day(t)] = None THEN 0 ELSE counter[Images!Day(t)].images
            BY <1>3, <3>1, ImagesCharge
        <3>3. counter' = [counter EXCEPT ![Images!Day(t)] = new]
            BY <2>1 DEF Images!Reserve, Images!ReserveForNobody
        <3> HIDE DEF new
        <3>4. QED
            BY <1>3, <3>1, <3>2, <3>3
    <2>2. CASE Images!Release(t)
        <3>1. Images!Day(t) \in Images!Days /\ counter[Images!Day(t)] \in Images!Row
            BY <1>3, <2>2, ImagesRequest DEF Images!Release
        <3>2. PICK new : /\ counter' = [counter EXCEPT ![Images!Day(t)] = new]
                         /\ new.images = counter[Images!Day(t)].images
            <4> DEFINE row == counter[Images!Day(t)]
                       new == [row EXCEPT
                                  !.active = Images!AtLeast0(row.active - Images!Concurrent(t)),
                                  !.reserved = Images!AtLeast0(row.reserved - Images!Refund(t))]
            <4>1. new.images = row.images
                BY <3>1 DEF Images!Row
            <4>2. counter' = [counter EXCEPT ![Images!Day(t)] = new]
                BY <2>2 DEF Images!Release
            <4> HIDE DEF new
            <4>3. QED
                BY <4>1, <4>2
        <3>3. counter[Images!Day(t)] # None
            BY <3>1, ImagesRows
        <3>4. QED
            BY <1>3, <3>1, <3>2, <3>3
    <2>3. CASE counter' = counter
        BY <2>3
    <2>4. QED
        BY <2>1, <2>2, <2>3 DEF Images!Begin, Images!Refused, Images!CancelReserving, Images!Call
<1>5. QED
    BY <1>1, <1>2, <1>4, ImagesStay

\* The day of one image, and the other days.
LEMMA ImagesChange ==
    ASSUME Images!ImageInv, Images!TypesInv', NEW e \in Images!Days, counter'[e] # None,
           counter'[e].images <= ImagesPerDay,
           images'[e] + Cardinality(Imaging(e)') <= counter'[e].images,
           \A d \in Images!Days : d # e => /\ counter'[d] = counter[d] /\ images'[d] = images[d]
                                           /\ Imaging(d)' = Imaging(d)
    PROVE  Images!ImageInv'
BY ImagingIsCounted DEF Images!ImageInv

LEMMA ImagesConsumed ==
    ASSUME Images!ImageInv, Images!TypesInv', NEW t \in Pair, Images!ConsumeImage(t)
    PROVE  Images!ImageInv'
<1>1. PICK e \in Images!Days : e = today
    BY DEF Images!ImageInv, Images!TypesInv, Images!TypeOK
<1>2. /\ imageDay \in [Pair -> Images!Days \cup {None}] /\ imageDay[t] = None
      /\ counter \in [Images!Days -> Images!Row \cup {None}] /\ counter[e] \in Images!Row
      /\ images[e] \in Nat
    <2>1. /\ imageDay \in [Pair -> Images!Days \cup {None}] /\ images \in [Images!Days -> Nat]
          /\ counter \in [Images!Days -> Images!Row \cup {None}]
        BY DEF Images!ImageInv, Images!TypesInv, Images!TypeOK
    <2>2. quotaPc[t] = "running" /\ counter[e] # None
        BY <1>1 DEF Images!ConsumeImage
    <2>3. imageDay[t] = None
        BY <2>2 DEF Images!ImageInv, Images!TypesInv, Images!Kept
    <2>4. QED
        BY <2>1, <2>2, <2>3
<1>3. Imaging(e)' = Imaging(e) \cup {t} /\ \A d \in Images!Days : d # e => Imaging(d)' = Imaging(d)
    <2>1. \A d \in Images!Days : d # None
        BY ImagesConstants
    <2>2. imageDay' = [imageDay EXCEPT ![t] = e]
        BY <1>1 DEF Images!ConsumeImage
    <2>3. QED
        BY <1>2, <2>1, <2>2 DEF Imaging
<1>4. t \notin Imaging(e)
    BY <1>1, <1>2, ImagesConstants DEF Imaging
<1>5. Cardinality(Imaging(e)') = Cardinality(Imaging(e)) + 1 /\ Cardinality(Imaging(e)) \in Nat
    BY <1>3, <1>4, ImagingIsCounted, FS_AddElement
<1> DEFINE row == counter[e]
           new == [row EXCEPT !.images = row.images + 1]
<1>6. counter' = [counter EXCEPT ![e] = new] /\ new.images = row.images + 1 /\ row.images \in Nat
    BY <1>1, <1>2, ImagesRows DEF Images!ConsumeImage, Images!Row
<1>7. row.images < ImagesPerDay /\ images[e] + Cardinality(Imaging(e)) <= row.images
    BY <1>1, <1>2, ImagesRows, ImagingIsCounted DEF Images!ImageInv, Images!ConsumeImage
<1>8. images' = images
    BY DEF Images!ConsumeImage
<1>9. counter'[e] # None
    <2>1. imageDay'[t] = e /\ e # None
        BY <1>1, <1>2, ImagesConstants DEF Images!ConsumeImage
    <2>2. QED
        BY <1>1, <2>1 DEF Images!TypesInv, Images!Kept
<1> HIDE DEF new
<1>10. counter'[e].images = row.images + 1 /\ \A d \in Images!Days : d # e => counter'[d] = counter[d]
    BY <1>2, <1>6
<1> HIDE DEF row
<1>11. /\ counter'[e].images <= ImagesPerDay
       /\ images'[e] + Cardinality(Imaging(e)') <= counter'[e].images
    BY <1>2, <1>5, <1>6, <1>7, <1>8, <1>10, ImagesConstants
<1>12. QED
    BY <1>3, <1>8, <1>9, <1>10, <1>11, ImagesChange

LEMMA ImagesOver ==
    ASSUME Images!ImageInv, Images!TypesInv', NEW t \in Pair,
           Images!ImageMade(t) \/ Images!RefundImage(t) \/ Images!AbandonImage(t)
    PROVE  Images!ImageInv'
<1>1. /\ Images!TypesInv /\ quotaPc[t] = "imaging" /\ imageDay' = [imageDay EXCEPT ![t] = None]
      /\ imageDay \in [Pair -> Images!Days \cup {None}] /\ images \in [Images!Days -> Nat]
      /\ counter \in [Images!Days -> Images!Row \cup {None}]
    BY DEF Images!ImageInv, Images!TypesInv, Images!TypeOK, Images!ImageMade, Images!RefundImage,
        Images!AbandonImage
<1>2. PICK e \in Images!Days : e = imageDay[t] /\ counter[e] \in Images!Row
    BY <1>1, ImagesRequest
<1>3. Imaging(e)' = Imaging(e) \ {t} /\ t \in Imaging(e) /\ \A d \in Images!Days : d # e => Imaging(d)' = Imaging(d)
    <2>1. None \notin Images!Days
        BY ImagesConstants
    <2>2. QED
        BY <1>1, <1>2, <2>1 DEF Imaging
<1>4. /\ Cardinality(Imaging(e)') = Cardinality(Imaging(e)) - 1
      /\ Cardinality(Imaging(e)) \in Nat /\ Cardinality(Imaging(e)') \in Nat
    BY <1>3, ImagingIsCounted, FS_RemoveElement
<1>5. counter[e].images \in Nat /\ images[e] \in Nat /\ counter[e] # None
    BY <1>1, <1>2, ImagesRows
<1>6. /\ counter[e].images <= ImagesPerDay
      /\ images[e] + Cardinality(Imaging(e)) <= counter[e].images
    BY <1>5, ImagingIsCounted DEF Images!ImageInv
<1>7. CASE Images!ImageMade(t) \/ Images!AbandonImage(t)
    <2>1. /\ counter' = counter /\ (images'[e] = images[e] + 1 \/ images'[e] = images[e])
          /\ \A d \in Images!Days : d # e => images'[d] = images[d]
        BY <1>1, <1>2, <1>7 DEF Images!ImageMade, Images!AbandonImage
    <2>2. images'[e] + Cardinality(Imaging(e)') <= counter'[e].images
        BY <1>4, <1>5, <1>6, <2>1
    <2>3. QED
        BY <1>3, <1>5, <1>6, <2>1, <2>2, ImagesChange
<1>8. CASE Images!RefundImage(t)
    <2> DEFINE row == counter[e]
               new == [row EXCEPT !.images = row.images - 1]
    <2>1. row.images > 0
        BY <1>4, <1>5, <1>6
    <2>2. /\ counter' = [counter EXCEPT ![e] = new] /\ images' = images
          /\ new.images = row.images - 1
        BY <1>2, <1>8, <2>1 DEF Images!RefundImage, Images!Row
    <2> HIDE DEF new
    <2>3. /\ counter'[e].images = counter[e].images - 1
          /\ \A d \in Images!Days : d # e => counter'[d] = counter[d]
        BY <1>1, <2>2
    <2>4. counter'[e] # None
        <3>1. new \in Images!Row
            <4>1. row \in Images!Row /\ row.images - 1 \in Nat
                BY <1>2, <1>5, <2>1
            <4>2. QED
                BY <4>1 DEF new, Images!Row
        <3>2. QED
            BY <1>1, <2>2, <3>1, ImagesRows
    <2>5. /\ counter'[e].images <= ImagesPerDay
          /\ images'[e] + Cardinality(Imaging(e)') <= counter'[e].images
        BY <1>4, <1>5, <1>6, <2>2, <2>3, ImagesConstants
    <2>6. QED
        BY <1>3, <2>2, <2>3, <2>4, <2>5, ImagesChange
<1>9. QED
    BY <1>7, <1>8

LEMMA ImagesInvInit == Images!Init => Images!ImageInv
<1> SUFFICES ASSUME Images!Init PROVE Images!ImageInv
    OBVIOUS
<1>1. Images!ImagesAreCounted
    BY DEF Images!Init, Images!ImagesAreCounted
<1>2. QED
    BY <1>1, ImagesTypesInit DEF Images!ImageInv

LEMMA ImagesNext == Images!ImageInv /\ Images!Next => Images!ImageInv'
<1> SUFFICES ASSUME Images!ImageInv, Images!Next PROVE Images!ImageInv'
    OBVIOUS
<1>1. Images!TypesInv
    BY DEF Images!ImageInv
<1>2. Images!TypesInv'
    BY <1>1, ImagesTypesNext
<1>3. CASE Images!NextDay \/ Images!Crash
    <2>1. images' = images /\ counter' = counter
        BY <1>3 DEF Images!NextDay, Images!Crash
    <2>2. \A d \in Images!Days : Imaging(d)' \subseteq Imaging(d)
        BY <1>3, ImagesConstants DEF Images!NextDay, Images!Crash, Imaging
    <2>3. QED
        BY <1>2, <2>1, <2>2, ImagesStay
<1>4. ASSUME NEW t \in Pair,
             \/ \E kind \in Images!Kinds, n \in {1} : Images!Begin(t, kind, n)
             \/ Images!Reserve(t) \/ Images!Refused(t) \/ Images!CancelReserving(t)
             \/ Images!ReserveForNobody(t) \/ Images!Call(t) \/ Images!Release(t)
             \/ Images!ConsumeImage(t) \/ Images!ImageMade(t) \/ Images!RefundImage(t)
             \/ Images!AbandonImage(t)
      PROVE  Images!ImageInv'
    BY <1>2, <1>4, ImagesQuietly, ImagesConsumed, ImagesOver
<1>5. QED
    BY <1>3, <1>4 DEF Images!Next

\* Both uses of the quota: tokens and slots of every request, images of tutor turns.
QuotaInv == (component = "quota" => Quota!Inv) /\ (component = "images" => Images!ImageInv)

LEMMA QuotaStep == QuotaInv /\ [Step]_vars => QuotaInv'
<1> SUFFICES ASSUME QuotaInv, [Step]_vars PROVE QuotaInv'
    OBVIOUS
<1>1. component' = component
    BY DEF Step, vars
<1>2. CASE component = "quota"
    <2>1. CASE Quota!Next
        BY <1>1, <1>2, <2>1, QuotaNext DEF QuotaInv
    <2>2. CASE UNCHANGED UsageQuotaVars
        <3>1. \A d \in Quota!Days : Quota!Holding(d)' = Quota!Holding(d)
            BY <2>2 DEF UsageQuotaVars, Quota!Holding, Quota!Day
        <3>2. Quota!TypesInv'
            BY <1>2, <2>2, <3>1 DEF QuotaInv, UsageQuotaVars, Quota!Inv, Quota!TypesInv, Quota!TypeOK,
                Quota!Kept
        <3>3. Quota!Inv'
            BY <1>2, <2>2, <3>1, <3>2, QuotaQuiet DEF QuotaInv, UsageQuotaVars
        <3>4. QED
            BY <1>1, <1>2, <3>3 DEF QuotaInv
    <2>3. QED
        BY <1>2, <2>1, <2>2 DEF Step, vars
<1>3. CASE component = "images"
    <2>1. CASE Images!Next
        BY <1>1, <1>3, <2>1, ImagesNext DEF QuotaInv
    <2>2. CASE UNCHANGED UsageQuotaVars
        <3>1. \A d \in Images!Days : Images!Holding(d)' = Images!Holding(d) /\ Imaging(d)' = Imaging(d)
            BY <2>2 DEF UsageQuotaVars, Images!Holding, Images!Day, Imaging
        <3>2. Images!TypesInv'
            BY <1>3, <2>2, <3>1 DEF QuotaInv, UsageQuotaVars, Images!ImageInv, Images!TypesInv,
                Images!TypeOK, Images!Kept
        <3>3. Images!ImageInv'
            BY <1>3, <2>2, <3>1, <3>2, ImagesStay, ImagesRows DEF QuotaInv, UsageQuotaVars,
                Images!ImageInv, Images!TypesInv, Images!Kept
        <3>4. QED
            BY <1>1, <1>3, <3>3 DEF QuotaInv
    <2>3. QED
        BY <1>3, <2>1, <2>2 DEF Step, vars
<1>4. QED
    BY <1>1, <1>2, <1>3 DEF QuotaInv

\* The slots and tokens counted on a day are exactly those of the requests in
\* progress, of those that are over, and of those nobody will settle; no more
\* turns of a day are in progress than the quota allows, and no more images
\* are made, through cancellation, midnight and the death of the process
\* (usage/repository.py, usage/quota_service.py).
THEOREM QuotaHolds == Spec => []QuotaIsAccounted
<1>1. Begin => QuotaInv
    BY QuotaInvInit, ImagesInvInit DEF Begin, QuotaInv
<1>2. QuotaInv => QuotaIsAccounted
    <2> SUFFICES ASSUME QuotaInv PROVE QuotaIsAccounted
        OBVIOUS
    <2>1. ASSUME component = "quota"
          PROVE  /\ Quota!TypeOK /\ Quota!SlotsAreAccounted /\ Quota!TokensAreAccounted
                 /\ Quota!TurnsOfADay
        BY <2>1 DEF QuotaInv, Quota!Inv, Quota!TypesInv
    <2>2. ASSUME component = "images", NEW d \in Images!Days
          PROVE  images[d] <= ImagesPerDay
        <3>1. /\ Images!TypesInv /\ images[d] \in Nat /\ Cardinality(Imaging(d)) \in Nat
              /\ counter[d] \in Images!Row \cup {None}
            BY <2>2, ImagingIsCounted DEF QuotaInv, Images!ImageInv, Images!TypesInv, Images!TypeOK
        <3>2. CASE counter[d] = None
            BY <3>1, <3>2, ImagesConstants DEF Images!TypesInv, Images!Kept
        <3>3. CASE counter[d] # None
            <4>1. /\ counter[d].images <= ImagesPerDay
                  /\ images[d] + Cardinality(Imaging(d)) <= counter[d].images
                BY <2>2, <3>3, ImagingIsCounted DEF QuotaInv, Images!ImageInv
            <4>2. counter[d].images \in Nat
                BY <3>1, <3>3, ImagesRows
            <4>3. QED
                BY <3>1, <4>1, <4>2, ImagesConstants
        <3>4. QED
            BY <3>2, <3>3
    <2>3. QED
        BY <2>1, <2>2 DEF QuotaIsAccounted, Images!ImagesOfADay
<1>3. QED
    BY <1>1, <1>2, QuotaStep, PTL DEF Spec

----------------------------------------------------------------------------
(* The runs of practice exams.                                             *)

\* The constants of the runs.
LEMMA ExamsConstants ==
    /\ Slots \in Nat /\ MaxTerminal \in Nat \ {0} /\ MaxRuns \in Nat \ {0}
    /\ Exams!Runs = 1..MaxRuns
    /\ None \notin Exams!Runs /\ None \notin Exams!Records /\ None \notin Exams!Owners
BY ExamsAssumption DEF Exams!ExamsAssumption, Exams!Runs

\* The cardinality of sets, as the runs have it.
LEMMA ExamsCount ==
    ASSUME NEW S
    PROVE  Exams!Cardinality(S) = Cardinality(S)
BY DEF Exams!Cardinality, Cardinality

\* Where pruning cuts the list of ended records.
Cut == IF Len(ended) < MaxTerminal THEN 0 ELSE Len(ended) - MaxTerminal + 1

\* Pruning splits the list of ended records behind its oldest.
LEMMA ExamsPruned ==
    ASSUME ended \in Seq(Pair), Exams!IsInjective(ended),
           NEW kept, kept = Exams!Pruned(ended).kept,
           NEW gone, gone = Exams!ToSet(Exams!Pruned(ended).others)
    PROVE  /\ Len(ended) \in Nat /\ Cut \in 0..Len(ended)
           /\ kept \in Seq(Pair) /\ Len(kept) = Len(ended) - Cut
           /\ \A i \in 1..Len(kept) : kept[i] = ended[Cut + i]
           /\ gone = {ended[i] : i \in 1..Cut}
           /\ Exams!ToSet(kept) = {ended[i] : i \in (Cut + 1)..Len(ended)}
           /\ Exams!ToSet(ended) = {ended[i] : i \in 1..Len(ended)}
           /\ Exams!ToSet(kept) = Exams!ToSet(ended) \ gone
<1> DEFINE others == SubSeq(ended, 1, Cut)
<1>1. Len(ended) \in Nat /\ DOMAIN ended = 1..Len(ended) /\ \A i \in 1..Len(ended) : ended[i] \in Pair
    BY LenProperties, ElementOfSeq
<1>2. Cut \in 0..Len(ended)
    BY <1>1, ExamsConstants DEF Cut
<1>3. others = Exams!Pruned(ended).others /\ kept = SubSeq(ended, Cut + 1, Len(ended))
    BY DEF Exams!Pruned, Cut
<1>4. /\ others \in Seq(Pair) /\ Len(others) = Cut
      /\ \A i \in 1..Cut : others[i] = ended[i]
    <2>1. \A i \in 1..Cut : ended[i] \in Pair
        BY <1>1, <1>2
    <2>2. /\ others \in Seq(Pair)
          /\ Len(others) = IF 1 <= Cut THEN Cut - 1 + 1 ELSE 0
          /\ \A i \in 1..(Cut - 1 + 1) : others[i] = ended[1 + i - 1]
        BY <1>2, <2>1, SubSeqProperties
    <2>3. QED
        BY <2>2, <1>2
<1>5. /\ kept \in Seq(Pair) /\ Len(kept) = Len(ended) - Cut
      /\ \A i \in 1..Len(kept) : kept[i] = ended[Cut + i]
    <2>1. \A i \in (Cut + 1)..Len(ended) : ended[i] \in Pair
        BY <1>1, <1>2
    <2>2. Cut + 1 \in Int /\ Len(ended) \in Int
        BY <1>1, <1>2
    <2> HIDE <1>3
    <2>3. /\ SubSeq(ended, Cut + 1, Len(ended)) \in Seq(Pair)
          /\ Len(SubSeq(ended, Cut + 1, Len(ended))) =
                IF Cut + 1 <= Len(ended) THEN Len(ended) - (Cut + 1) + 1 ELSE 0
          /\ \A i \in 1..(Len(ended) - (Cut + 1) + 1) :
                SubSeq(ended, Cut + 1, Len(ended))[i] = ended[Cut + 1 + i - 1]
        BY <2>1, <2>2, SubSeqProperties
    <2>4. QED
        BY <1>1, <1>2, <1>3, <2>3
<1>6. gone = {ended[i] : i \in 1..Cut}
    <2>1. DOMAIN others = 1..Cut
        BY <1>4, LenProperties
    <2>2. Exams!ToSet(others) = {others[i] : i \in 1..Cut}
        BY <2>1 DEF Exams!ToSet
    <2> QED
        BY <1>3, <1>4, <2>2
<1>7. Exams!ToSet(kept) = {ended[i] : i \in (Cut + 1)..Len(ended)}
    <2>1. DOMAIN kept = 1..Len(kept)
        BY <1>5, LenProperties
    <2>2. Exams!ToSet(kept) = {ended[Cut + i] : i \in 1..Len(kept)}
        BY <1>5, <2>1 DEF Exams!ToSet
    <2>3. ASSUME NEW i \in (Cut + 1)..Len(ended)
          PROVE  i - Cut \in 1..Len(kept) /\ Cut + (i - Cut) = i
        <3>1. Len(ended) \in Nat /\ Cut \in Nat
            BY <1>1, <1>2
        <3>2. Len(kept) = Len(ended) - Cut
            BY <1>5
        <3>3. i \in Int /\ Cut + 1 <= i /\ i <= Len(ended)
            BY <3>1
        <3>4. QED
            BY <3>1, <3>2, <3>3
    <2>4. ASSUME NEW i \in 1..Len(kept) PROVE Cut + i \in (Cut + 1)..Len(ended)
        <3>1. Len(ended) \in Nat /\ Cut \in Nat /\ Len(kept) = Len(ended) - Cut
            BY <1>1, <1>2, <1>5
        <3> HIDE DEF Cut
        <3>2. i \in Int /\ 1 <= i /\ i <= Len(kept)
            BY <3>1
        <3>3. QED
            BY <3>1, <3>2
    <2>5. Exams!ToSet(kept) \subseteq {ended[i] : i \in (Cut + 1)..Len(ended)}
        BY <2>2, <2>4
    <2>6. ASSUME NEW i \in (Cut + 1)..Len(ended) PROVE ended[i] \in Exams!ToSet(kept)
        <3>1. ended[Cut + (i - Cut)] = ended[i]
            BY <2>3
        <3> QED
            BY <2>2, <2>3, <3>1
    <2> QED
        BY <2>5, <2>6
<1>8. Exams!ToSet(ended) = {ended[i] : i \in 1..Len(ended)}
    BY <1>1 DEF Exams!ToSet
<1>9. Exams!ToSet(kept) = Exams!ToSet(ended) \ gone
    <2>1. \A i, j \in 1..Len(ended) : ended[i] = ended[j] => i = j
        BY <1>1 DEF Exams!IsInjective
    <2>2. \A i \in 1..Len(ended) : i \in 1..Cut \/ i \in (Cut + 1)..Len(ended)
        BY <1>1, <1>2
    <2>3. \A i \in (Cut + 1)..Len(ended) : i \in 1..Len(ended) /\ i \notin 1..Cut
        BY <1>1, <1>2
    <2>4. \A i \in 1..Cut : i \in 1..Len(ended)
        BY <1>1, <1>2
    <2> QED
        BY <1>6, <1>7, <1>8, <2>1, <2>2, <2>3, <2>4
<1>10. QED
    BY <1>1, <1>2, <1>5, <1>6, <1>7, <1>8, <1>9

\* What the end of record k by run r does to the records.
Ended(k, r, status, exam) ==
    /\ r \in Exams!Runs /\ k \in Pair
    /\ job[k] \in Exams!Records /\ job[k].status = "running"
    /\ job' \in [Pair -> Exams!Records \cup {None}]
    /\ job'[k] = [job[k] EXCEPT !.status = status, !.exam = exam]
    /\ \A j \in Pair \ {k} : job'[j] = job[j] \/ job'[j] = None
    /\ \A j \in Pair \ {k} : job'[j] # job[j] <=> j \in Exams!ToSet(Exams!Pruned(ended).others)
    /\ settler' = [settler EXCEPT ![k] = r]
    /\ ended' \in Seq(Pair)
    /\ Exams!ToSet(ended)' = {j \in Pair : Exams!IsTerminal(j)'}
    /\ Exams!IsInjective(ended)'

LEMMA ExamsSettle ==
    ASSUME Exams!Inv, NEW r \in 1..started, Exams!Active(r),
           NEW status \in Exams!Terminal, NEW exam \in Exams!Runs \cup {None},
           Exams!Settle(r, status, exam), NEW k, k = run[r].key
    PROVE  Ended(k, r, status, exam)
<1> DEFINE kept == Exams!Pruned(ended).kept
           gone == Exams!ToSet(Exams!Pruned(ended).others)
<1>1. /\ r \in Exams!Runs /\ run[r] \in Exams!Owners /\ k \in Pair
      /\ job[k] \in Exams!Records /\ job[k].status = "running"
    BY ExamsConstants DEF Exams!Inv, Exams!TypeOK, Exams!Active, Exams!Owns, Exams!Owners
<1>2. /\ Len(ended) \in Nat /\ Cut \in 0..Len(ended)
      /\ kept \in Seq(Pair) /\ Len(kept) = Len(ended) - Cut
      /\ \A i \in 1..Len(kept) : kept[i] = ended[Cut + i]
      /\ gone = {ended[i] : i \in 1..Cut}
      /\ Exams!ToSet(ended) = {ended[i] : i \in 1..Len(ended)}
      /\ Exams!ToSet(kept) = Exams!ToSet(ended) \ gone
    BY ExamsPruned DEF Exams!Inv, Exams!TypeOK
<1>3. gone \subseteq Exams!ToSet(ended)
    BY <1>2
<1>4. Exams!ToSet(ended) = {j \in Pair : job[j] # None /\ job[j].status \in Exams!Terminal}
    BY DEF Exams!Inv, Exams!TypeOK, Exams!IsTerminal
<1>5. k \notin Exams!ToSet(ended) /\ "running" \notin Exams!Terminal
    BY <1>1, <1>4 DEF Exams!Terminal
<1>6. /\ job' = [key \in Pair |->
              IF key = k THEN [job[k] EXCEPT !.status = status, !.exam = exam]
              ELSE IF key \in gone THEN None ELSE job[key]]
      /\ ended' = Append(kept, k)
      /\ settler' = [settler EXCEPT ![k] = r]
    BY DEF Exams!Settle
<1> HIDE DEF kept, gone
<1>7. [job[k] EXCEPT !.status = status, !.exam = exam] \in Exams!Records
    BY <1>1 DEF Exams!Records
<1>8. /\ job' \in [Pair -> Exams!Records \cup {None}]
      /\ job'[k] = [job[k] EXCEPT !.status = status, !.exam = exam]
      /\ \A j \in Pair \ {k} : job'[j] = IF j \in gone THEN None ELSE job[j]
    BY <1>1, <1>6, <1>7 DEF Exams!Inv, Exams!TypeOK
<1>9. job'[k] # None /\ job'[k].status \in Exams!Terminal
    BY <1>1, <1>7, <1>8, ExamsConstants DEF Exams!Records
<1>10. /\ ended' \in Seq(Pair) /\ Len(ended') = Len(kept) + 1 /\ Len(kept) \in Nat
       /\ \A i \in 1..Len(kept) : ended'[i] = kept[i]
       /\ ended'[Len(kept) + 1] = k
    BY <1>1, <1>2, <1>6, AppendProperties, LenProperties
<1>11. DOMAIN ended' = 1..(Len(kept) + 1) /\ DOMAIN kept = 1..Len(kept) /\ DOMAIN ended = 1..Len(ended)
    BY <1>2, <1>10, LenProperties DEF Exams!Inv, Exams!TypeOK
<1>12. Exams!ToSet(ended)' = Exams!ToSet(kept) \cup {k}
    <2>1. Exams!ToSet(ended)' = {ended'[i] : i \in 1..(Len(kept) + 1)}
        BY <1>11 DEF Exams!ToSet
    <2>2. Exams!ToSet(kept) = {kept[i] : i \in 1..Len(kept)}
        BY <1>11 DEF Exams!ToSet
    <2>3. \A i \in 1..(Len(kept) + 1) : i \in 1..Len(kept) \/ i = Len(kept) + 1
        BY <1>10
    <2>4. Len(kept) + 1 \in 1..(Len(kept) + 1) /\ \A i \in 1..Len(kept) : i \in 1..(Len(kept) + 1)
        BY <1>10
    <2>5. QED
        BY <1>10, <2>1, <2>2, <2>3, <2>4
<1>13. Exams!ToSet(ended)' = {j \in Pair : Exams!IsTerminal(j)'}
    <2>1. \A j \in Pair : Exams!IsTerminal(j)' <=> j = k \/ (j \in Exams!ToSet(ended) /\ j \notin gone)
        BY <1>4, <1>5, <1>8, <1>9 DEF Exams!IsTerminal
    <2>2. QED
        BY <1>1, <1>2, <1>4, <1>12, <2>1
<1>14. Exams!IsInjective(ended)'
    <2>1. \A i, j \in 1..Len(ended) : ended[i] = ended[j] => i = j
        BY <1>11 DEF Exams!IsInjective, Exams!Inv, Exams!TypeOK
    <2>2. ASSUME NEW i \in 1..Len(kept) PROVE Cut + i \in 1..Len(ended) /\ kept[i] # k
        <3>1. Len(ended) \in Nat /\ Cut \in Nat /\ Len(kept) = Len(ended) - Cut
            BY <1>2
        <3>2. Cut + i \in 1..Len(ended)
            BY <3>1
        <3>3. QED
            BY <1>2, <1>5, <3>2
    <2>3. ASSUME NEW i \in 1..(Len(kept) + 1), NEW j \in 1..(Len(kept) + 1), ended'[i] = ended'[j]
          PROVE  i = j
        <3>1. CASE i \in 1..Len(kept) /\ j \in 1..Len(kept)
            <4>1. ended[Cut + i] = ended[Cut + j]
                BY <1>2, <1>10, <2>3, <3>1
            <4>2. Cut + i = Cut + j
                BY <2>1, <2>2, <3>1, <4>1
            <4> QED
                BY <1>2, <3>1, <4>2
        <3>2. CASE i = Len(kept) + 1 /\ j \in 1..Len(kept)
            BY <1>10, <2>2, <2>3, <3>2
        <3>3. CASE j = Len(kept) + 1 /\ i \in 1..Len(kept)
            BY <1>10, <2>2, <2>3, <3>3
        <3> QED
            BY <1>10, <3>1, <3>2, <3>3
    <2> QED
        BY <1>11, <2>3 DEF Exams!IsInjective
<1>15. \A j \in Pair \ {k} : j \in gone => job[j] # None
    BY <1>3, <1>4
<1>16. QED
    BY <1>1, <1>6, <1>8, <1>10, <1>13, <1>14, <1>15 DEF gone, Ended

LEMMA ExamsInit == Exams!Init => Exams!Inv
<1> SUFFICES ASSUME Exams!Init PROVE Exams!Inv
    OBVIOUS
<1>1. /\ started = 0 /\ ended = <<>> /\ 1..started = {}
      /\ \A k \in Pair : job[k] = None /\ settler[k] = None
    BY DEF Exams!Init
<1>2. Exams!TypeOK
    BY <1>1, ExamsConstants
    DEF Exams!Init, Exams!TypeOK, Exams!ToSet, Exams!IsInjective, Exams!IsTerminal
<1>3. QED
    BY <1>1, <1>2 DEF Exams!Init, Exams!Inv, Exams!EndedByItsOwner, Exams!CompletedHasItsExam,
        Exams!NoRecordIsAbandoned, Exams!AttemptsRise, Exams!IsTerminal

\* A step that ends no record and begins no run: runs and threads go on, a
\* record that runs may change as long as its run keeps it.
LEMMA ExamsWork ==
    ASSUME Exams!Inv,
           UNCHANGED <<ended, exams, started, run, settler>>,
           job' \in [Pair -> Exams!Records \cup {None}],
           \A k \in Pair : \/ job'[k] = job[k]
                          \/ /\ job[k] # None /\ job'[k] # None
                             /\ job[k].status = "running" /\ job'[k].status = "running"
                             /\ job'[k].generation = job[k].generation
                             /\ job'[k].attempt = job[k].attempt,
           examPc' \in [Exams!Runs -> {"idle", "waiting", "planning", "write", "complete",
                                      "finally", "failing", "over", "dead"}],
           thread' \in [Exams!Runs -> SUBSET Exams!Threads],
           \A r \in Exams!Runs : "complete" \in thread'[r] => "complete" \in thread[r],
           \A r \in 1..started : examPc'[r] = "over" => examPc[r] = "over" \/ ~Exams!Active(r)
    PROVE  Exams!Inv'
<1>1. \A k \in Pair : /\ Exams!IsTerminal(k)' <=> Exams!IsTerminal(k)
                      /\ job'[k] = None <=> job[k] = None
                      /\ job'[k] # None => /\ job'[k].generation = job[k].generation
                                          /\ job'[k].attempt = job[k].attempt
                                          /\ job'[k].status = job[k].status
                      /\ Exams!IsTerminal(k) => job'[k] = job[k]
    BY DEF Exams!IsTerminal, Exams!Terminal
<1>2. Exams!TypeOK'
    BY <1>1 DEF Exams!Inv, Exams!TypeOK, Exams!ToSet, Exams!IsInjective
<1>3. \A r \in 1..started : r \in Exams!Runs /\ run[r] # None /\ run[r] \in Exams!Owners /\ run[r].key \in Pair
    <2>1. SUFFICES ASSUME NEW r \in 1..started
                   PROVE  r \in Exams!Runs /\ run[r] # None /\ run[r] \in Exams!Owners /\ run[r].key \in Pair
        OBVIOUS
    <2>2. started \in 0..MaxRuns /\ run[r] # None
        BY DEF Exams!Inv, Exams!TypeOK
    <2>3. r \in Exams!Runs
        BY <2>2, ExamsConstants
    <2>4. run[r] \in Exams!Owners
        BY <2>2, <2>3 DEF Exams!Inv, Exams!TypeOK
    <2>5. QED
        BY <2>2, <2>3, <2>4 DEF Exams!Owners
<1>4. \A r \in 1..started : Exams!Owns(r)' <=> Exams!Owns(r)
    BY <1>1, <1>3 DEF Exams!Owns
<1>5. \A r \in 1..started : Exams!Active(r)' <=> Exams!Active(r)
    BY <1>1, <1>3, <1>4 DEF Exams!Active, Exams!Owns
<1>6. Exams!EndedByItsOwner'
    <2>1. \A k \in Pair : Exams!IsTerminal(k) => settler[k] \in 1..started
        BY DEF Exams!Inv
    <2>2. QED
        BY <1>1, <1>4, <2>1 DEF Exams!Inv, Exams!EndedByItsOwner
<1>7. Exams!CompletedHasItsExam'
    BY <1>1 DEF Exams!Inv, Exams!CompletedHasItsExam, Exams!IsTerminal, Exams!Terminal
<1>8. Exams!NoRecordIsAbandoned'
    BY <1>5 DEF Exams!Inv, Exams!NoRecordIsAbandoned
<1>9. Exams!AttemptsRise'
    BY <1>1, <1>3 DEF Exams!Inv, Exams!AttemptsRise
<1>10. QED
    BY <1>1, <1>2, <1>6, <1>7, <1>8, <1>9 DEF Exams!Inv

\* A record is ended by the run that holds it.
LEMMA ExamsEnds ==
    ASSUME Exams!Inv, NEW r \in 1..started, Exams!Active(r),
           NEW status \in Exams!Terminal, NEW exam \in Exams!Runs \cup {None},
           Exams!Settle(r, status, exam),
           status = "completed" => exam = r /\ r \in exams,
           UNCHANGED <<exams, started, run>>,
           examPc' \in [Exams!Runs -> {"idle", "waiting", "planning", "write", "complete",
                                      "finally", "failing", "over", "dead"}],
           thread' \in [Exams!Runs -> SUBSET Exams!Threads],
           \A q \in Exams!Runs : "complete" \in thread'[q] => "complete" \in thread[q],
           \A q \in 1..started : examPc'[q] = "over" => examPc[q] = "over" \/ q = r
    PROVE  Exams!Inv'
<1> PICK k : k = run[r].key
    OBVIOUS
<1>0. Ended(k, r, status, exam)
    BY ExamsSettle
<1>1. /\ r \in Exams!Runs /\ k \in Pair
      /\ job[k] \in Exams!Records /\ job[k].status = "running"
      /\ job' \in [Pair -> Exams!Records \cup {None}]
      /\ job'[k] = [job[k] EXCEPT !.status = status, !.exam = exam]
      /\ \A j \in Pair \ {k} : job'[j] = job[j] \/ job'[j] = None
      /\ settler' = [settler EXCEPT ![k] = r]
    BY <1>0 DEF Ended
<1>2. /\ settler' \in [Pair -> Exams!Runs \cup {None}]
      /\ settler'[k] = r /\ \A j \in Pair \ {k} : settler'[j] = settler[j]
    BY <1>1 DEF Exams!Inv, Exams!TypeOK
<1>3. Exams!TypeOK'
    BY <1>0, <1>1, <1>2 DEF Ended, Exams!Inv, Exams!TypeOK
<1>4. /\ job'[k].generation = job[k].generation /\ job'[k].attempt = job[k].attempt
      /\ job'[k].status = status /\ job'[k].exam = exam /\ job'[k] # None /\ job[k] # None
    <2>1. [job[k] EXCEPT !.status = status, !.exam = exam] \in Exams!Records
        BY <1>1 DEF Exams!Records
    <2>2. job'[k] # None /\ job[k] # None
        BY <1>1, <2>1, ExamsConstants
    <2>3. QED
        BY <1>1, <2>2 DEF Exams!Records
<1>5. status \in Exams!Terminal /\ status # "running"
    BY DEF Exams!Terminal
<1>6. \A q \in 1..started : q \in Exams!Runs /\ run[q] # None /\ run[q] \in Exams!Owners /\ run[q].key \in Pair
    BY ExamsConstants DEF Exams!Inv, Exams!TypeOK, Exams!Owners
<1>7. \A q \in 1..started : Exams!Active(q)' => Exams!Active(q) /\ q # r
    BY <1>1, <1>4, <1>5, <1>6 DEF Exams!Active, Exams!Owns
<1>8. \A j \in Pair \ {k} : Exams!IsTerminal(j)' => Exams!IsTerminal(j) /\ job'[j] = job[j]
    BY <1>1 DEF Exams!IsTerminal
<1>9. Exams!EndedByItsOwner'
    <2>1. run[r].key = k /\ Exams!Owns(r)'
        BY <1>4 DEF Exams!Active, Exams!Owns
    <2>2. ASSUME NEW j \in Pair, Exams!IsTerminal(j)'
          PROVE  (run[settler[j]].key = j /\ Exams!Owns(settler[j]))'
        <3>1. CASE j = k
            BY <1>2, <2>1, <3>1 DEF Exams!Owns
        <3>2. CASE j # k
            <4>1. Exams!IsTerminal(j) /\ job'[j] = job[j] /\ settler'[j] = settler[j]
                BY <1>2, <1>8, <2>2, <3>2
            <4>2. run[settler[j]].key = j /\ Exams!Owns(settler[j])
                BY <4>1 DEF Exams!Inv, Exams!EndedByItsOwner
            <4>3. QED
                BY <4>1, <4>2 DEF Exams!Owns
        <3>3. QED
            BY <3>1, <3>2
    <2>3. QED
        BY <2>2 DEF Exams!EndedByItsOwner
<1>10. Exams!CompletedHasItsExam'
    <2>1. ASSUME NEW j \in Pair, job'[j] # None, job'[j].status = "completed"
          PROVE  job'[j].exam = settler'[j] /\ job'[j].exam \in exams'
        <3>1. CASE j = k
            BY <1>2, <1>4, <2>1, <3>1
        <3>2. CASE j # k
            BY <1>1, <1>2, <2>1, <3>2 DEF Exams!Inv, Exams!CompletedHasItsExam
        <3>3. QED
            BY <3>1, <3>2
    <2>2. QED
        BY <2>1 DEF Exams!CompletedHasItsExam
<1>11. Exams!NoRecordIsAbandoned'
    BY <1>7 DEF Exams!Inv, Exams!NoRecordIsAbandoned
<1>12. Exams!AttemptsRise'
    <2>1. \A j \in Pair : job'[j] # None => /\ job[j] # None
                                          /\ job'[j].generation = job[j].generation
                                          /\ job'[j].attempt = job[j].attempt
        BY <1>1, <1>4
    <2>2. QED
        BY <1>6, <2>1 DEF Exams!Inv, Exams!AttemptsRise
<1>13. \A j \in Pair : /\ settler'[j] # None => settler'[j] \in 1..started
                       /\ Exams!IsTerminal(j)' => settler'[j] # None
    BY <1>1, <1>2, <1>8, ExamsConstants DEF Exams!Inv
<1>14. QED
    BY <1>3, <1>9, <1>10, <1>11, <1>12, <1>13 DEF Exams!Inv

\* A request begins a run, whose number is new.
LEMMA ExamsBegin ==
    ASSUME Exams!Inv, NEW k \in Pair, Exams!Begin(k)
    PROVE  Exams!Inv'
<1> PICK new : new = started + 1
    OBVIOUS
<1>1. /\ started \in Nat /\ new \in Exams!Runs /\ started' = new /\ new \notin 1..started
      /\ 1..started' = 1..started \cup {new}
    BY ExamsConstants DEF Exams!Inv, Exams!TypeOK, Exams!Begin, Exams!BeginNew, Exams!Reclaim, Exams!StartRun
<1>2. PICK generation \in Exams!Runs, number \in Exams!Runs :
        /\ Exams!StartRun(k, generation, number)
        /\ generation + number <= new + 1
        /\ \/ job[k] = None /\ generation = new
           \/ /\ job[k] # None /\ job[k].status = "running"
              /\ generation = job[k].generation /\ number = job[k].attempt + 1
    <2>1. CASE Exams!BeginNew(k)
        BY <1>1, <2>1, ExamsConstants DEF Exams!BeginNew
    <2>2. CASE Exams!Reclaim(k)
        <3>1. job[k] \in Exams!Records
            BY <2>2 DEF Exams!Reclaim, Exams!Inv, Exams!TypeOK
        <3>2. /\ job[k].generation \in Exams!Runs /\ job[k].attempt \in Exams!Runs
              /\ job[k].generation + job[k].attempt <= started + 1
            BY <2>2, <3>1 DEF Exams!Reclaim, Exams!Records, Exams!Inv, Exams!AttemptsRise
        <3>3. job[k].attempt + 1 \in Exams!Runs
            BY <1>1, <3>2, ExamsConstants
        <3>4. QED
            BY <1>1, <2>2, <3>2, <3>3, ExamsConstants DEF Exams!Reclaim
    <2>3. QED
        BY <2>1, <2>2 DEF Exams!Begin
<1> DEFINE record == [generation |-> generation, attempt |-> number, status |-> "running",
                      exam |-> None, expired |-> FALSE]
           owner == [key |-> k, generation |-> generation, attempt |-> number]
<1>3. /\ record \in Exams!Records /\ owner \in Exams!Owners
      /\ record # None /\ owner # None
    <2>1. record \in Exams!Records /\ owner \in Exams!Owners
        BY DEF Exams!Records, Exams!Owners
    <2> HIDE DEF record, owner
    <2>2. QED
        BY <2>1, ExamsConstants
<1>4. /\ job' = [job EXCEPT ![k] = record] /\ run' = [run EXCEPT ![new] = owner]
      /\ examPc' = [examPc EXCEPT ![new] = "waiting"]
      /\ UNCHANGED <<ended, exams, thread, settler>>
    BY <1>2 DEF Exams!StartRun
<1>5. /\ job' \in [Pair -> Exams!Records \cup {None}]
      /\ job'[k] = record /\ \A j \in Pair \ {k} : job'[j] = job[j]
      /\ run' \in [Exams!Runs -> Exams!Owners \cup {None}]
      /\ run'[new] = owner /\ \A q \in 1..started : run'[q] = run[q]
      /\ examPc'[new] = "waiting" /\ \A q \in 1..started : examPc'[q] = examPc[q]
    BY <1>1, <1>3, <1>4, ExamsConstants DEF Exams!Inv, Exams!TypeOK
<1>6. \A q \in 1..started : q \in Exams!Runs /\ run[q] # None /\ run[q] \in Exams!Owners /\ run[q].key \in Pair
    BY ExamsConstants DEF Exams!Inv, Exams!TypeOK, Exams!Owners
<1>7. record.status = "running" /\ "running" \notin Exams!Terminal
    BY DEF Exams!Terminal
<1>8. ~Exams!IsTerminal(k) /\ \A j \in Pair : Exams!IsTerminal(j)' <=> Exams!IsTerminal(j)
    BY <1>2, <1>5, <1>7 DEF Exams!IsTerminal, Exams!Terminal
<1> HIDE DEF record, owner
<1>9. Exams!TypeOK'
    <2>1. exams \subseteq 1..started' /\ started' \in 0..MaxRuns
        BY <1>1, ExamsConstants DEF Exams!Inv, Exams!TypeOK
    <2>2. \A q \in 1..started' : run'[q] # None
        BY <1>1, <1>3, <1>5, <1>6
    <2>3. examPc' \in [Exams!Runs -> {"idle", "waiting", "planning", "write", "complete",
                                     "finally", "failing", "over", "dead"}]
        BY <1>4 DEF Exams!Inv, Exams!TypeOK
    <2>4. QED
        BY <1>4, <1>5, <1>8, <2>1, <2>2, <2>3
        DEF Exams!Inv, Exams!TypeOK, Exams!ToSet, Exams!IsInjective
<1>10. ASSUME NEW j \in Pair, Exams!IsTerminal(j)'
       PROVE  /\ job'[j] = job[j] /\ settler'[j] = settler[j]
              /\ run'[settler[j]] = run[settler[j]]
              /\ run[settler[j]].key = j /\ Exams!Owns(settler[j])
    <2>1. Exams!IsTerminal(j) /\ j # k
        BY <1>8, <1>10
    <2>2. settler[j] \in 1..started /\ run[settler[j]].key = j /\ Exams!Owns(settler[j])
        BY <2>1 DEF Exams!Inv, Exams!EndedByItsOwner
    <2>3. QED
        BY <1>4, <1>5, <2>1, <2>2
<1>11. Exams!EndedByItsOwner'
    BY <1>10 DEF Exams!EndedByItsOwner, Exams!Owns
<1>12. Exams!CompletedHasItsExam'
    BY <1>3, <1>4, <1>5, <1>7 DEF record, Exams!Inv, Exams!CompletedHasItsExam
<1>13. ASSUME NEW q \in 1..started, Exams!Active(q)'
       PROVE  Exams!Active(q)
    <2>1. CASE run[q].key # k
        BY <1>5, <1>6, <1>13, <2>1 DEF Exams!Active, Exams!Owns
    <2>2. CASE run[q].key = k
        <3>1. run[q].generation = generation /\ run[q].attempt = number
            BY <1>5, <1>13, <2>2 DEF record, Exams!Active, Exams!Owns
        <3>2. run[q].generation \in Exams!Runs /\ run[q].attempt \in Exams!Runs
            BY <1>6 DEF Exams!Owners
        <3>3. run[q].generation <= started
            BY DEF Exams!Inv, Exams!AttemptsRise
        <3>4. generation = job[k].generation /\ number = job[k].attempt + 1 /\ job[k] # None
            BY <1>1, <1>2, <3>1, <3>2, <3>3, ExamsConstants
        <3>5. run[q].attempt <= job[k].attempt /\ job[k] \in Exams!Records
            BY <2>2, <3>1, <3>4 DEF Exams!Inv, Exams!AttemptsRise, Exams!TypeOK
        <3>6. QED
            BY <3>1, <3>2, <3>4, <3>5, ExamsConstants DEF Exams!Records
    <2>3. QED
        BY <2>1, <2>2
<1>14. Exams!NoRecordIsAbandoned'
    BY <1>1, <1>5, <1>13 DEF Exams!Inv, Exams!NoRecordIsAbandoned
<1>15. Exams!AttemptsRise'
    <2>1. \A j \in Pair : job'[j] # None => job'[j].generation + job'[j].attempt <= started' + 1
        <3>1. \A j \in Pair : job[j] # None =>
                  /\ job[j].generation \in Nat /\ job[j].attempt \in Nat
                  /\ job[j].generation + job[j].attempt <= started + 1
            BY ExamsConstants DEF Exams!Inv, Exams!TypeOK, Exams!AttemptsRise, Exams!Records
        <3>2. record.generation + record.attempt <= started' + 1
            BY <1>1, <1>2 DEF record
        <3>3. QED
            BY <1>1, <1>5, <3>1, <3>2
    <2>2. run'[new].generation <= started' /\ run'[new].key = k
          /\ job'[k].generation = run'[new].generation /\ job'[k].attempt = run'[new].attempt
          /\ run'[new].attempt \in Nat
        BY <1>1, <1>2, <1>5, ExamsConstants DEF record, owner
    <2>3. ASSUME NEW q \in 1..started
          PROVE  /\ run'[q].generation <= started'
                 /\ job'[run'[q].key] # None /\ job'[run'[q].key].generation = run'[q].generation =>
                        run'[q].attempt <= job'[run'[q].key].attempt
        <3>1. /\ run[q].generation \in Nat /\ run[q].attempt \in Nat /\ run[q].generation <= started
              /\ run'[q] = run[q] /\ run[q].key \in Pair
            BY <1>5, <1>6, ExamsConstants DEF Exams!Owners, Exams!Inv, Exams!AttemptsRise
        <3>2. CASE run[q].key # k
            BY <1>1, <1>5, <3>1, <3>2 DEF Exams!Inv, Exams!AttemptsRise
        <3>3. CASE run[q].key = k
            <4>1. job'[k].generation = generation /\ job'[k].attempt = number
                BY <1>5 DEF record
            <4>2. CASE generation = new
                BY <1>1, <3>1, <3>3, <4>1, <4>2
            <4>3. CASE job[k] # None /\ generation = job[k].generation /\ number = job[k].attempt + 1
                <5>1. job[k].attempt \in Nat
                    BY <4>3, ExamsConstants DEF Exams!Inv, Exams!TypeOK, Exams!Records
                <5>2. run[q].generation = job[k].generation => run[q].attempt <= job[k].attempt
                    BY <3>3, <4>3 DEF Exams!Inv, Exams!AttemptsRise
                <5>3. QED
                    BY <1>1, <3>1, <3>3, <4>1, <4>3, <5>1, <5>2
            <4>4. QED
                BY <1>2, <4>2, <4>3
        <3>4. QED
            BY <3>2, <3>3
    <2>4. QED
        BY <1>1, <2>1, <2>2, <2>3 DEF Exams!AttemptsRise
<1>16. /\ \A j \in Pair : settler'[j] # None => settler'[j] \in 1..started'
       /\ \A j \in Pair : Exams!IsTerminal(j)' => settler'[j] # None
    BY <1>1, <1>4, <1>8 DEF Exams!Inv
<1>17. QED
    BY <1>4, <1>9, <1>11, <1>12, <1>14, <1>15, <1>16 DEF Exams!Inv

\* Every step keeps the invariant.
LEMMA ExamsNext ==
    ASSUME Exams!Inv, Exams!Next
    PROVE  Exams!Inv'
<1> DEFINE Pcs == {"idle", "waiting", "planning", "write", "complete", "finally", "failing",
                   "over", "dead"}
<1>1. /\ examPc \in [Exams!Runs -> Pcs] /\ thread \in [Exams!Runs -> SUBSET Exams!Threads]
      /\ job \in [Pair -> Exams!Records \cup {None}]
    BY DEF Exams!Inv, Exams!TypeOK
<1>2. ASSUME NEW r \in 1..started
      PROVE  r \in Exams!Runs /\ run[r].key \in Pair
    BY ExamsConstants DEF Exams!Inv, Exams!TypeOK, Exams!Owners
<1>3. ASSUME NEW k \in Pair, Exams!Expire(k) PROVE Exams!Inv'
    <2>1. job[k] \in Exams!Records /\ job[k].status = "running"
        BY <1>1, <1>3 DEF Exams!Expire
    <2>2. [job[k] EXCEPT !.expired = TRUE] \in Exams!Records
        BY <2>1 DEF Exams!Records
    <2>3. job' = [job EXCEPT ![k] = [job[k] EXCEPT !.expired = TRUE]]
        BY <1>3 DEF Exams!Expire
    <2>4. job'[k] # None /\ job'[k].status = "running"
          /\ job'[k].generation = job[k].generation /\ job'[k].attempt = job[k].attempt
        <3>1. job'[k] # None
            BY <1>1, <2>2, <2>3, ExamsConstants
        <3>2. QED
            BY <1>1, <2>1, <2>3, <3>1 DEF Exams!Records
    <2>5. QED
        BY <1>1, <1>3, <2>1, <2>2, <2>3, <2>4, ExamsWork, ExamsConstants DEF Exams!Expire
<1>4. ASSUME NEW r \in 1..started, Exams!AskRenewal(r) PROVE Exams!Inv'
    BY <1>1, <1>2, <1>4, ExamsWork DEF Exams!AskRenewal, Exams!Threads
<1>5. ASSUME NEW r \in 1..started, Exams!Renew(r) PROVE Exams!Inv'
    <2>1. /\ thread' \in [Exams!Runs -> SUBSET Exams!Threads]
          /\ \A q \in Exams!Runs : "complete" \in thread'[q] => "complete" \in thread[q]
          /\ UNCHANGED <<ended, exams, started, run, settler>>
        BY <1>1, <1>2, <1>5 DEF Exams!Renew
    <2>2. CASE Exams!Active(r) /\ UNCHANGED examPc
               /\ job' = [job EXCEPT ![run[r].key].status = "running",
                                     ![run[r].key].expired = FALSE, ![run[r].key].exam = None]
        <3>1. PICK k \in Pair : k = run[r].key
            BY <1>2
        <3>2. job[k] \in Exams!Records /\ job[k].status = "running"
            BY <1>1, <2>2, <3>1 DEF Exams!Active, Exams!Owns
        <3>3. job'[k] = [job[k] EXCEPT !.status = "running", !.expired = FALSE, !.exam = None]
              /\ \A j \in Pair \ {k} : job'[j] = job[j]
            BY <1>1, <2>2, <3>1
        <3>4. [job[k] EXCEPT !.status = "running", !.expired = FALSE, !.exam = None] \in Exams!Records
            BY <3>2 DEF Exams!Records
        <3>5. job'[k] # None /\ job[k] # None /\ job'[k].status = "running"
              /\ job'[k].generation = job[k].generation /\ job'[k].attempt = job[k].attempt
            BY <3>2, <3>3, <3>4, ExamsConstants DEF Exams!Records
        <3>6. job' \in [Pair -> Exams!Records \cup {None}]
            BY <1>1, <2>2, <3>1, <3>3, <3>4
        <3>7. QED
            BY <1>1, <2>1, <2>2, <3>2, <3>3, <3>5, <3>6, ExamsWork
    <2>3. CASE ~Exams!Active(r) /\ UNCHANGED job
               /\ examPc' = [examPc EXCEPT ![r] = IF @ \in Exams!Working THEN "finally" ELSE @]
        BY <1>1, <1>2, <2>1, <2>3, ExamsWork
    <2>4. QED
        BY <1>5, <2>2, <2>3 DEF Exams!Renew
<1>6. ASSUME NEW r \in 1..started, Exams!TakeSlot(r) \/ Exams!PlanFails(r) \/ Exams!Cancel(r)
      PROVE  Exams!Inv'
    <2>1. /\ UNCHANGED <<job, ended, exams, started, run, thread, settler>>
          /\ \/ examPc' = [examPc EXCEPT ![r] = "planning"]
             \/ examPc' = [examPc EXCEPT ![r] = "finally"]
        BY <1>6 DEF Exams!TakeSlot, Exams!PlanFails, Exams!Cancel
    <2>2. QED
        BY <1>1, <1>2, <2>1, ExamsWork
<1>7. ASSUME NEW r \in 1..started, Exams!PlanDone(r) PROVE Exams!Inv'
    <2>1. CASE Exams!Active(r)
        <3>1. PICK k \in Pair : k = run[r].key
            BY <1>2
        <3>2. job[k] \in Exams!Records /\ job[k].status = "running"
            BY <1>1, <2>1, <3>1 DEF Exams!Active, Exams!Owns
        <3>3. /\ job' = [job EXCEPT ![k].expired = FALSE]
              /\ examPc' = [examPc EXCEPT ![r] = "write"]
              /\ thread' = [thread EXCEPT ![r] = @ \cup {"write"}]
              /\ UNCHANGED <<ended, exams, started, run, settler>>
            BY <1>7, <2>1, <3>1 DEF Exams!PlanDone
        <3>4. [job[k] EXCEPT !.expired = FALSE] \in Exams!Records
            BY <3>2 DEF Exams!Records
        <3>5. job'[k] # None /\ job[k] # None /\ job'[k].status = "running"
              /\ job'[k].generation = job[k].generation /\ job'[k].attempt = job[k].attempt
            BY <1>1, <3>2, <3>3, <3>4, ExamsConstants DEF Exams!Records
        <3>6. /\ job' \in [Pair -> Exams!Records \cup {None}]
              /\ \A j \in Pair \ {k} : job'[j] = job[j]
            BY <1>1, <3>3, <3>4
        <3>7. /\ thread' \in [Exams!Runs -> SUBSET Exams!Threads] /\ examPc' \in [Exams!Runs -> Pcs]
              /\ \A q \in Exams!Runs : "complete" \in thread'[q] => "complete" \in thread[q]
              /\ \A q \in 1..started : examPc'[q] = "over" => examPc[q] = "over"
            BY <1>1, <1>2, <3>3 DEF Exams!Threads
        <3>8. QED
            BY <3>2, <3>3, <3>5, <3>6, <3>7, ExamsWork
    <2>2. CASE ~Exams!Active(r)
        BY <1>1, <1>2, <1>7, <2>2, ExamsWork DEF Exams!PlanDone
    <2>3. QED
        BY <2>1, <2>2
<1>8. ASSUME NEW r \in 1..started, Exams!WriteExam(r) PROVE Exams!Inv'
    <2>1. /\ exams' = exams \cup {r} /\ exams' \subseteq 1..started
          /\ UNCHANGED <<job, ended, started, run, settler>>
          /\ examPc' \in [Exams!Runs -> Pcs] /\ thread' \in [Exams!Runs -> SUBSET Exams!Threads]
          /\ \A q \in 1..started : examPc'[q] = "over" => examPc[q] = "over"
          /\ \A q \in Exams!Runs : "complete" \in thread'[q] => "complete" \in thread[q] \/ q = r
        BY <1>1, <1>2, <1>8 DEF Exams!WriteExam, Exams!Threads, Exams!Inv, Exams!TypeOK
    <2>2. Exams!TypeOK'
        BY <2>1 DEF Exams!Inv, Exams!TypeOK, Exams!ToSet, Exams!IsInjective, Exams!IsTerminal
    <2>3. QED
        BY <2>1, <2>2 DEF Exams!Inv, Exams!EndedByItsOwner, Exams!CompletedHasItsExam,
            Exams!NoRecordIsAbandoned, Exams!AttemptsRise, Exams!Active, Exams!Owns, Exams!IsTerminal
<1>9. ASSUME NEW r \in 1..started, Exams!Complete(r) PROVE Exams!Inv'
    <2>1. /\ UNCHANGED <<exams, started, run>> /\ r \in exams
          /\ examPc' \in [Exams!Runs -> Pcs] /\ thread' \in [Exams!Runs -> SUBSET Exams!Threads]
          /\ \A q \in 1..started : examPc'[q] = "over" => examPc[q] = "over"
          /\ \A q \in Exams!Runs : "complete" \in thread'[q] => "complete" \in thread[q]
        BY <1>1, <1>2, <1>9 DEF Exams!Complete, Exams!Inv
    <2>2. CASE Exams!Active(r) /\ Exams!Settle(r, "completed", r)
        <3>1. r \in Exams!Runs \cup {None} /\ "completed" \in Exams!Terminal
            BY <1>2 DEF Exams!Terminal
        <3>2. QED
            BY <2>1, <2>2, <3>1, ExamsEnds
    <2>3. CASE UNCHANGED <<job, ended, settler>>
        BY <1>1, <2>1, <2>3, ExamsWork
    <2>4. QED
        BY <1>9, <2>2, <2>3 DEF Exams!Complete
<1>10. ASSUME NEW r \in 1..started, Exams!ReadRecord(r) PROVE Exams!Inv'
    <2>1. /\ UNCHANGED <<job, ended, exams, started, run, thread, settler>>
          /\ examPc' \in [Exams!Runs -> Pcs]
          /\ \A q \in 1..started : q # r => examPc'[q] = examPc[q]
        BY <1>1, <1>2, <1>10 DEF Exams!ReadRecord
    <2>2. examPc'[r] = "over" => ~Exams!Active(r)
        BY <1>1, <1>2, <1>10 DEF Exams!ReadRecord, Exams!Active, Exams!Owns
    <2>3. QED
        BY <1>1, <2>1, <2>2, ExamsWork
<1>11. ASSUME NEW r \in 1..started, Exams!FailRecord(r) PROVE Exams!Inv'
    <2>1. /\ UNCHANGED <<exams, started, run, thread>>
          /\ examPc' \in [Exams!Runs -> Pcs]
          /\ \A q \in 1..started : examPc'[q] = "over" => examPc[q] = "over" \/ q = r
        BY <1>1, <1>2, <1>11 DEF Exams!FailRecord
    <2>2. CASE Exams!Active(r) /\ Exams!Settle(r, "failed", None)
        <3>1. "failed" \in Exams!Terminal /\ "failed" # "completed"
            BY DEF Exams!Terminal
        <3>2. QED
            BY <1>1, <2>1, <2>2, <3>1, ExamsEnds
    <2>3. CASE ~Exams!Active(r) /\ UNCHANGED <<job, ended, settler>>
        BY <1>1, <2>1, <2>3, ExamsWork
    <2>4. QED
        BY <1>11, <2>2, <2>3 DEF Exams!FailRecord
<1>12. ASSUME Exams!Crash PROVE Exams!Inv'
    <2>1. /\ UNCHANGED <<job, ended, exams, started, run, settler>>
          /\ examPc' = [r \in Exams!Runs |-> IF Exams!Alive(r) THEN "dead" ELSE examPc[r]]
          /\ thread' = [r \in Exams!Runs |-> {}]
        BY <1>12 DEF Exams!Crash
    <2>2. \A q \in 1..started : examPc'[q] = "over" => examPc[q] = "over"
        BY <1>2, <2>1
    <2>3. QED
        BY <1>1, <2>1, <2>2, ExamsWork
<1>13. QED
    BY <1>3, <1>4, <1>5, <1>6, <1>7, <1>8, <1>9, <1>10, <1>11, <1>12, ExamsBegin
    DEF Exams!Next, Exams!RunStep

\* A record that is pruned has MaxTerminal newer ones.
LEMMA ExamsPrunesOldest ==
    ASSUME Exams!Inv, NEW r \in 1..started, Exams!Active(r),
           NEW status \in Exams!Terminal, NEW exam \in Exams!Runs \cup {None},
           Exams!Settle(r, status, exam),
           NEW key \in Pair, Exams!IsTerminal(key), job'[key] # job[key]
    PROVE  Exams!ResultStays(key)
<1> PICK k : k = run[r].key
    OBVIOUS
<1> DEFINE kept == Exams!Pruned(ended).kept
           gone == Exams!ToSet(Exams!Pruned(ended).others)
<1>1. Ended(k, r, status, exam)
    BY ExamsSettle
<1>2. key # k /\ key \in gone /\ job'[key] = None
    <2>1. key # k
        BY <1>1 DEF Ended, Exams!IsTerminal, Exams!Terminal
    <2>2. QED
        BY <1>1, <2>1 DEF Ended
<1>3. /\ Len(ended) \in Nat /\ Cut \in 0..Len(ended)
      /\ kept \in Seq(Pair) /\ Len(kept) = Len(ended) - Cut
      /\ \A i \in 1..Len(kept) : kept[i] = ended[Cut + i]
      /\ gone = {ended[i] : i \in 1..Cut}
      /\ Exams!ToSet(ended) = {ended[i] : i \in 1..Len(ended)}
      /\ Exams!ToSet(kept) = Exams!ToSet(ended) \ gone
    BY ExamsPruned DEF Exams!Inv, Exams!TypeOK
<1>4. ended' = Append(kept, k) /\ k \in Pair
    BY <1>1 DEF Exams!Settle, Ended
<1> HIDE DEF kept, gone
<1>5. /\ Len(ended') = Len(kept) + 1 /\ Len(kept) \in Nat
      /\ \A i \in 1..Len(kept) : ended'[i] = kept[i]
      /\ ended'[Len(kept) + 1] = k
    BY <1>3, <1>4, AppendProperties, LenProperties
<1>6. DOMAIN ended' = 1..Len(ended') /\ DOMAIN ended = 1..Len(ended)
    BY <1>1, LenProperties DEF Ended, Exams!Inv, Exams!TypeOK
<1>7. \A i, j \in 1..Len(ended) : ended[i] = ended[j] => i = j
    BY <1>6 DEF Exams!Inv, Exams!TypeOK, Exams!IsInjective
<1>8. PICK cut \in 1..Cut : key = ended[cut]
    BY <1>2, <1>3
<1>9. /\ Cut \in Nat /\ cut \in Nat /\ cut <= Cut /\ Cut > 0
      /\ Len(kept) = MaxTerminal - 1 /\ Len(ended') = MaxTerminal /\ cut \in 1..Len(ended)
    BY <1>3, <1>5, <1>8, ExamsConstants DEF Cut
<1>10. Exams!Cardinality({i \in 1..Len(ended') : ended'[i] # key}) >= MaxTerminal
    <2> DEFINE newer == {i \in 1..Len(ended') : ended'[i] # key}
    <2>1. ASSUME NEW i \in 1..Len(ended') PROVE ended'[i] # key
        <3>1. CASE i = Len(kept) + 1
            BY <1>2, <1>5, <3>1
        <3>2. CASE i \in 1..Len(kept)
            <4>1. ended'[i] = ended[Cut + i] /\ Cut + i \in 1..Len(ended) /\ Cut + i # cut
                BY <1>3, <1>5, <1>9, <3>2
            <4>2. QED
                BY <1>7, <1>8, <1>9, <4>1
        <3>3. QED
            BY <1>5, <3>1, <3>2
    <2>2. newer = 1..MaxTerminal
        BY <1>9, <2>1
    <2> HIDE DEF newer
    <2>3. Cardinality(1..MaxTerminal) = MaxTerminal
        BY FS_Interval, ExamsConstants
    <2>4. Exams!Cardinality(newer) >= MaxTerminal
        BY <2>2, <2>3, ExamsCount, ExamsConstants
    <2>5. QED
        BY <2>4 DEF newer
<1>11. ASSUME NEW i \in 1..Len(ended), NEW j \in 1..Len(ended),
              ended[i] = key, ended[j] \in Exams!ToSet(ended)'
       PROVE  i < j
    <2>1. i = cut
        BY <1>7, <1>8, <1>9, <1>11
    <2>2. ended[j] \notin gone
        <3>1. PICK n \in 1..Len(ended') : ended[j] = ended'[n]
            BY <1>6, <1>11 DEF Exams!ToSet
        <3>2. k \notin gone
            <4>1. \A x \in gone : x \in Exams!ToSet(ended)
                BY <1>3
            <4>2. k \notin Exams!ToSet(ended)
                BY <1>1 DEF Ended, Exams!Inv, Exams!TypeOK, Exams!IsTerminal, Exams!Terminal
            <4>3. QED
                BY <4>1, <4>2
        <3>3. CASE n = Len(kept) + 1
            BY <1>5, <3>1, <3>2, <3>3
        <3>4. CASE n \in 1..Len(kept)
            <4>1. ended[j] = kept[n]
                BY <1>5, <3>1, <3>4
            <4>2. DOMAIN kept = 1..Len(kept)
                BY <1>3, LenProperties
            <4>3. ended[j] \in Exams!ToSet(kept)
                BY <3>4, <4>1, <4>2 DEF Exams!ToSet
            <4>4. QED
                BY <1>3, <4>3
        <3>5. QED
            BY <1>5, <3>1, <3>3, <3>4
    <2>3. j \notin 1..Cut
        BY <1>3, <2>2
    <2>4. QED
        BY <1>9, <2>1, <2>3
<1>12. QED
    BY <1>2, <1>10, <1>11 DEF Exams!ResultStays

\* No step changes what was told of a record that ended.
LEMMA ExamsFinal ==
    ASSUME Exams!Inv, Exams!Next, NEW k \in Pair, Exams!IsTerminal(k)
    PROVE  Exams!ResultStays(k)
<1>1. job[k] # None /\ job[k].status # "running" /\ job \in [Pair -> Exams!Records \cup {None}]
    BY DEF Exams!IsTerminal, Exams!Terminal, Exams!Inv, Exams!TypeOK
<1>2. ASSUME NEW r \in 1..started, Exams!Active(r)
      PROVE  run[r].key # k
    BY <1>1, <1>2 DEF Exams!Active
<1>3. ASSUME NEW r \in 1..started, NEW status \in Exams!Terminal, NEW exam \in Exams!Runs \cup {None},
             Exams!Active(r), Exams!Settle(r, status, exam)
      PROVE  Exams!ResultStays(k)
    BY <1>3, ExamsPrunesOldest DEF Exams!ResultStays
<1>4. ASSUME NEW j \in Pair, Exams!Expire(j) \/ Exams!Begin(j)
      PROVE  job'[k] = job[k]
    BY <1>1, <1>4 DEF Exams!Expire, Exams!Begin, Exams!BeginNew, Exams!Reclaim, Exams!StartRun
<1>5. ASSUME NEW r \in 1..started, Exams!Renew(r) \/ Exams!PlanDone(r)
      PROVE  job'[k] = job[k]
    BY <1>1, <1>2, <1>5 DEF Exams!Renew, Exams!PlanDone
<1>6. ASSUME NEW r \in 1..started,
             \/ Exams!AskRenewal(r) \/ Exams!TakeSlot(r) \/ Exams!PlanFails(r)
             \/ Exams!WriteExam(r) \/ Exams!ReadRecord(r) \/ Exams!Cancel(r)
      PROVE  job' = job
    BY <1>6 DEF Exams!AskRenewal, Exams!TakeSlot, Exams!PlanFails, Exams!WriteExam, Exams!ReadRecord,
        Exams!Cancel
<1>7. ASSUME NEW r \in 1..started, Exams!Complete(r)
      PROVE  Exams!ResultStays(k)
    <2>1. r \in Exams!Runs \cup {None} /\ "completed" \in Exams!Terminal
        BY ExamsConstants DEF Exams!Terminal, Exams!Inv, Exams!TypeOK
    <2>2. QED
        BY <1>3, <1>7, <2>1 DEF Exams!Complete, Exams!ResultStays
<1>8. ASSUME NEW r \in 1..started, Exams!FailRecord(r)
      PROVE  Exams!ResultStays(k)
    BY <1>3, <1>8 DEF Exams!FailRecord, Exams!Terminal, Exams!ResultStays
<1>9. CASE Exams!Crash
    BY <1>9 DEF Exams!Crash, Exams!ResultStays
<1>10. QED
    BY <1>4, <1>5, <1>6, <1>7, <1>8, <1>9 DEF Exams!Next, Exams!RunStep, Exams!ResultStays

LEMMA ExamsStep == Exams!Inv /\ [Step]_vars => Exams!Inv'
<1> SUFFICES ASSUME Exams!Inv, [Step]_vars PROVE Exams!Inv'
    OBVIOUS
<1>1. CASE Exams!Next
    BY <1>1, ExamsNext
<1>2. CASE UNCHANGED PracticeExamsVars
    BY <1>2 DEF PracticeExamsVars, Exams!Inv, Exams!TypeOK, Exams!EndedByItsOwner,
        Exams!CompletedHasItsExam, Exams!NoRecordIsAbandoned, Exams!AttemptsRise, Exams!IsTerminal,
        Exams!Active, Exams!Owns, Exams!ToSet, Exams!IsInjective
<1>3. QED
    BY <1>1, <1>2 DEF Step, vars

\* The record of a run is ended by the run that holds it, never by an older
\* one; none is left running by a run that is over, and a completed one names
\* an exam that is stored (practice_exam_generation_jobs.py and
\* practice_exam_generation_service.py).
THEOREM RunsHold == Spec => []RunsAreOwned
<1>1. Begin => Exams!Inv
    BY ExamsInit DEF Begin
<1>2. Exams!Inv => RunsAreOwned
    BY DEF Exams!Inv, RunsAreOwned
<1>3. QED
    BY <1>1, <1>2, ExamsStep, PTL DEF Spec

\* What a student was told of a generation that ended stays true until the
\* record is pruned behind MaxTerminal newer ones (_finish and _prune in
\* practice_exam_generation_jobs.py).
THEOREM ResultsHold == Spec => ResultsAreFinal
<1>1. Begin => Exams!Inv
    BY ExamsInit DEF Begin
<1>2. Exams!Inv /\ [Step]_vars =>
          [\A k \in Pair : Exams!IsTerminal(k) => Exams!ResultStays(k)]_(Exams!vars)
    <2>1. CASE Exams!Inv /\ Exams!Next
        BY <2>1, ExamsFinal
    <2>2. CASE UNCHANGED PracticeExamsVars
        BY <2>2 DEF PracticeExamsVars, Exams!vars
    <2>3. QED
        BY <2>1, <2>2 DEF Step, vars
<1>3. QED
    BY <1>1, <1>2, ExamsStep, PTL DEF Spec, ResultsAreFinal, Exams!ResultsAreFinal

===========================================================================
