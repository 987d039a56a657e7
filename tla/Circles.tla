------------------------------ MODULE Circles ------------------------------
(***************************************************************************)
(* Where everyone waits for someone, some wait in a circle: what a search  *)
(* for deadlocks rests on.                                                 *)
(***************************************************************************)
EXTENDS Naturals, FiniteSets, FiniteSetTheorems, TLAPS

\* A path along b through W: every member points to the next, none comes twice.
IsPath(p, n, W, b) ==
    /\ n \in Nat \ {0}
    /\ p \in [1..n -> W]
    /\ \A i, j \in 1..n : p[i] = p[j] => i = j
    /\ \A i \in 1..n : i < n => p[i + 1] = b[p[i]]

\* The members on the path.
On(p, n) == {p[i] : i \in 1..n}

\* In a finite set one of the paths cannot be made longer.
LEMMA LongestPath ==
    ASSUME NEW W, IsFiniteSet(W), W # {}, NEW b
    PROVE  \E n \in Nat : \E p \in [1..n -> W] :
              /\ IsPath(p, n, W, b)
              /\ \A m \in Nat : \A q \in [1..m -> W] :
                    IsPath(q, m, W, b) /\ On(p, n) \subseteq On(q, m) =>
                        On(q, m) = On(p, n)
<1> DEFINE Off == {U \in SUBSET W : \E n \in Nat : \E p \in [1..n -> W] :
                      IsPath(p, n, W, b) /\ U = W \ On(p, n)}
<1>1. IsWellFoundedOn(StrictSubsetOrdering(W), SUBSET W)
    BY FS_StrictSubsetOrderingWellFounded, FS_FiniteSubsetsOfFinite
<1>2. Off # {}
    <2>1. PICK w : w \in W
        OBVIOUS
    <2> DEFINE p == [i \in 1..1 |-> w]
    <2>2. IsPath(p, 1, W, b)
        BY <2>1 DEF IsPath
    <2>3. p \in [1..1 -> W] /\ W \ On(p, 1) \in SUBSET W
        BY <2>1
    <2>4. W \ On(p, 1) \in Off
        BY <2>2, <2>3
    <2> QED
        BY <2>4
<1>3. PICK U \in Off : \A V \in Off : <<V, U>> \notin StrictSubsetOrdering(W)
    <2>1. Off \subseteq SUBSET W
        OBVIOUS
    <2> HIDE DEF Off
    <2> QED
        BY <1>1, <1>2, <2>1, WFMin
<1>4. PICK n \in Nat : \E p \in [1..n -> W] :
                           IsPath(p, n, W, b) /\ U = W \ On(p, n)
    OBVIOUS
<1>5. PICK p \in [1..n -> W] : IsPath(p, n, W, b) /\ U = W \ On(p, n)
    BY <1>4
<1>6. ASSUME NEW m \in Nat, NEW q \in [1..m -> W], IsPath(q, m, W, b),
             On(p, n) \subseteq On(q, m)
      PROVE  On(q, m) = On(p, n)
    <2>1. W \ On(q, m) \in Off
        BY <1>6
    <2>2. <<W \ On(q, m), U>> \notin StrictSubsetOrdering(W)
        BY <1>3, <2>1
    <2>3. On(q, m) \subseteq W /\ On(p, n) \subseteq W
        <3>1. \A i \in 1..m : q[i] \in W
            BY <1>6
        <3>2. \A i \in 1..n : p[i] \in W
            BY <1>5
        <3> QED
            BY <3>1, <3>2 DEF On
    <2> QED
        BY <1>5, <1>6, <2>2, <2>3 DEF StrictSubsetOrdering
<1> QED
    BY <1>5, <1>6

\* Who comes after the i-th of a circle of m.
LEMMA AroundTheCircle ==
    ASSUME NEW m \in Nat, NEW i \in 1..m
    PROVE  (i % m) + 1 = IF i = m THEN 1 ELSE i + 1
<1>1. i < m => i % m = i
    OBVIOUS
<1>2. m % m = 0
    OBVIOUS
<1> QED
    BY <1>1, <1>2

\* If each member of a finite set points to another one, some of them point
\* around in a circle of two or more, no more than there are.
LEMMA Circle ==
    ASSUME NEW W, IsFiniteSet(W), W # {}, NEW b \in [W -> W],
           \A w \in W : b[w] # w
    PROVE  \E m \in 2..Cardinality(W) : \E c \in [1..m -> W] :
              \A i \in 1..m : c[(i % m) + 1] = b[c[i]]
<1>1. PICK n \in Nat : \E p \in [1..n -> W] :
              /\ IsPath(p, n, W, b)
              /\ \A m \in Nat : \A q \in [1..m -> W] :
                    IsPath(q, m, W, b) /\ On(p, n) \subseteq On(q, m) =>
                        On(q, m) = On(p, n)
    BY LongestPath
<1>2. PICK p \in [1..n -> W] :
              /\ IsPath(p, n, W, b)
              /\ \A m \in Nat : \A q \in [1..m -> W] :
                    IsPath(q, m, W, b) /\ On(p, n) \subseteq On(q, m) =>
                        On(q, m) = On(p, n)
    BY <1>1
<1>3. n \in Nat \ {0} /\ p[n] \in W /\ b[p[n]] \in W
    BY <1>2 DEF IsPath
<1>4. b[p[n]] \in On(p, n)
    <2> DEFINE x == b[p[n]]
               q == [i \in 1..(n + 1) |-> IF i = n + 1 THEN x ELSE p[i]]
    <2>1. SUFFICES ASSUME x \notin On(p, n)  PROVE FALSE
        OBVIOUS
    <2>2. \A i \in 1..n : p[i] # x
        BY <2>1 DEF On
    <2>3. q \in [1..(n + 1) -> W] /\ q[n + 1] = x /\ \A i \in 1..n : q[i] = p[i]
        BY <1>3
    <2>4. IsPath(q, n + 1, W, b)
        BY <1>2, <1>3, <2>2, <2>3 DEF IsPath
    <2>5. On(p, n) \subseteq On(q, n + 1) /\ x \in On(q, n + 1)
        BY <1>3, <2>3 DEF On
    <2> HIDE DEF q
    <2> QED
        BY <1>2, <1>3, <2>1, <2>3, <2>4, <2>5
<1>5. PICK k \in 1..n : p[k] = b[p[n]]
    BY <1>4 DEF On
<1>6. k < n
    BY <1>3, <1>5
<1> DEFINE m == n - k + 1
           c == [i \in 1..m |-> p[k + i - 1]]
<1>7. m \in 2..n
    BY <1>3, <1>6
<1>8. c \in [1..m -> W] /\ \A i \in 1..m : c[i] = p[k + i - 1]
    BY <1>5, <1>7
<1>9. n <= Cardinality(W)
    <2>1. p \in Injection(1..n, W)
        BY <1>2 DEF IsPath, Injection, IsInjective
    <2>2. Cardinality(1..n) <= Cardinality(W)
        BY <2>1, FS_Injection
    <2>3. Cardinality(1..n) = n
        BY <1>3, FS_Interval
    <2> QED
        BY <2>2, <2>3
<1>10. ASSUME NEW i \in 1..m  PROVE c[(i % m) + 1] = b[c[i]]
    <2>1. CASE i = m
        <3>1. (i % m) + 1 = 1
            BY <1>7, <2>1, AroundTheCircle
        <3>2. /\ 1 \in 1..m /\ m \in 1..m
              /\ k + 1 - 1 = k /\ k + m - 1 = n
            BY <1>3, <1>5, <1>7
        <3>3. c[1] = p[k] /\ c[m] = p[n]
            BY <1>8, <3>2
        <3> QED
            BY <1>5, <2>1, <3>1, <3>3
    <2>2. CASE i # m
        <3>1. (i % m) + 1 = i + 1 /\ i + 1 \in 1..m
            <4>1. m \in Nat
                BY <1>7
            <4> HIDE DEF m
            <4>2. (i % m) + 1 = IF i = m THEN 1 ELSE i + 1
                BY <4>1, AroundTheCircle
            <4> QED
                BY <2>2, <4>1, <4>2
        <3>2. c[i + 1] = p[k + i] /\ c[i] = p[k + i - 1]
            <4>1. k + (i + 1) - 1 = k + i
                BY <1>5
            <4> QED
                BY <1>8, <3>1, <4>1
        <3>3. p[k + i] = b[p[k + i - 1]]
            <4>1. k + i - 1 \in 1..n /\ k + i - 1 < n
                BY <1>5, <1>7, <3>1
            <4>2. (k + i - 1) + 1 = k + i
                BY <1>5, <3>1
            <4> QED
                BY <1>2, <4>1, <4>2 DEF IsPath
        <3> QED
            BY <3>1, <3>2, <3>3
    <2> QED
        BY <2>1, <2>2
<1>11. m \in 2..Cardinality(W)
    BY <1>7, <1>9, FS_CardinalityType
<1> QED
    BY <1>8, <1>10, <1>11

\* Some wait for others, none for itself.  If all whom they wait for wait as
\* well, one of them finds itself in a circle, at most as long as all are.
THEOREM SomeWaitInACircle ==
    ASSUME NEW All, IsFiniteSet(All), NEW W \in SUBSET All, W # {},
           NEW blockers \in [W -> SUBSET W],
           \A w \in W : blockers[w] # {} /\ w \notin blockers[w]
    PROVE  \E n \in 2..Cardinality(All) : \E c \in [1..n -> W] :
              \A i \in 1..n : c[(i % n) + 1] \in blockers[c[i]]
<1> DEFINE b == [w \in W |-> CHOOSE u \in blockers[w] : TRUE]
<1>1. IsFiniteSet(W) /\ Cardinality(W) <= Cardinality(All)
    BY FS_Subset
<1>2. \A w \in W : b[w] \in blockers[w]
    OBVIOUS
<1>3. b \in [W -> W] /\ \A w \in W : b[w] # w
    BY <1>2
<1> HIDE DEF b
<1>4. PICK n \in 2..Cardinality(W) : \E c \in [1..n -> W] :
          \A i \in 1..n : c[(i % n) + 1] = b[c[i]]
    BY <1>1, <1>3, Circle
<1>5. n \in 2..Cardinality(All)
    BY <1>1, FS_CardinalityType
<1>6. PICK c \in [1..n -> W] : \A i \in 1..n : c[(i % n) + 1] = b[c[i]]
    BY <1>4
<1>7. \A i \in 1..n : c[(i % n) + 1] \in blockers[c[i]]
    BY <1>2, <1>6
<1> QED
    BY <1>5, <1>7
=============================================================================
