--------------------------- MODULE RateLimitProofs ---------------------------
(***************************************************************************)
(* Proofs about RateLimit, for every set of processes, callers and         *)
(* buckets, every capacity and rate, and every number of faults.           *)
(***************************************************************************)
EXTENDS RateLimit, WellFoundedInduction, TLAPS

-----------------------------------------------------------------------------
(* Arithmetic *)

\* Division that rounds up covers what is divided.
LEMMA CeilDivCovers ==
    ASSUME NEW x \in Nat, NEW y \in Nat \ {0}
    PROVE  CeilDiv(x, y) \in Nat /\ CeilDiv(x, y) * y >= x
<1> DEFINE n == x + y - 1
           q == n \div y
<1>1. n \in Nat /\ q \in Int /\ n % y \in 0 .. (y - 1)
  OBVIOUS
<1>2. n = y * q + (n % y)
  OBVIOUS
<1>3. q >= 0
  BY <1>1, <1>2, SMT
<1>4. y * q >= x
  BY <1>1, <1>2
<1> QED BY <1>1, <1>3, <1>4 DEF CeilDiv

\* And it is never more than what is divided.
LEMMA CeilDivLeast ==
    ASSUME NEW x \in Nat, NEW y \in Nat \ {0}
    PROVE  CeilDiv(x, y) <= x
<1> DEFINE n == x + y - 1
           q == n \div y
<1>1. n \in Nat /\ q \in Int /\ n % y \in 0 .. (y - 1) /\ n = y * q + (n % y)
  OBVIOUS
<1>2. q <= x
  <2> SUFFICES ASSUME q >= x + 1 PROVE FALSE
    BY <1>1
  <2> DEFINE d == y - 1
             e == q - (x + 1)
             r == n % y
  <2>1. d \in Nat /\ e \in Nat /\ r \in Nat /\ d * x \in Nat /\ y * e \in Nat
    BY <1>1
  <2>2. y * q = x + d * x + y + y * e
    BY <1>1
  <2>3. x + y - 1 = y * q + r
    BY <1>1
  <2> DEFINE A == d * x
             B == y * e
             C == y * q
  <2>4. A \in Nat /\ B \in Nat /\ C = x + A + y + B /\ x + y - 1 = C + r
    BY <2>1, <2>2, <2>3
  <2> HIDE DEF A, B, C, r
  <2> QED BY <2>1, <2>4
<1> QED BY <1>1, <1>2 DEF CeilDiv

\* A product grows with its first factor.
LEMMA Products ==
    ASSUME NEW x \in Nat, NEW y \in Nat, NEW z \in Nat, x <= y
    PROVE  /\ x * z \in Nat /\ y * z \in Nat
           /\ x * z <= y * z
           /\ (y + 1) * z = y * z + z
           /\ (y - x) * z = y * z - x * z
  OBVIOUS

\* The larger of two numbers is neither's less.
LEMMA MaxOfTwo ==
    ASSUME NEW x \in Nat, NEW y \in Nat
    PROVE  /\ Max({x, y}) \in Nat
           /\ Max({x, y}) >= x /\ Max({x, y}) >= y
<1>1. \E m \in {x, y} : \A z \in {x, y} : m >= z
  <2>1. CASE x >= y
    BY <2>1
  <2>2. CASE y >= x
    BY <2>2
  <2> QED BY <2>1, <2>2
<1>2. /\ Max({x, y}) \in {x, y}
      /\ \A z \in {x, y} : Max({x, y}) >= z
  BY <1>1 DEF Max
<1> QED BY <1>2

\* A set of numbers that has a member and a bound has a largest member.
LEMMA MaxOfBounded ==
    ASSUME NEW T \in SUBSET Nat, T # {}, NEW B \in Nat, \A x \in T : x <= B
    PROVE  Max(T) \in T /\ \A x \in T : Max(T) >= x
<1> DEFINE U == {n \in Nat : \A x \in T : x <= n}
<1>1. \E m \in U : \A n \in U : ~(<<n, m>> \in OpToRel(<, Nat))
  <2>1. U \subseteq Nat /\ U # {} /\ IsWellFoundedOn(OpToRel(<, Nat), Nat)
    BY NatLessThanWellFounded
  <2> HIDE DEF U
  <2> QED BY <2>1, WFMin
<1>2. PICK m \in U : \A n \in U : ~(<<n, m>> \in OpToRel(<, Nat))
  BY <1>1
<1>3. \A n \in U : ~(n < m)
  BY <1>2 DEF OpToRel
<1>4. m \in T
  <2> SUFFICES ASSUME m \notin T PROVE FALSE
    OBVIOUS
  <2>1. m \in Nat /\ \A x \in T : x \in Nat /\ x <= m /\ x # m
    BY <1>2
  <2>2. PICK z \in T : z \in Nat /\ z <= m /\ z # m
    BY <2>1
  <2>3. m - 1 \in Nat /\ \A x \in T : x <= m - 1
    <3> HIDE DEF U
    <3> QED BY <2>1, <2>2
  <2>4. m - 1 \in U
    BY <2>3
  <2>5. m - 1 < m
    BY <2>1
  <2> HIDE DEF U
  <2> QED BY <1>3, <2>4, <2>5
<1>5. \E x \in T : \A y \in T : x >= y
  <2>1. m \in T /\ m \in Nat /\ \A y \in T : y <= m /\ y \in Nat
    BY <1>2, <1>4
  <2> HIDE DEF U
  <2> QED BY <2>1
<1> QED BY <1>5 DEF Max

\* The constants of a bucket are numbers.
LEMMA Constants ==
    ASSUME NEW b \in Buckets
    PROVE  Full(b) \in Nat /\ Rate[b] \in Nat \ {0} /\ Token \in Nat \ {0}
<1>1. Capacity[b] \in Nat /\ Rate[b] \in Nat \ {0} /\ Token \in Nat \ {0}
  BY RateAssumption
<1> QED BY <1>1 DEF Full

\* An entry of b as a take leaves it: within the capacity, dated in the past.
Sound(b, e) ==
    e # None => /\ e.tokens \in Nat /\ e.tokens <= Full(b)
                /\ e.ts \in Nat /\ e.ts <= clock

\* What such a bucket holds is an amount within its capacity, refilled since the
\* date of its entry.
LEMMA Amount ==
    ASSUME clock \in Nat, NEW b \in Buckets, NEW e, Sound(b, e)
    PROVE  /\ Available(b, e) \in Nat
           /\ Available(b, e) <= Full(b)
           /\ e # None => Elapsed(e.ts) = clock - e.ts
           /\ e # None => Available(b, e) =
                 Least(Full(b), e.tokens + (clock - e.ts) * Rate[b])
<1>1. Full(b) \in Nat /\ Rate[b] \in Nat
  BY Constants
<1>2. CASE e = None
  BY <1>1, <1>2 DEF Available
<1>3. CASE e # None
  <2>1. Elapsed(e.ts) = clock - e.ts /\ clock - e.ts \in Nat
    BY <1>3 DEF Elapsed, Sound
  <2>2. (clock - e.ts) * Rate[b] \in Nat
    BY <1>1, <2>1
  <2> QED BY <1>1, <1>3, <2>1, <2>2 DEF Available, Least, Sound
<1> QED BY <1>2, <1>3

\* A bucket holds what has just been written.
LEMMA Written ==
    ASSUME clock \in Nat, NEW b \in Buckets, NEW e, e # None,
           e.tokens \in Nat, e.tokens <= Full(b), e.ts = clock
    PROVE  Available(b, e) = e.tokens
<1>1. Sound(b, e)
  BY DEF Sound
<1>2. Available(b, e) = Least(Full(b), e.tokens + (clock - e.ts) * Rate[b])
  BY <1>1, Amount
<1>3. (clock - e.ts) * Rate[b] = 0
  BY Constants
<1> QED BY <1>2, <1>3, Constants DEF Least

\* The moment beside an entry of a process is not before the bucket is full.
Covers(b, e) ==
    e # None => /\ e.fullAt \in Nat /\ e.fullAt >= e.ts
                /\ e.tokens + (e.fullAt - e.ts) * Rate[b] >= Full(b)

\* So what a sweep drops (_forget) was full.
LEMMA CoveredIsFull ==
    ASSUME clock \in Nat, NEW b \in Buckets, NEW e, e # None, Sound(b, e),
           Covers(b, e), FullAgain(e)
    PROVE  Available(b, e) = Full(b)
<1>1. e.fullAt - e.ts \in Nat /\ clock - e.ts \in Nat /\ e.fullAt - e.ts <= clock - e.ts
  BY DEF Sound, Covers, FullAgain
<1>2. /\ (e.fullAt - e.ts) * Rate[b] \in Nat /\ (clock - e.ts) * Rate[b] \in Nat
      /\ (e.fullAt - e.ts) * Rate[b] <= (clock - e.ts) * Rate[b]
  BY <1>1, Products, Constants
<1>3. Available(b, e) = Least(Full(b), e.tokens + (clock - e.ts) * Rate[b])
  BY Amount
<1> QED BY <1>2, <1>3, Constants DEF Least, Sound, Covers

-----------------------------------------------------------------------------
(* The invariant *)

\* Every entry is dated in the past, ...
Dated == \A s \in Stores, b \in Buckets : Sound(b, Table(s)[b])

\* ... is not said to be full before it is, ...
Covered == \A g \in Gateways, b \in Buckets : Covers(b, local[g][b])

\* ... and what it still holds has not been granted.
Ledger ==
    \A s \in Stores, b \in Buckets :
        /\ since[s][b] <= clock
        /\ granted[s][b] + Level(s, b) <= Full(b) + (clock - since[s][b]) * Rate[b]

LimitInv == TypeOK /\ Dated /\ Covered /\ Ledger

Tables ==
    /\ shared \in [Buckets -> Entry \cup {None}]
    /\ local \in [Gateways -> [Buckets -> LocalEntry \cup {None}]]
    /\ granted \in [Stores -> [Buckets -> Nat]]
    /\ since \in [Stores -> [Buckets -> Nat]]

\* What the stores hold, and what a step does to them is a step of Allowance.
Holdings == [s \in Stores |-> [b \in Buckets |-> Level(s, b)]]
Promising == Promise!Next \/ UNCHANGED <<clock, Holdings, granted, since>>

StoresKept == Tables' /\ Dated' /\ Covered' /\ Ledger' /\ Promising

\* Every bucket of every store holds an amount within its capacity.
LEMMA Levels ==
    ASSUME TypeOK, Dated, NEW s \in Stores, NEW b \in Buckets
    PROVE  Level(s, b) \in Nat /\ Level(s, b) <= Full(b)
<1>1. clock \in Nat /\ Sound(b, Table(s)[b])
  BY DEF TypeOK, Dated
<1> QED BY <1>1, Amount DEF Level

\* What a take leaves is an amount, and what it takes was there.
LEMMA TakeLeaves ==
    ASSUME TypeOK, Dated, NEW s \in Stores, NEW b \in Buckets,
           NEW S \in SUBSET Buckets, b \in S, NEW u \in Nat
    PROVE  /\ Left(s, S, u, b) \in Nat /\ Left(s, S, u, b) <= Full(b)
           /\ Left(s, S, u, b) = IF Admits(s, S, u) THEN Level(s, b) - u * Token
                                 ELSE Level(s, b)
<1>1. Level(s, b) \in Nat /\ Level(s, b) <= Full(b) /\ Full(b) \in Nat
  BY Levels, Constants
<1>2. u * Token \in Nat
  BY Constants
<1>3. Admits(s, S, u) => Level(s, b) >= u * Token
  BY DEF Admits, Passes
<1> QED BY <1>1, <1>2, <1>3 DEF Left

\* A store that a take debits, or that loses buckets, keeps its ledger.
LEMMA LedgerOfStore ==
    ASSUME TypeOK, Dated, Ledger, NEW s \in Stores, NEW S \in SUBSET Buckets,
           NEW u \in Nat, u \in Units \/ S = {}, NEW lost \in SUBSET Buckets,
           Book(s, S, u, lost), clock' = clock,
           \A x \in Stores \ {s} : Table(x)' = Table(x),
           \A b \in Buckets :
               Level(s, b)' = IF b \in lost THEN Full(b)
                              ELSE IF b \in S THEN Left(s, S, u, b) ELSE Level(s, b)
    PROVE  /\ Ledger' /\ Promising
           /\ granted' \in [Stores -> [Buckets -> Nat]]
           /\ since' \in [Stores -> [Buckets -> Nat]]
<1>1. u * Token \in Nat
  BY RateAssumption
<1>2. clock \in Nat
  BY DEF TypeOK
<1>3. /\ granted' \in [Stores -> [Buckets -> Nat]]
      /\ since' \in [Stores -> [Buckets -> Nat]]
  BY <1>1, <1>2 DEF Book, TypeOK
<1>4. ASSUME NEW x \in Stores, NEW b \in Buckets
      PROVE  /\ since[x][b]' <= clock
             /\ granted[x][b]' + Level(x, b)' <=
                   Full(b) + (clock - since[x][b]') * Rate[b]
  <2>1. /\ since[x][b] <= clock
        /\ granted[x][b] + Level(x, b) <= Full(b) + (clock - since[x][b]) * Rate[b]
    BY DEF Ledger
  <2>2. CASE x # s
    <3>1. granted[x][b]' = granted[x][b] /\ since[x][b]' = since[x][b]
      BY <2>2 DEF Book, TypeOK
    <3>2. Level(x, b)' = Level(x, b)
      BY <2>2 DEF Level, Available, Elapsed
    <3> QED BY <2>1, <3>1, <3>2
  <2>3. CASE x = s
    <3>1. CASE b \in lost
      <4>1. granted[x][b]' = 0 /\ since[x][b]' = clock /\ Level(x, b)' = Full(b)
        BY <2>3, <3>1 DEF Book, TypeOK
      <4>2. (clock - clock) * Rate[b] = 0 /\ Full(b) \in Nat
        BY <1>2, Constants
      <4> QED BY <1>2, <4>1, <4>2
    <3>2. CASE b \notin lost /\ b \in S
      <4>1. since[x][b]' = since[x][b]
            /\ granted[x][b]' = granted[x][b] + (IF Admits(s, S, u) THEN u * Token ELSE 0)
        BY <1>1, <2>3, <3>2 DEF Book, TypeOK
      <4>2. Level(x, b)' = IF Admits(s, S, u) THEN Level(x, b) - u * Token ELSE Level(x, b)
        BY <2>3, <3>2, TakeLeaves
      <4>3. granted[x][b] \in Nat /\ Level(x, b) \in Nat
        BY Levels DEF TypeOK
      <4>4. granted[x][b]' + Level(x, b)' = granted[x][b] + Level(x, b)
        BY <1>1, <4>1, <4>2, <4>3
      <4> QED BY <2>1, <4>1, <4>4
    <3>3. CASE b \notin lost /\ b \notin S
      <4>1. /\ since[x][b]' = since[x][b] /\ granted[x][b]' = granted[x][b]
            /\ Level(x, b)' = Level(x, b)
        BY <2>3, <3>3 DEF Book, TypeOK
      <4> QED BY <2>1, <4>1
    <3> QED BY <3>1, <3>2, <3>3
  <2> QED BY <2>2, <2>3
<1>5. PICK v \in Units : v = u \/ S = {}
  BY RateAssumption
<1>6. ASSUME NEW x \in Stores \ {s}, NEW b \in Buckets
      PROVE  Promise!Untouched(x, b)
  <2>1. granted[x][b]' = granted[x][b] /\ since[x][b]' = since[x][b]
    BY <1>6 DEF Book, TypeOK
  <2>2. Level(x, b)' = Level(x, b)
    BY DEF Level, Available, Elapsed
  <2> QED BY <2>1, <2>2 DEF Promise!Untouched
<1>7. ASSUME NEW b \in Buckets
      PROVE  Promise!Untouched(s, b) \/ Promise!Lapses(s, b) \/ Promise!Pays(s, b, v)
  <2>1. CASE b \in lost
    <3>1. granted[s][b]' = 0 /\ since[s][b]' = clock /\ Level(s, b)' = Full(b)
      BY <2>1 DEF Book, TypeOK
    <3> QED BY <3>1 DEF Promise!Lapses, Promise!Full, Full
  <2>2. CASE b \notin lost /\ b \in S /\ Admits(s, S, u)
    <3>1. since[s][b]' = since[s][b] /\ granted[s][b]' = granted[s][b] + u * Token
      BY <1>1, <2>2 DEF Book, TypeOK
    <3>2. Level(s, b)' = Level(s, b) - u * Token
      BY <2>2, TakeLeaves
    <3>3. Level(s, b) >= u * Token /\ v = u
      BY <1>5, <2>2 DEF Admits, Passes
    <3> QED BY <3>1, <3>2, <3>3 DEF Promise!Pays
  <2>3. CASE b \notin lost /\ ~(b \in S /\ Admits(s, S, u))
    <3>1. since[s][b]' = since[s][b] /\ granted[s][b]' = granted[s][b]
      BY <2>3 DEF Book, TypeOK
    <3>2. Level(s, b)' = Level(s, b)
      BY <2>3, TakeLeaves
    <3> QED BY <3>1, <3>2 DEF Promise!Untouched
  <2> QED BY <2>1, <2>2, <2>3
<1>8. Promise!Step(s, v)
  BY <1>6, <1>7 DEF Promise!Step
<1>9. Promising
  BY <1>8 DEF Promising, Promise!Next
<1> QED BY <1>3, <1>4, <1>9 DEF Ledger, Full

-----------------------------------------------------------------------------
(* The stores *)

\* A step that leaves the stores and the clock alone keeps all that is said of
\* them.
LEMMA StoresAlone ==
    ASSUME LimitInv, UNCHANGED <<clock, shared, local, granted, since>>
    PROVE  StoresKept
<1>1. Tables'
  BY DEF LimitInv, TypeOK, Tables
<1>2. Dated' /\ Covered'
  BY DEF LimitInv, Dated, Covered, Sound, Covers, Table, Full
<1>3. Ledger'
  BY DEF LimitInv, Ledger, Level, Available, Elapsed, Table, Full, Least
<1>4. Promising
  <2>1. Holdings' = Holdings
    BY DEF Holdings, Level, Available, Elapsed, Table, Full, Least
  <2> QED BY <2>1 DEF Promising
<1> QED BY <1>1, <1>2, <1>3, <1>4 DEF StoresKept

\* The script.
LEMMA SharedTake ==
    ASSUME LimitInv, NEW c \in Callers, req[c].pc # "idle", TakeScript(c),
           UNCHANGED <<clock, local>>
    PROVE  StoresKept
<1> DEFINE S == req[c].need
           u == req[c].units
<1>1. /\ S \in SUBSET Buckets /\ u \in Nat /\ u \in Units /\ clock \in Nat
      /\ TypeOK /\ Dated /\ Ledger /\ Shared \in Stores
  BY DEF LimitInv, TypeOK, Requested, Stores
<1>2. \A x \in Stores \ {Shared} : Table(x)' = Table(x)
  BY DEF Table
<1>3. ASSUME NEW b \in Buckets, b \in S
      PROVE  /\ shared'[b] = [tokens |-> Left(Shared, S, u, b), ts |-> clock]
             /\ shared'[b] \in Entry /\ shared'[b] # None
             /\ Sound(b, shared'[b])
             /\ Level(Shared, b)' = Left(Shared, S, u, b)
  <2>1. /\ Left(Shared, S, u, b) \in Nat
        /\ Left(Shared, S, u, b) <= Full(b)
    BY <1>1, <1>3, TakeLeaves
  <2>2. shared'[b] = [tokens |-> Left(Shared, S, u, b), ts |-> clock]
    BY <1>3 DEF TakeScript, SharedAfter
  <2>3. shared'[b] \in Entry
    BY <1>1, <2>1, <2>2 DEF Entry
  <2>4. shared'[b] # None
    BY <2>3, RateAssumption
  <2>5. Sound(b, shared'[b])
    BY <1>1, <2>1, <2>2 DEF Sound
  <2>6. Available(b, shared'[b]) = Left(Shared, S, u, b)
    BY <1>1, <2>1, <2>2, <2>4, Written
  <2>7. Level(Shared, b)' = Available(b, shared'[b])
    BY DEF Level, Table, Available, Elapsed
  <2> QED BY <2>2, <2>3, <2>4, <2>5, <2>6, <2>7
<1>4. ASSUME NEW b \in Buckets, b \notin S
      PROVE  shared'[b] = shared[b] /\ Level(Shared, b)' = Level(Shared, b)
  <2>1. shared'[b] = shared[b]
    BY <1>4 DEF TakeScript, SharedAfter
  <2> QED BY <2>1 DEF Available, Elapsed, Level, Table
<1>5. \A b \in Buckets : Level(Shared, b)' =
          IF b \in {} THEN Full(b)
          ELSE IF b \in S THEN Left(Shared, S, u, b) ELSE Level(Shared, b)
  BY <1>3, <1>4
<1> HIDE DEF S, u
<1>6. /\ Ledger' /\ Promising
      /\ granted' \in [Stores -> [Buckets -> Nat]] /\ since' \in [Stores -> [Buckets -> Nat]]
  <2>1. Book(Shared, S, u, {}) /\ {} \in SUBSET Buckets
    BY DEF TakeScript, S, u
  <2> QED BY <1>1, <1>2, <1>5, <2>1, LedgerOfStore
<1>7. Tables'
  <2>1. shared \in [Buckets -> Entry \cup {None}]
    BY DEF LimitInv, TypeOK
  <2>2. shared' \in [Buckets -> Entry \cup {None}]
    <3>1. shared' = [b \in Buckets |-> shared'[b]]
      BY DEF TakeScript, SharedAfter, S, u
    <3>2. \A b \in Buckets : shared'[b] \in Entry \cup {None}
      BY <1>3, <1>4, <2>1
    <3> QED BY <3>1, <3>2
  <2> QED BY <1>6, <2>2 DEF LimitInv, TypeOK, Tables
<1>8. Dated'
  <2>1. ASSUME NEW x \in Stores, NEW b \in Buckets
        PROVE  Sound(b, Table(x)'[b])
    BY <1>1, <1>2, <1>3, <1>4 DEF Dated, Table
  <2> QED BY <2>1 DEF Dated, Sound, Full
<1>9. Covered'
  BY DEF LimitInv, Covered, Covers, Full
<1> QED BY <1>6, <1>7, <1>8, <1>9 DEF StoresKept

\* A process's own buckets, with its sweep and its evictions.
LEMMA LocalTake ==
    ASSUME LimitInv, NEW c \in Callers, TakeLocal(c)
    PROVE  StoresKept
<1>0. PICK g \in Gateways : g = home[c]
  BY DEF LimitInv, TypeOK
<1> DEFINE S == req[c].need
           u == req[c].units
           W == LocalWritten(g, S, u)
           V == Swept(g, W)
<1>1. /\ S \in SUBSET Buckets /\ u \in Nat /\ u \in Units /\ clock \in Nat
      /\ takes[g] \in Nat
      /\ TypeOK /\ Dated /\ Covered /\ Ledger
      /\ g \in Gateways /\ g \in Stores /\ g # Shared
      /\ local[g] \in [Buckets -> LocalEntry \cup {None}]
  <2>1. req[c].pc # "idle"
    BY DEF TakeLocal
  <2> QED BY <2>1, RateAssumption DEF LimitInv, TypeOK, Requested, Stores
<1>2. /\ clock' = clock /\ shared' = shared
      /\ \E E \in Evictions(V) :
            /\ local' = [local EXCEPT ![g] = [b \in Buckets |-> IF b \in E THEN None ELSE V[b]]]
            /\ Book(g, S, u, E)
  BY <1>0 DEF TakeLocal
<1>3. ASSUME NEW b \in Buckets, b \in S
      PROVE  /\ W[b] \in LocalEntry /\ W[b] # None
             /\ Sound(b, W[b]) /\ Covers(b, W[b])
             /\ Available(b, W[b]) = Left(g, S, u, b)
  <2> DEFINE left == Left(g, S, u, b)
  <2>1. left \in Nat /\ left <= Full(b) /\ Full(b) \in Nat /\ Full(b) - left \in Nat
    BY <1>1, <1>3, TakeLeaves, Constants
  <2>2. W[b] = [tokens |-> left, ts |-> clock, fullAt |-> FullAt(b, left), use |-> takes[g] + 1]
    BY <1>3 DEF LocalWritten
  <2> HIDE DEF left, W
  <2>3. /\ FullAt(b, left) \in Nat /\ FullAt(b, left) >= clock
        /\ left + (FullAt(b, left) - clock) * Rate[b] >= Full(b)
    <3>1. /\ CeilDiv(Full(b) - left, Rate[b]) \in Nat
          /\ CeilDiv(Full(b) - left, Rate[b]) * Rate[b] >= Full(b) - left
      BY <2>1, Constants, CeilDivCovers
    <3>2. FullAt(b, left) = clock + CeilDiv(Full(b) - left, Rate[b])
      BY DEF FullAt
    <3>3. FullAt(b, left) - clock = CeilDiv(Full(b) - left, Rate[b])
      BY <1>1, <3>1, <3>2
    <3>4. (FullAt(b, left) - clock) * Rate[b] \in Int
      BY <3>1, <3>3, Constants
    <3> QED BY <1>1, <2>1, <3>1, <3>2, <3>3, <3>4
  <2>4. W[b] \in LocalEntry
    BY <1>1, <2>1, <2>2, <2>3 DEF LocalEntry
  <2>5. W[b] # None
    BY <2>4, RateAssumption
  <2>6. Sound(b, W[b]) /\ Covers(b, W[b])
    BY <1>1, <2>1, <2>2, <2>3 DEF Sound, Covers
  <2>7. Available(b, W[b]) = left
    BY <1>1, <2>1, <2>2, <2>5, Written
  <2> QED BY <2>4, <2>5, <2>6, <2>7 DEF left
<1>4. ASSUME NEW b \in Buckets, b \notin S
      PROVE  /\ W[b] \in LocalEntry \cup {None}
             /\ Sound(b, W[b]) /\ Covers(b, W[b])
             /\ Available(b, W[b]) = Level(g, b)
  <2>1. W[b] = local[g][b]
    BY <1>4 DEF LocalWritten
  <2>2. Sound(b, local[g][b]) /\ Covers(b, local[g][b])
    BY <1>1 DEF Dated, Covered, Table
  <2>3. Level(g, b) = Available(b, local[g][b])
    BY <1>1 DEF Level, Table
  <2> QED BY <1>1, <2>1, <2>2, <2>3
<1> HIDE DEF W
<1>5. ASSUME NEW b \in Buckets
      PROVE  /\ V[b] \in LocalEntry \cup {None}
             /\ Sound(b, V[b]) /\ Covers(b, V[b])
             /\ Available(b, V[b]) = IF b \in S THEN Left(g, S, u, b) ELSE Level(g, b)
  <2>1. /\ W[b] \in LocalEntry \cup {None} /\ Sound(b, W[b]) /\ Covers(b, W[b])
        /\ Available(b, W[b]) = IF b \in S THEN Left(g, S, u, b) ELSE Level(g, b)
    BY <1>3, <1>4
  <2>2. \/ V[b] = W[b]
        \/ V[b] = None /\ W[b] # None /\ FullAgain(W[b])
    BY DEF Swept
  <2>3. CASE V[b] = W[b]
    BY <2>1, <2>3
  <2>4. CASE V[b] = None /\ W[b] # None /\ FullAgain(W[b])
    <3>1. Available(b, W[b]) = Full(b)
      BY <1>1, <2>1, <2>4, CoveredIsFull
    <3>2. Available(b, None) = Full(b)
      BY DEF Available
    <3> QED BY <2>1, <2>4, <3>1, <3>2 DEF Sound, Covers
  <2> QED BY <2>2, <2>3, <2>4
<1> HIDE DEF V, S, u
<1>6. PICK E \in Evictions(V) :
          /\ local' = [local EXCEPT ![g] = [b \in Buckets |-> IF b \in E THEN None ELSE V[b]]]
          /\ Book(g, S, u, E)
  BY <1>2
<1>7. E \in SUBSET Buckets
  BY DEF Evictions, Kept
<1>8. local \in [Gateways -> [Buckets -> LocalEntry \cup {None}]]
  BY <1>1 DEF TypeOK
<1>9. /\ local'[g] = [b \in Buckets |-> IF b \in E THEN None ELSE V[b]]
      /\ \A h \in Gateways \ {g} : local'[h] = local[h]
      /\ local' \in [Gateways -> [Buckets -> LocalEntry \cup {None}]]
  <2>1. [b \in Buckets |-> IF b \in E THEN None ELSE V[b]]
            \in [Buckets -> LocalEntry \cup {None}]
    BY <1>5
  <2> QED BY <1>1, <1>6, <1>8, <2>1
<1>10. \A b \in Buckets : Level(g, b)' = Available(b, local'[g][b])
  BY <1>1, <1>2 DEF Level, Table, Available, Elapsed
<1>11. ASSUME NEW b \in Buckets
       PROVE  /\ Sound(b, local'[g][b]) /\ Covers(b, local'[g][b])
              /\ Level(g, b)' = IF b \in E THEN Full(b)
                                ELSE IF b \in S THEN Left(g, S, u, b) ELSE Level(g, b)
  <2>1. CASE b \in E
    BY <1>9, <1>10, <2>1 DEF Sound, Covers, Available
  <2>2. CASE b \notin E
    BY <1>5, <1>9, <1>10, <2>2
  <2> QED BY <2>1, <2>2
<1>12. \A x \in Stores \ {g} : Table(x)' = Table(x)
  BY <1>2, <1>9 DEF Table, Stores
<1>13. /\ Ledger' /\ Promising
       /\ granted' \in [Stores -> [Buckets -> Nat]] /\ since' \in [Stores -> [Buckets -> Nat]]
  <2>1. \A b \in Buckets : Level(g, b)' =
            IF b \in E THEN Full(b)
            ELSE IF b \in S THEN Left(g, S, u, b) ELSE Level(g, b)
    BY <1>11
  <2>2. /\ TypeOK /\ Dated /\ Ledger /\ g \in Stores
        /\ S \in SUBSET Buckets /\ u \in Nat /\ u \in Units /\ clock' = clock
    BY <1>1, <1>2
  <2> QED BY <1>6, <1>7, <1>12, <2>1, <2>2, LedgerOfStore
<1>14. Tables'
  BY <1>2, <1>9, <1>13 DEF LimitInv, TypeOK, Tables
<1>15. Dated'
  <2>1. ASSUME NEW x \in Stores, NEW b \in Buckets
        PROVE  Sound(b, Table(x)'[b])
    BY <1>1, <1>2, <1>9, <1>11, <1>12 DEF Dated, Table, Stores
  <2> QED BY <1>2, <2>1 DEF Dated, Sound, Full
<1>16. Covered'
  <2>1. ASSUME NEW h \in Gateways, NEW b \in Buckets
        PROVE  Covers(b, local'[h][b])
    BY <1>1, <1>9, <1>11 DEF Covered
  <2> QED BY <2>1 DEF Covered, Covers, Full
<1> QED BY <1>13, <1>14, <1>15, <1>16 DEF StoresKept

\* What a bucket with entry e holds at time t.
At(b, e, t) ==
    IF e = None THEN Full(b)
    ELSE Least(Full(b), e.tokens + (IF t > e.ts THEN t - e.ts ELSE 0) * Rate[b])

\* In a second it gains its rate, and an entry that expires by then is that of
\* a bucket that is full.
LEMMA Refills ==
    ASSUME NEW b \in Buckets, NEW t \in Nat, NEW e, e # None,
           e.tokens \in Nat, e.tokens <= Full(b), e.ts \in Nat, e.ts <= t
    PROVE  /\ At(b, e, t) \in Nat /\ At(b, e, t + 1) \in Nat
           /\ At(b, e, t + 1) = Least(Full(b), At(b, e, t) + Rate[b])
           /\ e.ts + Expiry(b) <= t + 1 => At(b, e, t + 1) = Full(b)
<1>1. Full(b) \in Nat /\ Rate[b] \in Nat \ {0}
  BY Constants
<1> DEFINE n == t - e.ts
           p == n * Rate[b]
<1>2. n \in Nat /\ p \in Nat /\ (t + 1) - e.ts = n + 1
      /\ (n + 1) * Rate[b] = p + Rate[b]
  BY <1>1, Products
<1>3. /\ At(b, e, t) = Least(Full(b), e.tokens + p)
      /\ At(b, e, t + 1) = Least(Full(b), e.tokens + (p + Rate[b]))
  <2>1. (IF t > e.ts THEN t - e.ts ELSE 0) = n
    OBVIOUS
  <2>2. (IF t + 1 > e.ts THEN (t + 1) - e.ts ELSE 0) = n + 1
    OBVIOUS
  <2> QED BY <1>2, <2>1, <2>2 DEF At
<1>4. e.ts + Expiry(b) <= t + 1 => p + Rate[b] >= Full(b)
  <2> SUFFICES ASSUME e.ts + Expiry(b) <= t + 1 PROVE p + Rate[b] >= Full(b)
    OBVIOUS
  <2> DEFINE k == CeilDiv(Full(b), Rate[b])
  <2>1. k \in Nat /\ k * Rate[b] >= Full(b)
    BY <1>1, CeilDivCovers
  <2>2. Expiry(b) \in Nat /\ Expiry(b) >= k + 1
    BY <2>1, MaxOfTwo, RateAssumption DEF Expiry
  <2>3. k <= n + 1
    BY <1>2, <2>1, <2>2
  <2>4. k * Rate[b] <= (n + 1) * Rate[b] /\ k * Rate[b] \in Nat
    <3> HIDE DEF k, n
    <3>1. n + 1 \in Nat /\ Rate[b] \in Nat
      BY <1>1, <1>2
    <3> QED BY <2>1, <2>3, <3>1, Products
  <2> QED BY <1>1, <1>2, <2>1, <2>4
<1> HIDE DEF n, p
<1> QED BY <1>1, <1>2, <1>3, <1>4 DEF Least

\* A second passes.
LEMMA SecondKeeps ==
    ASSUME LimitInv, Second
    PROVE  StoresKept
<1>1. /\ TypeOK /\ Dated /\ Covered /\ Ledger /\ clock \in Nat /\ clock' = clock + 1
      /\ local' = local /\ granted' = granted /\ since' = since
      /\ shared \in [Buckets -> Entry \cup {None}] /\ Shared \in Stores
      /\ shared' = [b \in Buckets |->
            IF shared[b] # None /\ shared[b].ts + Expiry(b) <= clock + 1
            THEN None ELSE shared[b]]
  BY DEF LimitInv, TypeOK, Second, Stores, ledger
<1>2. Tables'
  BY <1>1 DEF TypeOK, Tables
<1>3. ASSUME NEW s \in Stores, NEW b \in Buckets
      PROVE  \/ Table(s)'[b] = Table(s)[b]
             \/ /\ Table(s)'[b] = None /\ Table(s)[b] # None
                /\ Table(s)[b].ts + Expiry(b) <= clock + 1
  BY <1>1 DEF Table
<1>4. ASSUME NEW s \in Stores, NEW b \in Buckets
      PROVE  Sound(b, Table(s)[b])
  BY <1>1 DEF Dated
<1>5. Dated'
  <2>1. ASSUME NEW s \in Stores, NEW b \in Buckets
        PROVE  LET e == Table(s)'[b]
               IN e # None => /\ e.tokens \in Nat /\ e.tokens <= Full(b)
                              /\ e.ts \in Nat /\ e.ts <= clock + 1
    BY <1>1, <1>3, <1>4 DEF Sound
  <2> QED BY <1>1, <2>1 DEF Dated, Sound, Full
<1>6. Covered'
  BY <1>1 DEF Covered, Covers, Full
<1>7. ASSUME NEW s \in Stores, NEW b \in Buckets
      PROVE  /\ since[s][b]' <= clock'
             /\ granted[s][b]' + Level(s, b)' <=
                   Full(b) + (clock' - since[s][b]') * Rate[b]
             /\ Level(s, b)' = Least(Full(b), Level(s, b) + Rate[b])
  <2>1. /\ since[s][b] <= clock /\ since[s][b] \in Nat /\ granted[s][b] \in Nat
        /\ granted[s][b] + Level(s, b) <= Full(b) + (clock - since[s][b]) * Rate[b]
        /\ Level(s, b) \in Nat
    BY <1>1, Levels DEF Ledger, TypeOK
  <2>2. /\ Level(s, b) = At(b, Table(s)[b], clock)
        /\ Level(s, b)' = At(b, Table(s)'[b], clock + 1)
    BY <1>1 DEF Level, Available, Elapsed, At, Full
  <2>3. Full(b) \in Nat /\ Rate[b] \in Nat
    BY Constants
  <2>4. /\ Level(s, b)' = Least(Full(b), Level(s, b) + Rate[b])
        /\ Level(s, b)' \in Nat /\ Level(s, b)' <= Level(s, b) + Rate[b]
    <3>1. CASE Table(s)[b] = None
      BY <1>3, <2>2, <2>3, <3>1 DEF At, Least
    <3>2. CASE Table(s)[b] # None
      <4>1. /\ At(b, Table(s)[b], clock + 1) \in Nat
            /\ At(b, Table(s)[b], clock + 1) =
                  Least(Full(b), At(b, Table(s)[b], clock) + Rate[b])
            /\ Table(s)[b].ts + Expiry(b) <= clock + 1 =>
                  At(b, Table(s)[b], clock + 1) = Full(b)
        BY <1>1, <1>4, <3>2, Refills DEF Sound
      <4>2. At(b, None, clock + 1) = Full(b)
        BY DEF At
      <4> QED BY <1>3, <2>1, <2>2, <2>3, <4>1, <4>2 DEF Least
    <3> QED BY <3>1, <3>2
  <2>5. ((clock + 1) - since[s][b]) * Rate[b] = (clock - since[s][b]) * Rate[b] + Rate[b]
        /\ (clock - since[s][b]) * Rate[b] \in Int
    <3>1. clock - since[s][b] \in Nat /\ (clock + 1) - since[s][b] = clock - since[s][b] + 1
      BY <1>1, <2>1
    <3> QED BY <2>3, <3>1, Products
  <2> DEFINE P == (clock - since[s][b]) * Rate[b]
  <2>6. P \in Int /\ granted[s][b] + Level(s, b) <= Full(b) + P
        /\ ((clock + 1) - since[s][b]) * Rate[b] = P + Rate[b]
    BY <2>1, <2>5
  <2> HIDE DEF P
  <2>7. granted[s][b] + Level(s, b)' <= Full(b) + (P + Rate[b])
    BY <2>1, <2>3, <2>4, <2>6
  <2>8. since[s][b] <= clock + 1
    BY <1>1, <2>1
  <2>9. /\ since[s][b]' = since[s][b] /\ granted[s][b]' = granted[s][b]
        /\ clock' = clock + 1 /\ clock \in Nat
    BY <1>1
  <2>10. (clock' - since[s][b]') * Rate[b] = P + Rate[b]
    <3>1. clock' - since[s][b]' = (clock + 1) - since[s][b]
      BY <2>9
    <3> QED BY <2>6, <3>1, Zenon
  <2> QED BY <2>4, <2>6, <2>7, <2>8, <2>9, <2>10
<1>8. Ledger'
  BY <1>7 DEF Ledger, Full
<1>9. Promise!Second
  BY <1>1, <1>7 DEF Promise!Second, Promise!Full, Promise!Least, Full, Least
<1> QED BY <1>2, <1>5, <1>6, <1>8, <1>9 DEF StoresKept, Promising, Promise!Next

\* A store loses every bucket it kept.
LEMMA LossKeeps ==
    ASSUME LimitInv, NEW s \in Stores, UNCHANGED clock,
           \A b \in Buckets : Table(s)'[b] = None,
           \A x \in Stores \ {s} : Table(x)' = Table(x),
           Book(s, {}, 1, Kept(Table(s)))
    PROVE  /\ Dated' /\ Covered' /\ Ledger' /\ Promising
           /\ granted' \in [Stores -> [Buckets -> Nat]]
           /\ since' \in [Stores -> [Buckets -> Nat]]
<1>1. /\ TypeOK /\ Dated /\ Covered /\ Ledger /\ clock' = clock
      /\ {} \in SUBSET Buckets /\ Kept(Table(s)) \in SUBSET Buckets /\ 1 \in Nat
  BY DEF LimitInv, Kept
<1>2. ASSUME NEW b \in Buckets
      PROVE  Level(s, b)' = IF b \in Kept(Table(s)) THEN Full(b)
                            ELSE IF b \in {} THEN Left(s, {}, 1, b) ELSE Level(s, b)
  <2>1. Level(s, b)' = Full(b)
    BY DEF Level, Available, Full
  <2>2. b \notin Kept(Table(s)) => Level(s, b) = Full(b)
    BY DEF Kept, Level, Available
  <2> QED BY <2>1, <2>2
<1>3. /\ Ledger' /\ Promising
      /\ granted' \in [Stores -> [Buckets -> Nat]]
      /\ since' \in [Stores -> [Buckets -> Nat]]
  BY <1>1, <1>2, LedgerOfStore
<1>4. Dated'
  <2>1. ASSUME NEW x \in Stores, NEW b \in Buckets
        PROVE  Sound(b, Table(x)'[b])
    <3>1. Table(x)'[b] = None \/ Table(x)'[b] = Table(x)[b]
      BY <2>1
    <3> QED BY <1>1, <3>1 DEF Dated, Sound
  <2> QED BY <1>1, <2>1 DEF Dated, Sound, Full
<1>5. Covered'
  <2>1. ASSUME NEW g \in Gateways, NEW b \in Buckets
        PROVE  Covers(b, local'[g][b])
    <3>1. Table(g)' = local'[g] /\ Table(g) = local[g] /\ g \in Stores
      BY RateAssumption DEF Table, Stores
    <3>2. local'[g][b] = None \/ local'[g][b] = local[g][b]
      BY <3>1
    <3> QED BY <1>1, <3>2 DEF Covered, Covers
  <2> QED BY <2>1 DEF Covered, Covers, Full
<1> QED BY <1>3, <1>4, <1>5

\* Every step keeps what is said of the stores.
LEMMA StoresStep ==
    ASSUME LimitInv, [Next]_vars
    PROVE  StoresKept
<1>1. CASE UNCHANGED vars
  BY <1>1, StoresAlone DEF vars, stores, ledger
<1>2. ASSUME NEW c \in Callers, NEW u \in Weights[c], NEW E \in SUBSET Extra[c],
             NEW named \in BOOLEAN, Begin(c, u, E, named)
      PROVE  StoresKept
  BY <1>2, StoresAlone DEF Begin, stores, ledger
<1>3. ASSUME NEW c \in Callers, Read(c) \/ Keep(c)
      PROVE  StoresKept
  BY <1>3, StoresAlone DEF Read, Keep, stores, ledger
<1>4. ASSUME NEW c \in Callers, TakeShared(c) \/ TakeLost(c)
      PROVE  StoresKept
  BY <1>4, SharedTake DEF TakeShared, TakeLost
<1>5. ASSUME NEW c \in Callers, TakeLocal(c)
      PROVE  StoresKept
  BY <1>5, LocalTake
<1>6. CASE Second
  BY <1>6, SecondKeeps
<1>7. CASE Configure \/ Outage
  BY <1>7, StoresAlone DEF Configure, Outage, stores, ledger
<1>8. CASE Return
  <2>1. CASE UNCHANGED <<shared, ledger>>
    BY <1>8, <2>1, StoresAlone DEF Return, ledger
  <2>2. CASE /\ shared' = [b \in Buckets |-> None]
             /\ Book(Shared, {}, 1, Kept(shared))
    <3>1. /\ Shared \in Stores /\ Table(Shared) = shared /\ clock' = clock
          /\ \A b \in Buckets : Table(Shared)'[b] = None
          /\ \A x \in Stores \ {Shared} : Table(x)' = Table(x)
      BY <1>8, <2>2 DEF Return, Table, Stores
    <3>2. Dated' /\ Covered' /\ Ledger' /\ Promising
          /\ granted' \in [Stores -> [Buckets -> Nat]]
          /\ since' \in [Stores -> [Buckets -> Nat]]
      BY <2>2, <3>1, LossKeeps
    <3> QED BY <1>8, <2>2, <3>2 DEF LimitInv, TypeOK, Return, Tables, StoresKept
  <2> QED BY <1>8, <2>1, <2>2 DEF Return
<1>9. ASSUME NEW g \in Gateways, Restart(g)
      PROVE  StoresKept
  <2>1. local \in [Gateways -> [Buckets -> LocalEntry \cup {None}]]
    BY DEF LimitInv, TypeOK
  <2>2. /\ g \in Stores /\ Table(g) = local[g] /\ clock' = clock
        /\ \A b \in Buckets : Table(g)'[b] = None
        /\ \A x \in Stores \ {g} : Table(x)' = Table(x)
        /\ Book(g, {}, 1, Kept(local[g]))
    BY <1>9, <2>1, RateAssumption DEF Restart, Table, Stores
  <2>3. Dated' /\ Covered' /\ Ledger' /\ Promising
        /\ granted' \in [Stores -> [Buckets -> Nat]]
        /\ since' \in [Stores -> [Buckets -> Nat]]
    BY <2>2, LossKeeps
  <2> QED BY <1>9, <2>1, <2>3 DEF LimitInv, TypeOK, Restart, Tables, StoresKept
<1> QED BY <1>1, <1>2, <1>3, <1>4, <1>5, <1>6, <1>7, <1>8, <1>9 DEF Next

-----------------------------------------------------------------------------
(* The processes and their requests *)

Processes ==
    /\ requests \in Nat /\ faults \in Nat /\ clock \in Nat
    /\ up \in BOOLEAN
    /\ version \in Versions
    /\ enforce \in BOOLEAN
    /\ home \in [Callers -> Gateways]
    /\ takes \in [Gateways -> Nat]
    /\ until \in [Gateways -> Nat]
    /\ cache \in [Gateways -> Cached \cup {None}]
    /\ req \in [Callers -> Requested]

\* The buckets a request is to pass are of the right kind.
LEMMA Weighing ==
    ASSUME NEW c \in Callers, NEW r \in Requested, NEW S \in SUBSET Buckets,
           r.units \in Units, req \in [Callers -> Requested], Weigh(c, r, S)
    PROVE  req' \in [Callers -> Requested]
<1>1. Idle \in Requested
  BY DEF Idle, Requested
<1>2. [r EXCEPT !.pc = "taking", !.need = S] \in Requested
  BY DEF Requested
<1> QED BY <1>1, <1>2 DEF Weigh

\* Every step keeps the types of what the processes and their requests hold.
LEMMA ProcessesStep ==
    ASSUME TypeOK, [Next]_vars
    PROVE  Processes'
<1>1. Processes
  BY DEF TypeOK, Processes
<1>2. Idle \in Requested
  BY DEF Idle, Requested
<1>3. CASE UNCHANGED vars
  BY <1>1, <1>3 DEF vars, stores, process, fixed, bounds, Processes
<1>4. ASSUME NEW c \in Callers, NEW u \in Weights[c], NEW E \in SUBSET Extra[c],
             NEW named \in BOOLEAN, Begin(c, u, E, named)
      PROVE  Processes'
  <2> DEFINE r == [Idle EXCEPT !.units = u, !.extra = E]
             g == home[c]
  <2>1. u \in Nat /\ u \in Units /\ E \in SUBSET Buckets /\ g \in Gateways
    BY <1>1, RateAssumption DEF Processes, Units
  <2>2. r \in Requested /\ r.units \in Units
    BY <2>1 DEF Idle, Requested
  <2>3. req' \in [Callers -> Requested]
    <3>1. CASE Weigh(c, r, E)
      BY <1>1, <2>1, <2>2, <3>1, Weighing DEF Processes
    <3>2. CASE /\ Fresh(g)
               /\ Weigh(c, [r EXCEPT !.limits = [version |-> cache[g].version,
                                                cachedAt |-> clock]],
                        Configured(c, cache[g].version) \cup E)
      <4>1. cache[g].version \in Versions /\ clock \in Nat
        BY <1>1, <2>1, <3>2 DEF Fresh, Processes, Cached
      <4>2. Configured(c, cache[g].version) \cup E \in SUBSET Buckets
        BY <2>1, RateAssumption DEF Configured
      <4>3. [r EXCEPT !.limits = [version |-> cache[g].version, cachedAt |-> clock]]
                \in Requested
        <5>1. [version |-> cache[g].version, cachedAt |-> clock] \in Limits
          BY <4>1 DEF Limits
        <5>2. [version |-> cache[g].version, cachedAt |-> clock] # None
          BY <5>1, RateAssumption
        <5> HIDE DEF r, g
        <5> QED BY <2>2, <5>1, <5>2 DEF Requested
      <4> DEFINE q == [r EXCEPT !.limits = [version |-> cache[g].version,
                                            cachedAt |-> clock]]
      <4>4. q.units \in Units
        BY <2>1 DEF Idle
      <4>5. Weigh(c, q, Configured(c, cache[g].version) \cup E)
        BY <3>2
      <4>6. q \in Requested /\ req \in [Callers -> Requested]
        BY <1>1, <4>3 DEF Processes
      <4> HIDE DEF q
      <4> QED BY <4>2, <4>4, <4>5, <4>6, Weighing
    <3>3. CASE req' = [req EXCEPT ![c] = [r EXCEPT !.pc = "loading", !.asked = clock]]
      <4>1. clock \in Nat
        BY <1>1 DEF Processes
      <4> HIDE DEF r
      <4>2. [r EXCEPT !.pc = "loading", !.asked = clock] \in Requested
        BY <2>2, <4>1 DEF Requested
      <4> QED BY <1>1, <3>3, <4>2 DEF Processes
    <3> QED BY <1>4, <3>1, <3>2, <3>3 DEF Begin
  <2> QED BY <1>1, <1>4, <2>3 DEF Begin, stores, process, fixed, Processes
<1>5. ASSUME NEW c \in Callers, Read(c)
      PROVE  Processes'
  <2>1. [version |-> version, cachedAt |-> None] \in Limits
    BY <1>1 DEF Processes, Limits
  <2>2. [req[c] EXCEPT !.pc = "read",
                       !.limits = [version |-> version, cachedAt |-> None]] \in Requested
    <3>1. [version |-> version, cachedAt |-> None] # None
      BY <2>1, RateAssumption
    <3>2. req[c] \in Requested /\ req[c].units \in Units
      BY <1>1, <1>5 DEF Read, Processes, Requested
    <3> QED BY <2>1, <3>1, <3>2 DEF Requested
  <2>3. req' \in [Callers -> Requested]
    BY <1>1, <1>5, <2>2 DEF Read, Processes
  <2> QED BY <1>1, <1>5, <2>3 DEF Read, stores, process, fixed, bounds, Processes
<1>6. ASSUME NEW c \in Callers, Keep(c)
      PROVE  Processes'
  <2> DEFINE v == req[c].limits.version
  <2>1. req[c].limits # None
    BY <1>1, <1>6 DEF Keep, Processes, Requested
  <2>2. v \in Versions /\ req[c] \in Requested /\ req[c].extra \in SUBSET Buckets
        /\ req[c].asked \in Nat /\ req[c].units \in Units
    BY <1>1, <1>6, <2>1 DEF Keep, Processes, Requested, Limits
  <2>3. Configured(c, v) \cup req[c].extra \in SUBSET Buckets
    BY <2>2, RateAssumption DEF Configured
  <2>4. req' \in [Callers -> Requested]
    BY <1>1, <1>6, <2>2, <2>3, Weighing DEF Keep, Processes
  <2>5. CachedUntil(c) \in Nat
    BY <2>2, RateAssumption DEF CachedUntil
  <2>6. cache' \in [Gateways -> Cached \cup {None}]
    BY <1>1, <1>6, <2>2, <2>5 DEF Keep, Processes, Cached
  <2> QED BY <1>1, <1>6, <2>4, <2>6 DEF Keep, stores, fixed, bounds, Processes
<1>7. ASSUME NEW c \in Callers, TakeShared(c) \/ TakeLost(c) \/ TakeLocal(c)
      PROVE  Processes'
  <2>1. CASE TakeShared(c)
    BY <1>1, <1>2, <2>1 DEF TakeShared, Finish, fixed, bounds, Processes
  <2>2. CASE TakeLost(c)
    BY <1>1, <2>2 DEF TakeLost, process, fixed, Processes, Requested
  <2>3. CASE TakeLocal(c)
    <3>1. until' \in [Gateways -> Nat]
      BY <1>1, <2>3, RateAssumption DEF TakeLocal, Processes
    <3>2. takes' \in [Gateways -> Nat]
      BY <1>1, <2>3 DEF TakeLocal, Processes
    <3>3. req' \in [Callers -> Requested]
      BY <1>1, <1>2, <2>3 DEF TakeLocal, Finish, Processes
    <3> QED BY <1>1, <2>3, <3>1, <3>2, <3>3 DEF TakeLocal, fixed, bounds, Processes
  <2> QED BY <1>7, <2>1, <2>2, <2>3
<1>8. CASE Second \/ Configure \/ Outage \/ Return
  <2>1. CASE Second
    BY <1>1, <2>1 DEF Second, process, fixed, bounds, Processes
  <2>2. CASE Configure
    BY <1>1, <2>2 DEF Configure, stores, process, fixed, bounds, Processes
  <2>3. CASE Outage
    <3>1. up' \in BOOLEAN
      BY <2>3, Zenon DEF Outage
    <3>2. faults' \in Nat
      BY <1>1, <2>3 DEF Outage, Processes
    <3> QED BY <1>1, <2>3, <3>1, <3>2 DEF Outage, stores, process, fixed, Processes
  <2>4. CASE Return
    BY <1>1, <2>4 DEF Return, process, fixed, bounds, Processes
  <2> QED BY <1>8, <2>1, <2>2, <2>3, <2>4
<1>9. ASSUME NEW g \in Gateways, Restart(g)
      PROVE  Processes'
  BY <1>1, <1>2, <1>9 DEF Restart, fixed, Processes
<1> QED BY <1>3, <1>4, <1>5, <1>6, <1>7, <1>8, <1>9 DEF Next

-----------------------------------------------------------------------------
(* The theorems *)

\* The invariant holds at the start, ...
LEMMA Start ==
    Init => LimitInv
<1> SUFFICES ASSUME Init PROVE LimitInv
  OBVIOUS
<1>1. /\ Shared \notin Gateways /\ Homes \subseteq [Callers -> Gateways]
      /\ 1 \in Versions
  BY RateAssumption
<1>2. /\ clock = 0 /\ since = [s \in Stores |-> [b \in Buckets |-> 0]]
      /\ granted = [s \in Stores |-> [b \in Buckets |-> 0]]
      /\ local = [g \in Gateways |-> [b \in Buckets |-> None]]
      /\ shared = [b \in Buckets |-> None]
  BY DEF Init
<1>3. \A s \in Stores, b \in Buckets : Table(s)[b] = None
  BY <1>2 DEF Table, Stores
<1>4. TypeOK
  <2>1. Idle \in Requested
    BY DEF Idle, Requested
  <2>2. enforce \in BOOLEAN /\ up \in BOOLEAN
    BY Zenon DEF Init
  <2> QED BY <1>1, <1>2, <1>3, <2>1, <2>2 DEF Init, TypeOK
<1>5. Dated /\ Covered
  BY <1>2, <1>3 DEF Dated, Covered, Sound, Covers
<1>6. ASSUME NEW s \in Stores, NEW b \in Buckets
      PROVE  /\ since[s][b] <= clock
             /\ granted[s][b] + Level(s, b) <= Full(b) + (clock - since[s][b]) * Rate[b]
  <2>1. /\ since[s][b] = 0 /\ granted[s][b] = 0 /\ clock = 0 /\ Level(s, b) = Full(b)
    BY <1>2, <1>3 DEF Level, Available
  <2>2. Full(b) \in Nat /\ Rate[b] \in Nat /\ (0 - 0) * Rate[b] = 0
    BY Constants
  <2> QED BY <2>1, <2>2
<1> QED BY <1>4, <1>5, <1>6 DEF LimitInv, Ledger

\* ... and every step keeps it.
LEMMA Step ==
    LimitInv /\ [Next]_vars => LimitInv'
<1> SUFFICES ASSUME LimitInv, [Next]_vars PROVE LimitInv'
  OBVIOUS
<1>1. StoresKept
  BY StoresStep
<1>2. Processes'
  BY ProcessesStep DEF LimitInv
<1>3. TypeOK'
  BY <1>1, <1>2 DEF StoresKept, Tables, Processes, Dated, Sound, TypeOK
<1> QED BY <1>1, <1>3 DEF StoresKept, LimitInv

\* Every variable keeps its type: no bucket is ever in debt or holds more than
\* its capacity (the clamps of _TAKE_TOKENS and InMemoryTokenBucket.take).
THEOREM TypeCorrect == Spec => []TypeOK
<1>1. LimitInv => TypeOK
  BY DEF LimitInv
<1> QED BY Start, Step, <1>1, PTL DEF Spec

\* A limit holds in every store over every stretch of time, through expiry,
\* sweeps, lost answers and outages (FallbackTokenBucket): what was admitted and
\* what is still there never exceed the capacity and what was refilled.
THEOREM LimitsHold == Spec => []LimitHolds
<1>1. LimitInv => LimitHolds
  <2> SUFFICES ASSUME LimitInv, NEW s \in Stores, NEW b \in Buckets
               PROVE  granted[s][b] <= Full(b) + (clock - since[s][b]) * Rate[b]
    BY DEF LimitHolds
  <2>1. /\ granted[s][b] + Level(s, b) <= Full(b) + (clock - since[s][b]) * Rate[b]
        /\ granted[s][b] \in Nat /\ Level(s, b) \in Nat
        /\ clock - since[s][b] \in Nat
    BY Levels DEF LimitInv, Ledger, TypeOK
  <2>2. (clock - since[s][b]) * Rate[b] \in Nat /\ Full(b) \in Nat
    BY <2>1, Constants
  <2> QED BY <2>1, <2>2
<1> QED BY Start, Step, <1>1, PTL DEF Spec

\* The entries of both stores, with all that happens to them, are steady buckets
\* that admit all of a request or none of it: every step of the processes and of
\* Redis is a step of Allowance, or changes no bucket.
THEOREM AllowanceKept == Spec => KeepsThePromise
<1>1. Init => Promise!Init
  <2> SUFFICES ASSUME Init PROVE Promise!Init
    OBVIOUS
  <2>1. \A s \in Stores, b \in Buckets : Level(s, b) = Full(b)
    <3>1. \A s \in Stores, b \in Buckets : Table(s)[b] = None
      BY DEF Init, Table, Stores
    <3> QED BY <3>1 DEF Level, Available
  <2> QED BY <2>1 DEF Init, Promise!Init, Promise!Full, Full
<1>2. LimitInv /\ [Next]_vars => [Promise!Next]_<<clock, Holdings, granted, since>>
  BY StoresStep DEF StoresKept, Promising
<1> QED BY Start, Step, <1>1, <1>2, PTL DEF Spec, KeepsThePromise, Promise!Spec, Holdings

-----------------------------------------------------------------------------
(* Retry-After, and the cached limits *)

\* What a refusal says.
Promises == [at: Nat, store: Stores, buckets: SUBSET Buckets, units: Units]
Ahead(at) == IF at > clock THEN at - clock ELSE 0

\* The buckets of a refusal will hold what it asked for when its wait is over.
Owed(p) ==
    \A b \in p.buckets :
        /\ p.units <= Capacity[b]
        /\ p.units * Token <= Level(p.store, b) + Ahead(p.at) * Rate[b]

Honest ==
    /\ promise \in [Callers -> Promises \cup {None}]
    /\ \A c \in Callers, p \in Promises : promise[c] = p /\ p # None => Owed(p)

\* What a request has to pass is not more than its buckets can ever hold.
Bearable(r) == r.pc \in {"taking", "lost"} => ~TooHeavy(r.need, r.units)
Light == \A c \in Callers : Bearable(req[c])

\* v was replaced at moment m or later, if at all.
HeldUntil(v, m) == replaced[v] = None \/ replaced[v] >= m
RecentUntil(v, m) == replaced[v] = None \/ replaced[v] + CacheSeconds >= m

\* What may be said of the limits a request goes by.
Fine(r) ==
    /\ r.asked <= clock
    /\ r.pc = "read" => HeldUntil(r.limits.version, r.asked)
    /\ r.limits # None /\ r.limits.cachedAt # None =>
          /\ r.limits.cachedAt <= clock
          /\ RecentUntil(r.limits.version, r.limits.cachedAt)

\* The limits a request read were in force when it had asked for them; those in
\* a cache were at most CONFIG_CACHE_SECONDS before they run out.
Recent ==
    /\ replaced \in [Versions -> Nat \cup {None}]
    /\ \A v \in Versions : v >= version => replaced[v] = None
    /\ \A g \in Gateways : cache[g] # None =>
          /\ cache[g].until <= clock + CacheSeconds
          /\ RecentUntil(cache[g].version, cache[g].until)
    /\ \A c \in Callers : Fine(req[c])

\* A step that leaves the limits, the caches and the clock alone.
LEMMA RequestsMove ==
    ASSUME Recent, UNCHANGED <<clock, version, replaced, cache>>,
           \A c \in Callers : req'[c] = req[c] \/ Fine(req'[c])
    PROVE  Recent'
  BY DEF Recent, Fine, HeldUntil, RecentUntil

\* A request that is not loading is fine with limits it may go by.
LEMMA Weighed ==
    ASSUME clock \in Nat, NEW c \in Callers, NEW r \in Requested, NEW S, Fine(r),
           req \in [Callers -> Requested], Weigh(c, r, S)
    PROVE  \A x \in Callers : req'[x] = req[x] \/ Fine(req'[x])
<1>1. Fine(Idle)
  BY DEF Fine, Idle
<1>2. Fine([r EXCEPT !.pc = "taking", !.need = S])
  BY DEF Fine, Requested
<1> QED BY <1>1, <1>2 DEF Weigh

\* Every step keeps the limits recent.
LEMMA RecentStep ==
    ASSUME LimitInv, Recent, [Next]_vars
    PROVE  Recent'
<1>1. /\ clock \in Nat /\ CacheSeconds \in Nat /\ version \in Versions
      /\ Versions \subseteq Nat /\ home \in [Callers -> Gateways]
      /\ cache \in [Gateways -> Cached \cup {None}]
      /\ req \in [Callers -> Requested]
  BY RateAssumption DEF LimitInv, TypeOK, Versions
<1>2. Fine(Idle)
  BY <1>1 DEF Fine, Idle
<1>3. CASE UNCHANGED vars
  BY <1>3, RequestsMove DEF vars, process
<1>4. ASSUME NEW c \in Callers, NEW u \in Weights[c], NEW E \in SUBSET Extra[c],
             NEW named \in BOOLEAN, Begin(c, u, E, named)
      PROVE  Recent'
  <2> DEFINE r == [Idle EXCEPT !.units = u, !.extra = E]
             g == home[c]
  <2>1. r \in Requested /\ Fine(r) /\ g \in Gateways
    <3>1. E \in SUBSET Buckets /\ u \in Nat
      BY RateAssumption
    <3>2. r \in Requested
      BY <3>1 DEF Idle, Requested
    <3>3. Fine(r)
      BY <1>1 DEF Idle, Fine
    <3> QED BY <1>1, <3>2, <3>3
  <2>2. UNCHANGED <<clock, version, replaced, cache>>
    BY <1>4 DEF Begin, process
  <2>3. CASE Weigh(c, r, E)
    <3> HIDE DEF r
    <3> QED BY <1>1, <2>1, <2>2, <2>3, Weighed, RequestsMove
  <2>4. CASE /\ Fresh(g)
             /\ Weigh(c, [r EXCEPT !.limits = [version |-> cache[g].version,
                                              cachedAt |-> clock]],
                      Configured(c, cache[g].version) \cup E)
    <3> DEFINE l == [version |-> cache[g].version, cachedAt |-> clock]
               q == [r EXCEPT !.limits = l]
    <3>1. cache[g] # None /\ clock < cache[g].until /\ cache[g] \in Cached
      BY <1>1, <2>1, <2>4 DEF Fresh
    <3>2. RecentUntil(cache[g].version, clock)
      BY <1>1, <2>1, <3>1 DEF Recent, RecentUntil, Cached
    <3>3. l \in Limits /\ l # None
      BY <1>1, <3>1, RateAssumption DEF Limits, Cached
    <3>4. q \in Requested
      <4> HIDE DEF r, l
      <4> QED BY <2>1, <3>3 DEF Requested
    <3>5. Fine(q)
      <4>1. q.limits = l /\ q.asked = 0 /\ q.pc = "idle"
        BY DEF Idle
      <4>2. l.version = cache[g].version /\ l.cachedAt = clock
        OBVIOUS
      <4> HIDE DEF q, l
      <4> QED BY <1>1, <3>2, <4>1, <4>2 DEF Fine
    <3>6. Weigh(c, q, Configured(c, cache[g].version) \cup E)
      BY <2>4
    <3> HIDE DEF q
    <3> QED BY <1>1, <2>2, <3>4, <3>5, <3>6, Weighed, RequestsMove
  <2>5. CASE req' = [req EXCEPT ![c] = [r EXCEPT !.pc = "loading", !.asked = clock]]
    <3>1. Fine([r EXCEPT !.pc = "loading", !.asked = clock])
      BY <1>1 DEF Fine, Idle
    <3> QED BY <1>1, <2>2, <2>5, <3>1, RequestsMove
  <2> QED BY <1>4, <2>3, <2>4, <2>5 DEF Begin
<1>5. ASSUME NEW c \in Callers, Read(c)
      PROVE  Recent'
  <2> DEFINE q == [req[c] EXCEPT !.pc = "read",
                                 !.limits = [version |-> version, cachedAt |-> None]]
  <2>1. req' = [req EXCEPT ![c] = q]
    BY <1>1, <1>5 DEF Read
  <2>2. Fine(q)
    <3>1. /\ q.asked = req[c].asked /\ q.limits.version = version
          /\ q.limits.cachedAt = None
      BY <1>1 DEF Requested
    <3>2. req[c].asked <= clock /\ replaced[version] = None
      BY <1>1 DEF Recent, Fine
    <3> HIDE DEF q
    <3> QED BY <3>1, <3>2 DEF Fine, HeldUntil
  <2>3. UNCHANGED <<clock, version, replaced, cache>>
    BY <1>5 DEF Read, process
  <2> HIDE DEF q
  <2> QED BY <1>1, <2>1, <2>2, <2>3, RequestsMove
<1>6. ASSUME NEW c \in Callers, Keep(c)
      PROVE  Recent'
  <2> DEFINE v == req[c].limits.version
             S == Configured(c, v) \cup req[c].extra
  <2>1. /\ req[c] \in Requested /\ req[c].limits # None /\ v \in Versions
        /\ req[c].asked \in Nat /\ req[c].asked <= clock /\ HeldUntil(v, req[c].asked)
        /\ Fine(req[c])
    BY <1>1, <1>6 DEF Keep, Requested, Limits, Recent, Fine
  <2>2. /\ cache' = [cache EXCEPT ![home[c]] =
                        [until |-> req[c].asked + CacheSeconds, version |-> v]]
        /\ Weigh(c, req[c], S) /\ UNCHANGED <<clock, version, replaced>>
    BY <1>6 DEF Keep, CachedUntil
  <2>3. \A x \in Callers : req'[x] = req[x] \/ Fine(req'[x])
    <3> HIDE DEF S
    <3> QED BY <1>1, <2>1, <2>2, Weighed
  <2>4. RecentUntil(v, req[c].asked + CacheSeconds)
    <3>1. replaced[v] \in Nat \cup {None}
      BY <2>1 DEF Recent
    <3> QED BY <1>1, <2>1, <3>1 DEF HeldUntil, RecentUntil
  <2> HIDE DEF v
  <2>5. \A g \in Gateways : cache'[g] # None =>
          /\ cache'[g].until <= clock + CacheSeconds
          /\ RecentUntil(cache'[g].version, cache'[g].until)
    BY <1>1, <2>1, <2>2, <2>4 DEF Recent
  <2> QED BY <2>2, <2>3, <2>5 DEF Recent, Fine, HeldUntil, RecentUntil
<1>7. ASSUME NEW c \in Callers, TakeShared(c) \/ TakeLost(c) \/ TakeLocal(c)
      PROVE  Recent'
  <2>1. UNCHANGED <<clock, version, replaced, cache>>
    BY <1>7 DEF TakeShared, TakeLost, TakeLocal, process
  <2>2. CASE req' = [req EXCEPT ![c] = Idle]
    BY <1>1, <1>2, <2>1, <2>2, RequestsMove
  <2>3. CASE req' = [req EXCEPT ![c].pc = "lost"]
    <3>1. Fine([req[c] EXCEPT !.pc = "lost"])
      BY <1>1 DEF Recent, Fine, Requested
    <3> QED BY <1>1, <2>1, <2>3, <3>1, RequestsMove
  <2> QED BY <1>7, <2>2, <2>3 DEF TakeShared, TakeLost, TakeLocal, Finish
<1>8. CASE Second
  <2>1. UNCHANGED <<version, replaced, cache, req>> /\ clock' = clock + 1
    BY <1>8 DEF Second, process
  <2>2. \A c \in Callers : req[c] \in Requested
    BY <1>1
  <2>3. \A g \in Gateways : cache[g] # None => cache[g].until \in Nat
    BY <1>1 DEF Cached
  <2>4. \A g \in Gateways : cache[g] # None =>
          cache[g].until <= (clock + 1) + CacheSeconds
    BY <1>1, <2>3 DEF Recent
  <2>5. ASSUME NEW c \in Callers
        PROVE  Fine(req[c])'
    <3>1. req[c].asked \in Nat /\ req[c].asked <= clock + 1
      BY <1>1 DEF Recent, Fine, Requested
    <3>2. req[c].limits # None /\ req[c].limits.cachedAt # None =>
            req[c].limits.cachedAt <= clock + 1
      BY <1>1 DEF Recent, Fine, Requested, Limits
    <3> QED BY <2>1, <3>1, <3>2 DEF Recent, Fine, HeldUntil, RecentUntil
  <2> QED BY <2>1, <2>4, <2>5 DEF Recent, RecentUntil
<1>9. CASE Configure
  <2>1. /\ UNCHANGED <<clock, cache, req>> /\ version' = version + 1
        /\ replaced' = [replaced EXCEPT ![version] = clock]
    BY <1>9 DEF Configure, process
  <2>2. /\ replaced' \in [Versions -> Nat \cup {None}]
        /\ \A v \in Versions : replaced'[v] = replaced[v] \/ replaced'[v] = clock
    BY <1>1, <2>1 DEF Recent
  <2>3. \A v \in Versions : v >= version' => replaced'[v] = None
    BY <1>1, <2>1 DEF Recent
  <2>4. ASSUME NEW v \in Versions, NEW m \in Nat, m <= clock, HeldUntil(v, m)
        PROVE  HeldUntil(v, m)'
    BY <2>2, <2>4 DEF HeldUntil
  <2>5. ASSUME NEW v \in Versions, NEW m \in Nat, m <= clock + CacheSeconds,
               RecentUntil(v, m)
        PROVE  RecentUntil(v, m)'
    BY <1>1, <2>2, <2>5 DEF RecentUntil
  <2>6. ASSUME NEW g \in Gateways, cache[g] # None
        PROVE  /\ cache[g].until <= clock + CacheSeconds
               /\ RecentUntil(cache[g].version, cache[g].until)'
    <3>1. PICK k \in Cached : k = cache[g]
      BY <1>1, <2>6
    <3>2. k.version \in Versions /\ k.until \in Nat
      BY DEF Cached
    <3>3. k.until <= clock + CacheSeconds /\ RecentUntil(k.version, k.until)
      BY <2>6, <3>1 DEF Recent
    <3>4. RecentUntil(k.version, k.until)'
      BY <2>5, <3>2, <3>3
    <3> QED BY <2>1, <3>1, <3>3, <3>4
  <2>7. ASSUME NEW c \in Callers
        PROVE  Fine(req[c])'
    <3>1. PICK r \in Requested : r = req[c]
      BY <1>1
    <3>2. Fine(r) /\ r.asked \in Nat
      BY <3>1 DEF Recent, Requested
    <3>3. r.limits # None => r.limits.version \in Versions /\ r.limits.cachedAt \in Nat \cup {None}
      BY DEF Requested, Limits
    <3>4. r.pc = "read" => HeldUntil(r.limits.version, r.asked)'
      BY <2>4, <3>2, <3>3 DEF Fine, Requested
    <3>5. r.limits # None /\ r.limits.cachedAt # None
            => RecentUntil(r.limits.version, r.limits.cachedAt)'
      <4> SUFFICES ASSUME r.limits # None, r.limits.cachedAt # None
                   PROVE  RecentUntil(r.limits.version, r.limits.cachedAt)'
        OBVIOUS
      <4>1. PICK v \in Versions, m \in Nat : v = r.limits.version /\ m = r.limits.cachedAt
        BY <3>3
      <4>2. m <= clock /\ RecentUntil(v, m)
        BY <3>2, <4>1 DEF Fine
      <4>3. m <= clock + CacheSeconds
        BY <1>1, <4>2
      <4>4. RecentUntil(v, m)'
        BY <2>5, <4>2, <4>3
      <4> QED BY <4>1, <4>4
    <3>6. Fine(r)'
      BY <2>1, <3>2, <3>4, <3>5 DEF Fine
    <3> QED BY <2>1, <3>1, <3>6
  <2> QED BY <2>1, <2>2, <2>3, <2>6, <2>7 DEF Recent
<1>10. CASE Outage \/ Return
  BY <1>10, RequestsMove DEF Outage, Return, process
<1>11. ASSUME NEW g \in Gateways, Restart(g)
      PROVE  Recent'
  <2>1. /\ UNCHANGED <<clock, version, replaced>>
        /\ \A x \in Gateways : cache'[x] = cache[x] \/ cache'[x] = None
        /\ \A c \in Callers : req'[c] = req[c] \/ req'[c] = Idle
    BY <1>1, <1>11 DEF Restart
  <2> QED BY <1>2, <2>1 DEF Recent, Fine, HeldUntil, RecentUntil
<1> QED BY <1>3, <1>4, <1>5, <1>6, <1>7, <1>8, <1>9, <1>10, <1>11 DEF Next

\* Limits that come out of a process's cache (_config of ratelimit/service.py)
\* were in force at most CONFIG_CACHE_SECONDS ago, in whatever order the loads
\* of several requests finish and however often the limits are replaced.
THEOREM LimitsAreRecent == Spec => []CachedLimitsAreRecent
<1>1. Init => Recent
  <2> SUFFICES ASSUME Init PROVE Recent
    OBVIOUS
  <2>1. Fine(Idle)
    BY DEF Init, Fine, Idle
  <2> QED BY <2>1 DEF Init, Recent
<1>2. LimitInv /\ Recent /\ [Next]_vars => Recent'
  BY RecentStep
<1>3. Recent => CachedLimitsAreRecent
  BY DEF Recent, Fine, RecentUntil, CachedLimitsAreRecent
<1> QED BY Start, Step, <1>1, <1>2, <1>3, PTL DEF Spec

-----------------------------------------------------------------------------
(* Retry-After *)

\* The wait of a refusal is long enough for each bucket that could not pay.
LEMMA WaitCovers ==
    ASSUME TypeOK, Dated, NEW s \in Stores, NEW S \in SUBSET Buckets, NEW u \in Nat
    PROVE  /\ Wait(s, S, u) \in Nat /\ Wait(s, S, u) >= 1
           /\ \A b \in S : u * Token <= Level(s, b) + Wait(s, S, u) * Rate[b]
<1> DEFINE Short == {x \in S : ~Passes(s, x, u)}
           W(b) == CeilDiv(u * Token - Level(s, b), Rate[b])
           T == {1} \cup {W(b) : b \in Short}
           P == u * Token
<1>1. P \in Nat
  BY RateAssumption
<1>2. ASSUME NEW b \in Short
      PROVE  /\ W(b) \in Nat /\ W(b) <= P
             /\ P <= Level(s, b) + W(b) * Rate[b]
  <2>1. /\ Level(s, b) \in Nat /\ Rate[b] \in Nat \ {0}
        /\ P - Level(s, b) \in Nat
    BY <1>1, <1>2, Levels, Constants DEF Passes
  <2> DEFINE n == P - Level(s, b)
  <2>2. n \in Nat /\ n <= P /\ Level(s, b) + n = P
    BY <1>1, <2>1
  <2>3. CeilDiv(n, Rate[b]) \in Nat /\ CeilDiv(n, Rate[b]) * Rate[b] >= n
    BY <2>1, <2>2, CeilDivCovers
  <2>4. CeilDiv(n, Rate[b]) <= n
    BY <2>1, <2>2, CeilDivLeast
  <2> HIDE DEF P
  <2>5. CeilDiv(n, Rate[b]) * Rate[b] \in Nat
    BY <2>1, <2>3
  <2> DEFINE K == CeilDiv(n, Rate[b])
             M == K * Rate[b]
  <2>6. K \in Nat /\ K <= n /\ M \in Nat /\ M >= n
    BY <2>3, <2>4, <2>5
  <2>7. W(b) = K
    BY DEF P
  <2> HIDE DEF n, K, M, W
  <2>8. K <= P /\ P <= Level(s, b) + M
    BY <1>1, <2>1, <2>2, <2>6
  <2> QED BY <2>6, <2>7, <2>8 DEF M
<1>3. T \subseteq Nat /\ T # {} /\ P + 1 \in Nat /\ \A x \in T : x <= P + 1
  <2> HIDE DEF P, W, Short
  <2> QED BY <1>1, <1>2
<1>4. Max(T) \in T /\ \A x \in T : Max(T) >= x
  <2> HIDE DEF T, P
  <2> QED BY <1>3, MaxOfBounded
<1>5. Wait(s, S, u) = Max(T)
  BY DEF Wait
<1>6. Wait(s, S, u) \in Nat /\ Wait(s, S, u) >= 1
  <2>1. 1 \in T
    OBVIOUS
  <2> HIDE DEF T
  <2> QED BY <1>3, <1>4, <1>5, <2>1
<1>7. ASSUME NEW b \in S
      PROVE  P <= Level(s, b) + Wait(s, S, u) * Rate[b]
  <2>1. Level(s, b) \in Nat /\ Rate[b] \in Nat
    BY Levels, Constants
  <2>2. Wait(s, S, u) * Rate[b] \in Nat
    BY <1>6, <2>1
  <2>3. CASE b \in Short
    <3>1. W(b) \in Nat /\ W(b) <= Wait(s, S, u) /\ P <= Level(s, b) + W(b) * Rate[b]
      <4>1. W(b) \in T
        BY <2>3
      <4> HIDE DEF T, W, Short, P
      <4> QED BY <1>2, <1>4, <1>5, <2>3, <4>1
    <3> DEFINE w == W(b)
               v == Wait(s, S, u)
    <3> HIDE DEF W, P
    <3>2. w * Rate[b] <= v * Rate[b] /\ w * Rate[b] \in Nat
      <4>1. w \in Nat /\ v \in Nat /\ w <= v
        BY <1>6, <3>1
      <4> HIDE DEF w, v
      <4> QED BY <2>1, <4>1, Products
    <3>3. P <= Level(s, b) + w * Rate[b]
      BY <3>1
    <3> DEFINE A == w * Rate[b]
               B == v * Rate[b]
    <3> HIDE DEF A, B
    <3>4. A <= B /\ A \in Nat /\ B \in Nat /\ P <= Level(s, b) + A
      BY <2>2, <3>2, <3>3 DEF A, B
    <3>5. P <= Level(s, b) + B
      BY <1>1, <2>1, <3>4
    <3> QED BY <3>5 DEF B
  <2>4. CASE b \notin Short
    <3>1. P <= Level(s, b)
      BY <2>4 DEF Passes
    <3> HIDE DEF P
    <3> QED BY <1>1, <2>1, <2>2, <3>1
  <2> QED BY <2>3, <2>4
<1> QED BY <1>6, <1>7

\* What a bucket holds falls only by what is granted from it.
LEMMA LevelsFall ==
    ASSUME LimitInv, Promising, clock' = clock, NEW s \in Stores, NEW b \in Buckets,
           Level(s, b)' \in Nat, granted'[s][b] <= granted[s][b]
    PROVE  Level(s, b)' >= Level(s, b)
<1>1. /\ Level(s, b) \in Nat /\ Level(s, b) <= Full(b) /\ Full(b) \in Nat
      /\ clock \in Nat /\ granted[s][b] \in Nat
  BY Levels, Constants DEF LimitInv, TypeOK
<1>2. Holdings[s][b] = Level(s, b) /\ Holdings'[s][b] = Level(s, b)'
  BY DEF Holdings
<1>3. CASE UNCHANGED <<clock, Holdings, granted, since>>
  BY <1>1, <1>2, <1>3
<1>4. CASE Promise!Second
  BY <1>1, <1>4 DEF Promise!Second
<1>5. ASSUME NEW x \in Stores, NEW u \in Units, Promise!Step(x, u)
      PROVE  Level(s, b)' >= Level(s, b)
  <2>1. Promise!Untouched(s, b) => Level(s, b)' = Level(s, b)
    BY <1>2 DEF Promise!Untouched, Holdings
  <2>2. Promise!Lapses(s, b) => Level(s, b)' = Full(b)
    BY <1>2 DEF Promise!Lapses, Promise!Full, Full, Holdings
  <2>3. ~Promise!Pays(s, b, u)
    <3>1. u * Token \in Nat \ {0}
      BY RateAssumption DEF Units
    <3>2. ~(granted'[s][b] = granted[s][b] + u * Token)
      BY <1>1, <3>1
    <3> QED BY <3>2 DEF Promise!Pays
  <2> QED BY <1>1, <1>5, <2>1, <2>2, <2>3 DEF Promise!Step
<1> QED BY <1>3, <1>4, <1>5 DEF Promising, Promise!Next

\* The levels are amounts before and after a step.
LEMMA LevelsNow == LimitInv => \A s \in Stores, b \in Buckets : Level(s, b) \in Nat
  BY Levels DEF LimitInv

LEMMA LevelsThen == LimitInv' => \A s \in Stores, b \in Buckets : Level(s, b)' \in Nat
<1>1. (LimitInv => \A s \in Stores, b \in Buckets : Level(s, b) \in Nat)'
  BY LevelsNow, PTL
<1> QED BY <1>1

\* A step that takes no time and grants nothing from the buckets of a refusal
\* leaves what is owed to it.
LEMMA OwedKept ==
    ASSUME LimitInv, LimitInv', Promising, clock' = clock, NEW p \in Promises, Owed(p),
           \A b \in p.buckets : granted'[p.store][b] <= granted[p.store][b]
    PROVE  Owed(p)'
<1> PICK s \in Stores, S \in SUBSET Buckets, u \in Units, at \in Nat :
        p = [at |-> at, store |-> s, buckets |-> S, units |-> u]
  BY DEF Promises
<1> SUFFICES ASSUME NEW b \in S
             PROVE  /\ u <= Capacity[b]
                    /\ u * Token <= Level(s, b)' + Ahead(at)' * Rate[b]
  BY DEF Owed
<1>1. u <= Capacity[b] /\ u * Token <= Level(s, b) + Ahead(at) * Rate[b]
  BY DEF Owed
<1>2. Level(s, b) \in Nat /\ Level(s, b)' \in Nat
  BY LevelsNow, LevelsThen
<1>3. Level(s, b)' >= Level(s, b)
  BY <1>2, LevelsFall
<1>4. Ahead(at)' = Ahead(at) /\ Ahead(at) \in Nat /\ Rate[b] \in Nat
  BY Constants DEF Ahead, LimitInv, TypeOK
<1> DEFINE A == Ahead(at) * Rate[b]
           P == u * Token
<1>5. A \in Nat /\ P \in Nat /\ P <= Level(s, b) + A
  BY <1>1, <1>4, RateAssumption DEF Units
<1> HIDE DEF A, P
<1>6. P <= Level(s, b)' + A
  BY <1>2, <1>3, <1>5
<1> QED BY <1>1, <1>4, <1>6 DEF A, P

\* A second that passes shortens the wait by what it refills.
LEMMA OwedSooner ==
    ASSUME LimitInv, LimitInv', Promising, clock' = clock + 1, NEW p \in Promises, Owed(p)
    PROVE  Owed(p)'
<1> PICK s \in Stores, S \in SUBSET Buckets, u \in Units, at \in Nat :
        p = [at |-> at, store |-> s, buckets |-> S, units |-> u]
  BY DEF Promises
<1> SUFFICES ASSUME NEW b \in S
             PROVE  /\ u <= Capacity[b]
                    /\ u * Token <= Level(s, b)' + Ahead(at)' * Rate[b]
  BY DEF Owed
<1>1. u <= Capacity[b] /\ u * Token <= Level(s, b) + Ahead(at) * Rate[b]
  BY DEF Owed
<1>2. /\ Level(s, b) \in Nat /\ Level(s, b)' \in Nat /\ clock \in Nat
      /\ Full(b) \in Nat /\ Rate[b] \in Nat /\ u \in Nat /\ Token \in Nat
      /\ Capacity[b] \in Nat
  BY LevelsNow, LevelsThen, Constants, RateAssumption DEF LimitInv, TypeOK, Units
<1>3. Level(s, b)' = Least(Full(b), Level(s, b) + Rate[b])
  <2>1. /\ Holdings[s][b] = Level(s, b) /\ Holdings'[s][b] = Level(s, b)'
    BY DEF Holdings
  <2>2. Promise!Second
    BY <1>2 DEF Promising, Promise!Next, Promise!Step
  <2>3. Holdings'[s][b] = Promise!Least(Promise!Full(b), Holdings[s][b] + Rate[b])
    BY <2>2 DEF Promise!Second, Holdings
  <2> QED BY <2>1, <2>3 DEF Promise!Least, Promise!Full, Least, Full
<1>4. u * Token <= Full(b)
  BY <1>1, <1>2, Products DEF Full
<1>5. CASE at > clock
  <2>1. Ahead(at) = at - clock /\ Ahead(at)' = at - (clock + 1) /\ at - (clock + 1) \in Nat
    BY <1>2, <1>5 DEF Ahead
  <2> DEFINE P == u * Token
             n == at - (clock + 1)
             A == n * Rate[b]
             B == Ahead(at) * Rate[b]
  <2>2. n \in Nat /\ Ahead(at) = n + 1
    BY <1>2, <2>1
  <2>3. A \in Nat /\ B = A + Rate[b] /\ P \in Nat
    <3> HIDE DEF n
    <3>1. n * Rate[b] \in Nat /\ (n + 1) * Rate[b] = n * Rate[b] + Rate[b]
      BY <1>2, <2>2, Products
    <3>2. u * Token \in Nat
      BY <1>2
    <3> QED BY <2>2, <3>1, <3>2
  <2>4. P <= Full(b) /\ P <= Level(s, b) + B /\ Ahead(at)' * Rate[b] = A
    BY <1>1, <1>4, <2>1
  <2> HIDE DEF P, A, B
  <2>5. P <= Level(s, b)' + A
    BY <1>2, <1>3, <2>3, <2>4 DEF Least
  <2> QED BY <1>1, <2>4, <2>5 DEF P
<1>6. CASE ~(at > clock)
  <2>1. Ahead(at) = 0 /\ Ahead(at)' = 0
    BY <1>2, <1>6 DEF Ahead
  <2>2. u * Token <= Level(s, b) /\ 0 * Rate[b] = 0 /\ u * Token \in Nat
    BY <1>1, <1>2, <2>1
  <2>3. u * Token <= Level(s, b)'
    BY <1>2, <1>3, <1>4, <2>2 DEF Least
  <2> QED BY <1>1, <1>2, <2>1, <2>2, <2>3
<1> QED BY <1>5, <1>6

\* Every step keeps requests bearable: a request too heavy for a bucket is
\* refused before any bucket is asked.
LEMMA LightStep ==
    ASSUME LimitInv, Light, [Next]_vars
    PROVE  Light'
<1>1. req \in [Callers -> Requested] /\ home \in [Callers -> Gateways]
  BY DEF LimitInv, TypeOK
<1>2. Bearable(Idle)
  BY DEF Bearable, Idle
<1>3. ASSUME \A c \in Callers : req'[c] = req[c] \/ Bearable(req'[c])
      PROVE  Light'
  BY <1>3 DEF Light, Bearable
<1>4. ASSUME NEW c \in Callers, NEW r, NEW S, Weigh(c, r, S), r \in Requested
      PROVE  Light'
  <2>1. CASE req' = [req EXCEPT ![c] = Idle]
    BY <1>1, <1>2, <1>3, <2>1
  <2>2. CASE /\ ~TooHeavy(S, r.units)
             /\ req' = [req EXCEPT ![c] = [r EXCEPT !.pc = "taking", !.need = S]]
    <3>1. Bearable([r EXCEPT !.pc = "taking", !.need = S])
      BY <1>4, <2>2 DEF Bearable, Requested
    <3> QED BY <1>1, <1>3, <2>2, <3>1
  <2> QED BY <1>4, <2>1, <2>2 DEF Weigh
<1>5. ASSUME NEW c \in Callers, NEW u \in Weights[c], NEW E \in SUBSET Extra[c],
             NEW named \in BOOLEAN, Begin(c, u, E, named)
      PROVE  Light'
  <2> DEFINE r == [Idle EXCEPT !.units = u, !.extra = E]
             g == home[c]
             l == [version |-> cache[g].version, cachedAt |-> clock]
             q == [r EXCEPT !.limits = l]
  <2>1. r \in Requested
    <3>1. E \in SUBSET Buckets /\ u \in Nat
      BY RateAssumption
    <3> QED BY <3>1 DEF Idle, Requested
  <2>2. CASE Weigh(c, r, E)
    <3> HIDE DEF r
    <3> QED BY <1>4, <2>1, <2>2
  <2>3. CASE Fresh(g) /\ Weigh(c, q, Configured(c, cache[g].version) \cup E)
    <3>1. l \in Limits
      <4>1. cache[g] \in Cached /\ clock \in Nat
        BY <1>1, <2>3 DEF Fresh, LimitInv, TypeOK
      <4> QED BY <4>1 DEF Limits, Cached
    <3>2. l # None
      BY <3>1, RateAssumption
    <3>3. q \in Requested
      <4> HIDE DEF r, l
      <4> QED BY <2>1, <3>1, <3>2 DEF Requested
    <3> DEFINE S == Configured(c, cache[g].version) \cup E
    <3>4. Weigh(c, q, S)
      BY <2>3
    <3> HIDE DEF q, S
    <3> QED BY <1>4, <3>3, <3>4
  <2>4. CASE req' = [req EXCEPT ![c] = [r EXCEPT !.pc = "loading", !.asked = clock]]
    <3>1. Bearable([r EXCEPT !.pc = "loading", !.asked = clock])
      BY DEF Bearable, Idle
    <3> QED BY <1>1, <1>3, <2>4, <3>1
  <2> QED BY <1>5, <2>2, <2>3, <2>4 DEF Begin
<1>6. ASSUME NEW c \in Callers, Read(c)
      PROVE  Light'
  <2>1. Bearable([req[c] EXCEPT !.pc = "read",
                     !.limits = [version |-> version, cachedAt |-> None]])
    BY <1>1 DEF Bearable, Requested
  <2> QED BY <1>1, <1>3, <1>6, <2>1 DEF Read
<1>7. ASSUME NEW c \in Callers, Keep(c)
      PROVE  Light'
  <2>1. req[c] \in Requested
    BY <1>1
  <2>2. Weigh(c, req[c], Configured(c, req[c].limits.version) \cup req[c].extra)
    BY <1>7 DEF Keep
  <2> QED BY <1>4, <2>1, <2>2
<1>8. ASSUME NEW c \in Callers, TakeShared(c) \/ TakeLocal(c)
      PROVE  Light'
  BY <1>1, <1>2, <1>3, <1>8 DEF TakeShared, TakeLocal, Finish
<1>9. ASSUME NEW c \in Callers, TakeLost(c)
      PROVE  Light'
  <2>1. Bearable([req[c] EXCEPT !.pc = "lost"])
    BY <1>1, <1>9 DEF TakeLost, Light, Bearable, Requested
  <2> QED BY <1>1, <1>3, <1>9, <2>1 DEF TakeLost
<1>10. CASE Second \/ Configure \/ Outage \/ Return \/ UNCHANGED vars
  BY <1>3, <1>10 DEF Second, Configure, Outage, Return, vars
<1>11. ASSUME NEW g \in Gateways, Restart(g)
      PROVE  Light'
  BY <1>2, <1>3, <1>11 DEF Restart
<1> QED BY <1>5, <1>6, <1>7, <1>8, <1>9, <1>10, <1>11 DEF Next

\* What a step books: it grants only from the buckets of an admitted request.
LEMMA Booking ==
    ASSUME LimitInv, NEW s \in Stores, NEW S \in SUBSET Buckets, NEW u \in Nat,
           NEW lost \in SUBSET Buckets, Book(s, S, u, lost)
    PROVE  \A x \in Stores, b \in Buckets :
              \/ x = s /\ b \in S /\ Admits(s, S, u)
              \/ granted'[x][b] <= granted[x][b]
<1>1. granted \in [Stores -> [Buckets -> Nat]]
  BY DEF LimitInv, TypeOK
<1> QED BY <1>1 DEF Book

\* Promises survive a step that does not grant from their buckets.
LEMMA PromisesLast ==
    ASSUME LimitInv, LimitInv', Promising, Honest, UNCHANGED <<clock, promise>>,
           \A s \in Stores, b \in Buckets : granted'[s][b] <= granted[s][b]
    PROVE  Honest'
<1>1. ASSUME NEW c \in Callers, NEW p \in Promises, promise[c] = p, p # None
      PROVE  Owed(p)'
  <2>1. \A b \in p.buckets : granted'[p.store][b] <= granted[p.store][b]
    BY DEF Promises
  <2>2. Owed(p)
    BY <1>1 DEF Honest
  <2> QED BY <2>1, <2>2, OwedKept
<1> QED BY <1>1 DEF Honest

\* A take that is decided by store s keeps them: it voids those it takes from,
\* and a refusal's own promise is one the buckets will keep.
LEMMA TakeIsHonest ==
    ASSUME LimitInv, LimitInv', Promising, Honest, Light, clock' = clock,
           NEW c \in Callers, req[c].pc \in {"taking", "lost"}, NEW s \in Stores,
           NEW lost \in SUBSET Buckets, Book(s, req[c].need, req[c].units, lost),
           \/ Decide(c, s)
           \/ promise' = [x \in Callers |->
                  IF Voided(promise[x], s, req[c].need) THEN None ELSE promise[x]]
    PROVE  Honest'
<1> PICK S \in SUBSET Buckets, u \in Units : S = req[c].need /\ u = req[c].units
  BY DEF LimitInv, TypeOK, Requested
<1>1. u \in Nat /\ TypeOK /\ Dated /\ clock \in Nat
  BY RateAssumption DEF LimitInv, TypeOK, Units
<1>2. \A x \in Stores, b \in Buckets :
          \/ x = s /\ b \in S /\ Admits(s, S, u)
          \/ granted'[x][b] <= granted[x][b]
  BY <1>1, Booking
<1>3. promise \in [Callers -> Promises \cup {None}]
  BY DEF Honest
<1>4. ASSUME NEW x \in Callers, NEW p \in Promises, p # None, promise[x] = p,
             Voided(p, s, S) => ~Admits(s, S, u)
      PROVE  Owed(p)'
  <2>1. \A b \in p.buckets : granted'[p.store][b] <= granted[p.store][b]
    <3> SUFFICES ASSUME NEW b \in p.buckets
                 PROVE  granted'[p.store][b] <= granted[p.store][b]
      OBVIOUS
    <3>1. p.store \in Stores /\ b \in Buckets
      BY DEF Promises
    <3>2. p.store = s /\ b \in S => ~Admits(s, S, u)
      BY <1>4 DEF Voided
    <3> QED BY <1>2, <3>1, <3>2
  <2>2. Owed(p)
    BY <1>4 DEF Honest
  <2> QED BY <2>1, <2>2, OwedKept
<1>5. CASE promise' = [x \in Callers |->
              IF Voided(promise[x], s, S) THEN None ELSE promise[x]]
  <2>1. promise' \in [Callers -> Promises \cup {None}]
    BY <1>3, <1>5
  <2>2. ASSUME NEW x \in Callers, NEW p \in Promises, p # None, promise'[x] = p
        PROVE  Owed(p)'
    BY <1>4, <1>5, <2>2
  <2> QED BY <2>1, <2>2 DEF Honest
<1>6. CASE Decide(c, s) /\ Admits(s, S, u)
  <2>1. promise' = [x \in Callers |->
            IF x = c \/ Voided(promise[x], s, S) THEN None ELSE promise[x]]
    BY <1>6 DEF Decide
  <2>2. promise' \in [Callers -> Promises \cup {None}]
    BY <1>3, <2>1
  <2>3. ASSUME NEW x \in Callers, NEW p \in Promises, p # None, promise'[x] = p
        PROVE  Owed(p)'
    BY <1>4, <2>1, <2>3
  <2> QED BY <2>2, <2>3 DEF Honest
<1>7. CASE Decide(c, s) /\ ~Admits(s, S, u)
  <2> DEFINE w == Wait(s, S, u)
  <2>1. /\ w \in Nat /\ w >= 1
        /\ \A b \in S : u * Token <= Level(s, b) + w * Rate[b]
    BY <1>1, WaitCovers
  <2> DEFINE q == [at |-> clock + w, store |-> s, buckets |-> S, units |-> u]
  <2>2. promise' = [promise EXCEPT ![c] = q]
    BY <1>7 DEF Decide, Promised
  <2> HIDE DEF w
  <2>3. q \in Promises
    BY <1>1, <2>1 DEF Promises
  <2>4. promise' \in [Callers -> Promises \cup {None}]
    BY <1>3, <2>2, <2>3
  <2>5. ASSUME NEW p \in Promises, p = q
        PROVE  Owed(p)'
    <3>1. PICK at \in Nat : at = clock + w
      BY <1>1, <2>1
    <3>2. p.at = at /\ p.store = s /\ p.buckets = S /\ p.units = u
      BY <2>5, <3>1
    <3>3. Ahead(at)' = w
      BY <1>1, <2>1, <3>1 DEF Ahead
    <3>4. ASSUME NEW b \in S
          PROVE  u <= Capacity[b] /\ u * Token <= Level(s, b)' + w * Rate[b]
      <4>1. u <= Capacity[b]
        BY <1>1, RateAssumption DEF Light, Bearable, TooHeavy
      <4>2. Level(s, b) \in Nat /\ Level(s, b)' \in Nat
        BY LevelsNow, LevelsThen
      <4>3. Level(s, b)' >= Level(s, b)
        BY <1>2, <1>7, <4>2, LevelsFall
      <4> DEFINE A == w * Rate[b]
                 P == u * Token
      <4>4. A \in Nat /\ P \in Nat /\ P <= Level(s, b) + A
        BY <1>1, <2>1, Constants
      <4> HIDE DEF A, P
      <4>5. P <= Level(s, b)' + A
        BY <4>2, <4>3, <4>4
      <4> QED BY <4>1, <4>5 DEF A, P
    <3> QED BY <3>2, <3>3, <3>4 DEF Owed
  <2>6. ASSUME NEW x \in Callers, NEW p \in Promises, p # None, promise'[x] = p
        PROVE  Owed(p)'
    <3> HIDE DEF q
    <3>1. CASE x = c
      BY <1>3, <2>2, <2>5, <2>6, <3>1
    <3>2. CASE x # c
      BY <1>3, <1>4, <1>7, <2>2, <2>6, <3>2
    <3> QED BY <3>1, <3>2
  <2> QED BY <2>4, <2>6 DEF Honest
<1> QED BY <1>5, <1>6, <1>7

\* Every step keeps the promises.
LEMMA HonestStep ==
    ASSUME LimitInv, LimitInv', Honest, Light, [Next]_vars
    PROVE  Honest'
<1>1. /\ Promising /\ granted \in [Stores -> [Buckets -> Nat]]
      /\ home \in [Callers -> Gateways] /\ Shared \in Stores /\ Gateways \subseteq Stores
      /\ {} \in SUBSET Buckets /\ 1 \in Nat
  BY StoresStep DEF StoresKept, LimitInv, TypeOK, Stores
<1>2. CASE UNCHANGED <<clock, promise, granted>>
  BY <1>1, <1>2, PromisesLast
<1>3. ASSUME NEW c \in Callers, TakeShared(c) \/ TakeLost(c)
      PROVE  Honest'
  <2>1. /\ clock' = clock /\ req[c].pc \in {"taking", "lost"}
        /\ Book(Shared, req[c].need, req[c].units, {})
        /\ \/ Decide(c, Shared)
           \/ promise' = [x \in Callers |->
                  IF Voided(promise[x], Shared, req[c].need) THEN None ELSE promise[x]]
    BY <1>3 DEF TakeShared, TakeLost, TakeScript
  <2> QED BY <1>1, <2>1, TakeIsHonest
<1>4. ASSUME NEW c \in Callers, TakeLocal(c)
      PROVE  Honest'
  <2>1. PICK g \in Gateways : g = home[c]
    BY <1>1
  <2>2. PICK E \in SUBSET Buckets : Book(g, req[c].need, req[c].units, E)
    BY <1>4, <2>1 DEF TakeLocal, Evictions, Kept
  <2>3. clock' = clock /\ req[c].pc \in {"taking", "lost"} /\ Decide(c, g)
    BY <1>4, <2>1 DEF TakeLocal
  <2> QED BY <1>1, <2>2, <2>3, TakeIsHonest
<1>5. CASE Second
  <2>1. clock' = clock + 1 /\ promise' = promise
    BY <1>5 DEF Second
  <2>2. ASSUME NEW c \in Callers, NEW p \in Promises, promise[c] = p, p # None
        PROVE  Owed(p)'
    BY <1>1, <2>1, <2>2, OwedSooner DEF Honest
  <2> QED BY <2>1, <2>2 DEF Honest
<1>6. CASE Return
  <2>1. UNCHANGED <<clock, promise>>
    BY <1>6 DEF Return
  <2>2. CASE UNCHANGED granted
    BY <1>2, <2>1, <2>2
  <2>3. CASE Book(Shared, {}, 1, Kept(shared))
    <3>1. PICK lost \in SUBSET Buckets : lost = Kept(shared)
      BY DEF Kept
    <3>2. Book(Shared, {}, 1, lost)
      BY <2>3, <3>1
    <3>3. \A s \in Stores, b \in Buckets : granted'[s][b] <= granted[s][b]
      BY <1>1, <3>2, Booking
    <3> QED BY <1>1, <2>1, <3>3, PromisesLast
  <2> QED BY <1>6, <2>2, <2>3 DEF Return, ledger
<1>7. ASSUME NEW g \in Gateways, Restart(g)
      PROVE  Honest'
  <2>1. UNCHANGED <<clock, promise>>
    BY <1>7 DEF Restart
  <2>2. PICK lost \in SUBSET Buckets : lost = Kept(local[g])
    BY DEF Kept
  <2>3. Book(g, {}, 1, lost)
    BY <1>7, <2>2 DEF Restart
  <2>4. \A s \in Stores, b \in Buckets : granted'[s][b] <= granted[s][b]
    BY <1>1, <2>3, Booking
  <2> QED BY <1>1, <2>1, <2>4, PromisesLast
<1>8. ASSUME NEW c \in Callers, NEW u \in Weights[c], NEW E \in SUBSET Extra[c],
             NEW named \in BOOLEAN, Begin(c, u, E, named)
      PROVE  Honest'
  BY <1>2, <1>8 DEF Begin, ledger
<1>9. ASSUME NEW c \in Callers, Read(c) \/ Keep(c)
      PROVE  Honest'
  BY <1>2, <1>9 DEF Read, Keep, ledger
<1>10. CASE Configure \/ Outage \/ UNCHANGED vars
  BY <1>2, <1>10 DEF Configure, Outage, vars, ledger
<1> QED BY <1>3, <1>4, <1>5, <1>6, <1>7, <1>8, <1>9, <1>10 DEF Next

\* A client that waits as long as Retry-After says is admitted (_TAKE_TOKENS and
\* InMemoryTokenBucket.take answer with the longest of the waits), whatever
\* expires, is swept, evicted or lost meanwhile, if nobody else took from its
\* buckets; and no refusal promises what its buckets can never hold.
THEOREM RetryAfterKept == Spec => []RetryAfterIsHonest
<1>1. Init => Honest /\ Light
  BY DEF Init, Honest, Light, Bearable, Idle
<1>2. LimitInv /\ LimitInv' /\ Honest /\ Light /\ [Next]_vars => (Honest /\ Light)'
  BY HonestStep, LightStep
<1>3. LimitInv /\ Honest => RetryAfterIsHonest
  <2> SUFFICES ASSUME LimitInv, Honest, NEW c \in Callers, promise[c] # None,
                      clock >= promise[c].at
               PROVE  Admits(promise[c].store, promise[c].buckets, promise[c].units)
    BY DEF RetryAfterIsHonest
  <2>1. PICK p \in Promises : p = promise[c]
    BY DEF Honest
  <2>2. Owed(p) /\ clock \in Nat /\ p.at \in Nat /\ clock >= p.at
    BY <2>1 DEF Honest, LimitInv, TypeOK, Promises
  <2>3. Ahead(p.at) = 0
    BY <2>2 DEF Ahead
  <2>4. ASSUME NEW b \in p.buckets
        PROVE  Passes(p.store, b, p.units)
    <3>1. b \in Buckets /\ p.store \in Stores /\ p.units \in Nat
      BY RateAssumption DEF Promises, Units
    <3>2. Level(p.store, b) \in Nat /\ 0 * Rate[b] = 0
      BY <3>1, LevelsNow, Constants
    <3>3. p.units * Token <= Level(p.store, b)
      BY <2>2, <2>3, <3>2 DEF Owed
    <3> QED BY <3>2, <3>3 DEF Passes
  <2> QED BY <2>1, <2>4 DEF Admits
<1> QED BY Start, Step, <1>1, <1>2, <1>3, PTL DEF Spec
=============================================================================
