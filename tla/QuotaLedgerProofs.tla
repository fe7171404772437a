--------------------------- MODULE QuotaLedgerProofs ---------------------------
(***************************************************************************)
(* Proofs about QuotaLedger, for any limits, windows, margins and          *)
(* reserves and for any set of reservation ids, an infinite one included:  *)
(* the requests of a window stay within the limits, background work within *)
(* its part of them, and what a header said is left is not exceeded.       *)
(*                                                                         *)
(* The count of a window is not inductive by itself.  Admission counts     *)
(* reserved and completed rows, while the property counts every request    *)
(* that was sent, also one whose reservation has expired; LedgerIInv says  *)
(* that an expired row has outlived every window, and how old a row can be *)
(* that was created since a header was read.                               *)
(***************************************************************************)
EXTENDS QuotaLedger, FiniteSetTheorems, WellFoundedInduction,
        NaturalsInduction, TLAPS

---------------------------------------------------------------------------
(* The inductive invariant.                                                *)

(* The rows of the table.                                                  *)
Used == {i \in Ids : rows[i].state # "none"}

(* An expired reservation is at least as old as the longest window.        *)
ExpiredIsOld == \A i \in Ids : rows[i].state = "expired" => rows[i].age >= Expiry

LedgerIInv ==
    /\ TypeOK /\ IsFiniteSet(Used) /\ ExpiredIsOld
    /\ WindowRespected /\ ReserveKept

---------------------------------------------------------------------------
(* Numbers, their extremes and the shares of a limit.                      *)

(* A nonempty set of naturals has a least element.                         *)
LEMMA LeastNumber ==
    ASSUME NEW S \in SUBSET Nat, S # {}
    PROVE  \E x \in S : \A y \in S : x <= y
<1> DEFINE R == OpToRel(<, Nat)
<1> HIDE DEF R
<1>1. IsWellFoundedOn(R, Nat)
  BY NatLessThanWellFounded DEF R
<1>2. PICK x \in S : \A y \in S : ~(<<y, x>> \in R)
  BY <1>1, WFMin
<1>3. \A m, n \in Nat : m < n => <<m, n>> \in R
  BY Zenon DEF OpToRel, R
<1>4. ASSUME NEW y \in S PROVE ~(y < x)
  BY <1>2, <1>3, Zenon
<1> QED
  BY <1>4

(* A set of naturals with an upper bound has a largest element: the        *)
(* nearest to the bound.                                                   *)
LEMMA LargestNumber ==
    ASSUME NEW S \in SUBSET Nat, S # {}, NEW n \in Nat, \A x \in S : x <= n
    PROVE  Max(S) \in S /\ \A y \in S : y <= Max(S)
<1> DEFINE D == {n - x : x \in S}
<1>1. D \in SUBSET Nat /\ D # {}
  <2>1. \A x \in S : n - x \in Nat
    OBVIOUS
  <2> QED
    BY <2>1
<1>2. PICK d \in D : \A e \in D : d <= e
  BY <1>1, LeastNumber
<1>3. PICK x \in S : d = n - x
  OBVIOUS
<1>4. \A y \in S : y <= x
  <2> TAKE y \in S
  <2>1. n - x <= n - y
    BY <1>2, <1>3
  <2> QED
    BY <2>1
<1>5. \E z \in S : \A y \in S : z >= y
  BY <1>4
<1> QED
  BY <1>5 DEF Max

(* A finite set of naturals has an upper bound: otherwise one of its       *)
(* smallest subsets without would lose it with an element.                 *)
LEMMA FiniteIsBounded ==
    ASSUME NEW S \in SUBSET Nat, IsFiniteSet(S)
    PROVE  \E n \in Nat : \A x \in S : x <= n
<1> DEFINE Bounded(T) == \E n \in Nat : \A x \in T : x <= n
           Sizes == {k \in Nat : \E T \in SUBSET S : Cardinality(T) = k /\ ~Bounded(T)}
<1> SUFFICES ASSUME ~Bounded(S) PROVE FALSE
  OBVIOUS
<1>1. Cardinality(S) \in Sizes
  BY FS_CardinalityType
<1>2. PICK k \in Sizes : \A j \in Sizes : k <= j
  BY <1>1, LeastNumber
<1>3. PICK T \in SUBSET S : Cardinality(T) = k /\ ~Bounded(T)
  OBVIOUS
<1>4. T # {}
  BY <1>3
<1>5. PICK x \in T : TRUE
  BY <1>4
<1> DEFINE U == T \ {x}
<1>6. IsFiniteSet(U) /\ Cardinality(U) = k - 1
  BY <1>3, <1>5, FS_Subset, FS_RemoveElement
<1>7. k - 1 \in Nat
  BY <1>6, FS_CardinalityType
<1>8. Bounded(U)
  BY <1>2, <1>6, <1>7
<1>9. PICK n \in Nat : \A y \in U : y <= n
  BY <1>8
<1>10. x \in Nat /\ \A y \in T : y <= n + x
  BY <1>9
<1> QED
  BY <1>3, <1>9, <1>10

(* Multiplying by the same share keeps an order.                           *)
LEMMA TimesKeeps ==
    ASSUME NEW a \in Nat, NEW b \in Nat, a <= b, NEW k \in Nat
    PROVE  a * k <= b * k /\ a * k \in Nat
<1> DEFINE c == b - a
<1>1. c \in Nat /\ b = a + c
  OBVIOUS
<1> HIDE DEF c
<1>2. (a + c) * k = a * k + c * k
  BY <1>1
<1>3. a * k \in Nat /\ c * k \in Nat
  BY <1>1
<1> QED
  BY <1>1, <1>2, <1>3

(* The largest request limit that can be in force.                         *)
LargestLimit == Max({RequestLimit} \cup LiveLimits)

(* The limit in force is at most that.                                     *)
LEMMA LimitInForce ==
    ASSUME TypeOK
    PROVE  /\ LargestLimit \in Nat /\ RequestAmount(0) \in Nat
           /\ RequestAmount(0) <= LargestLimit
<1> DEFINE S == {RequestLimit} \cup LiveLimits
<1>1. S \in SUBSET Nat /\ S # {} /\ IsFiniteSet(S) /\ LiveLimits \subseteq Nat
  <2>1. RequestLimit \in Nat /\ LiveLimits \subseteq Nat /\ IsFiniteSet(LiveLimits)
    BY QuotaConstants
  <2>2. IsFiniteSet(LiveLimits \cup {RequestLimit})
    BY <2>1, FS_AddElement
  <2>3. LiveLimits \cup {RequestLimit} = S
    OBVIOUS
  <2> QED
    BY <2>1, <2>2, <2>3
<1>2. PICK n \in Nat : \A x \in S : x <= n
  BY <1>1, FiniteIsBounded
<1>3. Max(S) \in S /\ \A y \in S : y <= Max(S)
  BY <1>1, <1>2, LargestNumber
<1>4. live.limit \in {0} \cup LiveLimits /\ RequestLimit \in Nat
  BY QuotaConstants DEF TypeOK
<1>5. LargestLimit \in S /\ \A y \in S : y <= LargestLimit
  BY <1>3, Zenon DEF LargestLimit
<1>6. LargestLimit \in Nat /\ RequestLimit <= LargestLimit
      /\ \A y \in LiveLimits : y \in Nat /\ y <= LargestLimit
  BY <1>1, <1>5
<1>7. RequestAmount(0) = RequestLimit \/ RequestAmount(0) = live.limit
  BY DEF RequestAmount
<1>8. live.limit \in Nat /\ live.limit <= LargestLimit
  BY <1>4, <1>6
<1> QED
  BY <1>4, <1>6, <1>7, <1>8

(* What fits the limit in force fits the largest limit, and what fits the  *)
(* background's part of it fits that part of the largest.                  *)
LEMMA FitsTheLargest ==
    ASSUME TypeOK, NEW used \in Nat, NEW pool \in Pools, Fits(used, RequestAmount(0), pool)
    PROVE  /\ Fits(used, LargestLimit, "realtime")
           /\ pool = "background" =>
                 used * 10000 <= LargestLimit * (100 - SafetyMargin) * (100 - RealtimeReserve)
<1> DEFINE m == 100 - SafetyMargin
           r == 100 - RealtimeReserve
           a == RequestAmount(0)
           L == LargestLimit
<1>1. m \in Nat /\ r \in Nat /\ r <= 100
  BY QuotaConstants
<1>2. a \in Nat /\ L \in Nat /\ a <= L
  BY LimitInForce
<1>3. Fits(used, a, pool) /\ used * 10000 \in Nat
  OBVIOUS
<1>4. Fits(used, a, pool) <=> used * 10000 <= a * m * (IF pool = "background" THEN r ELSE 100)
  BY DEF Fits, Share
<1>5. Fits(used, L, "realtime") <=> used * 10000 <= L * m * 100
  BY DEF Fits, Share
<1>6. a * m \in Nat /\ L * m \in Nat /\ a * m <= L * m
  BY <1>1, <1>2, TimesKeeps
<1> HIDE DEF m, r, a, L
<1>7. (a * m) * r <= (L * m) * r /\ (a * m) * 100 <= (L * m) * 100
      /\ (a * m) * r \in Nat /\ (L * m) * r \in Nat
  BY <1>1, <1>6, TimesKeeps
<1>8. (L * m) * r <= (L * m) * 100
  <2>1. r * (L * m) <= 100 * (L * m)
    BY <1>1, <1>6, TimesKeeps
  <2> QED
    BY <1>1, <1>6, <2>1
<1> QED
  BY <1>3, <1>4, <1>5, <1>6, <1>7, <1>8 DEF m, r, a, L

(* A reservation lives at least as long as the window of requests.         *)
LEMMA ExpiryIsLong == Expiry \in Nat /\ RequestWindow \in Nat \ {0} /\ RequestWindow <= Expiry
  BY QuotaConstants DEF Expiry, LongestWindow

---------------------------------------------------------------------------
(* What an admission has checked.                                          *)

(* The rows of the window that are younger than an age, and the ages.      *)
YoungerThan(r, a) == {i \in Rolling(r, 0) : r[i].age < a}
AgesOf(r) == {r[i].age : i \in Rolling(r, 0)}

(* A request that does not fit now waits for a row of the window: with it  *)
(* and the older ones gone the request fits, with only the older ones gone *)
(* it does not.                                                            *)
LEMMA RetryIsAge ==
    ASSUME TypeOK, NEW r \in [Ids -> Rows], NEW pool \in Pools,
           Fits(1, RequestAmount(0), pool),
           ~Fits(Cardinality(Rolling(r, 0)) + 1, RequestAmount(0), pool)
    PROVE  /\ \A b \in AgesOf(r) : b \in Nat /\ b < RequestWindow
           /\ \E a \in AgesOf(r) :
                 /\ RequestRetry(r, pool) = RequestWindow - a
                 /\ Fits(Cardinality(YoungerThan(r, a)) + 1, RequestAmount(0), pool)
                 /\ \A b \in AgesOf(r) : a < b =>
                       ~Fits(Cardinality(YoungerThan(r, b)) + 1, RequestAmount(0), pool)
<1> DEFINE W == Rolling(r, 0)
           Ages == AgesOf(r)
           Enough == {a \in Ages :
                        Fits(Cardinality(YoungerThan(r, a)) + 1, RequestAmount(0), pool)}
<1>0. RequestWindow \in Nat \ {0}
  BY ExpiryIsLong
<1>1. RequestRetry(r, pool) = RequestWindow - Max(Enough)
  BY DEF RequestRetry, YoungerThan, AgesOf
<1>2. \A i \in W : r[i].age \in Nat /\ r[i].age < RequestWindow
  BY <1>0, ExpiryIsLong DEF Rolling, Counted, Rows
<1>3. W # {}
  BY FS_EmptySet
<1>4. Ages # {} /\ \A b \in Ages : b \in Nat /\ b < RequestWindow
  BY <1>2, <1>3 DEF AgesOf
<1>5. PICK a \in Ages : \A b \in Ages : a <= b
  <2> HIDE DEF Ages
  <2>1. Ages \in SUBSET Nat
    BY <1>4
  <2> QED
    BY <1>4, <2>1, LeastNumber
<1>6. YoungerThan(r, a) = {}
  <2> SUFFICES ASSUME NEW i \in W, r[i].age < a PROVE FALSE
    BY DEF YoungerThan
  <2> DEFINE g == r[i].age
  <2>1. g \in Ages /\ g < a
    BY DEF AgesOf
  <2> HIDE DEF g, Ages
  <2>2. g \in Nat /\ a \in Nat
    BY <1>4, <2>1
  <2>3. a <= g
    BY <1>5, <2>1
  <2> QED
    BY <2>1, <2>2, <2>3
<1>7. Cardinality(YoungerThan(r, a)) + 1 = 1
  <2>1. Cardinality(YoungerThan(r, a)) = 0
    BY <1>6, FS_EmptySet, Zenon
  <2> QED
    BY <2>1
<1>8. a \in Enough
  BY <1>7
<1>9. Enough \subseteq Ages
  OBVIOUS
<1>10. \A b \in Ages : b \notin Enough =>
          ~Fits(Cardinality(YoungerThan(r, b)) + 1, RequestAmount(0), pool)
  OBVIOUS
<1>11. \A b \in Enough : Fits(Cardinality(YoungerThan(r, b)) + 1, RequestAmount(0), pool)
  OBVIOUS
<1> HIDE DEF Enough
<1>12. Enough \in SUBSET Nat /\ Enough # {} /\ \A b \in Enough : b <= RequestWindow
  BY <1>0, <1>4, <1>8, <1>9
<1> DEFINE m == Max(Enough)
<1>13. m \in Enough /\ \A b \in Enough : b <= m
  BY <1>0, <1>12, LargestNumber
<1>14. RequestRetry(r, pool) = RequestWindow - m
  BY <1>1
<1> HIDE DEF m
<1>15. \A b \in Ages : m < b => b \notin Enough
  BY <1>4, <1>12, <1>13
<1> QED
  BY <1>4, <1>9, <1>10, <1>11, <1>13, <1>14, <1>15

(* A request that does not fit now is told to wait: the oldest rows leave  *)
(* the window later than now.                                              *)
LEMMA RequestRetryIs ==
    ASSUME TypeOK, NEW r \in [Ids -> Rows], NEW pool \in Pools
    PROVE  /\ RequestRetry(r, pool) \in Nat
           /\ RequestRetry(r, pool) = 0 =>
                 Fits(Cardinality(Rolling(r, 0)) + 1, RequestAmount(0), pool)
<1> DEFINE W == Rolling(r, 0)
<1>0. RequestWindow \in Nat \ {0}
  BY ExpiryIsLong
<1>1. CASE ~Fits(1, RequestAmount(0), pool)
  <2>1. RequestRetry(r, pool) = RequestWindow
    BY <1>1 DEF RequestRetry
  <2> QED
    BY <1>0, <2>1
<1>2. CASE Fits(1, RequestAmount(0), pool) /\ Fits(Cardinality(W) + 1, RequestAmount(0), pool)
  <2>1. RequestRetry(r, pool) = 0
    BY <1>2 DEF RequestRetry
  <2> QED
    BY <1>2, <2>1
<1>3. CASE Fits(1, RequestAmount(0), pool) /\ ~Fits(Cardinality(W) + 1, RequestAmount(0), pool)
  <2>1. PICK a \in AgesOf(r) : RequestRetry(r, pool) = RequestWindow - a
    BY <1>3, RetryIsAge
  <2>2. a \in Nat /\ a < RequestWindow
    BY <1>3, RetryIsAge
  <2>3. RequestRetry(r, pool) \in Nat \ {0}
    BY <1>0, <2>1, <2>2
  <2> QED
    BY <2>3
<1> QED
  BY <1>1, <1>2, <1>3

(* Three waits are over together when the longest is.                      *)
LEMMA LongestWait ==
    ASSUME NEW x \in Nat, NEW y \in Nat, NEW z \in Nat
    PROVE  /\ Max({x, y, z}) \in Nat
           /\ x <= Max({x, y, z}) /\ y <= Max({x, y, z}) /\ z <= Max({x, y, z})
<1>1. {x, y, z} \in SUBSET Nat /\ {x, y, z} # {} /\ \A w \in {x, y, z} : w <= x + y + z
  OBVIOUS
<1>2. x + y + z \in Nat
  OBVIOUS
<1>3. Max({x, y, z}) \in {x, y, z} /\ \A w \in {x, y, z} : w <= Max({x, y, z})
  BY <1>1, <1>2, LargestNumber
<1> QED
  BY <1>3

(* An admitted request fits the window and what the header in force said   *)
(* is left.                                                                *)
LEMMA AdmittedFits ==
    ASSUME TypeOK, NEW r \in [Ids -> Rows], NEW pool \in Pools, NEW n \in Tokens,
           IsFiniteSet(Counted(r)), RetryDelay(r, pool, n) = 0
    PROVE  /\ Fits(Cardinality(Rolling(r, 0)) + 1, RequestAmount(0), pool)
           /\ live.reset > 0 =>
                 ~(1 + Cardinality({i \in Counted(r) : r[i].unseen}) > live.remaining)
<1> DEFINE x == RequestRetry(r, pool)
           y == TokenRetry(r, pool, n)
           z == LiveRetry(r)
<1>1. x \in Nat
  BY RequestRetryIs
<1>2. y \in Nat
  BY QuotaConstants DEF TokenRetry, TypeOK
<1>3. z \in Nat
  BY QuotaConstants DEF LiveRetry, TypeOK
<1>4. Max({x, y, z}) = 0
  BY DEF RetryDelay
<1> HIDE DEF x, y, z
<1>5. x = 0 /\ z = 0
  BY <1>1, <1>2, <1>3, <1>4, LongestWait
<1>6. Fits(Cardinality(Rolling(r, 0)) + 1, RequestAmount(0), pool)
  BY <1>5, RequestRetryIs DEF x
<1>7. live.reset > 0 => ~(1 + Cardinality({i \in Counted(r) : r[i].unseen}) > live.remaining)
  BY <1>5 DEF z, LiveRetry
<1> QED
  BY <1>6, <1>7

---------------------------------------------------------------------------
(* Every step preserves the inductive invariant.                           *)

(* The two bounds of a window.                                             *)
Cap == Share(LargestLimit, "realtime")
BackgroundCap == LargestLimit * (100 - SafetyMargin) * (100 - RealtimeReserve)

(* They are numbers, and the window properties are about them.             *)
LEMMA CapsAreNumbers ==
    ASSUME TypeOK
    PROVE  /\ Cap \in Nat /\ BackgroundCap \in Nat
           /\ WindowRespected <=> Cardinality(Sent(Pools)) * 10000 <= Cap
           /\ ReserveKept <=> Cardinality(Sent({"background"})) * 10000 <= BackgroundCap
<1> DEFINE m == 100 - SafetyMargin
           r == 100 - RealtimeReserve
<1>1. m \in Nat /\ r \in Nat /\ LargestLimit \in Nat
  BY LimitInForce, QuotaConstants
<1>2. Cap = LargestLimit * m * 100 /\ BackgroundCap = LargestLimit * m * r
  BY DEF Cap, BackgroundCap, Share
<1> HIDE DEF m, r
<1>3. LargestLimit * m \in Nat
  BY <1>1
<1>4. LargestLimit * m * 100 \in Nat /\ LargestLimit * m * r \in Nat
  BY <1>1, <1>3
<1>5. WindowRespected <=> Cardinality(Sent(Pools)) * 10000 <= Cap
  BY DEF WindowRespected, Fits, Cap, LargestLimit
<1>6. ReserveKept <=> Cardinality(Sent({"background"})) * 10000 <= BackgroundCap
  BY DEF ReserveKept, BackgroundCap, LargestLimit
<1> QED
  BY <1>2, <1>4, <1>5, <1>6

(* The requests of a window are rows of the table.                         *)
LEMMA SentIsFinite ==
    ASSUME IsFiniteSet(Used), NEW P
    PROVE  IsFiniteSet(Sent(P)) /\ Cardinality(Sent(P)) \in Nat
<1>1. Sent(P) \subseteq Used
  BY DEF Sent, Used
<1> QED
  BY <1>1, FS_Subset, FS_CardinalityType

(* A window that only loses requests keeps its bounds.                     *)
LEMMA WindowShrinks ==
    ASSUME LedgerIInv, TypeOK',
           Sent(Pools)' \subseteq Sent(Pools),
           Sent({"background"})' \subseteq Sent({"background"})
    PROVE  WindowRespected' /\ ReserveKept'
<1>1. TypeOK /\ IsFiniteSet(Used) /\ WindowRespected /\ ReserveKept
  BY DEF LedgerIInv
<1> DEFINE a == Cardinality(Sent(Pools))
           b == Cardinality(Sent({"background"}))
           c == Cardinality(Sent(Pools)')
           d == Cardinality(Sent({"background"})')
<1>2. a \in Nat /\ b \in Nat /\ c \in Nat /\ d \in Nat /\ c <= a /\ d <= b
  BY <1>1, SentIsFinite, FS_Subset, FS_CardinalityType
<1>3. Cap \in Nat /\ BackgroundCap \in Nat /\ a * 10000 <= Cap /\ b * 10000 <= BackgroundCap
  BY <1>1, CapsAreNumbers
<1>4. WindowRespected' <=> c * 10000 <= Cap
  BY DEF WindowRespected, Fits, Cap, Share, LargestLimit
<1>5. ReserveKept' <=> d * 10000 <= BackgroundCap
  BY DEF ReserveKept, BackgroundCap, LargestLimit
<1> HIDE DEF a, b, c, d
<1> QED
  BY <1>2, <1>3, <1>4, <1>5

(* An empty table satisfies every bound.                                   *)
LEMMA InitLedger == Init => LedgerIInv
<1> SUFFICES ASSUME Init PROVE LedgerIInv
  OBVIOUS
<1>1. NoRow \in Rows /\ NoRow.state = "none"
  BY ExpiryIsLong DEF NoRow, Rows, Pools
<1>2. TypeOK
  BY <1>1, QuotaConstants DEF Init, TypeOK, NoLive
<1>3. Used = {} /\ Sent(Pools) = {} /\ Sent({"background"}) = {}
  BY <1>1 DEF Init, Used, Sent
<1>4. IsFiniteSet(Used)
  BY <1>3, FS_EmptySet
<1>5. ExpiredIsOld
  BY <1>1 DEF Init, ExpiredIsOld
<1>6. Cardinality(Sent(Pools)) = 0 /\ Cardinality(Sent({"background"})) = 0
  BY <1>3, FS_EmptySet
<1>7. WindowRespected /\ ReserveKept
  BY <1>2, <1>6, CapsAreNumbers
<1> QED
  BY <1>2, <1>4, <1>5, <1>7 DEF LedgerIInv

(* What cancelling the expired reservations leaves of each row.            *)
LEMMA ExpiredRows ==
    ASSUME TypeOK, ExpiredIsOld
    PROVE  /\ Expired(rows) \in [Ids -> Rows]
           /\ \A j \in Ids :
                 LET e == Expired(rows)[j] IN
                 /\ e.pool = rows[j].pool /\ e.age = rows[j].age /\ e.unseen = rows[j].unseen
                 /\ e.state = "none" <=> rows[j].state = "none"
                 /\ e.state = "expired" => e.age >= Expiry
                 /\ e.age \in 0..Expiry
<1> SUFFICES ASSUME NEW j \in Ids
             PROVE  LET e == Expired(rows)[j] IN
                    /\ e \in Rows
                    /\ e.pool = rows[j].pool /\ e.age = rows[j].age /\ e.unseen = rows[j].unseen
                    /\ e.state = "none" <=> rows[j].state = "none"
                    /\ e.state = "expired" => e.age >= Expiry
                    /\ e.age \in 0..Expiry
  BY DEF Expired
<1> DEFINE row == rows[j]
<1>1. row \in Rows /\ (row.state = "expired" => row.age >= Expiry) /\ row.age \in 0..Expiry
  BY DEF TypeOK, ExpiredIsOld, Rows
<1>2. Expired(rows)[j] = IF row.state = "reserved" /\ row.age >= Expiry
                         THEN [row EXCEPT !.state = "expired"] ELSE row
  BY DEF Expired
<1> HIDE DEF row
<1>3. CASE ~(row.state = "reserved" /\ row.age >= Expiry)
  BY <1>1, <1>2, <1>3 DEF row
<1>4. CASE row.state = "reserved" /\ row.age >= Expiry
  <2> DEFINE e == [row EXCEPT !.state = "expired"]
  <2>1. e \in Rows
    BY <1>1 DEF Rows
  <2>2. e.state = "expired" /\ e.pool = row.pool /\ e.age = row.age /\ e.unseen = row.unseen
    BY <1>1 DEF Rows
  <2> HIDE DEF e
  <2>3. Expired(rows)[j] = e
    BY <1>2, <1>4 DEF e
  <2> QED
    BY <1>1, <1>4, <2>1, <2>2, <2>3 DEF row
<1> QED
  BY <1>3, <1>4

(* What a successful reservation leaves: one more row, admitted into the   *)
(* window as it was.                                                       *)
LEMMA ReservedRows ==
    ASSUME LedgerIInv, NEW i \in Ids, NEW pool \in Pools, NEW n \in Tokens,
           Reserve(i, pool, n)
    PROVE  LET r == Expired(rows) IN
           /\ r \in [Ids -> Rows] /\ i \notin Used /\ i \notin Counted(r)
           /\ Counted(r) \subseteq Used /\ IsFiniteSet(Counted(r))
           /\ rows' \in [Ids -> Rows]
           /\ \A j \in Ids : j # i => rows'[j] = r[j]
           /\ rows'[i].state = "reserved" /\ rows'[i].pool = pool /\ rows'[i].age = 0
<1> DEFINE r == Expired(rows)
           new == [state |-> "reserved", pool |-> pool, tokens |-> n, age |-> 0,
                   today |-> TRUE, unseen |-> TRUE]
<1>1. TypeOK /\ ExpiredIsOld /\ IsFiniteSet(Used) /\ rows[i].state = "none"
  BY DEF LedgerIInv, Reserve
<1>2. r \in [Ids -> Rows] /\ \A j \in Ids : (r[j].state = "none" <=> rows[j].state = "none")
  BY <1>1, ExpiredRows
<1>3. new \in Rows
  BY ExpiryIsLong DEF Rows
<1>4. rows' = [r EXCEPT ![i] = new]
  BY DEF Reserve
<1> HIDE DEF r
<1>5. Counted(r) \subseteq Used /\ i \notin Counted(r) /\ i \notin Used
  BY <1>1, <1>2 DEF Counted, Used
<1>6. IsFiniteSet(Counted(r))
  BY <1>1, <1>5, FS_Subset
<1>7. rows' \in [Ids -> Rows] /\ rows'[i] = new /\ \A j \in Ids : j # i => rows'[j] = r[j]
  BY <1>2, <1>3, <1>4
<1> QED
  BY <1>2, <1>5, <1>6, <1>7 DEF r

(* reserve_quota keeps the bounds of every window.                         *)
LEMMA ReserveKeeps ==
    ASSUME LedgerIInv, NEW i \in Ids, NEW pool \in Pools, NEW n \in Tokens,
           Reserve(i, pool, n)
    PROVE  LedgerIInv'
<1> DEFINE r == Expired(rows)
<1>0. TypeOK /\ ExpiredIsOld /\ IsFiniteSet(Used) /\ WindowRespected /\ ReserveKept
  BY DEF LedgerIInv
<1>1. /\ r \in [Ids -> Rows] /\ i \notin Used /\ i \notin Counted(r)
      /\ Counted(r) \subseteq Used /\ IsFiniteSet(Counted(r))
      /\ rows' \in [Ids -> Rows]
      /\ \A j \in Ids : j # i => rows'[j] = r[j]
      /\ rows'[i].state = "reserved" /\ rows'[i].pool = pool /\ rows'[i].age = 0
  BY ReservedRows
<1>2. live' = live /\ midnight' = midnight /\ RetryDelay(r, pool, n) = 0
  BY DEF Reserve
<1>3. \A j \in Ids :
         /\ r[j].pool = rows[j].pool /\ r[j].age = rows[j].age /\ r[j].unseen = rows[j].unseen
         /\ (r[j].state = "none" <=> rows[j].state = "none")
         /\ (r[j].state = "expired" => r[j].age >= Expiry)
         /\ r[j].age \in 0..Expiry
  BY <1>0, ExpiredRows
<1> HIDE DEF r
<1>4. TypeOK'
  BY <1>0, <1>1, <1>2 DEF TypeOK
<1>5. Used' = Used \cup {i} /\ IsFiniteSet(Used')
  <2>1. Used' = Used \cup {i}
    BY <1>1, <1>3 DEF Used
  <2> QED
    BY <1>0, <2>1, FS_AddElement
<1>6. ExpiredIsOld'
  BY <1>1, <1>3 DEF ExpiredIsOld
<1> DEFINE W == Rolling(r, 0)
           k == Cardinality(W) + 1
<1>8. Fits(k, RequestAmount(0), pool)
  BY <1>0, <1>1, <1>2, AdmittedFits
<1>9. W \subseteq Counted(r) /\ IsFiniteSet(W) /\ i \notin W /\ Cardinality(W) \in Nat
  <2>1. W \subseteq Counted(r)
    BY DEF Rolling
  <2>2. IsFiniteSet(W)
    BY <1>1, <2>1, FS_Subset
  <2> QED
    BY <1>1, <2>1, <2>2, FS_CardinalityType
<1>10. Sent(Pools)' \subseteq W \cup {i}
  <2> SUFFICES ASSUME NEW j \in Ids, j # i, rows'[j].state # "none", rows'[j].age < RequestWindow
               PROVE  j \in W
    BY DEF Sent
  <2>1. r[j].state # "none" /\ r[j].age < RequestWindow /\ r[j].age \in Nat
    BY <1>1, <1>3, ExpiryIsLong
  <2>2. r[j].state # "expired"
    BY <1>3, <2>1, ExpiryIsLong
  <2>3. r[j].state \in {"none", "reserved", "completed", "expired"}
    BY <1>1 DEF Rows
  <2> QED
    BY <2>1, <2>2, <2>3 DEF Rolling, Counted
<1>11. Sent({"background"})' \subseteq Sent(Pools)'
  BY DEF Sent, Pools
<1>12. k \in Nat /\ IsFiniteSet(W \cup {i}) /\ Cardinality(W \cup {i}) = k
  BY <1>9, FS_AddElement
<1> HIDE DEF W
<1> DEFINE c == Cardinality(Sent(Pools)')
           d == Cardinality(Sent({"background"})')
<1>13. c \in Nat /\ d \in Nat /\ c <= k /\ d <= k
  <2>1. IsFiniteSet(Sent(Pools)') /\ c <= k
    BY <1>10, <1>12, FS_Subset
  <2>2. IsFiniteSet(Sent({"background"})') /\ d <= c
    BY <1>11, <2>1, FS_Subset
  <2>3. c \in Nat /\ d \in Nat
    BY <2>1, <2>2, FS_CardinalityType
  <2> HIDE DEF c, d, k
  <2> QED
    BY <1>12, <2>1, <2>2, <2>3
<1>14. Cap \in Nat /\ BackgroundCap \in Nat
  BY <1>0, CapsAreNumbers
<1>15. WindowRespected' <=> c * 10000 <= Cap
  BY DEF WindowRespected, Fits, Cap, Share, LargestLimit
<1>16. ReserveKept' <=> d * 10000 <= BackgroundCap
  BY DEF ReserveKept, BackgroundCap, LargestLimit
<1> HIDE DEF k
<1>17. k * 10000 <= Cap /\ (pool = "background" => k * 10000 <= BackgroundCap)
  BY <1>0, <1>8, <1>12, FitsTheLargest DEF Fits, Cap, BackgroundCap
<1>18. WindowRespected'
  <2> HIDE DEF c
  <2> QED
    BY <1>12, <1>13, <1>14, <1>15, <1>17
<1>19. ReserveKept'
  <2>1. CASE pool = "background"
    <3> HIDE DEF d
    <3> QED
      BY <1>12, <1>13, <1>14, <1>16, <1>17, <2>1
  <2>2. CASE pool # "background"
    <3> DEFINE b == Cardinality(Sent({"background"}))
    <3>1. Sent({"background"})' \subseteq Sent({"background"})
      BY <1>1, <1>3, <2>2 DEF Sent
    <3>2. IsFiniteSet(Sent({"background"})) /\ b \in Nat
      BY <1>0, SentIsFinite
    <3>3. d <= b
      BY <3>1, <3>2, FS_Subset
    <3>4. b * 10000 <= BackgroundCap
      BY <1>0, CapsAreNumbers
    <3> HIDE DEF b, d
    <3> QED
      BY <1>13, <1>14, <1>16, <3>2, <3>3, <3>4
  <2> QED
    BY <2>1, <2>2
<1> QED
  BY <1>4, <1>5, <1>6, <1>18, <1>19 DEF LedgerIInv

(* A step that adds no row and makes none younger keeps the bounds.        *)
LEMMA RowsFade ==
    ASSUME LedgerIInv, TypeOK',
           \A j \in Ids : rows'[j].state # "none" =>
               /\ rows[j].state # "none" /\ rows'[j].pool = rows[j].pool
               /\ rows[j].age <= rows'[j].age
               /\ rows'[j].state = "expired" => rows'[j].age >= Expiry
    PROVE  LedgerIInv'
<1>1. TypeOK /\ IsFiniteSet(Used)
  BY DEF LedgerIInv
<1>2. \A j \in Ids : rows[j].age \in Nat /\ rows'[j].age \in Nat
  BY <1>1, ExpiryIsLong DEF TypeOK, Rows
<1>4. WindowRespected' /\ ReserveKept'
  <2>1. Sent(Pools)' \subseteq Sent(Pools) /\ Sent({"background"})' \subseteq Sent({"background"})
    BY <1>2, ExpiryIsLong DEF Sent
  <2> QED
    BY <2>1, WindowShrinks
<1>5. IsFiniteSet(Used')
  <2>1. Used' \subseteq Used
    BY DEF Used
  <2> QED
    BY <1>1, <2>1, FS_Subset
<1>6. ExpiredIsOld'
  BY DEF ExpiredIsOld
<1> QED
  BY <1>4, <1>5, <1>6 DEF LedgerIInv

(* A completed row keeps its age and its pool.                             *)
LEMMA CompletedRow ==
    ASSUME NEW row \in Rows, NEW n \in Tokens
    PROVE  LET c == Completed(row, n) IN
           /\ c \in Rows /\ c.pool = row.pool /\ c.age = row.age /\ c.unseen = row.unseen
           /\ (c.state = "none" <=> row.state = "none")
           /\ (c.state = "expired" => row.state = "expired")
<1>1. CASE row.state # "reserved"
  BY <1>1 DEF Completed
<1>2. CASE row.state = "reserved"
  <2> DEFINE c == [row EXCEPT !.state = "completed", !.tokens = n]
  <2>1. c \in Rows
    BY DEF Rows
  <2>2. c.state = "completed" /\ c.pool = row.pool /\ c.age = row.age /\ c.unseen = row.unseen
    BY DEF Rows
  <2>3. Completed(row, n) = c
    BY <1>2 DEF Completed
  <2> HIDE DEF c
  <2> QED
    BY <1>2, <2>1, <2>2, <2>3
<1> QED
  BY <1>1, <1>2

(* A row that has been seen keeps everything else.                         *)
LEMMA SeenRow ==
    ASSUME NEW row \in Rows, NEW s, s = [row EXCEPT !.unseen = FALSE]
    PROVE  /\ s \in Rows /\ s.pool = row.pool /\ s.age = row.age /\ s.state = row.state
           /\ s.unseen = FALSE
<1>1. s \in Rows
  BY DEF Rows
<1>2. s.pool = row.pool /\ s.age = row.age /\ s.state = row.state /\ s.unseen = FALSE
  BY DEF Rows
<1> QED
  BY <1>1, <1>2

(* complete_quota, with and without headers.                               *)
LEMMA CompleteKeeps ==
    ASSUME LedgerIInv, NEW i \in Ids, NEW n \in Tokens, Complete(i, n)
    PROVE  LedgerIInv'
<1>0. TypeOK /\ ExpiredIsOld /\ rows \in [Ids -> Rows]
      /\ midnight' = midnight
  BY DEF LedgerIInv, TypeOK, Complete
<1> DEFINE c(j) == Completed(rows[j], n)
<1>1. \A j \in Ids :
         /\ c(j) \in Rows /\ c(j).pool = rows[j].pool /\ c(j).age = rows[j].age
         /\ c(j).unseen = rows[j].unseen
         /\ (c(j).state = "none" <=> rows[j].state = "none")
         /\ (c(j).state = "expired" => rows[j].state = "expired")
  BY <1>0, CompletedRow
<1> HIDE DEF c
<1>2. \A j \in Ids : rows[j].age \in Nat
  BY <1>0, ExpiryIsLong DEF Rows
<1>3. CASE rows' = [rows EXCEPT ![i] = Completed(@, n)] /\ UNCHANGED live
  <2>1. rows' = [rows EXCEPT ![i] = c(i)]
    BY <1>3 DEF c
  <2>2. \A j \in Ids : rows'[j] = IF j = i THEN c(i) ELSE rows[j]
    BY <1>0, <2>1
  <2>3. TypeOK'
    BY <1>0, <1>1, <1>3, <2>1 DEF TypeOK
  <2>5. \A j \in Ids : rows'[j].state # "none" =>
               /\ rows[j].state # "none" /\ rows'[j].pool = rows[j].pool
               /\ rows[j].age <= rows'[j].age
               /\ rows'[j].state = "expired" => rows'[j].age >= Expiry
    BY <1>0, <1>1, <1>2, <2>2 DEF ExpiredIsOld
  <2> QED
    BY <2>3, <2>5, RowsFade
<1>4. ASSUME NEW l \in LiveLimits, NEW left \in 0..l, NEW w \in 0..MaxReset,
             live' = Observed(l, left, w),
             rows' = [j \in Ids |->
                        [IF j = i THEN Completed(rows[j], n) ELSE rows[j]
                           EXCEPT !.unseen = FALSE]]
      PROVE  LedgerIInv'
  <2> DEFINE b(j) == IF j = i THEN c(j) ELSE rows[j]
  <2>1. \A j \in Ids : rows'[j] = [b(j) EXCEPT !.unseen = FALSE]
    BY <1>4 DEF c
  <2>2. \A j \in Ids :
           /\ b(j) \in Rows /\ b(j).pool = rows[j].pool /\ b(j).age = rows[j].age
           /\ (b(j).state = "none" <=> rows[j].state = "none")
           /\ (b(j).state = "expired" => rows[j].state = "expired")
    BY <1>0, <1>1
  <2> HIDE DEF b
  <2>3. \A j \in Ids : /\ rows'[j] \in Rows /\ rows'[j].pool = b(j).pool
                       /\ rows'[j].age = b(j).age /\ rows'[j].state = b(j).state
                       /\ rows'[j].unseen = FALSE
    <3> TAKE j \in Ids
    <3> DEFINE s == rows'[j]
               row == b(j)
    <3>1. row \in Rows /\ s = [row EXCEPT !.unseen = FALSE]
      BY <2>1, <2>2
    <3> HIDE DEF s, row
    <3>2. /\ s \in Rows /\ s.pool = row.pool /\ s.age = row.age /\ s.state = row.state
          /\ s.unseen = FALSE
      BY <3>1, SeenRow
    <3> QED
      BY <3>2 DEF s, row
  <2>4. live' \in [limit : {0} \cup LiveLimits, remaining : Nat, reset : 0..MaxReset]
    <3>1. l \in Nat /\ left \in Nat /\ MaxReset \in Nat
      BY QuotaConstants
    <3> QED
      BY <1>4, <3>1 DEF Observed, NoLive
  <2>5. TypeOK'
    BY <1>0, <1>4, <2>3, <2>4 DEF TypeOK
  <2>7. \A j \in Ids : rows'[j].state # "none" =>
               /\ rows[j].state # "none" /\ rows'[j].pool = rows[j].pool
               /\ rows[j].age <= rows'[j].age
               /\ rows'[j].state = "expired" => rows'[j].age >= Expiry
    BY <1>0, <1>2, <2>2, <2>3 DEF ExpiredIsOld
  <2> QED
    BY <2>5, <2>7, RowsFade
<1> QED
  BY <1>3, <1>4 DEF Complete

(* cancel_quota gives the row back.                                        *)
LEMMA CancelKeeps ==
    ASSUME LedgerIInv, NEW i \in Ids, Cancel(i)
    PROVE  LedgerIInv'
<1>0. TypeOK /\ ExpiredIsOld /\ rows \in [Ids -> Rows]
      /\ midnight' = midnight /\ live' = live /\ rows' = [rows EXCEPT ![i] = NoRow]
  BY DEF LedgerIInv, TypeOK, Cancel
<1>1. NoRow \in Rows /\ NoRow.state = "none"
  BY ExpiryIsLong DEF NoRow, Rows, Pools
<1>2. \A j \in Ids : rows'[j] = IF j = i THEN NoRow ELSE rows[j]
  BY <1>0
<1>3. TypeOK'
  BY <1>0, <1>1 DEF TypeOK
<1>5. \A j \in Ids : rows[j].age \in Nat
  BY <1>0, ExpiryIsLong DEF Rows
<1>6. \A j \in Ids : rows'[j].state # "none" =>
             /\ rows[j].state # "none" /\ rows'[j].pool = rows[j].pool
             /\ rows[j].age <= rows'[j].age
             /\ rows'[j].state = "expired" => rows'[j].age >= Expiry
  BY <1>0, <1>1, <1>2, <1>5 DEF ExpiredIsOld
<1> QED
  BY <1>3, <1>6, RowsFade

(* A second later every row is older, or forgotten.                        *)
LEMMA TickedRows ==
    ASSUME TypeOK, Tick, NEW j \in Ids
    PROVE  /\ rows'[j] \in Rows
           /\ \/ rows'[j].state = "none"
              \/ /\ rows[j].state # "none" /\ rows'[j].state = rows[j].state
                 /\ rows'[j].pool = rows[j].pool /\ rows'[j].unseen = rows[j].unseen
                 /\ rows'[j].age = IF rows[j].age < Expiry THEN rows[j].age + 1 ELSE rows[j].age
<1> DEFINE row == rows[j]
           age == IF row.age < Expiry THEN row.age + 1 ELSE row.age
           today == row.today /\ midnight # 1
           older == [row EXCEPT !.age = age, !.today = today]
<1>1. row \in Rows /\ row.age \in 0..Expiry /\ Expiry \in Nat /\ row.today \in BOOLEAN
  BY ExpiryIsLong DEF TypeOK, Rows
<1>2. age \in 0..Expiry /\ today \in BOOLEAN
  BY <1>1
<1>3. rows'[j] = NoRow \/ (row.state # "none" /\ rows'[j] = older)
  BY DEF Tick
<1> HIDE DEF age, today, row
<1>4. older \in Rows
  BY <1>1, <1>2 DEF Rows
<1>5. older.state = row.state /\ older.pool = row.pool /\ older.unseen = row.unseen
      /\ older.age = age
  BY <1>1, <1>2 DEF Rows
<1> HIDE DEF older
<1>6. NoRow \in Rows /\ NoRow.state = "none"
  BY ExpiryIsLong DEF NoRow, Rows, Pools
<1> QED
  BY <1>3, <1>4, <1>5, <1>6 DEF row, age

(* Time passes for the rows and for the header alike.                      *)
LEMMA TickKeeps ==
    ASSUME LedgerIInv, Tick
    PROVE  LedgerIInv'
<1>0. TypeOK /\ ExpiredIsOld /\ rows \in [Ids -> Rows]
      /\ MaxReset \in Nat /\ Day \in Nat \ {0}
  BY QuotaConstants DEF LedgerIInv, TypeOK
<1>1. \A j \in Ids :
         /\ rows'[j] \in Rows
         /\ \/ rows'[j].state = "none"
            \/ /\ rows[j].state # "none" /\ rows'[j].state = rows[j].state
               /\ rows'[j].pool = rows[j].pool /\ rows'[j].unseen = rows[j].unseen
               /\ rows'[j].age = IF rows[j].age < Expiry THEN rows[j].age + 1 ELSE rows[j].age
  BY <1>0, TickedRows
<1>2. live.reset \in 0..MaxReset /\ live'.reset \in 0..MaxReset
      /\ (live'.reset > 0 => live'.reset = live.reset - 1)
      /\ live' \in [limit : {0} \cup LiveLimits, remaining : Nat, reset : 0..MaxReset]
  <2>1. live \in [limit : {0} \cup LiveLimits, remaining : Nat, reset : 0..MaxReset]
    BY <1>0 DEF TypeOK
  <2>2. CASE live.reset <= 1
    <3>1. live' = NoLive
      BY <2>2 DEF Tick
    <3> QED
      BY <1>0, <2>1, <3>1 DEF NoLive
  <2>3. CASE ~(live.reset <= 1)
    <3>1. live' = [live EXCEPT !.reset = live.reset - 1]
      BY <2>3 DEF Tick
    <3>2. live.reset - 1 \in 0..MaxReset
      BY <1>0, <2>1, <2>3
    <3> QED
      BY <1>0, <2>1, <3>1, <3>2
  <2> QED
    BY <2>2, <2>3
<1>3. TypeOK'
  <2>1. rows' \in [Ids -> Rows]
    BY <1>1 DEF Tick
  <2>2. midnight' \in 1..Day
    <3>1. midnight \in 1..Day /\ midnight' = IF midnight = 1 THEN Day ELSE midnight - 1
      BY <1>0 DEF Tick, NextMidnight, TypeOK
    <3> QED
      BY <1>0, <3>1
  <2> QED
    BY <1>2, <2>1, <2>2 DEF TypeOK
<1>4. \A j \in Ids : rows[j].age \in Nat
  BY <1>0, ExpiryIsLong DEF Rows
<1>6. \A j \in Ids : rows'[j].state # "none" =>
             /\ rows[j].state # "none" /\ rows'[j].pool = rows[j].pool
             /\ rows[j].age <= rows'[j].age
             /\ rows'[j].state = "expired" => rows'[j].age >= Expiry
  BY <1>0, <1>1, <1>4, ExpiryIsLong DEF ExpiredIsOld
<1> QED
  BY <1>3, <1>6, RowsFade

(* The invariant is inductive.                                             *)
LEMMA LedgerInductive == LedgerIInv /\ [Next]_vars => LedgerIInv'
<1> SUFFICES ASSUME LedgerIInv, [Next]_vars PROVE LedgerIInv'
  OBVIOUS
<1>1. CASE UNCHANGED vars
  <2>1. rows' = rows /\ live' = live /\ midnight' = midnight
    BY <1>1 DEF vars
  <2>2. TypeOK' /\ ExpiredIsOld'
    BY <2>1 DEF LedgerIInv, TypeOK, ExpiredIsOld
  <2>3. \A j \in Ids : rows'[j].age \in Nat
    BY <2>2, ExpiryIsLong DEF TypeOK, Rows
  <2>4. \A j \in Ids : rows'[j].state # "none" =>
             /\ rows[j].state # "none" /\ rows'[j].pool = rows[j].pool
             /\ rows[j].age <= rows'[j].age
             /\ rows'[j].state = "expired" => rows'[j].age >= Expiry
    BY <2>1, <2>2, <2>3 DEF ExpiredIsOld
  <2> QED
    BY <2>2, <2>4, RowsFade
<1>2. ASSUME NEW i \in Ids, NEW pool \in Pools, NEW n \in Tokens, Reserve(i, pool, n)
      PROVE  LedgerIInv'
  BY <1>2, ReserveKeeps
<1>3. ASSUME NEW i \in Ids, NEW n \in Tokens, Complete(i, n) PROVE LedgerIInv'
  BY <1>3, CompleteKeeps
<1>4. ASSUME NEW i \in Ids, Cancel(i) PROVE LedgerIInv'
  BY <1>4, CancelKeeps
<1>5. CASE Tick
  BY <1>5, TickKeeps
<1> QED
  BY <1>1, <1>2, <1>3, <1>4, <1>5 DEF Next

(* No window of the request limit and no background part of it is          *)
(* overdrawn, whatever the resets that headers announce (reserve_quota,    *)
(* _limit_retry_at).                                                       *)
THEOREM WindowsAreKept == Spec => [](TypeOK /\ WindowRespected /\ ReserveKept)
<1>1. LedgerIInv => TypeOK /\ WindowRespected /\ ReserveKept
  BY DEF LedgerIInv
<1> QED
  BY InitLedger, LedgerInductive, <1>1, PTL DEF Spec

---------------------------------------------------------------------------
(* What a header said is left.                                             *)

(* The requests sent since the header in force was read that the ledger    *)
(* counts: an unanswered one leaves them when a reservation finds it       *)
(* expired, an answered one stays.                                         *)
Fresh == {i \in Counted(rows) : rows[i].unseen}

(* Inductive: the time at which an unanswered request is given up does not *)
(* matter, only that it is not counted again.                              *)
FreshLeft == live.reset > 0 => Cardinality(Fresh) <= live.remaining

(* What is left of an observed limit survives a reservation.               *)
LEMMA ReserveLeaves ==
    ASSUME LedgerIInv, NEW i \in Ids, NEW pool \in Pools, NEW n \in Tokens,
           Reserve(i, pool, n), live.reset > 0
    PROVE  Cardinality(Fresh') <= live.remaining
<1> DEFINE r == Expired(rows)
           C == {j \in Counted(r) : r[j].unseen}
<1>0. TypeOK /\ ExpiredIsOld
  BY DEF LedgerIInv
<1>1. /\ r \in [Ids -> Rows] /\ i \notin Counted(r)
      /\ IsFiniteSet(Counted(r))
      /\ \A j \in Ids : j # i => rows'[j] = r[j]
  BY ReservedRows
<1>2. RetryDelay(r, pool, n) = 0
  BY DEF Reserve
<1> HIDE DEF r
<1>4. ~(1 + Cardinality(C) > live.remaining)
  BY <1>0, <1>1, <1>2, AdmittedFits
<1>5. C \subseteq Counted(r) /\ IsFiniteSet(C) /\ i \notin C /\ Cardinality(C) \in Nat
  <2>1. C \subseteq Counted(r)
    OBVIOUS
  <2>2. IsFiniteSet(C)
    BY <1>1, <2>1, FS_Subset
  <2> QED
    BY <1>1, <2>1, <2>2, FS_CardinalityType
<1>6. Fresh' \subseteq C \cup {i}
  BY <1>1 DEF Fresh, Counted
<1> HIDE DEF C
<1>7. IsFiniteSet(C \cup {i}) /\ Cardinality(C \cup {i}) = Cardinality(C) + 1
  BY <1>5, FS_AddElement
<1>8. Cardinality(Fresh') <= Cardinality(C) + 1 /\ Cardinality(Fresh') \in Nat
  BY <1>6, <1>7, FS_Subset, FS_CardinalityType
<1>9. live.remaining \in Nat
  BY <1>0 DEF TypeOK
<1> QED
  BY <1>4, <1>5, <1>8, <1>9

(* A step without a reservation adds no request to those of the header.    *)
LEMMA FreshShrinks ==
    ASSUME LedgerIInv, FreshLeft, Fresh' \subseteq Fresh,
           live'.reset > 0 => live.reset > 0 /\ live'.remaining = live.remaining,
           live.remaining \in Nat
    PROVE  FreshLeft'
<1>1. IsFiniteSet(Fresh)
  <2>1. Fresh \subseteq Used /\ IsFiniteSet(Used)
    BY DEF LedgerIInv, Fresh, Used, Counted
  <2> QED
    BY <2>1, FS_Subset
<1>2. Cardinality(Fresh) \in Nat /\ Cardinality(Fresh') \in Nat
      /\ Cardinality(Fresh') <= Cardinality(Fresh)
  BY <1>1, FS_Subset, FS_CardinalityType
<1>3. live.reset > 0 => Cardinality(Fresh) <= live.remaining
  BY DEF FreshLeft
<1>4. live'.reset > 0 => Cardinality(Fresh') <= live'.remaining
  BY <1>2, <1>3
<1> QED
  BY <1>4 DEF FreshLeft

(* What is left of an observed limit survives every step.                  *)
LEMMA RemainingInductive ==
    ASSUME LedgerIInv, LedgerIInv', FreshLeft, [Next]_vars
    PROVE  FreshLeft'
<1>0. TypeOK /\ rows \in [Ids -> Rows] /\ live.remaining \in Nat
      /\ live.reset \in Nat
  BY QuotaConstants DEF LedgerIInv, TypeOK
<1>1. CASE UNCHANGED vars
  <2>1. rows' = rows /\ live' = live
    BY <1>1 DEF vars
  <2>2. Fresh' \subseteq Fresh
    BY <2>1 DEF Fresh
  <2> QED
    BY <1>0, <2>1, <2>2, FreshShrinks
<1>2. ASSUME NEW i \in Ids, NEW pool \in Pools, NEW n \in Tokens, Reserve(i, pool, n)
      PROVE  FreshLeft'
  <2>1. live' = live
    BY <1>2 DEF Reserve
  <2>2. live.reset > 0 => Cardinality(Fresh') <= live.remaining
    BY <1>2, ReserveLeaves
  <2> QED
    BY <2>1, <2>2 DEF FreshLeft
<1>3. ASSUME NEW i \in Ids, NEW n \in Tokens, Complete(i, n) PROVE FreshLeft'
  <2>1. CASE rows' = [rows EXCEPT ![i] = Completed(@, n)] /\ UNCHANGED live
    <3>1. /\ (Completed(rows[i], n).state = "none" <=> rows[i].state = "none")
          /\ Completed(rows[i], n).unseen = rows[i].unseen
      BY <1>0, CompletedRow
    <3>2. Fresh' \subseteq Fresh
      <4> DEFINE c == Completed(rows[i], n)
      <4>1. \A j \in Ids : rows'[j] = IF j = i THEN c ELSE rows[j]
        BY <1>0, <2>1
      <4>2. c.state \in {"reserved", "completed"} => rows[i].state \in {"reserved", "completed"}
        BY <1>0 DEF Completed, Rows
      <4> HIDE DEF c
      <4> QED
        BY <3>1, <4>1, <4>2 DEF Fresh, Counted, c
    <3> QED
      BY <1>0, <2>1, <3>2, FreshShrinks
  <2>2. ASSUME NEW l \in LiveLimits, NEW left \in 0..l, NEW w \in 0..MaxReset,
               live' = Observed(l, left, w),
               rows' = [j \in Ids |->
                          [IF j = i THEN Completed(rows[j], n) ELSE rows[j]
                             EXCEPT !.unseen = FALSE]]
        PROVE  FreshLeft'
    <3>1. \A j \in Ids : rows'[j].unseen = FALSE
      <4> TAKE j \in Ids
      <4>1. Completed(rows[j], n) \in Rows /\ rows[j] \in Rows
        BY <1>0, CompletedRow
      <4> DEFINE b == IF j = i THEN Completed(rows[j], n) ELSE rows[j]
      <4>2. b \in Rows
        BY <4>1
      <4>3. rows'[j] = [b EXCEPT !.unseen = FALSE]
        BY <2>2
      <4> HIDE DEF b
      <4> QED
        BY <4>2, <4>3 DEF Rows
    <3>2. Fresh' = {}
      BY <3>1 DEF Fresh, Counted
    <3>3. Cardinality(Fresh') = 0
      BY <3>2, FS_EmptySet, Zenon
    <3>4. live'.remaining \in Nat
      BY DEF LedgerIInv, TypeOK
    <3>5. live'.reset > 0 => Cardinality(Fresh') <= live'.remaining
      BY <3>3, <3>4
    <3> QED
      BY <3>5 DEF FreshLeft
  <2> QED
    BY <1>3, <2>1, <2>2 DEF Complete
<1>4. ASSUME NEW i \in Ids, Cancel(i) PROVE FreshLeft'
  <2>1. rows' = [rows EXCEPT ![i] = NoRow] /\ live' = live /\ NoRow.state = "none"
    BY <1>4 DEF Cancel, NoRow
  <2>2. Fresh' \subseteq Fresh
    BY <1>0, <2>1 DEF Fresh, Counted
  <2> QED
    BY <1>0, <2>1, <2>2, FreshShrinks
<1>5. CASE Tick
  <2>1. Fresh' \subseteq Fresh
    BY <1>0, <1>5, TickedRows DEF Fresh, Counted
  <2>2. live'.reset > 0 => live.reset > 0 /\ live'.remaining = live.remaining
    <3>1. live \in [limit : {0} \cup LiveLimits, remaining : Nat, reset : 0..MaxReset]
      BY <1>0 DEF TypeOK
    <3>2. CASE live.reset <= 1
      <4>1. live' = NoLive
        BY <1>5, <3>2 DEF Tick
      <4>2. live'.reset = 0
        BY <4>1 DEF NoLive
      <4> QED
        BY <4>2
    <3>3. CASE ~(live.reset <= 1)
      <4>1. live' = [live EXCEPT !.reset = live.reset - 1]
        BY <1>5, <3>3 DEF Tick
      <4>2. live'.remaining = live.remaining
        BY <3>1, <4>1
      <4> QED
        BY <1>0, <3>3, <4>2
    <3> QED
      BY <3>2, <3>3
  <2> QED
    BY <1>0, <2>1, <2>2, FreshShrinks
<1> QED
  BY <1>1, <1>2, <1>3, <1>4, <1>5 DEF Next

(* What the ledger counts includes every request that was answered or is   *)
(* younger than a reservation lives.                                       *)
LEMMA CountedIsEnough == LedgerIInv /\ FreshLeft => RemainingKept
<1> SUFFICES ASSUME LedgerIInv, FreshLeft, live.reset > 0 PROVE RemainingKept
  BY DEF RemainingKept
<1> DEFINE S == {i \in Ids : /\ rows[i].state # "none" /\ rows[i].unseen
                             /\ rows[i].state = "completed" \/ rows[i].age < Expiry}
<1>1. S \subseteq Fresh
  <2> SUFFICES ASSUME NEW i \in S PROVE i \in Fresh
    OBVIOUS
  <2>1. rows[i] \in Rows /\ (rows[i].state = "expired" => rows[i].age >= Expiry)
    BY DEF LedgerIInv, TypeOK, ExpiredIsOld
  <2>2. rows[i].age \in Nat /\ Expiry \in Nat
    BY <2>1, ExpiryIsLong DEF Rows
  <2>3. rows[i].state \in {"reserved", "completed"}
    BY <2>1, <2>2 DEF Rows
  <2> QED
    BY <2>3 DEF Fresh, Counted
<1>2. IsFiniteSet(Fresh)
  <2>1. Fresh \subseteq Used /\ IsFiniteSet(Used)
    BY DEF LedgerIInv, Fresh, Used, Counted
  <2> QED
    BY <2>1, FS_Subset
<1>3. Cardinality(S) <= Cardinality(Fresh) /\ Cardinality(S) \in Nat /\ Cardinality(Fresh) \in Nat
  BY <1>1, <1>2, FS_Subset, FS_CardinalityType
<1>4. live.remaining \in Nat
  BY DEF LedgerIInv, TypeOK
<1>5. Cardinality(S) <= live.remaining
  BY <1>3, <1>4 DEF FreshLeft
<1> QED
  BY <1>5 DEF RemainingKept

(* The ledger keeps every limit at once, what a header said is left        *)
(* included, whatever reset a header announces (complete_quota,            *)
(* _live_limit_retry_at).                                                  *)
THEOREM LedgerIsKept == Spec => []LedgerInv
<1> DEFINE I == LedgerIInv /\ FreshLeft
<1>1. Init => I
  <2>1. Init => FreshLeft
    BY DEF Init, NoLive, FreshLeft
  <2> QED
    BY <2>1, InitLedger
<1>2. I /\ [Next]_vars => I'
  BY LedgerInductive, RemainingInductive
<1>3. I => LedgerInv
  BY CountedIsEnough DEF LedgerIInv, LedgerInv
<1> QED
  BY <1>1, <1>2, <1>3, PTL DEF Spec

---------------------------------------------------------------------------
(* The time a refused attempt is told.                                     *)

(* Nothing adds up to nothing.                                             *)
LEMMA NoTokens ==
    ASSUME NEW r
    PROVE  TokensOf(r, {}) = 0
<1> DEFINE F(g) == [s \in SUBSET {} |->
                      IF s = {} THEN 0
                      ELSE LET x == CHOOSE x \in s : TRUE IN r[x].tokens + g[s \ {x}]]
           zero == [s \in SUBSET {} |-> 0]
           iter == CHOOSE g : g = F(g)
<1>1. zero = F(zero)
  <2>1. \A s \in SUBSET {} : s = {}
    OBVIOUS
  <2> QED
    BY <2>1
<1>2. iter = F(iter)
  BY <1>1
<1>3. iter[{}] = 0
  <2> HIDE DEF iter
  <2> QED
    BY <1>2
<1>4. TokensOf(r, {}) = iter[{}]
  BY DEF TokensOf, MapThenSumSet, MapThenFoldSet
<1> QED
  BY <1>3, <1>4

(* What fits leaves room for less.                                         *)
LEMMA FitsLess ==
    ASSUME NEW a \in Nat, NEW pool \in Pools, NEW u \in Nat, NEW v \in Nat, u <= v,
           Fits(v, a, pool)
    PROVE  Fits(u, a, pool)
<1> DEFINE m == 100 - SafetyMargin
           r == IF pool = "background" THEN 100 - RealtimeReserve ELSE 100
<1>1. m \in Nat /\ r \in Nat
  BY QuotaConstants
<1>2. Share(a, pool) = a * m * r
  BY DEF Share
<1> HIDE DEF m, r
<1>3. a * m \in Nat
  BY <1>1
<1>4. Share(a, pool) \in Nat
  BY <1>1, <1>2, <1>3
<1> QED
  BY <1>4 DEF Fits

(* The wait for the window of requests is exact: from then on the request  *)
(* fits, and not a second earlier.                                         *)
LEMMA RequestRetryIsExact ==
    ASSUME TypeOK, live.reset = 0, NEW r \in [Ids -> Rows], NEW pool \in Pools,
           IsFiniteSet(Counted(r)), Fits(1, RequestLimit, pool), NEW t \in Nat
    PROVE  Fits(Cardinality(Rolling(r, t)) + 1, RequestLimit, pool)
              <=> RequestRetry(r, pool) <= t
<1> DEFINE W == Rolling(r, 0)
           S == Rolling(r, t)
<1>0. RequestWindow \in Nat \ {0} /\ RequestLimit \in Nat
  BY ExpiryIsLong, QuotaConstants
<1>1. RequestAmount(0) = RequestLimit
  BY DEF RequestAmount
<1>2. \A i \in Counted(r) : r[i].age \in Nat
  BY ExpiryIsLong DEF Counted, Rows
<1>3. /\ S \subseteq W /\ W \subseteq Counted(r)
      /\ \A i \in Counted(r) : (i \in S <=> r[i].age + t < RequestWindow)
      /\ \A i \in Counted(r) : (i \in W <=> r[i].age < RequestWindow)
  BY <1>0, <1>2 DEF Rolling
<1>4. IsFiniteSet(W) /\ IsFiniteSet(S) /\ Cardinality(W) \in Nat /\ Cardinality(S) \in Nat
      /\ Cardinality(S) <= Cardinality(W)
  BY <1>3, FS_Subset, FS_CardinalityType
<1>5. CASE Fits(Cardinality(W) + 1, RequestLimit, pool)
  <2>1. RequestRetry(r, pool) = 0
    BY <1>1, <1>5 DEF RequestRetry
  <2> DEFINE u == Cardinality(S) + 1
             v == Cardinality(W) + 1
  <2>2. u \in Nat /\ v \in Nat /\ u <= v /\ Fits(v, RequestLimit, pool)
    BY <1>4, <1>5
  <2> HIDE DEF u, v
  <2>3. Fits(u, RequestLimit, pool)
    BY <1>0, <2>2, FitsLess
  <2> QED
    BY <2>1, <2>3 DEF u
<1>6. CASE ~Fits(Cardinality(W) + 1, RequestLimit, pool)
  <2>0. \A b \in AgesOf(r) : b \in Nat /\ b < RequestWindow
    BY <1>1, <1>6, RetryIsAge
  <2>1. PICK a \in AgesOf(r) :
          /\ RequestRetry(r, pool) = RequestWindow - a
          /\ Fits(Cardinality(YoungerThan(r, a)) + 1, RequestLimit, pool)
          /\ \A b \in AgesOf(r) : a < b =>
                ~Fits(Cardinality(YoungerThan(r, b)) + 1, RequestLimit, pool)
    BY <1>1, <1>6, RetryIsAge
  <2>2. a \in Nat /\ a < RequestWindow
    BY <2>0
  <2>3. ASSUME RequestRetry(r, pool) <= t
        PROVE  Fits(Cardinality(S) + 1, RequestLimit, pool)
    <3>1. S \subseteq YoungerThan(r, a) /\ YoungerThan(r, a) \subseteq W
      BY <1>0, <1>2, <1>3, <2>1, <2>2, <2>3 DEF YoungerThan
    <3> DEFINE u == Cardinality(S) + 1
               v == Cardinality(YoungerThan(r, a)) + 1
    <3>2. IsFiniteSet(YoungerThan(r, a)) /\ Cardinality(YoungerThan(r, a)) \in Nat
          /\ Cardinality(S) <= Cardinality(YoungerThan(r, a))
      BY <1>4, <3>1, FS_Subset, FS_CardinalityType
    <3>3. u \in Nat /\ v \in Nat /\ u <= v /\ Fits(v, RequestLimit, pool)
      BY <1>4, <2>1, <3>2
    <3> HIDE DEF u, v
    <3>4. Fits(u, RequestLimit, pool)
      BY <1>0, <3>3, FitsLess
    <3> QED
      BY <3>4 DEF u
  <2>4. ASSUME ~(RequestRetry(r, pool) <= t)
        PROVE  ~Fits(Cardinality(S) + 1, RequestLimit, pool)
    <3>1. a + t < RequestWindow
      BY <1>0, <2>1, <2>2, <2>4
    <3>2. CASE S = W
      BY <1>6, <3>2
    <3>3. CASE S # W
      <4> DEFINE Far == {b \in AgesOf(r) : RequestWindow <= b + t}
      <4>1. PICK i \in W : i \notin S
        BY <1>3, <3>3
      <4>2. r[i].age \in Far
        BY <1>0, <1>2, <1>3, <4>1 DEF AgesOf
      <4>3. Far \in SUBSET Nat /\ Far # {}
        BY <2>0, <4>2
      <4>4. PICK b \in Far : \A c \in Far : b <= c
        BY <4>3, LeastNumber
      <4>5. b \in AgesOf(r) /\ b \in Nat /\ RequestWindow <= b + t
        BY <2>0
      <4>6. YoungerThan(r, b) = S
        <5>1. ASSUME NEW j \in W, r[j].age < b PROVE j \in S
          <6> DEFINE g == r[j].age
          <6>1. g \in AgesOf(r) /\ g \in Nat /\ g < b
            BY <1>2, <1>3, <5>1 DEF AgesOf
          <6>2. g \notin Far
            BY <4>4, <4>5, <6>1
          <6>3. g + t < RequestWindow
            BY <1>0, <6>1, <6>2
          <6> QED
            BY <1>3, <6>3
        <5>2. ASSUME NEW j \in S PROVE r[j].age < b
          BY <1>0, <1>2, <1>3, <4>5
        <5> QED
          BY <1>3, <5>1, <5>2 DEF YoungerThan
      <4>7. a < b
        BY <1>0, <2>2, <3>1, <4>5
      <4> QED
        BY <2>1, <4>5, <4>6, <4>7
    <3> QED
      BY <3>2, <3>3
  <2> QED
    BY <2>3, <2>4
<1> QED
  BY <1>5, <1>6

(* The same of the tokens of the day, whose budget is whole at midnight.   *)
LEMMA TokenRetryIsExact ==
    ASSUME TypeOK, NEW r \in [Ids -> Rows], NEW pool \in Pools, NEW n \in Tokens,
           Fits(n, TokenLimit, pool), NEW t \in Nat
    PROVE  Fits(TokensOf(r, Today(r, t)) + n, TokenLimit, pool)
              <=> TokenRetry(r, pool, n) <= t
<1>0. midnight \in Nat \ {0} /\ n \in Nat
  BY QuotaConstants DEF TypeOK
<1>1. CASE t < midnight
  <2>1. Today(r, t) = Today(r, 0)
    BY <1>0, <1>1 DEF Today
  <2> QED
    BY <1>0, <1>1, <2>1 DEF TokenRetry
<1>2. CASE ~(t < midnight)
  <2>1. Today(r, t) = {}
    BY <1>2 DEF Today
  <2>2. TokensOf(r, Today(r, t)) + n = n
    BY <1>0, <2>1, NoTokens
  <2>3. TokenRetry(r, pool, n) <= t
    BY <1>0, <1>2 DEF TokenRetry
  <2> QED
    BY <2>2, <2>3
<1> QED
  BY <1>1, <1>2

(* A refused attempt is told the earliest second at which it is admitted   *)
(* (_limit_retry_at, _retry_at_for_limit).                                 *)
THEOREM RetryIsExact == Spec => []RetryIsEarliest
<1>1. LedgerIInv => RetryIsEarliest
  <2> SUFFICES ASSUME LedgerIInv, NEW pool \in Pools, NEW n \in Tokens,
                      live.reset = 0, Fits(1, RequestLimit, pool), Fits(n, TokenLimit, pool)
               PROVE  LET r == Expired(rows) d == RetryDelay(r, pool, n) IN
                      /\ Admitted(r, pool, n, d)
                      /\ \A t \in 0..d : Admitted(r, pool, n, t) => t = d
    BY DEF RetryIsEarliest
  <2> DEFINE r == Expired(rows)
             x == RequestRetry(r, pool)
             y == TokenRetry(r, pool, n)
             d == RetryDelay(r, pool, n)
  <2>0. TypeOK /\ ExpiredIsOld /\ IsFiniteSet(Used)
    BY DEF LedgerIInv
  <2>1. r \in [Ids -> Rows] /\ \A j \in Ids : (r[j].state = "none" <=> rows[j].state = "none")
    BY <2>0, ExpiredRows
  <2> HIDE DEF r
  <2>2. IsFiniteSet(Counted(r))
    <3>1. Counted(r) \subseteq Used
      BY <2>1 DEF Counted, Used
    <3> QED
      BY <2>0, <3>1, FS_Subset
  <2>3. x \in Nat /\ y \in Nat /\ LiveRetry(r) = 0
    <3>1. x \in Nat
      BY <2>0, <2>1, RequestRetryIs
    <3>2. y \in Nat
      BY <2>0, QuotaConstants DEF TokenRetry, TypeOK
    <3>3. LiveRetry(r) = 0
      BY DEF LiveRetry
    <3> QED
      BY <3>1, <3>2, <3>3
  <2>4. \A t \in Nat : Admitted(r, pool, n, t) <=> x <= t /\ y <= t
    <3> TAKE t \in Nat
    <3>1. Fits(Cardinality(Rolling(r, t)) + 1, RequestLimit, pool) <=> x <= t
      BY <2>0, <2>1, <2>2, RequestRetryIsExact
    <3>2. Fits(TokensOf(r, Today(r, t)) + n, TokenLimit, pool) <=> y <= t
      BY <2>0, <2>1, TokenRetryIsExact
    <3>3. RequestAmount(t) = RequestLimit /\ ~(live.reset > t)
      BY DEF RequestAmount
    <3> QED
      BY <3>1, <3>2, <3>3 DEF Admitted
  <2>5. d \in Nat /\ d \in {x, y, 0} /\ x <= d /\ y <= d
    <3>1. d = Max({x, y, 0})
      BY <2>3 DEF RetryDelay
    <3> HIDE DEF x, y, d
    <3>2. {x, y, 0} \in SUBSET Nat /\ {x, y, 0} # {} /\ \A w \in {x, y, 0} : w <= x + y
      BY <2>3
    <3>3. x + y \in Nat
      BY <2>3
    <3>4. Max({x, y, 0}) \in {x, y, 0} /\ \A w \in {x, y, 0} : w <= Max({x, y, 0})
      BY <3>2, <3>3, LargestNumber
    <3> QED
      BY <2>3, <3>1, <3>4
  <2> HIDE DEF x, y, d
  <2>6. Admitted(r, pool, n, d)
    BY <2>4, <2>5
  <2>7. ASSUME NEW t \in 0..d, Admitted(r, pool, n, t) PROVE t = d
    <3>1. t \in Nat /\ t <= d
      BY <2>5
    <3>2. x <= t /\ y <= t
      BY <2>4, <2>7, <3>1
    <3> QED
      BY <2>3, <2>5, <3>1, <3>2
  <2> QED
    BY <2>6, <2>7 DEF r, d
<1> QED
  BY InitLedger, LedgerInductive, <1>1, PTL DEF Spec

=============================================================================
