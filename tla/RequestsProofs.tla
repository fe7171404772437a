--------------------------- MODULE RequestsProofs ---------------------------
(***************************************************************************)
(* Proofs about what keeps state about a server: the calls of the analysis *)
(* threads to a provider (ProviderRequests), for any number of threads and *)
(* calls, any delays an answer may ask for and any settings of retries and *)
(* interval; a connection to a Pi-hole (PiHoleConnection), for any number  *)
(* of operations, sessions and faults; and the evidence of a domain: the   *)
(* download of a catalogue (EvidenceCache), for any threads, published     *)
(* versions and ends of the process; the runs that ask the sources         *)
(* (EvidenceResearch), for any runs, domains, sources and intervals; and   *)
(* what the answers amount to (EvidenceVerdicts), whichever sources answer *)
(* and in whatever order.                                                  *)
(***************************************************************************)
EXTENDS ProviderRequests, PiHoleConnection, EvidenceCache, EvidenceResearch,
        EvidenceVerdicts, FiniteSetTheorems, WellFoundedInduction, TLAPS

-----------------------------------------------------------------------------
(* The calls to a provider.                                                *)
ReqSpec == ReqInit /\ [][ReqNext]_reqVars

Typed ==
    /\ step \in [Workers -> {"idle", "slot", "quota", "send", "flight", "read"}]
    /\ call \in [Workers -> Calls \union {None}]
    /\ held \in [Workers -> BOOLEAN]
    /\ lost \in [Workers -> BOOLEAN]

(* What is left until the next slot covers every delay asked for and the    *)
(* rest of the interval since the last slot.                                *)
GapCovers ==
    /\ rate \in Rates
    /\ asked \in 0..MaxDelay /\ asked <= rate.gap
    /\ capped \in 0..MaxDelay /\ capped <= rate.gap
    /\ since \in 0..Base /\ Base - since <= rate.gap

(* The request of the running attempt, once it is sent. *)
Running(w) == IF step[w] \in {"flight", "read"} THEN 1 ELSE 0

(* A mode sends one request per attempt, and a mode is left for the next    *)
(* only with an answer that was not used.                                   *)
WithinBudget(w) ==
    /\ call[w].mode \in 1..Len(Modes(call[w].kind))
    /\ call[w].attempt < Attempts
    /\ call[w].sent <= Attempts * call[w].unused + call[w].attempt + Running(w)

(* A reservation is held from its grant to the end of the request, and a    *)
(* pooled request is not sent without one.                                  *)
Reserved(w) ==
    /\ held[w] => step[w] \in {"send", "flight"} \/ lost[w]
    /\ step[w] \in {"send", "flight"} /\ call[w].kind.pooled => held[w]
    /\ step[w] # "idle" => ~lost[w]

WorkerOK(w) ==
    /\ step[w] = "idle" <=> call[w] = None
    /\ call[w] # None => WithinBudget(w)
    /\ Reserved(w)

(* The inductive invariant. *)
ReqIInv ==
    /\ Typed /\ GapCovers /\ ~uncounted
    /\ \A w \in Workers : WorkerOK(w)

-----------------------------------------------------------------------------
(* A set of natural numbers has a least element. *)
LEMMA LeastNatural ==
    ASSUME NEW S \in SUBSET Nat, S # {}
    PROVE  \E x \in S : \A y \in S : x <= y
<1> DEFINE R == OpToRel(<, Nat)
<1> HIDE DEF R
<1>1. IsWellFoundedOn(R, Nat)
  BY NatLessThanWellFounded DEF R
<1>2. \E x \in S : \A y \in S : ~(<<y, x>> \in R)
  BY <1>1, WFMin
<1>3. \A x, y \in Nat : y < x => <<y, x>> \in R
  BY Zenon DEF OpToRel, R
<1>4. PICK x \in S : \A y \in S : ~(<<y, x>> \in R)
  BY <1>2
<1>5. ASSUME NEW y \in S PROVE ~(y < x)
  BY <1>3, <1>4, Zenon
<1>6. \A y \in S : x <= y
  BY <1>5
<1> QED
  BY <1>6

(* A finite set of delays has a longest one: a smallest set without would   *)
(* lose its counterexample with any of its elements.                        *)
LEMMA LongestExists ==
    ASSUME NEW S \in SUBSET Int, S # {}, IsFiniteSet(S)
    PROVE  \E x \in S : \A y \in S : y <= x
<1> DEFINE HasLongest(T) == \E x \in T : \A y \in T : y <= x
           Sizes == {n \in Nat : \E T \in SUBSET S :
                                  T # {} /\ Cardinality(T) = n /\ ~HasLongest(T)}
<1> SUFFICES ASSUME ~HasLongest(S) PROVE FALSE
  OBVIOUS
<1>1. Cardinality(S) \in Sizes
  BY FS_CardinalityType
<1>2. PICK n \in Sizes : \A m \in Sizes : n <= m
  BY <1>1, LeastNatural
<1>3. PICK T \in SUBSET S : T # {} /\ Cardinality(T) = n /\ ~HasLongest(T)
  BY <1>2
<1>4. PICK x \in T : TRUE
  BY <1>3
<1> DEFINE U == T \ {x}
<1>5. IsFiniteSet(U) /\ Cardinality(U) = n - 1
  BY <1>3, <1>4, FS_Subset, FS_RemoveElement
<1>6. U # {}
  BY <1>3, <1>4
<1>7. HasLongest(U)
  <2>1. n - 1 \in Nat
    BY <1>2, <1>5, FS_CardinalityType
  <2>2. n - 1 \notin Sizes
    BY <1>2, <2>1
  <2> QED
    BY <1>5, <1>6, <2>1, <2>2
<1>8. PICK u \in U : \A y \in U : y <= u
  BY <1>7
<1>9. CASE x <= u
  BY <1>3, <1>8, <1>9
<1>10. CASE ~(x <= u)
  <2>1. \A y \in T : y <= x
    BY <1>8, <1>10
  <2> QED
    BY <1>3, <2>1
<1> QED
  BY <1>9, <1>10

(* retry_delay_from_headers: the delay of an answer with headers is within  *)
(* the maximum and covers the longest delay the server asked for, or is     *)
(* the maximum when that is longer.                                         *)
LEMMA RetryDelayCovers ==
    ASSUME NEW hs \in Headers, hs # {}
    PROVE  /\ RetryDelay(hs) \in 0..MaxDelay
           /\ AskedFor(hs) \in Int /\ Smaller(MaxDelay, AskedFor(hs)) <= RetryDelay(hs)
<1> DEFINE ds == {HeaderDelay(h) : h \in hs}
           ts == {h.ticks : h \in hs}
           top == CHOOSE d \in ds : \A e \in ds : e <= d
           asks == CHOOSE d \in ts : \A h \in hs : h.ticks <= d
<1>1. /\ IsFiniteSet(hs)
      /\ \A h \in hs : h.ticks \in Int /\ HeaderDelay(h) \in Int
  BY RequestConstants, RateAssumption DEF HeaderDelay
<1>2. IsFiniteSet(ds) /\ IsFiniteSet(ts)
  <2>1. [h \in hs |-> HeaderDelay(h)] \in Surjection(hs, ds)
    BY DEF Surjection
  <2>2. [h \in hs |-> h.ticks] \in Surjection(hs, ts)
    BY DEF Surjection
  <2> QED
    BY <1>1, <2>1, <2>2, FS_Surjection
<1>3. ds \in SUBSET Int /\ ds # {} /\ ts \in SUBSET Int /\ ts # {}
  BY <1>1
<1>4. top \in ds /\ \A e \in ds : e <= top
  BY <1>2, <1>3, LongestExists
<1>5. asks \in ts /\ \A h \in hs : h.ticks <= asks
  <2>1. PICK t \in ts : \A e \in ts : e <= t
    BY <1>2, <1>3, LongestExists
  <2>2. \A h \in hs : h.ticks <= t
    BY <2>1
  <2> QED
    BY <2>1, <2>2
<1>6. PICK g \in hs : g.ticks = asks
  BY <1>5
<1>7. HeaderDelay(g) <= top /\ (HeaderDelay(g) = asks \/ HeaderDelay(g) = MaxDelay)
  BY <1>4, <1>6 DEF HeaderDelay
<1>8. RetryDelay(hs) = Smaller(MaxDelay, Larger(0, top))
  BY DEF RetryDelay
<1>9. AskedFor(hs) = asks
  BY DEF AskedFor
<1>10. top \in Int /\ asks \in Int
  BY <1>3, <1>4, <1>5
<1> HIDE DEF ds, ts, top, asks
<1> QED
  BY <1>7, <1>8, <1>9, <1>10, RateAssumption DEF Smaller, Larger

(* The delay after a failure, with headers or without. *)
LEMMA FailureDelayCovers ==
    ASSUME NEW hs \in Headers \union {{}}, NEW attempt \in Nat
    PROVE  /\ FailureDelay(hs, attempt) \in 0..MaxDelay
           /\ AskedFor(hs) \in Int
           /\ Smaller(MaxDelay, AskedFor(hs)) <= FailureDelay(hs, attempt)
<1>1. CASE hs = {}
  <2>1. Second * 2^attempt \in Int
    BY RateAssumption
  <2>2. AttemptDelay(attempt) \in 0..MaxDelay
    BY <2>1, RateAssumption DEF AttemptDelay, Smaller, Larger
  <2> QED
    BY <1>1, <2>2, RateAssumption DEF FailureDelay, RetryDelay, AskedFor, Smaller
<1>2. CASE hs # {}
  BY <1>2, RetryDelayCovers, RateAssumption DEF FailureDelay
<1> QED
  BY <1>1, <1>2

(* _increase_backoff: the gap only grows, to the delay at least. *)
LEMMA DelayKeepsGap ==
    ASSUME GapCovers, NEW hs \in Headers \union {{}}, NEW attempt \in Nat,
           Delayed(hs, attempt), since' = since
    PROVE  GapCovers'
<1> DEFINE delay == FailureDelay(hs, attempt)
           grown == IF rate.adaptive # 0 THEN 2 * rate.adaptive ELSE Larger(Second, Base)
           next == Smaller(MaxAdaptive, Larger(Base, grown))
           gap == Larger(rate.gap, Larger(delay, next))
<1>1. delay \in 0..MaxDelay /\ AskedFor(hs) \in Int /\ Smaller(MaxDelay, AskedFor(hs)) <= delay
  BY FailureDelayCovers
<1>2. rate.gap \in 0..MaxDelay /\ rate.adaptive \in 0..MaxDelay
  BY DEF GapCovers, Rates
<1>3. next \in 0..MaxDelay
  BY <1>2, RateAssumption, RequestConstants DEF Smaller, Larger
<1>4. /\ rate' = [gap |-> gap, adaptive |-> next]
      /\ asked' = IF AskedFor(hs) <= MaxDelay THEN Larger(asked, AskedFor(hs)) ELSE asked
      /\ capped' = IF AskedFor(hs) <= MaxDelay THEN capped ELSE MaxDelay
  BY DEF Delayed, BackedOff
<1> HIDE DEF delay, next
<1>5. gap \in 0..MaxDelay /\ gap >= rate.gap /\ gap >= delay
  BY <1>1, <1>2, <1>3, RateAssumption DEF Larger
<1> HIDE DEF gap
<1>6. rate' \in Rates /\ rate'.gap = gap
  BY <1>3, <1>4, <1>5 DEF Rates
<1>7. /\ asked' \in 0..MaxDelay /\ asked' <= gap
      /\ capped' \in 0..MaxDelay /\ capped' <= gap
  BY <1>1, <1>2, <1>4, <1>5, RateAssumption DEF GapCovers, Larger, Smaller
<1>8. Base - since' <= gap /\ since' \in 0..Base
  BY <1>2, <1>5, RequestConstants, RateAssumption DEF GapCovers
<1> QED
  BY <1>6, <1>7, <1>8 DEF GapCovers

(* _wait_for_request_slot: the next slot comes a base interval later at least. *)
LEMMA SlotKeepsGap ==
    ASSUME GapCovers, rate.gap = 0, rate' = SlotTaken(rate, Base), since' = 0,
           UNCHANGED <<asked, capped>>
    PROVE  GapCovers'
<1> DEFINE gap == Larger(Base, rate.adaptive)
<1>1. rate.adaptive \in 0..MaxDelay /\ rate' = [rate EXCEPT !.gap = gap]
  BY DEF GapCovers, Rates, SlotTaken
<1>2. gap \in 0..MaxDelay /\ gap >= Base /\ asked = 0 /\ capped = 0
  BY <1>1, RequestConstants, RateAssumption DEF Larger, GapCovers
<1> HIDE DEF gap
<1>3. rate' \in Rates /\ rate'.gap = gap
  BY <1>1, <1>2 DEF GapCovers, Rates
<1> QED
  BY <1>2, <1>3, RequestConstants, RateAssumption DEF GapCovers

(* _register_success: a smaller adaptive delay leaves the next slot where it is. *)
LEMMA EasedKeepsGap ==
    ASSUME GapCovers, rate' = Eased(rate, Base), UNCHANGED <<since, asked, capped>>
    PROVE  GapCovers'
<1> DEFINE a == Larger(Base, rate.adaptive \div 2)
<1>1. rate' = [rate EXCEPT !.adaptive = a] /\ rate.adaptive \in 0..MaxDelay
  BY DEF Eased, GapCovers, Rates
<1>2. a \in 0..MaxDelay
  BY <1>1, RequestConstants, RateAssumption DEF Larger
<1> HIDE DEF a
<1>3. rate' \in Rates /\ rate'.gap = rate.gap
  BY <1>1, <1>2 DEF GapCovers, Rates
<1> QED
  BY <1>3 DEF GapCovers

(* A tick: the next slot and every delay asked for come closer together. *)
LEMMA TickKeepsGap ==
    ASSUME GapCovers, ReqTick
    PROVE  GapCovers'
<1> DEFINE gap == Larger(0, rate.gap - 1)
<1>1. /\ rate' = [rate EXCEPT !.gap = gap] /\ rate.gap \in 0..MaxDelay
      /\ asked' = Larger(0, asked - 1) /\ capped' = Larger(0, capped - 1)
      /\ since' = Smaller(Base, since + 1)
  BY DEF ReqTick, Later, GapCovers, Rates
<1>2. gap \in 0..MaxDelay
  BY <1>1, RateAssumption DEF Larger
<1>3. /\ asked' \in 0..MaxDelay /\ asked' <= gap
      /\ capped' \in 0..MaxDelay /\ capped' <= gap
  BY <1>1, RateAssumption DEF Larger, GapCovers
<1>4. since' \in 0..Base /\ Base - since' <= gap
  BY <1>1, RateAssumption, RequestConstants DEF Larger, Smaller, GapCovers
<1> HIDE DEF gap
<1>5. rate' \in Rates /\ rate'.gap = gap
  BY <1>1, <1>2 DEF GapCovers, Rates
<1> QED
  BY <1>3, <1>4, <1>5 DEF GapCovers

-----------------------------------------------------------------------------
(* A step of one thread says nothing about the others. *)
OthersUnchanged(w) ==
    \A v \in Workers \ {w} :
        step'[v] = step[v] /\ call'[v] = call[v] /\ held'[v] = held[v] /\ lost'[v] = lost[v]

(* What holds of the other threads still does when one of them moves. *)
LEMMA OthersKept ==
    ASSUME ReqIInv, NEW w \in Workers, Typed', OthersUnchanged(w), WorkerOK(w)'
    PROVE  \A v \in Workers : WorkerOK(v)'
<1> SUFFICES ASSUME NEW v \in Workers \ {w} PROVE WorkerOK(v)'
  OBVIOUS
<1> QED
  BY DEF ReqIInv, OthersUnchanged, WorkerOK, WithinBudget, Reserved, Running

(* A mode has one attempt at least. *)
LEMMA AttemptsArePositive == Attempts \in Nat /\ Attempts >= 1
BY RequestConstants DEF Attempts, Larger

(* How the budget of requests grows with one more output mode. *)
LEMMA BudgetGrows ==
    ASSUME NEW n \in Nat
    PROVE  /\ Attempts * n \in Nat /\ Attempts * 0 = 0
           /\ Attempts * (n + 1) = Attempts * n + Attempts
           /\ Attempts * (1 + n) = Attempts * n + Attempts
BY AttemptsArePositive

(* The call ends: nothing is left to hold for it. *)
LEMMA EndsKeeps ==
    ASSUME ReqIInv, NEW w \in Workers, Ends(w),
           held' = held \/ held' = [held EXCEPT ![w] = FALSE],
           held'[w] => lost'[w],
           lost' = lost \/ lost' = [lost EXCEPT ![w] = TRUE]
    PROVE  Typed' /\ \A v \in Workers : WorkerOK(v)'
<1>1. Typed'
  BY DEF ReqIInv, Typed, Ends
<1>2. OthersUnchanged(w)
  BY DEF ReqIInv, Typed, Ends, OthersUnchanged
<1>3. step'[w] = "idle" /\ call'[w] = None
  BY DEF ReqIInv, Typed, Ends
<1>4. WorkerOK(w)'
  BY <1>3 DEF WorkerOK, Reserved
<1> QED
  BY <1>1, <1>2, <1>4, OthersKept

(* The next attempt, without a reservation. *)
LEMMA NextAttemptKeeps ==
    ASSUME ReqIInv, NEW w \in Workers, step[w] = "flight", call[w].attempt + 1 < Attempts,
           NextAttempt(w), held' = [held EXCEPT ![w] = FALSE], lost' = lost
    PROVE  Typed' /\ \A v \in Workers : WorkerOK(v)'
<1> DEFINE c == call[w]
           d == [c EXCEPT !.attempt = @ + 1]
<1>1. c \in Calls /\ c # None /\ WithinBudget(w)
  BY DEF ReqIInv, Typed, WorkerOK
<1>2. call' = [call EXCEPT ![w] = d]
  BY DEF NextAttempt, ReqIInv, Typed
<1>3. /\ d \in Calls /\ d.attempt = c.attempt + 1 /\ d.kind = c.kind /\ d.mode = c.mode
      /\ d.sent = c.sent /\ d.unused = c.unused
  BY <1>1 DEF Calls
<1> HIDE DEF d
<1>4. Typed'
  BY <1>2, <1>3 DEF ReqIInv, Typed, NextAttempt
<1>5. OthersUnchanged(w)
  BY <1>2 DEF ReqIInv, Typed, NextAttempt, OthersUnchanged
<1>6. step'[w] = "slot" /\ call'[w] = d /\ held'[w] = FALSE
  BY <1>2 DEF ReqIInv, Typed, NextAttempt
<1>7. d # None
  BY <1>3, RequestConstants
<1>8. WithinBudget(w)'
  <2>1. c.sent <= Attempts * c.unused + c.attempt + 1
    BY <1>1 DEF WithinBudget, Running
  <2>2. c.sent \in Nat /\ c.attempt \in Nat /\ Attempts * c.unused \in Nat
    BY <1>1, BudgetGrows DEF Calls
  <2> QED
    BY <1>1, <1>3, <1>6, <2>1, <2>2 DEF WithinBudget, Running
<1>9. WorkerOK(w)'
  BY <1>6, <1>7, <1>8 DEF ReqIInv, WorkerOK, Reserved
<1> QED
  BY <1>4, <1>5, <1>9, OthersKept

(* The next mode, for an answer that was not used. *)
LEMMA NextModeKeeps ==
    ASSUME ReqIInv, NEW w \in Workers, step[w] \in {"flight", "read"},
           NEW fallback \in BOOLEAN, NextMode(w, fallback, 1),
           held' = [held EXCEPT ![w] = FALSE], lost' = lost
    PROVE  Typed' /\ \A v \in Workers : WorkerOK(v)'
<1>1. CASE fallback /\ call[w].mode < Len(Modes(call[w].kind))
  <2> DEFINE c == call[w]
             d == [c EXCEPT !.mode = @ + 1, !.attempt = 0, !.unused = @ + 1]
  <2>1. c \in Calls /\ c # None /\ WithinBudget(w)
    BY DEF ReqIInv, Typed, WorkerOK
  <2>2. call' = [call EXCEPT ![w] = d] /\ step' = [step EXCEPT ![w] = "slot"]
    BY <1>1 DEF NextMode, ReqIInv, Typed
  <2>3. /\ d \in Calls /\ d.attempt = 0 /\ d.kind = c.kind /\ d.mode = c.mode + 1
        /\ d.sent = c.sent /\ d.unused = c.unused + 1
    <3> DEFINE mode == c.mode + 1
               unused == c.unused + 1
    <3>1. mode \in Nat /\ unused \in Nat /\ 0 \in Nat
      BY <2>1 DEF Calls
    <3>2. d = [c EXCEPT !.mode = mode, !.attempt = 0, !.unused = unused]
      BY <2>1 DEF Calls
    <3> HIDE DEF mode, unused, d, c
    <3>3. d \in Calls
      BY <2>1, <3>1, <3>2 DEF Calls
    <3>4. /\ d.attempt = 0 /\ d.kind = c.kind /\ d.mode = mode
          /\ d.sent = c.sent /\ d.unused = unused
      BY <2>1, <3>1, <3>2 DEF Calls
    <3> QED
      BY <3>3, <3>4 DEF mode, unused
  <2> HIDE DEF d
  <2>4. Typed'
    BY <2>2, <2>3 DEF ReqIInv, Typed
  <2>5. OthersUnchanged(w)
    BY <2>2 DEF ReqIInv, Typed, OthersUnchanged
  <2>6. step'[w] = "slot" /\ call'[w] = d /\ held'[w] = FALSE
    BY <2>2 DEF ReqIInv, Typed
  <2>7. d # None
    BY <2>3, RequestConstants
  <2>8. WithinBudget(w)'
    <3>1. c.sent <= Attempts * c.unused + c.attempt + 1 /\ c.attempt < Attempts
      BY <2>1 DEF WithinBudget, Running
    <3>2. /\ c.sent \in Nat /\ c.attempt \in Nat /\ Attempts * c.unused \in Nat
          /\ Attempts * d.unused = Attempts * c.unused + Attempts
      BY <2>1, <2>3, BudgetGrows DEF Calls
    <3>3. d.sent <= Attempts * d.unused + d.attempt + 0
      BY <2>3, <3>1, <3>2, AttemptsArePositive
    <3>4. d.mode \in 1..Len(Modes(d.kind))
      BY <1>1, <2>1, <2>3 DEF WithinBudget, Calls, Modes
    <3> QED
      BY <2>3, <2>6, <3>3, <3>4, AttemptsArePositive DEF WithinBudget, Running
  <2>9. WorkerOK(w)'
    BY <2>6, <2>7, <2>8 DEF ReqIInv, WorkerOK, Reserved
  <2> QED
    BY <2>4, <2>5, <2>9, OthersKept
<1>2. CASE ~(fallback /\ call[w].mode < Len(Modes(call[w].kind)))
  <2>1. Ends(w)
    BY <1>2 DEF NextMode
  <2>2. held'[w] = FALSE
    BY DEF ReqIInv, Typed
  <2> QED
    BY <2>1, <2>2, EndsKeeps
<1> QED
  BY <1>1, <1>2

-----------------------------------------------------------------------------
(* A new call starts with its first mode, nothing sent and nothing held.    *)
LEMMA StartKeeps ==
    ASSUME ReqIInv, NEW w \in Workers, NEW kind \in Kinds, Start(w, kind)
    PROVE  ReqIInv'
<1> DEFINE c == [kind |-> kind, mode |-> 1, attempt |-> 0, sent |-> 0, unused |-> 0]
<1>1. c \in Calls /\ c # None
  BY RequestConstants DEF Calls
<1>2. /\ call' = [call EXCEPT ![w] = c] /\ step' = [step EXCEPT ![w] = "slot"]
      /\ held' = [held EXCEPT ![w] = FALSE] /\ lost' = [lost EXCEPT ![w] = FALSE]
      /\ UNCHANGED <<rate, uncounted, asked, capped, since>>
  BY DEF Start
<1>3. Len(Modes(kind)) \in Nat /\ 1 <= Len(Modes(kind))
  BY DEF Modes
<1>4. /\ c.kind = kind /\ c.mode = 1 /\ c.attempt = 0 /\ c.sent = 0 /\ c.unused = 0
  OBVIOUS
<1> HIDE DEF c
<1>5. Typed'
  BY <1>1, <1>2 DEF ReqIInv, Typed
<1>6. OthersUnchanged(w)
  BY <1>2 DEF ReqIInv, Typed, OthersUnchanged
<1>7. step'[w] = "slot" /\ call'[w] = c /\ held'[w] = FALSE /\ lost'[w] = FALSE
  BY <1>2 DEF ReqIInv, Typed
<1>8. WithinBudget(w)'
  BY <1>3, <1>4, <1>7, AttemptsArePositive DEF WithinBudget, Running
<1>9. WorkerOK(w)'
  BY <1>1, <1>7, <1>8 DEF WorkerOK, Reserved
<1>10. GapCovers' /\ ~uncounted'
  BY <1>2 DEF ReqIInv, GapCovers
<1> QED
  BY <1>5, <1>6, <1>9, <1>10, OthersKept DEF ReqIInv

(* The slot, the reservation and the request: a pooled call gets to the     *)
(* request by way of its reservation only.                                  *)
LEMMA SendingKeeps ==
    ASSUME ReqIInv, NEW w \in Workers, TakeSlot(w) \/ ReserveQuota(w) \/ Send(w)
    PROVE  ReqIInv'
<1>1. call[w] \in Calls /\ call[w] # None /\ step[w] # "idle" /\ WithinBudget(w) /\ Reserved(w)
  BY DEF ReqIInv, Typed, WorkerOK, TakeSlot, ReserveQuota, Send
<1>2. CASE TakeSlot(w)
  <2>1. Typed'
    BY <1>2 DEF TakeSlot, ReqIInv, Typed
  <2>2. OthersUnchanged(w)
    BY <1>2 DEF TakeSlot, ReqIInv, Typed, OthersUnchanged
  <2>3. GapCovers' /\ ~uncounted'
    BY <1>2, SlotKeepsGap DEF TakeSlot, ReqIInv
  <2>4. /\ step'[w] = IF call[w].kind.pooled THEN "quota" ELSE "send"
        /\ step[w] = "slot" /\ call' = call /\ held' = held /\ lost' = lost
    BY <1>2 DEF TakeSlot, ReqIInv, Typed
  <2>5. WithinBudget(w)'
    BY <1>1, <2>4 DEF WithinBudget, Running
  <2>6. WorkerOK(w)'
    BY <1>1, <2>4, <2>5 DEF WorkerOK, Reserved
  <2> QED
    BY <2>1, <2>2, <2>3, <2>6, OthersKept DEF ReqIInv
<1>3. CASE ReserveQuota(w)
  <2>1. Typed'
    BY <1>3 DEF ReserveQuota, ReqIInv, Typed
  <2>2. OthersUnchanged(w)
    BY <1>3 DEF ReserveQuota, ReqIInv, Typed, OthersUnchanged
  <2>3. GapCovers' /\ ~uncounted'
    BY <1>3 DEF ReserveQuota, ReqIInv, GapCovers
  <2>4. /\ step'[w] = "send" /\ held'[w] = TRUE
        /\ step[w] = "quota" /\ call' = call /\ lost' = lost
    BY <1>3 DEF ReserveQuota, ReqIInv, Typed
  <2>5. WithinBudget(w)'
    BY <1>1, <2>4 DEF WithinBudget, Running
  <2>6. WorkerOK(w)'
    BY <1>1, <2>4, <2>5 DEF WorkerOK, Reserved
  <2> QED
    BY <2>1, <2>2, <2>3, <2>6, OthersKept DEF ReqIInv
<1>4. CASE Send(w)
  <2> DEFINE c == call[w]
             d == [c EXCEPT !.sent = @ + 1]
  <2>1. call' = [call EXCEPT ![w] = d]
    BY <1>4 DEF Send, ReqIInv, Typed
  <2>2. /\ d \in Calls /\ d.attempt = c.attempt /\ d.kind = c.kind /\ d.mode = c.mode
        /\ d.sent = c.sent + 1 /\ d.unused = c.unused
    BY <1>1 DEF Calls
  <2> HIDE DEF d
  <2>3. d # None
    BY <2>2, RequestConstants
  <2>4. Typed'
    BY <1>4, <2>1, <2>2 DEF Send, ReqIInv, Typed
  <2>5. OthersUnchanged(w)
    BY <1>4, <2>1 DEF Send, ReqIInv, Typed, OthersUnchanged
  <2>6. GapCovers' /\ ~uncounted'
    BY <1>4 DEF Send, ReqIInv, GapCovers
  <2>7. /\ step'[w] = "flight" /\ call'[w] = d
        /\ step[w] = "send" /\ held' = held /\ lost' = lost
    BY <1>4, <2>1 DEF Send, ReqIInv, Typed
  <2>8. WithinBudget(w)'
    <3>1. c.sent <= Attempts * c.unused + c.attempt + 0
      BY <1>1, <2>7 DEF WithinBudget, Running
    <3>2. c.sent \in Nat /\ c.attempt \in Nat /\ Attempts * c.unused \in Nat
      BY <1>1, BudgetGrows DEF Calls
    <3>3. d.sent <= Attempts * d.unused + d.attempt + 1
      BY <2>2, <3>1, <3>2
    <3> QED
      BY <1>1, <2>2, <2>7, <3>3 DEF WithinBudget, Running
  <2>9. WorkerOK(w)'
    BY <1>1, <2>2, <2>3, <2>7, <2>8 DEF WorkerOK, Reserved
  <2> QED
    BY <2>4, <2>5, <2>6, <2>9, OthersKept DEF ReqIInv
<1> QED
  BY <1>2, <1>3, <1>4

(* A call that is cancelled, gets no quota, loses its connection for the    *)
(* last time or is read to its end holds nothing; only an error that        *)
(* nothing handles leaves its reservation, and is known as such.            *)
LEMMA EndingKeeps ==
    ASSUME ReqIInv, NEW w \in Workers,
           StopCancelled(w) \/ QuotaTimesOut(w) \/ OtherFailure(w) \/ Readable(w)
    PROVE  ReqIInv'
<1>1. /\ Ends(w) /\ (held' = held \/ held' = [held EXCEPT ![w] = FALSE])
      /\ (lost' = lost \/ lost' = [lost EXCEPT ![w] = TRUE])
      /\ UNCHANGED <<rate, uncounted, asked, capped, since>>
  BY DEF StopCancelled, QuotaTimesOut, OtherFailure, Readable
<1>2. held'[w] => lost'[w]
  BY DEF StopCancelled, QuotaTimesOut, OtherFailure, Readable, ReqIInv, Typed, WorkerOK,
         Reserved
<1>3. GapCovers' /\ ~uncounted'
  BY <1>1 DEF ReqIInv, GapCovers
<1> QED
  BY <1>1, <1>2, <1>3, EndsKeeps DEF ReqIInv

(* A lost connection gives the reservation back; the next attempt waits. *)
LEMMA LossKeeps ==
    ASSUME ReqIInv, NEW w \in Workers, LosesConnection(w)
    PROVE  ReqIInv'
<1>1. /\ step[w] = "flight" /\ held' = [held EXCEPT ![w] = FALSE] /\ held'[w] = FALSE
      /\ lost' = lost /\ since' = since /\ uncounted' = uncounted
  BY DEF LosesConnection, AfterLoss, ReqIInv, Typed
<1>2. call[w].attempt \in Nat
  BY <1>1 DEF ReqIInv, Typed, WorkerOK, Calls
<1>3. GapCovers'
  <2>1. CASE cancelled[w]
    BY <1>1, <2>1 DEF LosesConnection, AfterLoss, ReqIInv, GapCovers
  <2>2. CASE ~cancelled[w]
    BY <1>1, <1>2, <2>2, DelayKeepsGap DEF LosesConnection, AfterLoss, ReqIInv
  <2> QED
    BY <2>1, <2>2
<1>4. Ends(w) \/ (call[w].attempt + 1 < Attempts /\ NextAttempt(w))
  BY DEF LosesConnection, AfterLoss, NextMode
<1>5. Typed' /\ \A v \in Workers : WorkerOK(v)'
  BY <1>1, <1>4, EndsKeeps, NextAttemptKeeps
<1> QED
  BY <1>1, <1>3, <1>5 DEF ReqIInv

(* An answer is counted: a pooled request was sent with a reservation. *)
LEMMA SettledCounts ==
    ASSUME ReqIInv, NEW w \in Workers, step[w] = "flight", Settled(w)
    PROVE  ~uncounted' /\ held' = [held EXCEPT ![w] = FALSE] /\ held'[w] = FALSE
<1>1. call[w].kind.pooled => held[w]
  BY DEF ReqIInv, WorkerOK, Reserved
<1> QED
  BY <1>1 DEF ReqIInv, Typed, Settled

(* A retryable status allows another attempt, never another mode. *)
LEMMA WaitKeeps ==
    ASSUME ReqIInv, NEW w \in Workers, NEW s \in Statuses \cap Retryable, NEW hs \in Headers,
           ShouldWait(w, s, hs)
    PROVE  ReqIInv'
<1>1. step[w] = "flight" /\ Settled(w) /\ lost' = lost /\ since' = since
  BY DEF ShouldWait
<1>2. ~uncounted' /\ held' = [held EXCEPT ![w] = FALSE] /\ held'[w] = FALSE
  BY <1>1, SettledCounts
<1>3. call[w].attempt \in Nat
  BY <1>1 DEF ReqIInv, Typed, WorkerOK, Calls
<1>4. GapCovers'
  BY <1>1, <1>3, DelayKeepsGap DEF ShouldWait, ReqIInv
<1>5. ~CanFallback(s)
  BY DEF Statuses, Retryable, CanFallback
<1>6. Ends(w) \/ (call[w].attempt + 1 < Attempts /\ NextAttempt(w))
  BY <1>5 DEF ShouldWait, NextMode
<1>7. Typed' /\ \A v \in Workers : WorkerOK(v)'
  BY <1>1, <1>2, <1>6, EndsKeeps, NextAttemptKeeps
<1> QED
  BY <1>2, <1>4, <1>7 DEF ReqIInv

(* A rejected request, and an answer that cannot be read. *)
LEMMA RejectionKeeps ==
    ASSUME ReqIInv, NEW w \in Workers,
           (\E s \in Statuses \ Retryable : Rejected(w, s)) \/ Unreadable(w)
    PROVE  ReqIInv'
<1>1. CASE \E s \in Statuses \ Retryable : Rejected(w, s)
  <2>1. PICK s \in Statuses \ Retryable : Rejected(w, s)
    BY <1>1
  <2>2. ~uncounted' /\ held' = [held EXCEPT ![w] = FALSE]
    BY <2>1, SettledCounts DEF Rejected
  <2>3. Typed' /\ \A v \in Workers : WorkerOK(v)'
    <3>1. CanFallback(s) \in BOOLEAN
      BY DEF CanFallback
    <3> QED
      BY <2>1, <2>2, <3>1, NextModeKeeps DEF Rejected
  <2>4. GapCovers'
    BY <2>1 DEF Rejected, ReqIInv, GapCovers
  <2> QED
    BY <2>2, <2>3, <2>4 DEF ReqIInv
<1>2. CASE Unreadable(w)
  <2>1. held[w] = FALSE
    BY <1>2 DEF Unreadable, ReqIInv, Typed, WorkerOK, Reserved
  <2>2. held' = [held EXCEPT ![w] = FALSE]
    BY <1>2, <2>1 DEF Unreadable, ReqIInv, Typed
  <2>3. Typed' /\ \A v \in Workers : WorkerOK(v)'
    BY <1>2, <2>2, NextModeKeeps DEF Unreadable
  <2>4. GapCovers' /\ ~uncounted'
    BY <1>2 DEF Unreadable, ReqIInv, GapCovers
  <2> QED
    BY <2>3, <2>4 DEF ReqIInv
<1> QED
  BY <1>1, <1>2

(* A good answer is counted, and read unless the call was cancelled. *)
LEMMA AnswerKeeps ==
    ASSUME ReqIInv, NEW w \in Workers, Answered(w)
    PROVE  ReqIInv'
<1>1. step[w] = "flight" /\ Settled(w) /\ UNCHANGED <<lost, asked, capped, since>>
  BY DEF Answered
<1>2. ~uncounted' /\ held' = [held EXCEPT ![w] = FALSE] /\ held'[w] = FALSE
  BY <1>1, SettledCounts
<1>3. CASE cancelled[w]
  <2>1. Ends(w) /\ rate' = rate
    BY <1>3 DEF Answered
  <2>2. Typed' /\ \A v \in Workers : WorkerOK(v)'
    BY <1>1, <1>2, <2>1, EndsKeeps
  <2>3. GapCovers'
    BY <1>1, <2>1 DEF ReqIInv, GapCovers
  <2> QED
    BY <1>2, <2>2, <2>3 DEF ReqIInv
<1>4. CASE ~cancelled[w]
  <2>1. rate' = Eased(rate, Base) /\ step' = [step EXCEPT ![w] = "read"] /\ call' = call
    BY <1>4 DEF Answered
  <2>2. Typed'
    BY <1>1, <1>2, <2>1 DEF ReqIInv, Typed
  <2>3. OthersUnchanged(w)
    BY <1>1, <1>2, <2>1 DEF ReqIInv, Typed, OthersUnchanged
  <2>4. WorkerOK(w)'
    <3>1. step'[w] = "read" /\ call[w] # None /\ WithinBudget(w) /\ ~lost[w]
      BY <1>1, <2>1 DEF ReqIInv, Typed, WorkerOK, Reserved
    <3>2. WithinBudget(w)'
      BY <1>1, <2>1, <3>1 DEF WithinBudget, Running
    <3> QED
      BY <1>1, <1>2, <2>1, <3>1, <3>2 DEF WorkerOK, Reserved
  <2>5. GapCovers'
    BY <1>1, <2>1, EasedKeepsGap DEF ReqIInv
  <2> QED
    BY <1>2, <2>2, <2>3, <2>4, <2>5, OthersKept DEF ReqIInv
<1> QED
  BY <1>3, <1>4

(* Steps that leave the calls alone. *)
LEMMA QuietKeeps ==
    ASSUME ReqIInv, UNCHANGED <<step, call, held, lost, uncounted>>, GapCovers'
    PROVE  ReqIInv'
BY DEF ReqIInv, Typed, WorkerOK, WithinBudget, Running, Reserved

-----------------------------------------------------------------------------
(* A behaviour of the requests satisfies the inductive invariant. *)
LEMMA ReqInductive == ReqSpec => []ReqIInv
<1>1. ReqInit => ReqIInv
  <2> SUFFICES ASSUME ReqInit PROVE ReqIInv
    OBVIOUS
  <2>1. Typed /\ ~uncounted
    BY DEF ReqInit, Typed
  <2>2. GapCovers
    BY RequestConstants, RateAssumption DEF ReqInit, GapCovers, FreshRate, Rates
  <2>3. \A w \in Workers : WorkerOK(w)
    BY DEF ReqInit, WorkerOK, Reserved
  <2> QED
    BY <2>1, <2>2, <2>3 DEF ReqIInv
<1>2. ReqIInv /\ [ReqNext]_reqVars => ReqIInv'
  <2> SUFFICES ASSUME ReqIInv, [ReqNext]_reqVars PROVE ReqIInv'
    OBVIOUS
  <2>1. ASSUME NEW w \in Workers, StartDirect(w) \/ StartPooled(w) PROVE ReqIInv'
    BY <2>1, StartKeeps DEF StartDirect, StartPooled
  <2>2. ASSUME NEW w \in Workers, CancelCall(w) PROVE ReqIInv'
    BY <2>2, QuietKeeps DEF CancelCall, ReqIInv, GapCovers
  <2>3. ASSUME NEW w \in Workers, Reply(w) PROVE ReqIInv'
    BY <2>3, LossKeeps, EndingKeeps, AnswerKeeps, WaitKeeps, RejectionKeeps DEF Reply
  <2>4. ASSUME NEW w \in Workers, WorkerStep(w) PROVE ReqIInv'
    BY <2>3, <2>4, EndingKeeps, SendingKeeps, RejectionKeeps DEF WorkerStep, OwnStep
  <2>5. CASE ReqTick
    BY <2>5, TickKeepsGap, QuietKeeps DEF ReqTick, ReqIInv
  <2>6. CASE UNCHANGED reqVars
    BY <2>6, QuietKeeps DEF reqVars, ReqIInv, GapCovers
  <2> QED
    BY <2>1, <2>2, <2>4, <2>5, <2>6 DEF ReqNext
<1> QED
  BY <1>1, <1>2, PTL DEF ReqSpec

(* _request_with_retries and the modes around it: however a call ends, its  *)
(* reservation is settled, every answered request is counted, and a call    *)
(* sends no more than max_retries + 1 requests, and as many again for each  *)
(* answer that was rejected or could not be read.                           *)
THEOREM RequestsAreSettled == ReqSpec => []RequestInv
<1>1. ReqIInv => RequestInv
  <2> SUFFICES ASSUME ReqIInv PROVE RequestInv
    OBVIOUS
  <2>1. ASSUME NEW w \in Workers, call[w] # None
        PROVE  /\ call[w].kind \in Kinds /\ call[w].attempt \in 0..(Attempts - 1)
               /\ call[w].mode \in 1..Len(Modes(call[w].kind))
               /\ call[w].sent <= Attempts * (1 + call[w].unused)
    <3>1. call[w] \in Calls /\ WithinBudget(w)
      BY <2>1 DEF ReqIInv, Typed, WorkerOK
    <3>2. /\ Attempts * call[w].unused \in Nat
          /\ Attempts * (1 + call[w].unused) = Attempts * call[w].unused + Attempts
      BY <3>1, BudgetGrows DEF Calls
    <3>3. Running(w) \in 0..1
      BY DEF Running
    <3>4. call[w].attempt \in Nat /\ call[w].sent \in Nat /\ call[w].kind \in Kinds
      BY <3>1 DEF Calls
    <3>5. /\ call[w].mode \in 1..Len(Modes(call[w].kind)) /\ call[w].attempt < Attempts
          /\ call[w].sent <= Attempts * call[w].unused + call[w].attempt + Running(w)
      BY <3>1 DEF WithinBudget
    <3>6. call[w].sent <= Attempts * (1 + call[w].unused)
      BY <3>2, <3>3, <3>4, <3>5, AttemptsArePositive
    <3>7. call[w].attempt \in 0..(Attempts - 1)
      BY <3>4, <3>5, AttemptsArePositive
    <3> QED
      BY <3>4, <3>5, <3>6, <3>7
  <2>2. ReqTypeOK
    BY <2>1 DEF ReqIInv, Typed, GapCovers, WorkerOK, ReqTypeOK
  <2>3. ReservationsSettled
    BY DEF ReqIInv, WorkerOK, Reserved, ReservationsSettled
  <2> QED
    BY <2>1, <2>2, <2>3 DEF RequestInv, RequestBudget
<1> QED
  BY <1>1, ReqInductive, PTL

(* No thread gets its slot before every delay of up to five minutes any     *)
(* answer asked for is over, within the first five minutes of a longer one, *)
(* nor before min_request_interval_sec has passed since the last slot of    *)
(* any thread.                                                              *)
THEOREM SlotsArePaced == ReqSpec => Paced
<1> DEFINE Granted(w) == step[w] = "slot" /\ step'[w] \in {"quota", "send"}
<1>1. ReqIInv /\ [ReqNext]_reqVars =>
        [\A w \in Workers : Granted(w) => asked = 0 /\ capped = 0 /\ since = Base]_reqVars
  <2> SUFFICES ASSUME ReqIInv, ReqNext, NEW w \in Workers, Granted(w)
               PROVE  asked = 0 /\ capped = 0 /\ since = Base
    BY DEF reqVars
  <2>1. TakeSlot(w)
    <3>1. \A v \in Workers : step' # [step EXCEPT ![v] = "idle"]
      BY DEF ReqIInv, Typed
    <3>2. \A v \in Workers : step' # [step EXCEPT ![v] = "slot"]
      BY DEF ReqIInv, Typed
    <3>3. step' # step
      OBVIOUS
    <3>4. \A v \in Workers : ~Ends(v) /\ ~NextAttempt(v)
      BY <3>1, <3>2 DEF Ends, NextAttempt
    <3>5. \A v \in Workers : \A f, u : ~NextMode(v, f, u)
      BY <3>2, <3>4 DEF NextMode
    <3>6. ASSUME NEW v \in Workers, Reply(v) PROVE FALSE
      <4>1. step[v] = "flight" /\ (step' = [step EXCEPT ![v] = "read"])
        BY <3>4, <3>5, <3>6 DEF Reply, LosesConnection, AfterLoss, OtherFailure, Answered,
                                ShouldWait, Rejected
      <4> QED
        BY <4>1 DEF ReqIInv, Typed
    <3>7. ASSUME NEW v \in Workers, WorkerStep(v) PROVE TakeSlot(w)
      <4>1. TakeSlot(v) \/ ReserveQuota(v) \/ Send(v)
        BY <3>4, <3>5, <3>6, <3>7 DEF WorkerStep, OwnStep, StopCancelled, QuotaTimesOut, Readable, Unreadable
      <4>2. v = w
        BY <4>1 DEF ReqIInv, Typed, TakeSlot, ReserveQuota, Send
      <4> QED
        BY <4>1, <4>2 DEF ReserveQuota, Send
    <3> QED
      BY <3>2, <3>3, <3>7 DEF ReqNext, StartDirect, StartPooled, Start, CancelCall, ReqTick
  <2>2. rate.gap = 0
    BY <2>1 DEF TakeSlot
  <2> QED
    BY <2>2, RequestConstants, RateAssumption DEF ReqIInv, GapCovers
<1>2. ReqIInv /\ [ReqNext]_reqVars =>
        /\ [\A w \in Workers : Granted(w) => asked = 0 /\ capped = 0]_reqVars
        /\ [\A w \in Workers : Granted(w) => since = Base]_reqVars
  BY <1>1
<1> QED
  BY <1>2, ReqInductive, PTL DEF ReqSpec, Paced, SlotAfterDelay, SlotsSpaced

-----------------------------------------------------------------------------
(* The connection to a Pi-hole.                                            *)
ConnSpec == ConnInit /\ [][ConnNext]_connVars

Health == [state : States, failures : Nat]

(* consecutive_failures: an operation counts at most two failures, the 401  *)
(* that renews the session and the one it ends with.                        *)
FailureBound ==
    IF op = "idle" THEN 2 * ops ELSE 2 * (ops - 1) + (IF renewed THEN 1 ELSE 0)

ConnTyped ==
    /\ handed \in 0..MaxSessions
    /\ sid \in 1..handed \union {NoSession}
    /\ closed \in BOOLEAN /\ renewed \in BOOLEAN
    /\ op \in {"idle", "get", "post", "logout", "close"}
    /\ sessions \subseteq 1..handed
    /\ orphans \subseteq 1..handed
    /\ applied \in 0..1
    /\ ops \in 0..MaxOps /\ (op # "idle" => ops > 0)

Counted == health \in Health /\ health.failures <= FailureBound

(* An operation in progress has not reached the server, a closed connection *)
(* has none in progress and no session, and the renewal is forgotten with   *)
(* the operation.                                                           *)
Progress ==
    /\ op # "idle" => applied = 0 /\ ~closed
    /\ closed => sid = NoSession
    /\ op = "idle" => ~renewed

(* The inductive invariant. *)
ConnIInv ==
    /\ ConnTyped /\ Counted /\ Progress
    /\ AppliedOnce /\ NoSessionLeft /\ FailureIsReported

-----------------------------------------------------------------------------
(* What _record_response and _record_failure leave behind: a success starts *)
(* the count anew, everything else adds one and is not reported online.     *)
LEMMA HealthValues ==
    ASSUME health \in Health
    PROVE  /\ Recorded(200) = [state |-> "online", failures |-> 0]
           /\ \A s \in {400, 401, 403, 429, 503} :
                /\ Recorded(s) \in Health /\ Recorded(s).state # "online"
                /\ Recorded(s).failures = health.failures + 1
           /\ \A t \in States :
                /\ Failed(t) \in Health /\ Failed(t).state = t
                /\ Failed(t).failures = health.failures + 1
<1>1. health.failures + 1 \in Nat
  BY DEF Health
<1>2. Recorded(200) = [state |-> "online", failures |-> 0]
  BY DEF Recorded
<1>3. ASSUME NEW s \in {400, 401, 403, 429, 503}
      PROVE  /\ Recorded(s) \in Health /\ Recorded(s).state # "online"
             /\ Recorded(s).failures = health.failures + 1
  <2> DEFINE st == IF s \in {401, 403} THEN "auth_error"
                   ELSE IF s = 429 \/ s >= 500 THEN "degraded" ELSE "api_error"
             n == health.failures + 1
  <2>1. s \notin 200..299
    OBVIOUS
  <2>2. st \in States /\ st # "online"
    BY DEF States
  <2>3. Recorded(s) = [state |-> st, failures |-> n]
    BY <2>1 DEF Recorded
  <2> HIDE DEF st, n
  <2> QED
    BY <1>1, <2>2, <2>3 DEF Health, n
<1>4. ASSUME NEW t \in States
      PROVE  /\ Failed(t) \in Health /\ Failed(t).state = t
             /\ Failed(t).failures = health.failures + 1
  BY <1>1 DEF Failed, Health
<1> QED
  BY <1>2, <1>3, <1>4

(* Marking a state of health closed keeps its count. *)
LEMMA ClosedHealth ==
    ASSUME NEW h \in Health
    PROVE  /\ [h EXCEPT !.state = "closed"] \in Health
           /\ [h EXCEPT !.state = "closed"].state = "closed"
           /\ [h EXCEPT !.state = "closed"].failures = h.failures
BY DEF Health, States

(* How an operation ends: with the session or without one, closed only      *)
(* without one, and online only after a good answer or one that is no       *)
(* object.                                                                  *)
LEMMA FinishEnds ==
    ASSUME ConnTyped, Progress, op # "idle", ops' = ops,
           NEW how, NEW newSid \in {sid, NoSession}, NEW newHealth \in Health,
           newHealth.failures <= 2 * ops,
           how \in {"ok", "malformed"} \/ newHealth.state # "online",
           Finish(how, newSid, newHealth)
    PROVE  /\ op' = "idle" /\ renewed' = FALSE /\ closed' \in BOOLEAN
           /\ sid' = IF op \in {"logout", "close"} THEN NoSession ELSE newSid
           /\ closed' => sid' = NoSession
           /\ Counted' /\ FailureIsReported'
           /\ outcome' = how
<1>1. /\ op' = "idle" /\ renewed' = FALSE /\ closed' \in BOOLEAN /\ outcome' = how
      /\ sid' = IF op \in {"logout", "close"} THEN NoSession ELSE newSid
      /\ closed' <=> op = "close"
  BY DEF Finish, ConnTyped, Progress
<1>2. /\ health' \in Health /\ health'.failures = newHealth.failures
      /\ health'.state = newHealth.state \/ health'.state = "closed"
  <2>1. CASE op = "close"
    BY <2>1, ClosedHealth DEF Finish
  <2>2. CASE op # "close"
    BY <2>2 DEF Finish
  <2> QED
    BY <2>1, <2>2
<1>3. Counted'
  BY <1>1, <1>2 DEF Counted, FailureBound
<1>4. FailureIsReported'
  BY <1>1, <1>2 DEF FailureIsReported
<1> QED
  BY <1>1, <1>3, <1>4

(* An operation in progress has counted at most one failure of its own. *)
LEMMA RoomForOne ==
    ASSUME ConnTyped, Counted, op # "idle"
    PROVE  health.failures + 1 <= 2 * ops /\ 1 <= 2 * ops
BY ConnConstants DEF ConnTyped, Counted, FailureBound, Health

-----------------------------------------------------------------------------
(* Beginning an operation and closing a connection without a session keep   *)
(* the invariant.                                                           *)
LEMMA BeginKeeps ==
    ASSUME ConnIInv, NEW o \in {"get", "post", "logout", "close"}, Begin(o)
    PROVE  ConnIInv'
<1> USE DEF ConnIInv
<1>1. ConnTyped'
  BY ConnConstants DEF Begin, ConnTyped
<1>2. Counted' /\ Progress'
  BY ConnConstants DEF Begin, Counted, FailureBound, Progress, ConnTyped
<1>3. AppliedOnce' /\ NoSessionLeft' /\ FailureIsReported'
  BY DEF Begin, AppliedOnce, NoSessionLeft, FailureIsReported
<1> QED
  BY <1>1, <1>2, <1>3

(* close() of a connection nobody uses: only the health changes. *)
LEMMA CloseUnusedKeeps ==
    ASSUME ConnIInv, CloseUnused
    PROVE  ConnIInv'
<1> USE DEF ConnIInv
<1>1. health' \in Health /\ health'.failures = health.failures /\ health'.state = "closed"
  BY ClosedHealth DEF CloseUnused, Counted
<1>2. ConnTyped' /\ Progress'
  BY DEF CloseUnused, ConnTyped, Progress
<1>3. Counted'
  BY <1>1 DEF CloseUnused, Counted, FailureBound
<1>4. AppliedOnce' /\ NoSessionLeft'
  BY DEF CloseUnused, AppliedOnce, NoSessionLeft
<1>5. FailureIsReported'
  BY <1>1 DEF CloseUnused, FailureIsReported
<1> QED
  BY <1>2, <1>3, <1>4, <1>5

(* A login the server refused, or that named no session. *)
LEMMA RefusalKeeps ==
    ASSUME ConnIInv, LoginRefused \/ LoginInvalid
    PROVE  ConnIInv'
<1> USE DEF ConnIInv
<1>1. health \in Health /\ op # "idle" /\ sid = NoSession /\ ops' = ops
  BY DEF Counted, LoginRefused, LoginInvalid
<1>2. PICK how \in {"refused", "connection"}, h \in Health :
          /\ h.state # "online" /\ h.failures <= 2 * ops
          /\ Finish(how, NoSession, h)
  <2>1. CASE LoginInvalid
    <3>1. [state |-> "auth_error", failures |-> 1] \in Health
      BY DEF Health, States
    <3> QED
      BY <1>1, <2>1, <3>1, RoomForOne DEF LoginInvalid
  <2>2. CASE LoginRefused
    BY <1>1, <2>2, HealthValues, RoomForOne DEF LoginRefused, States
  <2> QED
    BY <2>1, <2>2
<1>3. /\ op' = "idle" /\ renewed' = FALSE /\ closed' \in BOOLEAN /\ sid' = NoSession
      /\ Counted' /\ FailureIsReported' /\ outcome' = how
  BY <1>1, <1>2, FinishEnds
<1>4. UNCHANGED <<sessions, handed, applied, orphans, ops>>
  BY DEF LoginRefused, LoginInvalid
<1>5. ConnTyped' /\ Progress'
  BY <1>3, <1>4 DEF ConnTyped, Progress
<1>6. AppliedOnce' /\ NoSessionLeft'
  BY <1>1, <1>2, <1>3, <1>4 DEF AppliedOnce, NoSessionLeft
<1> QED
  BY <1>3, <1>5, <1>6

(* A login: without a session nothing but what a fault took is open on the  *)
(* server, and the new session is the connection's or lost by a fault.      *)
LEMMA LoginKeeps ==
    ASSUME ConnIInv, Login
    PROVE  ConnIInv'
<1> USE DEF ConnIInv
<1>1. /\ health \in Health /\ op # "idle" /\ sid = NoSession /\ ops' = ops /\ applied' = applied
      /\ handed' = handed + 1 /\ handed' \in 0..MaxSessions
      /\ sessions' = sessions \union {handed + 1}
      /\ sessions \ orphans = {}
  <2>1. 1..handed \subseteq 1..MaxSessions /\ sessions \subseteq 1..handed
    BY ConnConstants DEF ConnTyped
  <2>2. NoSession \notin sessions
    BY <2>1, ConnConstants
  <2> QED
    BY <2>2, ConnConstants DEF Counted, Login, ConnTyped, NoSessionLeft
<1>2. CASE sid' = handed + 1 /\ health' = Recorded(200)
           /\ UNCHANGED <<closed, op, renewed, orphans, outcome, faults>>
  <2>1. health' \in Health /\ health'.failures = 0
    BY <1>1, <1>2, HealthValues DEF Health, States
  <2>2. ConnTyped'
    BY <1>1, <1>2, ConnConstants DEF ConnTyped
  <2>3. Progress'
    BY <1>1, <1>2 DEF Progress
  <2>4. Counted'
    BY <1>1, <1>2, <2>1, ConnConstants DEF Counted, FailureBound, ConnTyped
  <2>5. AppliedOnce' /\ NoSessionLeft' /\ FailureIsReported'
    BY <1>1, <1>2 DEF AppliedOnce, NoSessionLeft, FailureIsReported
  <2> QED
    BY <2>2, <2>3, <2>4, <2>5
<1>3. CASE orphans' = orphans \union {handed + 1}
           /\ Finish("connection", NoSession, Failed("offline"))
  <2>1. /\ Failed("offline") \in Health /\ Failed("offline").state # "online"
        /\ Failed("offline").failures <= 2 * ops
    BY <1>1, HealthValues, RoomForOne DEF States
  <2>2. /\ op' = "idle" /\ renewed' = FALSE /\ closed' \in BOOLEAN /\ sid' = NoSession
        /\ Counted' /\ FailureIsReported' /\ outcome' = "connection"
    BY <1>1, <1>3, <2>1, FinishEnds
  <2>3. ConnTyped' /\ Progress'
    <3>1. sessions' \subseteq 1..handed' /\ orphans' \subseteq 1..handed'
      BY <1>1, <1>3, ConnConstants DEF ConnTyped
    <3>2. ConnTyped'
      BY <1>1, <2>2, <3>1 DEF ConnTyped
    <3>3. Progress'
      BY <2>2 DEF Progress
    <3> QED
      BY <3>2, <3>3
  <2>4. AppliedOnce' /\ NoSessionLeft'
    BY <1>1, <1>3, <2>2 DEF AppliedOnce, NoSessionLeft
  <2> QED
    BY <2>2, <2>3, <2>4
<1> QED
  BY <1>2, <1>3 DEF Login

(* A login whose answer cannot be read: a session it opened is lost. *)
LEMMA MalformedKeeps ==
    ASSUME ConnIInv, LoginMalformed
    PROVE  ConnIInv'
<1> USE DEF ConnIInv
<1>1. /\ health \in Health /\ op # "idle" /\ sid = NoSession /\ ops' = ops /\ applied' = applied
      /\ Finish("malformed", NoSession, Recorded(200))
      /\ \/ UNCHANGED <<sessions, handed, orphans>>
         \/ /\ handed < MaxSessions /\ handed' = handed + 1
            /\ sessions' = sessions \union {handed + 1}
            /\ orphans' = orphans \union {handed + 1}
  BY DEF Counted, LoginMalformed
<1>2. Recorded(200) \in Health /\ Recorded(200).failures = 0 /\ 0 <= 2 * ops
  BY <1>1, HealthValues, ConnConstants DEF Health, States, ConnTyped
<1>3. /\ op' = "idle" /\ renewed' = FALSE /\ closed' \in BOOLEAN /\ sid' = NoSession
      /\ Counted' /\ FailureIsReported' /\ outcome' = "malformed"
  BY <1>1, <1>2, FinishEnds
<1>4. /\ handed' \in 0..MaxSessions
      /\ sessions' \subseteq 1..handed' /\ orphans' \subseteq 1..handed'
  <2>1. CASE UNCHANGED <<sessions, handed, orphans>>
    BY <2>1 DEF ConnTyped
  <2>2. CASE ~UNCHANGED <<sessions, handed, orphans>>
    <3>1. /\ handed < MaxSessions /\ handed' = handed + 1 /\ handed \in 0..MaxSessions
          /\ sessions' = sessions \union {handed + 1}
          /\ orphans' = orphans \union {handed + 1}
      BY <1>1, <2>2 DEF ConnTyped
    <3> QED
      BY <3>1, ConnConstants DEF ConnTyped
  <2> QED
    BY <2>1, <2>2
<1>5. ConnTyped' /\ Progress'
  BY <1>1, <1>3, <1>4 DEF ConnTyped, Progress
<1>6. AppliedOnce' /\ NoSessionLeft'
  BY <1>1, <1>3 DEF AppliedOnce, NoSessionLeft
<1> QED
  BY <1>3, <1>5, <1>6

(* The server did what it was asked: once, and a logout ended its session.  *)
LEMMA ExchangeKeeps ==
    ASSUME ConnIInv, Exchange \/ ExchangeLost
    PROVE  ConnIInv'
<1> USE DEF ConnIInv
<1>1. /\ health \in Health /\ op # "idle" /\ applied' = 1
      /\ UNCHANGED <<handed, orphans, ops>>
      /\ sessions' = IF op \in {"logout", "close"} THEN sessions \ {sid} ELSE sessions
  BY DEF Counted, Exchange, ExchangeLost, Served, Progress, ConnTyped
<1>2. PICK how \in {"ok", "connection"}, h \in Health :
          /\ how = "ok" \/ h.state # "online"
          /\ h.failures <= 2 * ops
          /\ Finish(how, sid, h)
  <2>1. CASE Exchange
    <3>1. Recorded(200) \in Health /\ Recorded(200).failures <= 2 * ops
      BY <1>1, HealthValues, ConnConstants DEF Health, States, ConnTyped
    <3> QED
      BY <2>1, <3>1 DEF Exchange
  <2>2. CASE ExchangeLost
    BY <1>1, <2>2, HealthValues, RoomForOne DEF ExchangeLost, States
  <2> QED
    BY <2>1, <2>2
<1>3. /\ op' = "idle" /\ renewed' = FALSE /\ closed' \in BOOLEAN
      /\ sid' = IF op \in {"logout", "close"} THEN NoSession ELSE sid
      /\ closed' => sid' = NoSession
      /\ Counted' /\ FailureIsReported'
  BY <1>1, <1>2, FinishEnds
<1>4. ConnTyped' /\ Progress'
  <2>1. Progress'
    BY <1>3 DEF Progress
  <2>2. sessions' \subseteq 1..handed'
    BY <1>1 DEF ConnTyped
  <2>3. sid' \in 1..handed' \union {NoSession} /\ orphans' \subseteq 1..handed'
    BY <1>1, <1>3 DEF ConnTyped
  <2>4. applied' \in 0..1 /\ ops' \in 0..MaxOps /\ handed' \in 0..MaxSessions
    BY <1>1 DEF ConnTyped
  <2>5. ConnTyped'
    BY <1>3, <2>2, <2>3, <2>4 DEF ConnTyped
  <2> QED
    BY <2>1, <2>5
<1>5. AppliedOnce' /\ NoSessionLeft'
  BY <1>1, <1>3 DEF AppliedOnce, NoSessionLeft
<1> QED
  BY <1>3, <1>4, <1>5

(* The message was lost or refused, or met a session that had ended twice:  *)
(* nothing was applied, and a session that could not be closed is known to  *)
(* be lost.                                                                 *)
LEMMA FailureKeeps ==
    ASSUME ConnIInv, ExchangeFails \/ RenewedInVain
    PROVE  ConnIInv'
<1> USE DEF ConnIInv
<1>1. /\ health \in Health /\ op # "idle" /\ sid # NoSession
      /\ UNCHANGED <<sessions, handed, applied, ops>>
  BY DEF Counted, ExchangeFails, RenewedInVain
<1>2. /\ orphans' \in {orphans, orphans \union {sid}}
      /\ op \in {"logout", "close"} => sid \in orphans' \/ sid \notin sessions
  BY DEF ExchangeFails, RenewedInVain
<1>3. PICK how \in {"refused", "connection"}, h \in Health :
          /\ h.state # "online" /\ h.failures <= 2 * ops
          /\ Finish(how, sid, h)
  <2>1. CASE RenewedInVain
    BY <1>1, <2>1, HealthValues, RoomForOne DEF RenewedInVain
  <2>2. CASE ExchangeFails
    BY <1>1, <2>2, HealthValues, RoomForOne DEF ExchangeFails, States
  <2> QED
    BY <2>1, <2>2
<1>4. /\ op' = "idle" /\ renewed' = FALSE /\ closed' \in BOOLEAN /\ outcome' = how
      /\ sid' = IF op \in {"logout", "close"} THEN NoSession ELSE sid
      /\ closed' => sid' = NoSession
      /\ Counted' /\ FailureIsReported'
  BY <1>1, <1>3, FinishEnds
<1>5. ConnTyped' /\ Progress'
  BY <1>1, <1>2, <1>4 DEF ConnTyped, Progress
<1>6. AppliedOnce'
  BY <1>1, <1>3, <1>4 DEF AppliedOnce
<1>7. NoSessionLeft'
  BY <1>1, <1>2, <1>4 DEF NoSessionLeft
<1> QED
  BY <1>4, <1>5, <1>6, <1>7

(* The 401 that renews a session, and a session the server ends by itself. *)
LEMMA RenewalKeeps ==
    ASSUME ConnIInv, Renew \/ SessionEnds
    PROVE  ConnIInv'
<1> USE DEF ConnIInv
<1>1. CASE Renew
  <2>1. health' \in Health /\ health'.failures = health.failures + 1
    BY <1>1, HealthValues DEF Renew, Counted
  <2>2. ConnTyped' /\ Progress'
    BY <1>1 DEF Renew, ConnTyped, Progress
  <2>3. Counted'
    BY <1>1, <2>1, ConnConstants DEF Renew, Counted, FailureBound, ConnTyped, Health
  <2>4. AppliedOnce' /\ NoSessionLeft' /\ FailureIsReported'
    BY <1>1 DEF Renew, AppliedOnce, NoSessionLeft, FailureIsReported
  <2> QED
    BY <2>2, <2>3, <2>4
<1>2. CASE SessionEnds
  <2>1. sessions' \subseteq sessions
    BY <1>2 DEF SessionEnds
  <2>2. UNCHANGED <<sid, closed, health, op, renewed, handed, applied, orphans,
                    outcome, ops, faults>>
    BY <1>2 DEF SessionEnds
  <2>3. ConnTyped' /\ Progress' /\ Counted'
    BY <2>1, <2>2 DEF ConnTyped, Progress, Counted, FailureBound
  <2>4. AppliedOnce' /\ NoSessionLeft' /\ FailureIsReported'
    BY <2>1, <2>2 DEF AppliedOnce, NoSessionLeft, FailureIsReported
  <2> QED
    BY <2>3, <2>4
<1> QED
  BY <1>1, <1>2

-----------------------------------------------------------------------------
(* A behaviour of the connection satisfies the inductive invariant.         *)
LEMMA ConnInductive == ConnSpec => []ConnIInv
<1>1. ConnInit => ConnIInv
  <2> SUFFICES ASSUME ConnInit PROVE ConnIInv
    OBVIOUS
  <2>1. ConnTyped
    <3>1. handed \in 0..MaxSessions /\ ops \in 0..MaxOps /\ applied \in 0..1
      BY ConnConstants DEF ConnInit
    <3>2. sid \in 1..handed \union {NoSession}
      BY DEF ConnInit
    <3>3. sessions \subseteq 1..handed /\ orphans \subseteq 1..handed
      BY DEF ConnInit
    <3>4. op = "idle" /\ closed \in BOOLEAN /\ renewed \in BOOLEAN
      BY DEF ConnInit
    <3> QED
      BY <3>1, <3>2, <3>3, <3>4 DEF ConnTyped
  <2>2. Progress
    BY DEF ConnInit, Progress
  <2>3. Counted
    BY DEF ConnInit, Counted, FailureBound, Health, States
  <2>4. AppliedOnce /\ NoSessionLeft /\ FailureIsReported
    BY DEF ConnInit, AppliedOnce, NoSessionLeft, FailureIsReported
  <2> QED
    BY <2>1, <2>2, <2>3, <2>4 DEF ConnIInv
<1>2. ConnIInv /\ [ConnNext]_connVars => ConnIInv'
  <2> SUFFICES ASSUME ConnIInv, [ConnNext]_connVars PROVE ConnIInv'
    OBVIOUS
  <2>1. CASE UNCHANGED connVars
    BY <2>1 DEF connVars, ConnIInv, ConnTyped, Counted, FailureBound, Progress, AppliedOnce,
                NoSessionLeft, FailureIsReported
  <2>2. CASE \E o \in {"get", "post"} : Begin(o)
    BY <2>2, BeginKeeps
  <2>3. CASE BeginLogout \/ BeginClose
    BY <2>3, BeginKeeps DEF BeginLogout, BeginClose
  <2> QED
    BY <2>1, <2>2, <2>3, CloseUnusedKeeps, LoginKeeps, RefusalKeeps, MalformedKeeps, ExchangeKeeps,
       FailureKeeps, RenewalKeeps DEF ConnNext
<1> QED
  BY <1>1, <1>2, PTL DEF ConnSpec

(* A connection to a Pi-hole, through expired sessions, lost messages and   *)
(* refusals: what request sends is applied at most once and exactly once    *)
(* when it returns, no session is left behind but by a fault, a request     *)
(* that was refused or got no answer shows in the state of health, and      *)
(* close is final.                                                          *)
THEOREM ConnectionIsSafe == ConnSpec => ConnectionSafe
<1>1. ConnIInv => ConnTypeOK /\ AppliedOnce /\ NoSessionLeft /\ FailureIsReported
  <2> SUFFICES ASSUME ConnIInv PROVE ConnTypeOK
    BY DEF ConnIInv
  <2>1. sid \in 1..MaxSessions \union {NoSession}
    BY ConnConstants DEF ConnIInv, ConnTyped
  <2>2. health.failures \in 0..(2 * MaxOps + MaxFaults)
    BY ConnConstants DEF ConnIInv, ConnTyped, Counted, FailureBound, Health
  <2>3. health \in [state : States, failures : 0..(2 * MaxOps + MaxFaults)]
    BY <2>2 DEF ConnIInv, Counted, Health
  <2> QED
    BY <2>1, <2>3 DEF ConnIInv, ConnTypeOK, ConnTyped, Progress
<1>2. ConnIInv /\ [ConnNext]_connVars =>
          [closed => handed' = handed /\ applied' = applied]_connVars
  <2> SUFFICES ASSUME ConnIInv, ConnNext, closed
               PROVE  handed' = handed /\ applied' = applied
    BY DEF connVars
  <2>1. op = "idle"
    BY DEF ConnIInv, Progress
  <2> QED
    BY <2>1 DEF ConnNext, Begin, BeginLogout, BeginClose, CloseUnused, Login, LoginRefused,
       LoginInvalid, LoginMalformed, Exchange, ExchangeLost, ExchangeFails, Renew, RenewedInVain, SessionEnds
<1> QED
  BY <1>1, <1>2, ConnInductive, PTL DEF ConnSpec, ConnectionSafe, ClosedIsSilent

-----------------------------------------------------------------------------
(* The cached catalogue.                                                   *)
CacheSpec == CacheInit /\ [][CacheNext]_cacheVars

(* The server never takes a version back, and no empty payload is stored.  *)
PayloadPublished == payload # Absent => payload \in Versions /\ payload <= published

(* What a thread about to write the metadata back from what it read holds  *)
(* is behind the payload, too.                                             *)
BehindPayload(m) == payload \in Versions /\ m.etag <= payload

(* A thread that scrubs holds metadata; one that asks the server holds     *)
(* none or metadata without the key.                                       *)
ReadersBehind ==
    \A f \in Fetchers :
        /\ at[f] = "scrub" => copy[f] # Absent /\ BehindPayload(copy[f])
        /\ at[f] = "request" /\ copy[f] # Absent =>
             ~copy[f].secret /\ BehindPayload(copy[f])

(* A thread that stores an answer holds a version at least as new as the   *)
(* stored one, with the metadata of that version.                          *)
WritersAhead ==
    \A f \in Fetchers : at[f] \in {"first", "second"} =>
        /\ got[f] \in Versions /\ got[f] <= published
        /\ copy[f] = [etag |-> got[f], fresh |-> TRUE, secret |-> FALSE]
        /\ payload # Absent => payload <= got[f]
        /\ at[f] = "second" => payload = got[f]

(* The inductive invariant. *)
CacheIInv ==
    /\ CacheInv
    /\ copy \in [Fetchers -> Metadata \union {Absent}]
    /\ got \in [Fetchers -> Versions \union {Absent}]
    /\ PayloadPublished
    /\ ReadersBehind
    /\ WritersAhead

-----------------------------------------------------------------------------
(* The invariant holds of an empty cache and of the one an older release    *)
(* left behind.                                                             *)
LEMMA CacheIInvInit == CacheInit => CacheIInv
<1> SUFFICES ASSUME CacheInit PROVE CacheIInv
  OBVIOUS
<1>1. 1 \in Versions /\ published = 1
  BY CacheConstants DEF Versions, CacheInit
<1>2. /\ meta \in Metadata \union {Absent}
      /\ meta # Absent => payload = 1 /\ meta.etag = 1
  <2>1. CASE payload = Absent /\ meta = Absent
    BY <2>1
  <2>2. CASE payload = 1 /\ meta = [etag |-> 1, fresh |-> FALSE, secret |-> TRUE]
    BY <1>1, <2>2 DEF Metadata
  <2> QED
    BY <2>1, <2>2 DEF CacheInit
<1>3. CacheTypeOK
  BY <1>1, <1>2, CacheConstants DEF CacheInit, CacheTypeOK
<1>4. ValidatorsBehindPayload /\ PayloadPublished
  BY <1>1, <1>2 DEF CacheInit, ValidatorsBehindPayload, PayloadPublished
<1>5. ReadersBehind /\ WritersAhead
  BY DEF CacheInit, ReadersBehind, WritersAhead
<1> QED
  BY <1>3, <1>4, <1>5 DEF CacheInit, CacheIInv, CacheInv

(* Reading the metadata in order to scrub it, or to ask the server with its *)
(* validators, keeps the invariant.                                         *)
LEMMA ReadingKeeps ==
    ASSUME CacheIInv, NEW f \in Fetchers, ScrubRead(f) \/ AskServer(f)
    PROVE  CacheIInv'
<1> USE DEF CacheIInv, CacheInv
<1>1. CacheTypeOK'
  BY CacheConstants DEF ScrubRead, AskServer, CacheTypeOK
<1>2. ValidatorsBehindPayload' /\ PayloadPublished'
  BY DEF ScrubRead, AskServer, ValidatorsBehindPayload, PayloadPublished
<1>3. copy' \in [Fetchers -> Metadata \union {Absent}] /\ got' = got
  BY DEF ScrubRead, AskServer, CacheTypeOK
<1>4. ReadersBehind'
  BY DEF ScrubRead, AskServer, CacheTypeOK, ReadersBehind, BehindPayload,
         ValidatorsBehindPayload
<1>5. WritersAhead'
  BY DEF ScrubRead, AskServer, CacheTypeOK, WritersAhead
<1> QED
  BY <1>1, <1>2, <1>3, <1>4, <1>5

(* Metadata written back from what was read, without the key or renewed,    *)
(* is metadata of the same version.                                         *)
LEMMA RewrittenMetadata ==
    ASSUME NEW m \in Metadata
    PROVE  /\ [m EXCEPT !.secret = FALSE] \in Metadata
           /\ [m EXCEPT !.secret = FALSE].etag = m.etag
           /\ [m EXCEPT !.secret = FALSE].secret = FALSE
           /\ [m EXCEPT !.fresh = TRUE] \in Metadata
           /\ [m EXCEPT !.fresh = TRUE].etag = m.etag
           /\ [m EXCEPT !.fresh = TRUE].secret = m.secret
           /\ [m EXCEPT !.fresh = FALSE] \in Metadata
           /\ [m EXCEPT !.fresh = FALSE].etag = m.etag
           /\ [m EXCEPT !.fresh = FALSE].secret = m.secret
BY DEF Metadata

(* A late scrub and a confirmed payload write metadata that is behind the   *)
(* payload by the time it is written, too.                                  *)
LEMMA RewritingKeeps ==
    ASSUME CacheIInv, NEW f \in Fetchers, ScrubWrite(f) \/ NotModified(f)
    PROVE  CacheIInv'
<1> USE DEF CacheIInv, CacheInv
<1>1. copy[f] \in Metadata /\ BehindPayload(copy[f])
  BY DEF ScrubWrite, NotModified, ReadersBehind, EtagMatches
<1>2. meta' \in Metadata /\ meta'.etag = copy[f].etag
  BY <1>1, RewrittenMetadata DEF ScrubWrite, NotModified
<1>3. CacheTypeOK'
  BY <1>2, CacheConstants DEF ScrubWrite, NotModified, CacheTypeOK
<1>4. ValidatorsBehindPayload'
  BY <1>1, <1>2 DEF ScrubWrite, NotModified, ValidatorsBehindPayload, BehindPayload
<1>5. PayloadPublished'
  BY DEF ScrubWrite, NotModified, PayloadPublished
<1>6. copy' = copy /\ got' = got
  BY DEF ScrubWrite, NotModified
<1>7. /\ UNCHANGED <<payload, published>>
      /\ \A g \in Fetchers : at'[g] # "idle" => at'[g] = at[g]
  BY DEF ScrubWrite, NotModified, CacheTypeOK
<1>8. ReadersBehind'
  BY <1>6, <1>7 DEF ReadersBehind, BehindPayload
<1>9. WritersAhead'
  BY <1>6, <1>7 DEF WritersAhead
<1> QED
  BY <1>3, <1>4, <1>5, <1>6, <1>8, <1>9

(* An answer carries the version the server has, since a 304 without a     *)
(* payload cannot come; a failed request leaves the files alone.           *)
LEMMA AnswersKeep ==
    ASSUME CacheIInv, NEW f \in Fetchers, Receive(f) \/ FetchFails(f)
    PROVE  CacheIInv'
<1> USE DEF CacheIInv, CacheInv
<1> DEFINE m == [etag |-> published, fresh |-> TRUE, secret |-> FALSE]
<1>1. m \in Metadata /\ published \in Versions
  BY DEF CacheTypeOK, Metadata
<1>2. CacheTypeOK'
  BY CacheConstants DEF Receive, FetchFails, CacheTypeOK
<1>3. ValidatorsBehindPayload' /\ PayloadPublished'
  BY DEF Receive, FetchFails, ValidatorsBehindPayload, PayloadPublished
<1>4. copy' \in [Fetchers -> Metadata \union {Absent}]
  BY <1>1 DEF Receive, FetchFails
<1>5. ReadersBehind'
  BY DEF Receive, FetchFails, CacheTypeOK, ReadersBehind, BehindPayload
<1>6. CASE Receive(f)
  <2>1. ~EtagMatches(f)
    BY <1>6, CacheConstants DEF Receive, EtagMatches, ReadersBehind, BehindPayload
  <2>2. copy'[f] = m /\ at'[f] = "first"
    BY <1>6 DEF Receive, CacheTypeOK
  <2>3. got' = [got EXCEPT ![f] = published]
    BY <1>6, <2>1 DEF Receive
  <2>4. got'[f] = published /\ UNCHANGED <<payload, published>>
    BY <1>6, <2>3 DEF Receive
  <2>5. \A g \in Fetchers \ {f} : at'[g] = at[g] /\ copy'[g] = copy[g] /\ got'[g] = got[g]
    BY <1>6, <2>3 DEF Receive, CacheTypeOK
  <2>6. WritersAhead'
    <3> SUFFICES ASSUME NEW g \in Fetchers, at'[g] \in {"first", "second"}
                 PROVE  /\ got'[g] \in Versions /\ got'[g] <= published
                        /\ copy'[g] = [etag |-> got'[g], fresh |-> TRUE, secret |-> FALSE]
                        /\ payload # Absent => payload <= got'[g]
                        /\ at'[g] = "second" => payload = got'[g]
      BY <2>4 DEF WritersAhead
    <3>1. CASE g = f
      <4>1. got'[g] = published /\ copy'[g] = m /\ at'[g] = "first"
        BY <2>2, <2>4, <3>1
      <4>2. got'[g] <= published
        BY <1>1, <4>1, CacheConstants DEF Versions
      <4>3. payload # Absent => payload <= got'[g]
        BY <4>1 DEF PayloadPublished
      <4> QED
        BY <1>1, <4>1, <4>2, <4>3
    <3>2. CASE g # f
      BY <2>5, <3>2 DEF WritersAhead
    <3> QED
      BY <3>1, <3>2
  <2>7. got' \in [Fetchers -> Versions \union {Absent}]
    BY <1>1, <2>3
  <2> QED
    BY <1>2, <1>3, <1>4, <1>5, <2>6, <2>7
<1>7. CASE FetchFails(f)
  <2>1. WritersAhead'
    BY <1>7 DEF FetchFails, CacheTypeOK, WritersAhead
  <2> QED
    BY <1>2, <1>3, <1>4, <1>5, <1>7, <2>1 DEF FetchFails
<1> QED
  BY <1>6, <1>7

(* The payload is stored before its metadata, and only moves on to a newer  *)
(* version: whoever still holds older metadata stays behind it.             *)
LEMMA StoringKeeps ==
    ASSUME CacheIInv, NEW f \in Fetchers, WriteFirst(f) \/ WriteSecond(f)
    PROVE  CacheIInv'
<1> USE DEF CacheIInv, CacheInv
<1>1. /\ got[f] \in Versions /\ got[f] <= published
      /\ copy[f] \in Metadata /\ copy[f].etag = got[f]
      /\ payload # Absent => payload \in Versions /\ payload <= got[f]
  <2>1. /\ got[f] \in Versions /\ got[f] <= published
        /\ copy[f] = [etag |-> got[f], fresh |-> TRUE, secret |-> FALSE]
        /\ payload # Absent => payload <= got[f]
    BY DEF WriteFirst, WriteSecond, WritersAhead
  <2>2. copy[f] \in Metadata /\ copy[f].etag = got[f]
    BY <2>1 DEF Metadata
  <2> QED
    BY <2>1, <2>2 DEF PayloadPublished
<1>2. CASE WriteFirst(f)
  <2>1. payload' = got[f] /\ meta' = meta
    BY <1>2 DEF WriteFirst, WriteOrder, Stored
  <2>2. CacheTypeOK'
    BY <1>1, <1>2, <2>1, CacheConstants DEF WriteFirst, CacheTypeOK
  <2>3. meta # Absent => meta \in Metadata /\ meta.etag <= payload' /\ payload' \in Versions
    BY <1>1, <2>1, CacheConstants
       DEF ValidatorsBehindPayload, CacheTypeOK, Versions, Metadata
  <2>4. ValidatorsBehindPayload' /\ PayloadPublished'
    BY <1>1, <1>2, <2>1, <2>3 DEF WriteFirst, ValidatorsBehindPayload, PayloadPublished
  <2>5. ReadersBehind'
    <3> SUFFICES ASSUME NEW g \in Fetchers, at'[g] \in {"scrub", "request"},
                        copy[g] # Absent \/ at'[g] = "scrub"
                 PROVE  /\ copy'[g] # Absent /\ BehindPayload(copy[g])'
                        /\ at'[g] = "request" => ~copy'[g].secret
      BY <1>2 DEF WriteFirst, ReadersBehind
    <3>1. g # f /\ at[g] = at'[g] /\ copy' = copy
      BY <1>2 DEF WriteFirst, CacheTypeOK
    <3>2. copy[g] \in Metadata /\ BehindPayload(copy[g])
      BY <3>1 DEF ReadersBehind
    <3>3. copy[g].etag <= got[f]
      BY <1>1, <3>2, CacheConstants DEF BehindPayload, Metadata, Versions
    <3> QED
      BY <1>1, <2>1, <3>1, <3>2, <3>3, CacheConstants DEF ReadersBehind, BehindPayload
  <2>6. WritersAhead'
    BY <1>1, <1>2, <2>1 DEF WriteFirst, CacheTypeOK, WritersAhead, Versions
  <2> QED
    BY <1>2, <2>2, <2>4, <2>5, <2>6 DEF WriteFirst
<1>3. CASE WriteSecond(f)
  <2>1. payload' = payload /\ meta' = copy[f] /\ payload = got[f]
    BY <1>3 DEF WriteSecond, WriteOrder, Stored, WritersAhead
  <2>2. CacheTypeOK'
    BY <1>1, <1>3, <2>1, CacheConstants DEF WriteSecond, CacheTypeOK
  <2>3. ValidatorsBehindPayload' /\ PayloadPublished'
    BY <1>1, <1>3, <2>1
       DEF WriteSecond, ValidatorsBehindPayload, PayloadPublished, Versions
  <2>4. ReadersBehind' /\ WritersAhead'
    BY <1>3, <2>1 DEF WriteSecond, CacheTypeOK, ReadersBehind, BehindPayload, WritersAhead
  <2> QED
    BY <1>3, <2>2, <2>3, <2>4 DEF WriteSecond
<1> QED
  BY <1>2, <1>3

(* Time, the server and the end of the process keep the invariant. *)
LEMMA EnvironmentKeeps ==
    ASSUME CacheIInv, GrowOld \/ Publish \/ CacheCrash
    PROVE  CacheIInv'
<1> USE DEF CacheIInv, CacheInv
<1>1. CASE GrowOld
  <2>1. meta \in Metadata /\ meta' \in Metadata /\ meta'.etag = meta.etag
    BY <1>1, RewrittenMetadata DEF GrowOld, CacheTypeOK
  <2> HIDE DEF CacheIInv
  <2>2. CacheTypeOK' /\ ValidatorsBehindPayload'
    BY <1>1, <2>1, CacheConstants
       DEF GrowOld, CacheIInv, CacheTypeOK, ValidatorsBehindPayload
  <2>3. PayloadPublished' /\ ReadersBehind' /\ WritersAhead'
    BY <1>1 DEF GrowOld, CacheIInv, PayloadPublished, ReadersBehind, BehindPayload,
                WritersAhead
  <2> QED
    BY <1>1, <2>2, <2>3 DEF GrowOld, CacheIInv
<1>2. CASE Publish
  <2>1. published \in Int /\ published' \in Versions /\ published' = published + 1
    BY <1>2, CacheConstants DEF Publish, CacheTypeOK, Versions
  <2>2. CacheTypeOK' /\ ValidatorsBehindPayload'
    BY <1>2, <2>1 DEF Publish, CacheTypeOK, ValidatorsBehindPayload
  <2>3. PayloadPublished'
    BY <1>2, <2>1, CacheConstants DEF Publish, PayloadPublished, Versions
  <2>4. WritersAhead'
    BY <1>2, <2>1, CacheConstants DEF Publish, WritersAhead, Versions
  <2>5. ReadersBehind'
    BY <1>2 DEF Publish, ReadersBehind, BehindPayload
  <2> QED
    BY <1>2, <2>2, <2>3, <2>4, <2>5 DEF Publish
<1>3. CASE CacheCrash
  <2>1. CacheTypeOK' /\ ValidatorsBehindPayload' /\ PayloadPublished'
    BY <1>3, CacheConstants
       DEF CacheCrash, CacheTypeOK, ValidatorsBehindPayload, PayloadPublished
  <2>2. ReadersBehind' /\ WritersAhead'
    BY <1>3 DEF CacheCrash, ReadersBehind, WritersAhead
  <2> QED
    BY <1>3, <2>1, <2>2 DEF CacheCrash
<1> QED
  BY <1>1, <1>2, <1>3

(* A behaviour of the cache satisfies the inductive invariant throughout. *)
LEMMA CacheInductive == CacheSpec => []CacheIInv
<1>1. CacheIInv /\ [CacheNext]_cacheVars => CacheIInv'
  <2> SUFFICES ASSUME CacheIInv, [CacheNext]_cacheVars PROVE CacheIInv'
    OBVIOUS
  <2>1. CASE UNCHANGED cacheVars
    BY <2>1 DEF cacheVars, CacheIInv, CacheInv, CacheTypeOK, ValidatorsBehindPayload,
                PayloadPublished, ReadersBehind, BehindPayload, WritersAhead
  <2> QED
    BY <2>1, ReadingKeeps, RewritingKeeps, AnswersKeep, StoringKeeps, EnvironmentKeeps
       DEF CacheNext
<1> QED
  BY <1>1, CacheIInvInit, PTL DEF CacheSpec

(* fetch_cached_bytes, the scrub of cached metadata and the end of the      *)
(* process, in whatever order threads take them, never leave an ETag on     *)
(* disk that is ahead of the stored payload.                                *)
THEOREM CacheSafe == CacheSpec => []CacheInv
<1>1. CacheIInv => CacheInv
  BY DEF CacheIInv
<1> QED
  BY <1>1, CacheInductive, PTL

(* A key that was scrubbed from the metadata file never comes back, not     *)
(* from a request that was under way and not from a second, late scrub.     *)
THEOREM ScrubbedForGood == CacheSpec => SecretStaysScrubbed
<1> DEFINE Clean(m) == m # Absent /\ ~m.secret
<1>1. CacheIInv /\ [CacheNext]_cacheVars => [Clean(meta) => Clean(meta')]_cacheVars
  <2> SUFFICES ASSUME CacheIInv, CacheNext, Clean(meta) PROVE Clean(meta')
    BY DEF cacheVars
  <2>1. ASSUME NEW f \in Fetchers, ScrubWrite(f) \/ NotModified(f) PROVE Clean(meta')
    <3>1. /\ copy[f] \in Metadata
          /\ NotModified(f) => ~copy[f].secret
      BY <2>1 DEF CacheIInv, ScrubWrite, NotModified, EtagMatches, ReadersBehind
    <3> QED
      BY <2>1, <3>1, RewrittenMetadata, CacheConstants DEF ScrubWrite, NotModified
  <2>2. ASSUME NEW f \in Fetchers, WriteFirst(f) PROVE Clean(meta')
    BY <2>2 DEF WriteFirst, WriteOrder, Stored
  <2>3. ASSUME NEW f \in Fetchers, WriteSecond(f) PROVE Clean(meta')
    <3>1. meta' = copy[f] /\ copy[f] \in Metadata \union {Absent}
      BY <2>3 DEF WriteSecond, WriteOrder, Stored, CacheIInv
    <3>2. copy[f] = [etag |-> got[f], fresh |-> TRUE, secret |-> FALSE] /\ got[f] \in Versions
      BY <2>3 DEF WriteSecond, CacheIInv, WritersAhead
    <3>3. copy[f] \in Metadata /\ copy[f].secret = FALSE
      BY <3>2 DEF Metadata
    <3> QED
      BY <3>1, <3>3, CacheConstants
  <2>4. CASE GrowOld
    <3>1. meta \in Metadata
      BY <2>4 DEF CacheIInv, CacheInv, CacheTypeOK
    <3>2. meta' \in Metadata /\ meta'.secret = meta.secret
      BY <2>4, <3>1, RewrittenMetadata DEF GrowOld
    <3> QED
      BY <3>2, CacheConstants
  <2>5. ASSUME NEW f \in Fetchers, ScrubRead(f) \/ AskServer(f) \/ Receive(f) \/ FetchFails(f)
        PROVE  Clean(meta')
    BY <2>5 DEF ScrubRead, AskServer, Receive, FetchFails
  <2>6. CASE Publish \/ CacheCrash
    BY <2>6 DEF Publish, CacheCrash
  <2> QED
    BY <2>1, <2>2, <2>3, <2>4, <2>5, <2>6 DEF CacheNext
<1> QED
  BY <1>1, CacheInductive, PTL DEF CacheSpec, SecretStaysScrubbed

-----------------------------------------------------------------------------
(* The runs that ask the sources.                                          *)

(* What holds of each run: a source is asked one thing at a time and only   *)
(* while the run waits, and nothing is asked of a domain found protected.   *)
RunOK(x) ==
    /\ x \in RunType
    /\ \A u, v \in Tasks :
        x.task[u].st = "running" /\ x.task[v].st = "running" /\ u[2] = v[2] => u = v
    /\ x.phase \notin {"asking", "stopping"} => \A t \in Tasks : x.task[t].st # "running"
    /\ \A t \in Tasks : t[1] \in x.blocked =>
        t[1] \notin x.unread /\ x.task[t].st \in {"none", "kept"} /\ x.task[t].found = Missing

DbTyped ==
    /\ stored \in [Tasks -> Finding \union {Missing}]
    /\ localSaved \subseteq LocalDomains
    /\ locked \subseteq Domains
    /\ tag \in [Domains -> Tags]
    /\ now \in 0..MaxNow /\ events \in 0..MaxEvents

(* The inductive invariant. *)
ResIInv ==
    /\ DbTyped
    /\ run \in [Runs -> RunType]
    /\ \A r \in Runs : RunOK(run[r])

(* What every step does: it keeps the invariant and, as the action          *)
(* properties say, stored evidence; it serves what is fresh.                *)
ResStep ==
    /\ ResIInv'
    /\ \A t \in Tasks : stored[t] # Missing => stored'[t] # Missing
    /\ \A r \in Runs, t \in Tasks :
        run[r].task[t].st # "kept" /\ run'[r].task[t].st = "kept" => Fresh(t)
    /\ \A r \in Runs, t \in Tasks :
        run[r].phase # "done" /\ run'[r].phase = "done" /\ t[1] \in run[r].blocked
            => stored'[t] = stored[t]

(* The longest interval of a source bounds every other. *)
LEMMA LongestInterval ==
    ASSUME NEW s \in Sources
    PROVE  LET longest == Max({SourceHours[x] : x \in Sources})
           IN  longest \in Nat /\ SourceHours[s] <= longest
<1> DEFINE S == {SourceHours[x] : x \in Sources}
<1>1. S \in SUBSET Nat /\ S # {} /\ SourceHours[s] \in S
  BY ResearchAssumption
<1>2. IsFiniteSet(S)
  <2>1. SourceHours \in Surjection(Sources, S)
    BY ResearchAssumption DEF Surjection
  <2> HIDE DEF S
  <2> QED
    BY <2>1, ResearchAssumption, FS_Surjection
<1> HIDE DEF S
<1>3. PICK x \in S : \A y \in S : y <= x
  <2>1. S \in SUBSET Int
    BY <1>1
  <2> QED
    BY <1>1, <1>2, <2>1, LongestExists
<1>4. Max(S) \in S /\ \A y \in S : y <= Max(S)
  BY <1>1, <1>3 DEF Max
<1>5. Max(S) \in Nat /\ SourceHours[s] <= Max(S)
  BY <1>1, <1>4
<1> QED
  BY <1>5 DEF S

(* The smaller of two numbers. *)
LEMMA SmallerOfTwo ==
    ASSUME NEW a \in Nat, NEW b \in Nat
    PROVE  Min({a, b}) \in {a, b} /\ Min({a, b}) <= a /\ Min({a, b}) <= b
<1>1. \E x \in {a, b} : \A y \in {a, b} : x =< y
  <2>1. CASE a <= b
    BY <2>1
  <2>2. CASE b <= a
    BY <2>2
  <2> QED
    BY <2>1, <2>2
<1> QED
  BY <1>1 DEF Min

(* The fields of what is found and of what is kept of it. *)
LEMMA FoundIsFinding ==
    ASSUME DbTyped, NEW t \in Tasks
    PROVE  Found(t) \in Finding
<1>1. t[2] \in Sources
  BY DEF Tasks
<1> DEFINE longest == Max({SourceHours[x] : x \in Sources})
<1>2. longest \in Nat /\ SourceHours[t[2]] <= longest /\ SourceHours[t[2]] \in Nat
  BY <1>1, LongestInterval, ResearchAssumption
<1>3. Times = 0..(MaxNow + longest)
  BY DEF Times
<1> HIDE DEF longest
<1>4. now \in 0..MaxNow /\ MaxNow \in Nat
  BY ResearchAssumption DEF DbTyped
<1>5. now + SourceHours[t[2]] \in Times
  BY <1>2, <1>3, <1>4
<1> QED
  BY <1>4, <1>5 DEF Found, Finding

(* freshness_decision_for_finding shortens a life and never lengthens it. *)
LEMMA ExpiryIsEarlier ==
    ASSUME DbTyped, NEW t \in Tasks, NEW f \in Finding
    PROVE  /\ EffectiveExpiry(t, f) \in Times
           /\ EffectiveExpiry(t, f) <= f.at + SourceHours[t[2]]
           /\ EffectiveExpiry(t, f) <= f.at + Ceiling[tag[t[1]]]
           /\ EffectiveExpiry(t, f) \in Nat /\ f.at \in Nat
           /\ SourceHours[t[2]] \in Nat /\ Ceiling[tag[t[1]]] \in Nat
<1>1. t[1] \in Domains /\ t[2] \in Sources
  BY DEF Tasks
<1> DEFINE hours == SourceHours[t[2]]
           ceiling == Ceiling[tag[t[1]]]
           longest == Max({SourceHours[x] : x \in Sources})
<1>2. hours \in Nat /\ ceiling \in Nat
  BY <1>1, ResearchAssumption DEF DbTyped
<1>3. longest \in Nat
  BY <1>1, LongestInterval
<1>4. Times = 0..(MaxNow + longest)
  BY DEF Times
<1>5. f.at \in Nat /\ f.expires \in Times /\ MaxNow \in Nat
  BY ResearchAssumption DEF Finding
<1>6. EffectiveHours(t) = Min({hours, ceiling})
  BY DEF EffectiveHours
<1> HIDE DEF hours, ceiling, longest
<1>7. EffectiveHours(t) \in Nat /\ EffectiveHours(t) <= hours /\ EffectiveHours(t) <= ceiling
  BY <1>2, <1>6, SmallerOfTwo
<1> DEFINE latest == f.at + EffectiveHours(t)
           expires == f.expires
<1>8. EffectiveExpiry(t, f) = Min({expires, latest})
  BY DEF EffectiveExpiry
<1>9. latest \in Nat /\ expires \in Nat
  BY <1>3, <1>4, <1>5, <1>7
<1>10. latest <= f.at + hours /\ latest <= f.at + ceiling
  BY <1>2, <1>5, <1>7
<1> DEFINE m == Min({expires, latest})
<1>11. expires \in 0..(MaxNow + longest)
  BY <1>4, <1>5
<1> HIDE DEF latest, expires
<1>12. m \in {expires, latest} /\ m <= expires /\ m <= latest
  BY <1>9, SmallerOfTwo
<1> HIDE DEF m
<1>13. m \in Nat
  BY <1>9, <1>12
<1>14. m \in Times
  BY <1>3, <1>4, <1>5, <1>11, <1>12, <1>13
<1>15. m <= f.at + hours /\ m <= f.at + ceiling
  BY <1>2, <1>5, <1>9, <1>10, <1>12, <1>13
<1> QED
  BY <1>2, <1>5, <1>8, <1>13, <1>14, <1>15 DEF m, hours, ceiling

(* What apply_freshness_policies makes of a finding is a finding. *)
LEMMA KeptIsFinding ==
    ASSUME DbTyped, NEW t \in Tasks, NEW f \in Finding
    PROVE  Kept(t, f) \in Finding
<1>1. EffectiveExpiry(t, f) \in Times
  BY ExpiryIsEarlier
<1> QED
  BY <1>1 DEF Kept, Finding

(* A step of a run that leaves the database alone. *)
LEMMA RunChanges ==
    ASSUME ResIInv, NEW r \in Runs, NEW x, RunOK(x),
           run' = [run EXCEPT ![r] = x], UNCHANGED dbVars,
           x.phase # "done",
           \A t \in Tasks : x.task[t].st = "kept" => run[r].task[t].st = "kept" \/ Fresh(t)
    PROVE  ResStep
<1>1. run'[r] = x /\ \A q \in Runs \ {r} : run'[q] = run[q]
  BY DEF ResIInv
<1>2. run' \in [Runs -> RunType] /\ \A q \in Runs : RunOK(run'[q])
  BY <1>1 DEF ResIInv, RunOK
<1>3. DbTyped' /\ stored' = stored
  BY DEF ResIInv, DbTyped, dbVars
<1>4. ResIInv'
  BY <1>2, <1>3, Zenon DEF ResIInv
<1> QED
  BY <1>1, <1>3, <1>4 DEF ResStep

(* A step of one of a run's threads. *)
LEMMA TaskChanges ==
    ASSUME ResIInv, NEW r \in Runs, NEW t \in Tasks, NEW y \in Task,
           run[r].phase \in {"asking", "stopping"}, t[1] \notin run[r].blocked,
           run' = [run EXCEPT ![r].task[t] = y], UNCHANGED dbVars,
           y.st # "kept",
           y.st = "running" => \A u \in Tasks \ {t} : run[r].task[u].st = "running" => u[2] # t[2]
    PROVE  ResStep
<1> DEFINE x == [run[r] EXCEPT !.task = [run[r].task EXCEPT ![t] = y]]
<1>1. run' = [run EXCEPT ![r] = x]
  BY DEF ResIInv
<1>2. run[r] \in RunType /\ RunOK(run[r])
  BY DEF ResIInv
<1> DEFINE tasks == [run[r].task EXCEPT ![t] = y]
<1>3. tasks \in [Tasks -> Task]
  BY <1>2 DEF RunType
<1>4. x.phase = run[r].phase /\ x.unread = run[r].unread /\ x.blocked = run[r].blocked /\ x.task = tasks
  BY <1>2 DEF RunType
<1>5. tasks[t] = y /\ \A u \in Tasks \ {t} : tasks[u] = run[r].task[u]
  BY <1>2 DEF RunType
<1> HIDE DEF tasks
<1>6. x \in RunType
  BY <1>2, <1>3 DEF RunType, tasks
<1> HIDE DEF x
<1>7. RunOK(x)
  <2>1. \A u, v \in Tasks :
          x.task[u].st = "running" /\ x.task[v].st = "running" /\ u[2] = v[2] => u = v
    BY <1>2, <1>4, <1>5 DEF RunOK
  <2>2. \A u \in Tasks : u[1] \in x.blocked =>
            u[1] \notin x.unread /\ x.task[u].st \in {"none", "kept"} /\ x.task[u].found = Missing
    BY <1>2, <1>4, <1>5 DEF RunOK
  <2> QED
    BY <1>4, <1>6, <2>1, <2>2 DEF RunOK
<1>8. x.phase # "done"
  BY <1>4
<1>9. \A u \in Tasks : x.task[u].st = "kept" => run[r].task[u].st = "kept" \/ Fresh(u)
  BY <1>4, <1>5
<1> QED
  BY <1>1, <1>7, <1>8, <1>9, RunChanges

(* A run begins, hands its tasks over, is cancelled or ends its loop: its   *)
(* tasks stay as they are.                                                  *)
LEMMA PhaseKeeps ==
    ASSUME ResIInv, NEW r \in Runs, NEW phase \in Phases \ {"done"}, NEW flag \in BOOLEAN,
           run' = [run EXCEPT ![r] = [run[r] EXCEPT !.phase = phase, !.cancelled = flag]],
           UNCHANGED dbVars,
           phase \in {"asking", "stopping"} \/ \A t \in Tasks : run[r].task[t].st # "running"
    PROVE  ResStep
<1> DEFINE x == [run[r] EXCEPT !.phase = phase, !.cancelled = flag]
<1>1. run[r] \in RunType /\ RunOK(run[r])
  BY DEF ResIInv
<1>2. /\ x.phase = phase /\ x.unread = run[r].unread /\ x.blocked = run[r].blocked
      /\ x.task = run[r].task /\ x \in RunType
  BY <1>1 DEF RunType
<1>3. run' = [run EXCEPT ![r] = x]
  OBVIOUS
<1> HIDE DEF x
<1>4. RunOK(x)
  BY <1>1, <1>2 DEF RunOK
<1>5. x.phase # "done" /\ \A t \in Tasks : x.task[t].st = "kept" => run[r].task[t].st = "kept"
  BY <1>2
<1> QED
  BY <1>3, <1>4, <1>5, RunChanges

(* What is left of a run that ended. *)
LEMMA EndedRun ==
    ASSUME ResIInv, NEW r \in Runs, NEW phase \in Phases \ {"asking", "stopping"}
    PROVE  \E x : /\ Ended(r, phase) = [run EXCEPT ![r] = x]
                  /\ RunOK(x) /\ x.phase = phase
                  /\ \A t \in Tasks : x.task[t].st = "none"
<1> DEFINE idle == [t \in Tasks |-> NoTask]
           x == [run[r] EXCEPT !.phase = phase, !.task = idle, !.blocked = {}, !.cancelled = FALSE]
<1>1. run[r] \in RunType
  BY DEF ResIInv
<1>2. idle \in [Tasks -> Task] /\ \A t \in Tasks : idle[t].st = "none"
  BY ResearchAssumption DEF NoTask, Task, TaskStates
<1>3. Ended(r, phase) = [run EXCEPT ![r] = x]
  BY DEF Ended
<1> HIDE DEF idle
<1>4. x \in RunType /\ x.phase = phase /\ x.task = idle /\ x.blocked = {}
  BY <1>1, <1>2 DEF RunType
<1> HIDE DEF x
<1>5. RunOK(x)
  BY <1>2, <1>4 DEF RunOK
<1> QED
  BY <1>2, <1>3, <1>4, <1>5

(* The findings and the lock of one domain are read. *)
LEMMA ReadKeeps ==
    ASSUME ResIInv, NEW r \in Runs, NEW d \in Domains, ReadDomain(r, d)
    PROVE  ResStep
<1> DEFINE state(t) == IF Wants(r, t) THEN "queued" ELSE IF Fresh(t) THEN "kept" ELSE "none"
           tasks == [t \in Tasks |-> IF t[1] # d THEN run[r].task[t] ELSE [NoTask EXCEPT !.st = state(t)]]
           blocked == IF d \in locked THEN run[r].blocked \union {d} ELSE run[r].blocked
           x == [run[r] EXCEPT !.unread = run[r].unread \ {d}, !.blocked = blocked, !.task = tasks]
<1>1. /\ run[r] \in RunType /\ RunOK(run[r]) /\ run[r].phase = "reading" /\ d \in run[r].unread
      /\ UNCHANGED dbVars
  BY DEF ResIInv, ReadDomain
<1>2. run' = [run EXCEPT ![r] = x]
  BY DEF ReadDomain, ResIInv
<1>3. \A t \in Tasks : /\ [NoTask EXCEPT !.st = state(t)] \in Task
                       /\ [NoTask EXCEPT !.st = state(t)].st = state(t)
                       /\ [NoTask EXCEPT !.st = state(t)].found = Missing
  BY ResearchAssumption DEF NoTask, Task, TaskStates
<1>4. \A t \in Tasks : state(t) \in {"queued", "kept", "none"}
  OBVIOUS
<1>5. \A t \in Tasks : state(t) = "kept" => Fresh(t)
  OBVIOUS
<1>6. \A t \in Tasks : t[1] = d /\ d \in locked => state(t) # "queued"
  BY DEF Wants
<1> HIDE DEF state
<1>7. \A t \in Tasks : t[1] # d => tasks[t] = run[r].task[t]
  OBVIOUS
<1>8. \A t \in Tasks : t[1] = d => tasks[t].st = state(t) /\ tasks[t].found = Missing
  BY <1>3
<1>9. tasks \in [Tasks -> Task]
  BY <1>1, <1>3 DEF RunType
<1> HIDE DEF tasks
<1>10. blocked \in SUBSET Domains
  BY <1>1 DEF RunType
<1>11. \A e \in blocked : e \in run[r].blocked \/ (e = d /\ d \in locked)
  OBVIOUS
<1> HIDE DEF blocked
<1>12. /\ x.phase = "reading" /\ x.unread = run[r].unread \ {d} /\ x.blocked = blocked
       /\ x.task = tasks /\ x \in RunType
  BY <1>1, <1>9, <1>10 DEF RunType
<1> HIDE DEF x
<1>13. \A t \in Tasks : x.task[t].st # "running"
  BY <1>1, <1>4, <1>7, <1>8, <1>12 DEF RunOK
<1>14. \A t \in Tasks : t[1] \in x.blocked =>
        t[1] \notin x.unread /\ x.task[t].st \in {"none", "kept"} /\ x.task[t].found = Missing
  <2> SUFFICES ASSUME NEW t \in Tasks, t[1] \in blocked
               PROVE  t[1] \notin run[r].unread \ {d} /\ tasks[t].st \in {"none", "kept"}
                        /\ tasks[t].found = Missing
    BY <1>12
  <2>1. CASE t[1] = d
    <3>1. d \in locked
      BY <1>1, <1>11, <2>1 DEF RunOK
    <3> QED
      BY <1>4, <1>6, <1>8, <2>1, <3>1
  <2>2. CASE t[1] # d
    BY <1>1, <1>7, <1>11, <2>2 DEF RunOK
  <2> QED
    BY <2>1, <2>2
<1>15. RunOK(x)
  BY <1>12, <1>13, <1>14 DEF RunOK
<1>16. \A t \in Tasks : x.task[t].st = "kept" => run[r].task[t].st = "kept" \/ Fresh(t)
  BY <1>5, <1>7, <1>8, <1>12
<1> QED
  BY <1>1, <1>2, <1>12, <1>15, <1>16, RunChanges

(* A run that sees its cancellation keeps only what a thread works on. *)
LEMMA CancelKeeps ==
    ASSUME ResIInv, NEW r \in Runs, ObserveCancel(r)
    PROVE  ResStep
<1> DEFINE tasks == [t \in Tasks |-> IF run[r].task[t].st = "running" THEN run[r].task[t] ELSE NoTask]
           x == [run[r] EXCEPT !.phase = "stopping", !.task = tasks]
<1>1. run[r] \in RunType /\ RunOK(run[r]) /\ UNCHANGED dbVars
  BY DEF ResIInv, ObserveCancel
<1>2. run' = [run EXCEPT ![r] = x]
  BY DEF ObserveCancel, ResIInv
<1>3. NoTask \in Task /\ NoTask.st = "none" /\ NoTask.found = Missing
  BY ResearchAssumption DEF NoTask, Task, TaskStates
<1>4. tasks \in [Tasks -> Task]
  BY <1>1, <1>3 DEF RunType
<1>5. \A t \in Tasks : IF run[r].task[t].st = "running" THEN tasks[t] = run[r].task[t]
                       ELSE tasks[t].st = "none" /\ tasks[t].found = Missing
  BY <1>3
<1> HIDE DEF tasks
<1>6. /\ x.phase = "stopping" /\ x.unread = run[r].unread /\ x.blocked = run[r].blocked
      /\ x.task = tasks /\ x \in RunType
  BY <1>1, <1>4 DEF RunType, Phases
<1> HIDE DEF x
<1>7. RunOK(x)
  <2>1. \A u, v \in Tasks :
          x.task[u].st = "running" /\ x.task[v].st = "running" /\ u[2] = v[2] => u = v
    BY <1>1, <1>5, <1>6 DEF RunOK
  <2>2. \A t \in Tasks : t[1] \in x.blocked =>
            t[1] \notin x.unread /\ x.task[t].st \in {"none", "kept"} /\ x.task[t].found = Missing
    BY <1>1, <1>5, <1>6 DEF RunOK
  <2> QED
    BY <1>6, <2>1, <2>2 DEF RunOK
<1>8. x.phase # "done" /\ \A t \in Tasks : x.task[t].st = "kept" => run[r].task[t].st = "kept"
  BY <1>5, <1>6
<1> QED
  BY <1>1, <1>2, <1>7, <1>8, RunChanges

(* Steps between the phases. *)
LEMMA PhasesKeep ==
    ASSUME ResIInv, NEW r \in Runs,
           BeginRun(r) \/ Refuse(r) \/ StopEnds(r) \/ LoopEnds(r)
    PROVE  ResStep
<1>1. /\ run[r] \in RunType /\ RunOK(run[r]) /\ run[r].cancelled \in BOOLEAN
      /\ run \in [Runs -> RunType] /\ UNCHANGED dbVars
  BY DEF ResIInv, RunType, BeginRun, Refuse, StopEnds, LoopEnds
<1>2. CASE BeginRun(r)
  <2>1. run' = [run EXCEPT ![r] = [run[r] EXCEPT !.phase = "reading", !.cancelled = run[r].cancelled]]
    BY <1>1, <1>2 DEF BeginRun, RunType
  <2>2. \A t \in Tasks : run[r].task[t].st # "running"
    BY <1>1, <1>2 DEF BeginRun, RunOK
  <2> QED
    BY <1>1, <2>1, <2>2, PhaseKeeps DEF Phases
<1>3. CASE LoopEnds(r)
  <2>1. run' = [run EXCEPT ![r] = [run[r] EXCEPT !.phase = "saving", !.cancelled = run[r].cancelled]]
    BY <1>1, <1>3 DEF LoopEnds, RunType
  <2>2. \A t \in Tasks : run[r].task[t].st # "running"
    BY <1>3 DEF LoopEnds, Active
  <2> QED
    BY <1>1, <2>1, <2>2, PhaseKeeps DEF Phases
<1>4. CASE Refuse(r) \/ StopEnds(r)
  <2>1. run' = Ended(r, "aborted")
    BY <1>4 DEF Refuse, StopEnds
  <2>2. PICK x : /\ Ended(r, "aborted") = [run EXCEPT ![r] = x]
                 /\ RunOK(x) /\ x.phase = "aborted"
                 /\ \A t \in Tasks : x.task[t].st = "none"
    BY EndedRun DEF Phases
  <2> QED
    BY <1>1, <2>1, <2>2, RunChanges
<1> QED
  BY <1>2, <1>3, <1>4

(* The local findings are stored, and the threads begin. *)
LEMMA SubmitKeeps ==
    ASSUME ResIInv, NEW r \in Runs, Submit(r)
    PROVE  ResStep
<1> DEFINE x == [run[r] EXCEPT !.phase = "asking"]
<1>1. /\ run[r] \in RunType /\ RunOK(run[r]) /\ run \in [Runs -> RunType]
      /\ run' = [run EXCEPT ![r] = x]
      /\ UNCHANGED <<stored, locked, tag, now, events>> /\ localSaved' = LocalDomains
  BY DEF ResIInv, Submit
<1>2. /\ x.phase = "asking" /\ x.unread = run[r].unread /\ x.blocked = run[r].blocked
      /\ x.task = run[r].task /\ x \in RunType
  BY <1>1 DEF RunType, Phases
<1> HIDE DEF x
<1>3. RunOK(x)
  BY <1>1, <1>2 DEF RunOK
<1>4. run'[r] = x /\ \A q \in Runs \ {r} : run'[q] = run[q]
  BY <1>1
<1>5. run' \in [Runs -> RunType] /\ \A q \in Runs : RunOK(run'[q])
  BY <1>1, <1>2, <1>3, <1>4 DEF ResIInv
<1>6. DbTyped'
  BY <1>1 DEF ResIInv, DbTyped
<1>7. ResIInv'
  BY <1>5, <1>6, Zenon DEF ResIInv
<1> QED
  BY <1>1, <1>2, <1>4, <1>7 DEF ResStep

(* save_research_findings replaces what a source found again, and that is   *)
(* nothing of a domain the run found protected.                             *)
LEMMA SaveKeeps ==
    ASSUME ResIInv, NEW r \in Runs, Save(r)
    PROVE  ResStep
<1> DEFINE found(t) == run[r].task[t].found
<1>1. /\ run[r] \in RunType /\ RunOK(run[r]) /\ run \in [Runs -> RunType] /\ DbTyped
      /\ run[r].phase = "saving" /\ run' = Ended(r, "done")
      /\ UNCHANGED <<localSaved, locked, tag, now, events>>
  BY DEF ResIInv, Save
<1>2. stored' = [t \in Tasks |-> IF found(t) # Missing THEN Kept(t, found(t)) ELSE stored[t]]
  BY DEF Save
<1>3. PICK x : /\ Ended(r, "done") = [run EXCEPT ![r] = x]
               /\ RunOK(x) /\ x.phase = "done"
               /\ \A t \in Tasks : x.task[t].st = "none"
  BY EndedRun DEF Phases
<1>4. run'[r] = x /\ \A q \in Runs \ {r} : run'[q] = run[q]
  BY <1>1, <1>3
<1>5. run' \in [Runs -> RunType] /\ \A q \in Runs : RunOK(run'[q])
  BY <1>1, <1>3, <1>4 DEF ResIInv, RunOK
<1>6. \A t \in Tasks : found(t) \in Finding \union {Missing}
  BY <1>1 DEF RunType, Task
<1>7. \A t \in Tasks : t[1] \in run[r].blocked => found(t) = Missing
  BY <1>1 DEF RunOK
<1> HIDE DEF found
<1>8. \A t \in Tasks : found(t) # Missing => Kept(t, found(t)) \in Finding
  BY <1>1, <1>6, KeptIsFinding
<1>9. stored \in [Tasks -> Finding \union {Missing}]
  BY <1>1 DEF DbTyped
<1>10. stored' \in [Tasks -> Finding \union {Missing}]
  BY <1>2, <1>8, <1>9
<1>11. \A t \in Tasks : stored[t] # Missing => stored'[t] # Missing
  BY <1>2, <1>8, MissingIsNoFinding
<1>12. \A t \in Tasks : t[1] \in run[r].blocked => stored'[t] = stored[t]
  BY <1>2, <1>7
<1>13. DbTyped'
  BY <1>1, <1>10 DEF DbTyped
<1>14. ResIInv'
  BY <1>5, <1>13, Zenon DEF ResIInv
<1>15. \A q \in Runs, t \in Tasks :
        run[q].task[t].st # "kept" /\ run'[q].task[t].st = "kept" => Fresh(t)
  BY <1>3, <1>4
<1>16. \A q \in Runs, t \in Tasks :
        run[q].phase # "done" /\ run'[q].phase = "done" /\ t[1] \in run[q].blocked
            => stored'[t] = stored[t]
  BY <1>4, <1>12
<1> QED
  BY <1>11, <1>14, <1>15, <1>16 DEF ResStep

(* A step that leaves the runs and the stored findings alone. *)
LEMMA SurroundingsKeep ==
    ASSUME ResIInv, run' = run, stored' = stored, DbTyped'
    PROVE  ResStep
<1>1. ResIInv'
  BY DEF ResIInv
<1> QED
  BY <1>1 DEF ResStep

(* Time, locks, tags and cancellations. *)
LEMMA EventsKeep ==
    ASSUME ResIInv,
           \/ \E r \in Runs : Cancel(r)
           \/ \E d \in Lockable : ToggleLock(d)
           \/ \E d \in Retagged : Retag(d)
           \/ Hour
    PROVE  ResStep
<1>1. DbTyped /\ run \in [Runs -> RunType] /\ \A r \in Runs : RunOK(run[r])
  BY DEF ResIInv
<1>2. MaxNow \in Nat /\ MaxEvents \in Nat /\ Lockable \subseteq Domains /\ Retagged \subseteq Domains
  BY ResearchAssumption
<1>3. ASSUME Event PROVE events' \in 0..MaxEvents
  BY <1>1, <1>2, <1>3 DEF Event, DbTyped
<1>4. CASE Hour
  <2>1. now' \in 0..MaxNow
    BY <1>1, <1>2, <1>4 DEF Hour, DbTyped
  <2>2. DbTyped'
    BY <1>1, <1>4, <2>1 DEF Hour, DbTyped
  <2> QED
    BY <1>4, <2>2, SurroundingsKeep DEF Hour
<1>5. ASSUME NEW d \in Lockable, ToggleLock(d) PROVE ResStep
  <2>1. locked' \subseteq Domains
    BY <1>1, <1>2, <1>5 DEF ToggleLock, DbTyped
  <2>2. DbTyped'
    BY <1>1, <1>3, <1>5, <2>1 DEF ToggleLock, DbTyped
  <2> QED
    BY <1>5, <2>2, SurroundingsKeep DEF ToggleLock
<1>6. ASSUME NEW d \in Retagged, Retag(d) PROVE ResStep
  <2>1. tag' \in [Domains -> Tags]
    BY <1>1, <1>2, <1>6 DEF Retag, DbTyped
  <2>2. DbTyped'
    BY <1>1, <1>3, <1>6, <2>1 DEF Retag, DbTyped
  <2> QED
    BY <1>6, <2>2, SurroundingsKeep DEF Retag
<1>7. ASSUME NEW r \in Runs, Cancel(r) PROVE ResStep
  <2> DEFINE x == [run[r] EXCEPT !.cancelled = TRUE]
  <2>1. /\ run' = [run EXCEPT ![r] = x] /\ events' \in 0..MaxEvents
        /\ UNCHANGED <<stored, localSaved, locked, tag, now>>
    BY <1>3, <1>7 DEF Cancel
  <2>2. /\ x.phase = run[r].phase /\ x.unread = run[r].unread /\ x.blocked = run[r].blocked
        /\ x.task = run[r].task /\ x \in RunType
    BY <1>1 DEF RunType
  <2> HIDE DEF x
  <2>3. RunOK(x)
    BY <1>1, <2>2 DEF RunOK
  <2>4. run'[r] = x /\ \A q \in Runs \ {r} : run'[q] = run[q]
    BY <1>1, <2>1
  <2>5. run' \in [Runs -> RunType] /\ \A q \in Runs : RunOK(run'[q])
    BY <1>1, <2>1, <2>2, <2>3, <2>4
  <2>6. DbTyped'
    BY <1>1, <2>1 DEF DbTyped
  <2>7. ResIInv'
    BY <2>5, <2>6, Zenon DEF ResIInv
  <2> QED
    BY <2>1, <2>2, <2>4, <2>7 DEF ResStep
<1> QED
  BY <1>4, <1>5, <1>6, <1>7

(* The threads of a run. *)
LEMMA TasksKeep ==
    ASSUME ResIInv, NEW r \in Runs, NEW t \in Tasks, TaskStep(r, t)
    PROVE  ResStep
<1> DEFINE task == run[r].task[t]
<1>1. /\ run[r] \in RunType /\ RunOK(run[r]) /\ run \in [Runs -> RunType] /\ DbTyped
      /\ task \in Task /\ MaxAttempts \in Nat /\ 1 <= MaxAttempts
  BY ResearchAssumption DEF ResIInv, RunType
<1>2. CASE StartTask(r, t)
  <2> DEFINE y == [task EXCEPT !.st = "running", !.attempt = 1]
  <2>1. /\ run' = [run EXCEPT ![r].task[t] = y] /\ UNCHANGED dbVars
        /\ run[r].phase = "asking" /\ task.st = "queued"
    BY <1>2 DEF StartTask
  <2>2. 1 \in 0..MaxAttempts
    BY <1>1
  <2>3. y \in Task /\ y.st = "running"
    BY <1>1, <2>2 DEF Task, TaskStates
  <2>4. \A u \in Tasks \ {t} : run[r].task[u].st = "running" => u[2] # t[2]
    BY <1>2 DEF StartTask, Started
  <2>5. t[1] \notin run[r].blocked
    BY <1>1, <2>1 DEF RunOK
  <2> HIDE DEF y, task
  <2> QED
    BY <2>1, <2>3, <2>4, <2>5, TaskChanges
<1>3. ASSUME task.st = "running"
      PROVE  run[r].phase \in {"asking", "stopping"} /\ t[1] \notin run[r].blocked
  BY <1>1, <1>3 DEF RunOK
<1>4. ASSUME task.st = "running", NEW st \in {"got", "failed", "stopped"},
             NEW found \in Finding \union {Missing}, EndTask(r, t, st, found)
      PROVE  ResStep
  <2> DEFINE y == [task EXCEPT !.st = st, !.attempt = 0, !.found = found]
  <2>1. run' = [run EXCEPT ![r].task[t] = y] /\ UNCHANGED dbVars
    BY <1>4 DEF EndTask
  <2>2. 0 \in 0..MaxAttempts
    BY <1>1
  <2>3. y \in Task /\ y.st = st
    BY <1>1, <2>2 DEF Task, TaskStates
  <2> HIDE DEF y, task
  <2> QED
    BY <1>3, <1>4, <2>1, <2>3, TaskChanges
<1>5. CASE TaskRetries(r, t)
  <2> DEFINE y == [task EXCEPT !.attempt = task.attempt + 1]
  <2>1. /\ run' = [run EXCEPT ![r].task[t] = y] /\ UNCHANGED dbVars
        /\ task.st = "running" /\ task.attempt < MaxAttempts
    BY <1>1, <1>5 DEF TaskRetries
  <2>2. task.attempt + 1 \in 0..MaxAttempts
    BY <1>1, <2>1 DEF Task
  <2>3. y \in Task /\ y.st = "running"
    BY <1>1, <2>1, <2>2 DEF Task
  <2>4. \A u \in Tasks \ {t} : run[r].task[u].st = "running" => u[2] # t[2]
    BY <1>1, <2>1 DEF RunOK
  <2> HIDE DEF y, task
  <2> QED
    BY <1>3, <2>1, <2>3, <2>4, TaskChanges
<1>6. CASE TaskAnswers(r, t)
  <2>1. Found(t) \in Finding
    BY <1>1, FoundIsFinding
  <2> QED
    BY <1>4, <1>6, <2>1 DEF TaskAnswers
<1>7. CASE TaskFails(r, t)
  BY <1>4, <1>7 DEF TaskFails
<1>8. CASE TaskStops(r, t)
  BY <1>4, <1>8 DEF TaskStops
<1> QED
  BY <1>2, <1>5, <1>6, <1>7, <1>8 DEF TaskStep

(* At the start nothing is asked, and what is stored is old enough. *)
LEMMA ResIInvInit == ResInit => ResIInv
<1> SUFFICES ASSUME ResInit PROVE ResIInv
  OBVIOUS
<1> DEFINE longest == Max({SourceHours[s] : s \in Sources})
           tasks == [t \in Tasks |-> NoTask]
           x == [phase |-> "idle", unread |-> Domains, blocked |-> {}, task |-> tasks, cancelled |-> FALSE]
<1>1. PICK f \in {Missing} \union [at : {0}, expires : {longest}] : stored = [t \in Tasks |-> f]
  BY DEF ResInit
<1>2. ASSUME NEW t \in Tasks PROVE f \in Finding \union {Missing}
  <2>1. t[2] \in Sources
    BY DEF Tasks
  <2>2. longest \in Nat
    BY <2>1, LongestInterval
  <2>3. Times = 0..(MaxNow + longest)
    BY DEF Times
  <2> HIDE DEF longest
  <2>4. longest \in Times /\ 0 \in 0..MaxNow
    BY <2>2, <2>3, ResearchAssumption
  <2> QED
    BY <1>1, <2>4 DEF Finding
<1>3. stored \in [Tasks -> Finding \union {Missing}]
  BY <1>1, <1>2
<1>4. /\ localSaved = {} /\ locked \in SUBSET Lockable /\ tag \in [Domains -> Tags]
      /\ now = 0 /\ events = 0 /\ run = [r \in Runs |-> x]
  BY DEF ResInit
<1>5. DbTyped
  BY <1>3, <1>4, ResearchAssumption DEF DbTyped
<1>6. tasks \in [Tasks -> Task] /\ \A t \in Tasks : tasks[t].st = "none"
  BY ResearchAssumption DEF NoTask, Task, TaskStates
<1> HIDE DEF tasks
<1>7. x \in RunType /\ x.blocked = {} /\ x.task = tasks
  BY <1>6 DEF RunType, Phases
<1> HIDE DEF x
<1>8. RunOK(x)
  BY <1>6, <1>7 DEF RunOK
<1> QED
  BY <1>4, <1>5, <1>7, <1>8 DEF ResIInv

(* Every step of the research. *)
LEMMA ResStepKeeps == ResIInv /\ [ResNext]_resVars => ResStep
<1> SUFFICES ASSUME ResIInv, [ResNext]_resVars PROVE ResStep
  OBVIOUS
<1>1. CASE UNCHANGED resVars
  <2>1. DbTyped' /\ run' = run /\ stored' = stored
    BY <1>1 DEF resVars, ResIInv, DbTyped
  <2> QED
    BY <2>1, SurroundingsKeep
<1>2. ASSUME NEW r \in Runs, RunStep(r) PROVE ResStep
  BY <1>2, PhasesKeep, SubmitKeeps, CancelKeeps, SaveKeeps, ReadKeeps DEF RunStep
<1>3. ASSUME NEW r \in Runs, NEW t \in Tasks, TaskStep(r, t) PROVE ResStep
  BY <1>3, TasksKeep
<1>4. ASSUME \/ \E r \in Runs : Cancel(r)
             \/ \E d \in Lockable : ToggleLock(d)
             \/ \E d \in Retagged : Retag(d)
             \/ Hour
      PROVE  ResStep
  BY <1>4, EventsKeep
<1> QED
  BY <1>1, <1>2, <1>3, <1>4 DEF ResNext

(* Fresh means young for the source and for the tags of now. *)
LEMMA FreshIsYoung ==
    ASSUME ResIInv, NEW t \in Tasks, Fresh(t)
    PROVE  now - stored[t].at < SourceHours[t[2]] /\ now - stored[t].at < Ceiling[tag[t[1]]]
<1> DEFINE f == stored[t]
           e == EffectiveExpiry(t, f)
<1>1. DbTyped /\ f \in Finding /\ e > now /\ now \in Nat
  BY ResearchAssumption DEF Fresh, ResIInv, DbTyped
<1>2. /\ e <= f.at + SourceHours[t[2]] /\ e <= f.at + Ceiling[tag[t[1]]]
      /\ e \in Nat /\ f.at \in Nat /\ SourceHours[t[2]] \in Nat /\ Ceiling[tag[t[1]]] \in Nat
  BY <1>1, ExpiryIsEarlier
<1> HIDE DEF e
<1> QED
  BY <1>1, <1>2

(* One thread per source. *)
LEMMA OneThreadPerSource ==
    ASSUME ResIInv, NEW r \in Runs, NEW s \in Sources
    PROVE  Cardinality({t \in Started(r) : t[2] = s}) <= 1
<1> DEFINE S == {t \in Started(r) : t[2] = s}
<1>1. \A u, v \in S : u = v
  BY DEF Started, ResIInv, RunOK
<1> SUFFICES Cardinality(S) <= 1
  BY Zenon
<1> HIDE DEF S
<1>2. CASE S = {}
  BY <1>2, FS_EmptySet
<1>3. CASE S # {}
  <2>1. PICK u \in S : TRUE
    BY <1>3
  <2>2. S = {u}
    BY <1>1, <2>1
  <2>3. Cardinality(S) = 1
    BY <2>2, FS_Singleton
  <2> QED
    BY <2>3
<1> QED
  BY <1>2, <1>3

(* The research runs, for any runs, domains, sources, intervals and tags:   *)
(* no run, cancelled or not, loses stored evidence, replaces that of a      *)
(* domain it found protected, serves what is too old for the source or for  *)
(* the tags of the moment, asks a source two things at once or leaves a     *)
(* thread behind (research.py research_many).                               *)
THEOREM EvidenceIsKept == ResSafety => EvidenceKept
<1>1. ResInit => ResIInv
  BY ResIInvInit
<1>2. ResIInv /\ [ResNext]_resVars => ResStep
  BY ResStepKeeps
<1>3. ResStep => ResIInv'
  BY DEF ResStep
<1>4. ResIInv => ResTypeOK /\ NoThreadLeft
  <2> SUFFICES ASSUME ResIInv PROVE ResTypeOK /\ NoThreadLeft
    OBVIOUS
  <2>1. \A r \in Runs, s \in Sources : Cardinality({t \in Started(r) : t[2] = s}) <= 1
    BY OneThreadPerSource
  <2>2. ResTypeOK
    BY <2>1 DEF ResTypeOK, ResIInv, DbTyped
  <2>3. NoThreadLeft
    BY DEF NoThreadLeft, Started, ResIInv, RunOK
  <2> QED
    BY <2>2, <2>3
<1>5. ResStep => \A t \in Tasks : stored[t] # Missing => stored'[t] # Missing
  BY DEF ResStep
<1>6. ResIInv /\ ResStep => \A r \in Runs, t \in Tasks :
        run[r].task[t].st # "kept" /\ run'[r].task[t].st = "kept"
            => now - stored[t].at < SourceHours[t[2]] /\ now - stored[t].at < Ceiling[tag[t[1]]]
  BY FreshIsYoung DEF ResStep
<1>7. ResStep => \A r \in Runs, t \in Tasks :
        run[r].phase # "done" /\ run'[r].phase = "done" /\ t[1] \in run[r].blocked
            => stored'[t] = stored[t]
  BY DEF ResStep
<1>8. ResSafety => []ResIInv
  BY <1>1, <1>2, <1>3, PTL DEF ResSafety
<1>9. ResSafety => EvidenceRetained
  BY <1>2, <1>5, <1>8, PTL DEF ResSafety, EvidenceRetained
<1>10. ResSafety => ServedIsYoung
  BY <1>2, <1>6, <1>8, PTL DEF ResSafety, ServedIsYoung
<1>11. ResSafety => ProtectedEvidenceKept
  BY <1>2, <1>7, <1>8, PTL DEF ResSafety, ProtectedEvidenceKept
<1> QED
  BY <1>4, <1>8, <1>9, <1>10, <1>11, PTL DEF EvidenceKept

-----------------------------------------------------------------------------
(* What the built-in sources say. *)

FullHarm == {"malicious", "phishing", "malware", "command_and_control"}
Harm == FullHarm \union {"malicious_scan", "suspicious"}
Reassuring == {"benign", "safe", "clean", "trusted", "non_tracking", "privacy_safe"}
Silence == {"no_match", "no_detection", "unranked"}

(* What makes a finding fit for every place that judges it. *)
Sound(f) ==
    /\ f.source \in DOMAIN SourceScore /\ f.conf \in 0..100
    /\ f.verdict \notin Reassuring
    /\ f.verdict \in Silence => ~f.relevant
    /\ f.verdict \in FullHarm => f.relevant
    /\ (f.relevant /\ f.signal = "security" /\ f.verdict # "security_antifraud") => f.verdict \in Harm

(* The fields of a finding. *)
LEMMA FactFields ==
    ASSUME NEW source, NEW signal, NEW verdict, NEW conf, NEW relevant
    PROVE  LET f == Fact(source, signal, verdict, conf, relevant)
           IN  /\ f.source = source /\ f.signal = signal /\ f.verdict = verdict
               /\ f.conf = conf /\ f.relevant = relevant
               /\ f = [source |-> source, n |-> 1, signal |-> signal, verdict |-> verdict,
                       conf |-> conf, relevant |-> relevant, visible |-> TRUE]
BY DEF Fact

(* The matches of a catalogue are as sound as the first of them. *)
LEMMA MatchesAreSound ==
    ASSUME NEW source, NEW signal, NEW verdict, NEW conf, NEW relevant,
           Sound(Fact(source, signal, verdict, conf, relevant)),
           NEW found \in Matches(Fact(source, signal, verdict, conf, relevant)), NEW g \in found
    PROVE  Sound(g)
<1> DEFINE f == Fact(source, signal, verdict, conf, relevant)
<1>1. PICK i : g = [f EXCEPT !.n = i]
  BY DEF Matches
<1>2. /\ g.source = f.source /\ g.signal = f.signal /\ g.verdict = f.verdict
      /\ g.conf = f.conf /\ g.relevant = f.relevant
  BY <1>1 DEF Fact
<1> QED
  BY <1>2 DEF Sound

(* A source that found nothing says nothing. *)
LEMMA NegativeIsSound ==
    ASSUME NEW source \in DOMAIN SourceScore, NEW f \in Negative(source)
    PROVE  Sound(f)
<1>1. f.source = source /\ f.conf = 0 /\ f.verdict = "no_match" /\ f.relevant = FALSE
  BY DEF Negative, Fact
<1> QED
  BY <1>1 DEF Sound, Reassuring, Silence, FullHarm

(* The sources that have a score. *)
LEMMA Scored ==
    DOMAIN SourceScore = {"phishtank", "threatfox", "virustotal", "disconnect_tracking",
            "adguard_services", "rdap", "dns_records", "ripestat", "cloudflare_radar", "urlscan",
            "netcraft", "hagezi_tif_mini", "easyprivacy_trackingservers", "urlhaus", "crtsh",
            "google_safe_browsing", "compatibility_profile", "repository_lists"}
BY DEF SourceScore

(* Scores are percentages. *)
LEMMA ScoreBounds == \A s \in DOMAIN SourceScore : SourceScore[s] \in 0..100
BY DEF SourceScore

(* The sources that only describe. *)
LEMMA DescriptionsAreSound ==
    ASSUME NEW found \in DnsRecords \union Rdap \union Ripestat \union Netcraft \union Crtsh
                           \union CloudflareRadar \union AdguardServices,
           NEW f \in found
    PROVE  Sound(f)
<1>1. CASE found \in DnsRecords
  <2>1. \/ found = Negative("dns_records")
        \/ found = {Fact("dns_records", "infrastructure", "dns_context", 99, FALSE)}
        \/ found = {Fact("dns_records", "infrastructure", "dns_context", 95, FALSE)}
    BY <1>1 DEF DnsRecords, DescribedBy
  <2>2. /\ Sound(Fact("dns_records", "infrastructure", "dns_context", 99, FALSE))
        /\ Sound(Fact("dns_records", "infrastructure", "dns_context", 95, FALSE))
    BY Scored DEF Sound, Fact, Reassuring, Silence, FullHarm, Harm
  <2> QED
    BY <2>1, <2>2, NegativeIsSound, Scored
<1>2. CASE found \in Rdap
  <2>1. \/ found = Negative("rdap")
        \/ found = {Fact("rdap", "identity", "registration_context", 98, FALSE)}
    BY <1>2 DEF Rdap, DescribedBy
  <2>2. Sound(Fact("rdap", "identity", "registration_context", 98, FALSE))
    BY Scored DEF Sound, Fact, Reassuring, Silence, FullHarm, Harm
  <2> QED
    BY <2>1, <2>2, NegativeIsSound, Scored
<1>3. CASE found \in Ripestat
  <2>1. \/ found = Negative("ripestat")
        \/ found \in Matches(Fact("ripestat", "infrastructure", "network_context", 98, FALSE))
    BY <1>3 DEF Ripestat
  <2>2. Sound(Fact("ripestat", "infrastructure", "network_context", 98, FALSE))
    BY Scored DEF Sound, Fact, Reassuring, Silence, FullHarm, Harm
  <2> QED
    BY <2>1, <2>2, NegativeIsSound, MatchesAreSound, Scored
<1>4. CASE found \in Netcraft
  <2>1. \/ found = Negative("netcraft")
        \/ found = {Fact("netcraft", "infrastructure", "site_context", 80, FALSE)}
    BY <1>4 DEF Netcraft, DescribedBy
  <2>2. Sound(Fact("netcraft", "infrastructure", "site_context", 80, FALSE))
    BY Scored DEF Sound, Fact, Reassuring, Silence, FullHarm, Harm
  <2> QED
    BY <2>1, <2>2, NegativeIsSound, Scored
<1>5. CASE found \in Crtsh
  <2>1. \/ found = Negative("crtsh")
        \/ found = {Fact("crtsh", "identity", "certificate_transparency_context", 94, FALSE)}
    BY <1>5 DEF Crtsh, DescribedBy
  <2>2. Sound(Fact("crtsh", "identity", "certificate_transparency_context", 94, FALSE))
    BY Scored DEF Sound, Fact, Reassuring, Silence, FullHarm, Harm
  <2> QED
    BY <2>1, <2>2, NegativeIsSound, Scored
<1>6. CASE found \in CloudflareRadar
  <2>1. \/ found = Negative("cloudflare_radar")
        \/ found = {Fact("cloudflare_radar", "popularity", "popular", 90, FALSE)}
        \/ found = {Fact("cloudflare_radar", "popularity", "unranked", 90, FALSE)}
    BY <1>6 DEF CloudflareRadar
  <2>2. /\ Sound(Fact("cloudflare_radar", "popularity", "popular", 90, FALSE))
        /\ Sound(Fact("cloudflare_radar", "popularity", "unranked", 90, FALSE))
    BY Scored DEF Sound, Fact, Reassuring, Silence, FullHarm, Harm
  <2> QED
    BY <2>1, <2>2, NegativeIsSound, Scored
<1>7. CASE found \in AdguardServices
  <2>1. \/ found = Negative("adguard_services")
        \/ found \in Matches(Fact("adguard_services", "identity", "service_match", 92, FALSE))
    BY <1>7 DEF AdguardServices
  <2>2. Sound(Fact("adguard_services", "identity", "service_match", 92, FALSE))
    BY Scored DEF Sound, Fact, Reassuring, Silence, FullHarm, Harm
  <2> QED
    BY <2>1, <2>2, NegativeIsSound, MatchesAreSound, Scored
<1> QED
  BY <1>1, <1>2, <1>3, <1>4, <1>5, <1>6, <1>7

(* The sources that name threats. *)
LEMMA ThreatsAreSound ==
    ASSUME NEW found \in Virustotal \union Threatfox \union Urlscan \union Urlhaus
                           \union GoogleSafeBrowsing \union Phishtank,
           NEW f \in found
    PROVE  Sound(f)
<1>1. CASE found \in Virustotal
  <2>1. \/ found = Negative("virustotal")
        \/ found = {Fact("virustotal", "security", "malicious", 90, TRUE)}
        \/ found = {Fact("virustotal", "security", "suspicious", 70, FALSE)}
        \/ found = {Fact("virustotal", "security", "no_detection", 60, FALSE)}
    <3>1. \A m \in {0, 1, 2, 3}, e \in {0, 1} : VirustotalVerdict(m, e) \in
            {Fact("virustotal", "security", "malicious", 90, TRUE),
             Fact("virustotal", "security", "suspicious", 70, FALSE),
             Fact("virustotal", "security", "no_detection", 60, FALSE)}
      BY DEF VirustotalVerdict
    <3>2. found = Negative("virustotal")
          \/ \E m \in {0, 1, 2, 3}, e \in {0, 1} : found = {VirustotalVerdict(m, e)}
      BY <1>1 DEF Virustotal
    <3> QED
      BY <3>1, <3>2
  <2>2. /\ Sound(Fact("virustotal", "security", "malicious", 90, TRUE))
        /\ Sound(Fact("virustotal", "security", "suspicious", 70, FALSE))
        /\ Sound(Fact("virustotal", "security", "no_detection", 60, FALSE))
    BY Scored DEF Sound, Fact, Reassuring, Silence, FullHarm, Harm
  <2> QED
    BY <2>1, <2>2, NegativeIsSound, Scored
<1>2. CASE found \in Threatfox
  <2>1. CASE found = Negative("threatfox")
    BY <2>1, NegativeIsSound, Scored
  <2>2. CASE found # Negative("threatfox")
    <3>1. PICK t \in {"botnet_cc", "cc_skimming", "payload_delivery", "unknown"}, c \in {-1, 0, 1, 50, 120} :
            found \in Matches(ThreatfoxFact(t, c))
      BY <1>2, <2>2 DEF Threatfox
    <3>2. ThreatfoxVerdict(t) \in {"command_and_control", "security_antifraud", "malware"}
      BY DEF ThreatfoxVerdict
    <3>3. ThreatfoxConfidence(c) \in 0..100
      BY DEF ThreatfoxConfidence
    <3>4. Sound(ThreatfoxFact(t, c))
      BY <3>2, <3>3, Scored DEF Sound, ThreatfoxFact, Fact, Reassuring, Silence, FullHarm, Harm
    <3> QED
      <4> DEFINE verdict == ThreatfoxVerdict(t)
                 conf == ThreatfoxConfidence(c)
      <4>1. /\ found \in Matches(Fact("threatfox", "security", verdict, conf, TRUE))
            /\ Sound(Fact("threatfox", "security", verdict, conf, TRUE))
        BY <3>1, <3>4 DEF ThreatfoxFact
      <4> HIDE DEF verdict, conf
      <4> QED
        BY <4>1, MatchesAreSound
  <2> QED
    BY <2>1, <2>2
<1>3. CASE found \in Urlscan
  <2>1. \/ found = Negative("urlscan") \/ found = {}
        \/ found \in Matches(Fact("urlscan", "behavior", "malicious_scan", 90, FALSE))
        \/ found \in Matches(Fact("urlscan", "behavior", "scan_context", 65, FALSE))
    BY <1>3 DEF Urlscan
  <2>2. Sound(Fact("urlscan", "behavior", "malicious_scan", 90, FALSE))
        /\ Sound(Fact("urlscan", "behavior", "scan_context", 65, FALSE))
    BY Scored DEF Sound, Fact, Reassuring, Silence, FullHarm, Harm
  <2> QED
    BY <2>1, <2>2, NegativeIsSound, MatchesAreSound, Scored
<1>4. CASE found \in Urlhaus
  <2>1. \/ found = Negative("urlhaus")
        \/ found = {Fact("urlhaus", "security", "malware", 99, TRUE)}
        \/ found = {Fact("urlhaus", "security", "suspicious", 82, FALSE)}
        \/ found = {Fact("urlhaus", "security", "historical_malware", 90, FALSE)}
    BY <1>4 DEF Urlhaus, UrlhausVerdict
  <2>2. /\ Sound(Fact("urlhaus", "security", "malware", 99, TRUE))
        /\ Sound(Fact("urlhaus", "security", "suspicious", 82, FALSE))
        /\ Sound(Fact("urlhaus", "security", "historical_malware", 90, FALSE))
    BY Scored DEF Sound, Fact, Reassuring, Silence, FullHarm, Harm
  <2> QED
    BY <2>1, <2>2, NegativeIsSound, Scored
<1>5. CASE found \in GoogleSafeBrowsing
  <2>1. \/ found = Negative("google_safe_browsing")
        \/ \E v \in {"phishing", "malware", "suspicious", "malicious"} :
              found = {Fact("google_safe_browsing", "security", v, 99, TRUE)}
    BY <1>5 DEF GoogleSafeBrowsing, SafeBrowsingVerdict
  <2>2. \A v \in {"phishing", "malware", "suspicious", "malicious"} :
            Sound(Fact("google_safe_browsing", "security", v, 99, TRUE))
    BY Scored DEF Sound, Fact, Reassuring, Silence, FullHarm, Harm
  <2> QED
    BY <2>1, <2>2, NegativeIsSound, Scored
<1>6. CASE found \in Phishtank
  <2>1. \/ found = Negative("phishtank")
        \/ found \in Matches(Fact("phishtank", "security", "phishing", 98, TRUE))
    BY <1>6 DEF Phishtank
  <2>2. Sound(Fact("phishtank", "security", "phishing", 98, TRUE))
    BY Scored DEF Sound, Fact, Reassuring, Silence, FullHarm, Harm
  <2> QED
    BY <2>1, <2>2, NegativeIsSound, MatchesAreSound, Scored
<1> QED
  BY <1>1, <1>2, <1>3, <1>4, <1>5, <1>6

(* The lists of trackers and threats, and the local profiles. *)
LEMMA ListsAreSound ==
    ASSUME NEW found \in DisconnectTracking \union RepositoryLists \union CompatibilityProfile,
           NEW f \in found
    PROVE  Sound(f)
<1>1. CASE found \in DisconnectTracking
  <2>1. CASE found = Negative("disconnect_tracking")
    BY <2>1, NegativeIsSound, Scored
  <2>2. CASE found # Negative("disconnect_tracking")
    <3>1. PICK c \in {"advertising", "analytics", "fingerprinting", "session_replay",
                      "email", "social", "cryptomining", "content"} :
            found \in Matches(Fact("disconnect_tracking", "privacy", DisconnectVerdict(c), 90, TRUE))
      BY <1>1, <2>2 DEF DisconnectTracking
    <3>2. DisconnectVerdict(c) \in {"advertising", "analytics", "cross_site_tracking", "email_tracking",
                                    "social_tracking", "cryptomining", "content"}
      BY DEF DisconnectVerdict
    <3>3. Sound(Fact("disconnect_tracking", "privacy", DisconnectVerdict(c), 90, TRUE))
      BY <3>2, Scored DEF Sound, Fact, Reassuring, Silence, FullHarm, Harm
    <3> QED
      BY <3>1, <3>3, MatchesAreSound
  <2> QED
    BY <2>1, <2>2
<1>2. CASE found \in RepositoryLists
  <2> DEFINE hagezi == Fact("hagezi_tif_mini", "security", "suspicious", 92, TRUE)
             easyprivacy == Fact("easyprivacy_trackingservers", "privacy", "tracker", 90, TRUE)
  <2>1. \/ found = Negative("repository_lists") \/ found \in Matches(hagezi)
        \/ found \in Matches(easyprivacy) \/ found = {hagezi, easyprivacy}
    BY <1>2 DEF RepositoryLists
  <2>2. Sound(hagezi) /\ Sound(easyprivacy)
    BY Scored DEF Sound, Fact, Reassuring, Silence, FullHarm, Harm
  <2> QED
    BY <2>1, <2>2, NegativeIsSound, MatchesAreSound, Scored
<1>3. CASE found \in CompatibilityProfile
  <2>1. found = {} \/ found = {Fact("compatibility_profile", "function", "protected_service", 100, TRUE)}
    BY <1>3 DEF CompatibilityProfile
  <2>2. Sound(Fact("compatibility_profile", "function", "protected_service", 100, TRUE))
    BY Scored DEF Sound, Fact, Reassuring, Silence, FullHarm, Harm
  <2> QED
    BY <2>1, <2>2, NegativeIsSound, Scored
<1> QED
  BY <1>1, <1>2, <1>3

(* Whatever a source answers makes sound findings. *)
LEMMA HandlersAreSound ==
    ASSUME NEW source \in DOMAIN Handlers, NEW found \in Handlers[source], NEW f \in found
    PROVE  Sound(f)
<1>1. found \in (DnsRecords \union Rdap \union Ripestat \union Netcraft \union Crtsh
                    \union CloudflareRadar \union AdguardServices)
        \union (Virustotal \union Threatfox \union Urlscan \union Urlhaus
                    \union GoogleSafeBrowsing \union Phishtank)
        \union (DisconnectTracking \union RepositoryLists \union CompatibilityProfile)
  BY DEF Handlers
<1> QED
  BY <1>1, DescriptionsAreSound, ThreatsAreSound, ListsAreSound

(* The sides a verdict can take. *)
LEMMA StancesOfVerdict ==
    ASSUME NEW v
    PROVE  /\ \A s \in Stances(v) : /\ s.side \in {"harmful", "safe", "tracking", "non_tracking"}
                                    /\ s.side \in {"safe", "non_tracking"} => v \in Reassuring
                                    /\ (s.side = "harmful" /\ s.strength = 100) => v \in FullHarm
           /\ v \in Harm => \E s \in Stances(v) : s.side = "harmful"
<1>1. /\ DOMAIN HarmfulVerdicts = Harm
      /\ DOMAIN SafeVerdicts \subseteq Reassuring /\ DOMAIN NonTrackingVerdicts \subseteq Reassuring
  BY DEF HarmfulVerdicts, SafeVerdicts, NonTrackingVerdicts, Harm, FullHarm, Reassuring
<1>2. \A w \in DOMAIN HarmfulVerdicts : HarmfulVerdicts[w] = 100 => w \in FullHarm
  BY DEF HarmfulVerdicts, FullHarm
<1>3. \A side, strength : Stance(side, strength).side = side /\ Stance(side, strength).strength = strength
  BY DEF Stance
<1>4. \A s \in Stances(v) :
        \/ v \in DOMAIN HarmfulVerdicts /\ s = Stance("harmful", HarmfulVerdicts[v])
        \/ v \in DOMAIN SafeVerdicts /\ s = Stance("safe", SafeVerdicts[v])
        \/ v \in DOMAIN TrackingVerdicts /\ s = Stance("tracking", TrackingVerdicts[v])
        \/ v \in DOMAIN NonTrackingVerdicts /\ s = Stance("non_tracking", NonTrackingVerdicts[v])
  BY Zenon DEF Stances
<1>5. v \in DOMAIN HarmfulVerdicts => Stance("harmful", HarmfulVerdicts[v]) \in Stances(v)
  BY Zenon DEF Stances
<1> QED
  BY <1>1, <1>2, <1>3, <1>4, <1>5

VerdictIInv ==
    answered \subseteq DOMAIN Handlers /\ \A f \in evidence : Sound(f)

(* Sound findings make the judgements agree. *)
LEMMA SoundIsEnough == VerdictIInv => VerdictInv
<1> SUFFICES ASSUME VerdictIInv PROVE VerdictInv
  OBVIOUS
<1>1. \A f \in evidence : Sound(f)
  BY DEF VerdictIInv
<1>2. VerdictTypeOK
  <2>1. \A f \in evidence : Score(f) \in 0..10000
    <3> TAKE f \in evidence
    <3>1. SourceScore[f.source] \in 0..100 /\ f.conf \in 0..100
      BY <1>1, ScoreBounds DEF Sound
    <3>2. \A a, b \in 0..100 : 65 * a + 35 * b \in 0..10000
      OBVIOUS
    <3> QED
      <4> DEFINE a == SourceScore[f.source]
                 b == f.conf
      <4>1. Score(f) = 65 * a + 35 * b
        BY Zenon DEF Score
      <4>2. a \in 0..100 /\ b \in 0..100
        BY <3>1
      <4> HIDE DEF a, b
      <4>3. 65 * a + 35 * b \in 0..10000
        BY <4>2
      <4> QED
        BY <4>1, <4>3
  <2> QED
    BY <1>1, <2>1 DEF VerdictIInv, VerdictTypeOK, Sound
<1>3. Contradictions(Visible(evidence)) = {}
  <2>1. \A c \in Candidates(Visible(evidence)) : c.side \in {"harmful", "tracking"}
    <3> TAKE c \in Candidates(Visible(evidence))
    <3>1. PICK f \in Visible(evidence) : \E s \in Stances(f.verdict) :
            c = [by |-> f, side |-> s.side, strength |-> s.strength]
      BY DEF Candidates
    <3>2. f.verdict \notin Reassuring
      BY <1>1 DEF Visible, Sound
    <3> QED
      BY <3>1, <3>2, StancesOfVerdict
  <2>2. \A p \in Candidates(Visible(evidence)) \X Candidates(Visible(evidence)) :
            {p[1].side, p[2].side} \notin Opposing
    BY <2>1 DEF Opposing
  <2> QED
    BY <2>2 DEF Contradictions
<1>4. DecisionCount({f \in evidence : f.verdict \in Silence}) = 0
  <2>1. {f \in Visible({g \in evidence : g.verdict \in Silence}) : f.relevant} = {}
    BY <1>1 DEF Visible, Sound
  <2> QED
    BY <2>1, FS_EmptySet DEF DecisionCount
<1>5. FullStrengthIsDecisive /\ DecisiveIsHarmful
  BY <1>1, StancesOfVerdict DEF FullStrengthIsDecisive, DecisiveIsHarmful, Sound
<1>6. DecisiveIsShown
  BY DEF DecisiveIsShown, Shown, Before
<1> QED
  BY <1>2, <1>3, <1>4, <1>5, <1>6 DEF VerdictInv, MissingIsNeutral, Silence

(* Whichever built-in sources answer, and whatever they answer, the places  *)
(* that judge a finding agree: no missing match reassures, harm at full     *)
(* strength decides, what decides is harm, and the prompt leaves nothing    *)
(* decisive out for something that is not (research_context,                *)
(* detect_contradictions and the handlers), for any size of the prompt.     *)
THEOREM VerdictsAgree == VerdictSafety => []VerdictInv
<1>1. VerdictInit => VerdictIInv
  BY DEF VerdictInit, VerdictIInv
<1>2. VerdictIInv /\ [VerdictNext]_verdictVars => VerdictIInv'
  <2> SUFFICES ASSUME VerdictIInv, [VerdictNext]_verdictVars PROVE VerdictIInv'
    OBVIOUS
  <2>1. CASE UNCHANGED verdictVars
    BY <2>1 DEF verdictVars, VerdictIInv
  <2>2. CASE VerdictNext
    <3>1. PICK source \in DOMAIN Handlers : Collect(source)
      BY <2>2 DEF VerdictNext
    <3>2. PICK found \in Handlers[source] : evidence' = evidence \union found
      BY <3>1 DEF Collect
    <3> QED
      BY <3>1, <3>2, HandlersAreSound DEF Collect, VerdictIInv
  <2> QED
    BY <2>1, <2>2
<1> QED
  BY <1>1, <1>2, SoundIsEnough, PTL DEF VerdictSafety
=============================================================================
