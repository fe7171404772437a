------------------------- MODULE ProviderDispatchProofs -------------------------
(***************************************************************************)
(* Proofs about ProviderDispatch, for any set of providers and domains,    *)
(* any orders, batch size and number of threads: a domain gets one primary *)
(* classification, no request outlives the batch, an answer that needed    *)
(* verification is confirmed or marked for review, and outside fallback    *)
(* mode an answer is never given up.                                       *)
(*                                                                         *)
(* The inductive invariant DispatchIInv says, mode by mode, who may be     *)
(* asked for what: distribution splits the domains, a fallback candidate   *)
(* is asked only for what its predecessors left, verification involves two *)
(* providers. The worker's reading of the results rests on what has been   *)
(* put into them by the time a phase hands over to it.                     *)
(***************************************************************************)
EXTENDS ProviderDispatch, FiniteSetTheorems, WellFoundedInduction,
        NaturalsInduction, TLAPS

---------------------------------------------------------------------------
(* The inductive invariant.                                                *)

(* A call answers only domains it was asked for, and nothing before its    *)
(* first request.                                                          *)
CallOK(c) ==
    /\ c.got \subseteq c.asked
    /\ \A b \in c.todo : b \subseteq c.asked
    /\ c.pc \in {"idle", "queued", "starting", "dropped"} => c.got = {}

(* Before the first calls nothing has been asked or reported.              *)
NothingYet ==
    /\ phase \in {"begin", "cooled"} =>
          /\ \A p \in Providers : calls[p].pc = "idle"
          /\ results = {} /\ errors = {} /\ verifier = NoProvider /\ toVerify = {}
    /\ phase \notin {"settle", "cancelled", "raised", "done"} =>
          \A d \in Domains : outcome[d] = "none"

(* Each phase belongs to its modes.                                        *)
PhaseOfMode ==
    /\ phase = "collect" => mode \in {"distribute", "compare"}
    /\ phase = "fallback" => mode = "fallback"
    /\ phase \in {"primary", "verify"} => mode = "verify"
    /\ mode # "verify" => verifier = NoProvider /\ toVerify = {}

(* Only candidates are asked, only a collecting dispatcher has calls that  *)
(* no thread has taken, and what was reported has ended.                   *)
Reported ==
    /\ \A p \in Providers : calls[p].pc # "idle" => p \in cand
    /\ \A p \in Providers : calls[p].pc = "queued" => phase = "collect"
    /\ \A p \in results : Ended(p)
    /\ \A p \in errors :
          Ended(p) \/ (calls[p].pc = "idle" /\ phase \in {"settle", "done"})

(* Distribution: no domain is asked of two providers.                      *)
Shares ==
    mode = "distribute" =>
        \A p, q \in Providers : p # q => calls[p].asked \cap calls[q].asked = {}

(* The calls that have not been reported.                                  *)
Open(p) == calls[p].pc # "idle" /\ p \notin results \cup errors

(* Fallback: one candidate at a time, asked for what is missing.           *)
Chain ==
    phase = "fallback" =>
        /\ \A p \in results : calls[p].got \cap remaining = {}
        /\ \A p \in Providers : Open(p) => calls[p].asked \subseteq remaining
        /\ \A p, q \in Providers : Open(p) /\ Open(q) => p = q

(* Verification: the primary alone, then the primary and the verifier.     *)
Pair ==
    /\ phase = "primary" =>
          /\ results = {} /\ errors = {} /\ verifier = NoProvider /\ toVerify = {}
          /\ \A p, q \in Providers : calls[p].pc # "idle" /\ calls[q].pc # "idle" => p = q
    /\ mode = "verify" => \A p, q \in results \ {verifier} : p = q
    /\ phase = "verify" =>
          /\ verifier \in Providers \ results /\ results # {}
          /\ \A p \in Providers : calls[p].pc # "idle" => p = verifier \/ p \in results
          /\ \A p \in results : toVerify \subseteq calls[p].got

(* When the worker settles the rows, what needed verification and has no   *)
(* review mark has been confirmed.                                         *)
Confirmed ==
    mode = "verify" /\ phase = "settle" =>
        \A d \in toVerify \ review :
            \E p, q \in results : /\ p # q /\ verifier = q
                                  /\ d \in calls[p].got \cap calls[q].got /\ d \notin differs

(* Outside fallback mode every answer is in the results when the worker    *)
(* settles the rows, and there is none when the batch raised.              *)
Kept ==
    mode # "fallback" =>
        /\ phase = "collect" => \A p \in errors : calls[p].got = {} \/ p \in results
        /\ phase = "settle" => \A p \in Providers : calls[p].got = {} \/ p \in results
        /\ phase = "raised" => \A p \in Providers : calls[p].got = {}

DispatchIInv ==
    /\ TypeOK
    /\ \A p \in Providers : CallOK(calls[p])
    /\ NothingYet /\ PhaseOfMode /\ Reported
    /\ Shares /\ Chain /\ Pair /\ Confirmed /\ Kept
    /\ PrimaryOnce /\ NoOverlap /\ UnverifiedIsReviewed /\ AnswerNotLost

---------------------------------------------------------------------------
(* Lemmas about the operators.                                             *)

(* A nonempty set of naturals has a least element.                         *)
LEMMA LeastRank ==
    ASSUME NEW S \in SUBSET Nat, S # {}
    PROVE  \E x \in S : \A y \in S : x <= y
<1> DEFINE R == OpToRel(<, Nat)
<1> HIDE DEF R
<1>1. IsWellFoundedOn(R, Nat)
  BY NatLessThanWellFounded DEF R
<1>2. PICK x \in S : \A y \in S : ~(<<y, x>> \in R)
  BY <1>1, WFMin
<1>3. \A m, n \in Nat : m < n => <<m, n>> \in R
  BY Zenon DEF OpToRel, R
<1>4. ASSUME NEW y \in S PROVE ~(y < x)
  BY <1>2, <1>3, Zenon
<1> QED
  BY <1>4

(* First picks one of the providers it is given.                           *)
LEMMA FirstIsOne ==
    ASSUME NEW rank \in [Providers -> Nat], NEW S \in SUBSET Providers, S # {}
    PROVE  First(rank, S) \in S
<1> DEFINE T == {rank[p] : p \in S}
<1>1. T \in SUBSET Nat /\ T # {}
  OBVIOUS
<1>2. PICK x \in T : \A y \in T : x <= y
  BY <1>1, LeastRank
<1>3. \E p \in S : \A q \in S : rank[p] <= rank[q]
  BY <1>2
<1> QED
  BY <1>3 DEF First

(* What every step of a call does: it gets on with the domains it was      *)
(* asked for and touches no other call and nothing the dispatcher keeps.   *)
Moves(p, c) ==
    /\ calls[p].pc \in {"queued", "starting", "running"}
    /\ c.pc \in {"starting", "running", "ended"}
    /\ c.asked = calls[p].asked /\ CallOK(c)
    /\ calls' = [calls EXCEPT ![p] = c]
    /\ UNCHANGED <<mode, phase, cand, cancel, remaining, verifier, toVerify, results,
                   errors, review, outcome>>
    /\ cooling' \subseteq Providers /\ ahead' \subseteq Providers /\ differs' \subseteq Domains

(* A running call with other batches and answers within what was asked.    *)
LEMMA CallGetsOn ==
    ASSUME NEW c \in Call,
           NEW todo \in SUBSET (SUBSET c.asked), NEW got \in SUBSET c.asked
    PROVE  LET d == [c EXCEPT !.pc = "running", !.todo = todo, !.got = got]
           IN d \in Call /\ CallOK(d) /\ d.pc = "running" /\ d.asked = c.asked
<1> DEFINE d == [c EXCEPT !.pc = "running", !.todo = todo, !.got = got]
<1>0. todo \in SUBSET (SUBSET Domains) /\ got \in SUBSET Domains
  BY DEF Call
<1>1. d \in Call
  BY <1>0 DEF Call
<1>2. d.pc = "running" /\ d.asked = c.asked /\ d.todo = todo /\ d.got = got
  BY DEF Call
<1>3. CallOK(d)
  BY <1>2 DEF CallOK
<1> QED
  BY <1>1, <1>2, <1>3

(* The steps of a call are such moves.                                     *)
LEMMA CallStepMoves ==
    ASSUME TypeOK, NEW p \in Providers, CallOK(calls[p]), CallStep(p)
    PROVE  \E c \in Call : Moves(p, c)
<1> DEFINE c == calls[p]
           To(pc, cause) == [c EXCEPT !.pc = pc, !.cause = cause]
           On(todo, got) == [c EXCEPT !.pc = "running", !.todo = todo, !.got = got]
<1>0. c \in Call /\ CallOK(c) /\ c.cause \in Causes /\ calls \in [Providers -> Call]
      /\ c.asked \subseteq Domains /\ c.got \in SUBSET c.asked
      /\ c.todo \in SUBSET (SUBSET c.asked)
  BY DEF TypeOK, CallOK, Call
<1>1. ASSUME NEW pc \in {"starting", "running", "ended"}, NEW cause \in Causes,
             pc = "starting" => c.pc = "queued"
      PROVE  /\ To(pc, cause) \in Call /\ CallOK(To(pc, cause))
             /\ To(pc, cause).pc = pc /\ To(pc, cause).asked = c.asked
  <2> DEFINE d == To(pc, cause)
  <2>1. d \in Call
    BY <1>0, <1>1 DEF Call
  <2>2. d.pc = pc /\ d.asked = c.asked /\ d.todo = c.todo /\ d.got = c.got
    BY <1>0, <1>1 DEF Call
  <2> HIDE DEF c, d
  <2>3. CallOK(d)
    BY <1>0, <1>1, <2>2 DEF CallOK
  <2> QED
    BY <2>1, <2>2, <2>3 DEF d
<1>2. \A todo \in SUBSET (SUBSET c.asked), got \in SUBSET c.asked :
         /\ On(todo, got) \in Call /\ CallOK(On(todo, got))
         /\ On(todo, got).pc = "running" /\ On(todo, got).asked = c.asked
  BY <1>0, CallGetsOn
<1>3. CASE TakeCall(p)
  <2>1. calls' = [calls EXCEPT ![p] = To("starting", c.cause)]
    BY <1>0, <1>3 DEF TakeCall, Call
  <2>2. Moves(p, To("starting", c.cause))
    BY <1>0, <1>1, <1>3, <2>1 DEF TakeCall, Moves, TypeOK
  <2> QED
    BY <1>0, <1>1, <1>3, <2>2 DEF TakeCall
<1>4. CASE Prepare(p)
  <2>1. CASE calls' = [calls EXCEPT ![p].pc = "ended", ![p].cause = "permanent"]
    <3>1. calls' = [calls EXCEPT ![p] = To("ended", "permanent")]
      BY <1>0, <2>1 DEF Call
    <3>2. "permanent" \in Causes
      BY DEF Causes
    <3>3. Moves(p, To("ended", "permanent"))
      BY <1>0, <1>1, <1>4, <3>1, <3>2 DEF Prepare, Moves, TypeOK
    <3> QED
      BY <1>1, <3>2, <3>3
  <2>2. ASSUME NEW P \in Batches(c.asked),
               calls' = [calls EXCEPT ![p].pc = "running", ![p].todo = P]
        PROVE  \E d \in Call : Moves(p, d)
    <3>1. P \in SUBSET (SUBSET c.asked)
      BY DEF Batches
    <3>2. calls' = [calls EXCEPT ![p] = On(P, c.got)]
      BY <1>0, <2>2 DEF Call
    <3>3. Moves(p, On(P, c.got))
      BY <1>0, <1>2, <1>4, <3>1, <3>2 DEF Prepare, Moves, TypeOK
    <3> QED
      BY <1>0, <1>2, <3>1, <3>3
  <2> QED
    BY <1>4, <2>1, <2>2 DEF Prepare
<1>5. CASE Answer(p)
  <2>0. PICK b \in c.todo :
           /\ calls' = [calls EXCEPT ![p].todo = @ \ {b}, ![p].got = @ \cup b]
           /\ \E D \in SUBSET b :
                 differs' = IF p = verifier THEN differs \cup D ELSE differs
    BY <1>5 DEF Answer
  <2>1. PICK D \in SUBSET b : differs' = IF p = verifier THEN differs \cup D ELSE differs
    BY <2>0
  <2>2. c.todo \ {b} \in SUBSET (SUBSET c.asked) /\ c.got \cup b \in SUBSET c.asked
        /\ D \subseteq Domains
    BY <1>0
  <2>3. calls' = [calls EXCEPT ![p] = On(c.todo \ {b}, c.got \cup b)]
    <3>1. calls' = [calls EXCEPT ![p] = [c EXCEPT !.todo = @ \ {b}, !.got = @ \cup b]]
      BY <1>0, <2>0
    <3>2. c.pc = "running"
      BY <1>5 DEF Answer
    <3>3. [c EXCEPT !.todo = @ \ {b}, !.got = @ \cup b] = On(c.todo \ {b}, c.got \cup b)
      BY <1>0, <3>2 DEF Call
    <3> QED
      BY <3>1, <3>3
  <2>4. Moves(p, On(c.todo \ {b}, c.got \cup b))
    BY <1>0, <1>2, <1>5, <2>1, <2>2, <2>3 DEF Answer, Moves, TypeOK
  <2> QED
    BY <1>2, <2>2, <2>4
<1>6. CASE QuotaRefused(p)
  <2>0. PICK b \in c.todo :
          \/ /\ \E h \in Halves(b) : calls' = [calls EXCEPT ![p].todo = (@ \ {b}) \cup h]
             /\ UNCHANGED ahead
          \/ /\ calls' = [calls EXCEPT ![p].pc = "ended", ![p].cause = "quota"]
             /\ ahead' = ahead \cup {p}
    BY <1>6 DEF QuotaRefused
  <2>1. ASSUME NEW h \in Halves(b), calls' = [calls EXCEPT ![p].todo = (@ \ {b}) \cup h],
               UNCHANGED ahead
        PROVE  \E d \in Call : Moves(p, d)
    <3>1. (c.todo \ {b}) \cup h \in SUBSET (SUBSET c.asked)
      BY <1>0 DEF Halves
    <3>2. calls' = [calls EXCEPT ![p] = On((c.todo \ {b}) \cup h, c.got)]
      BY <1>0, <1>6, <2>1 DEF QuotaRefused, Call
    <3>3. Moves(p, On((c.todo \ {b}) \cup h, c.got))
      BY <1>0, <1>2, <1>6, <2>1, <3>1, <3>2 DEF QuotaRefused, Moves, TypeOK
    <3> QED
      BY <1>0, <1>2, <3>1, <3>3
  <2>2. ASSUME calls' = [calls EXCEPT ![p].pc = "ended", ![p].cause = "quota"],
               ahead' = ahead \cup {p}
        PROVE  \E d \in Call : Moves(p, d)
    <3>1. calls' = [calls EXCEPT ![p] = To("ended", "quota")]
      BY <1>0, <2>2 DEF Call
    <3>2. "quota" \in Causes
      BY DEF Causes
    <3>3. Moves(p, To("ended", "quota"))
      BY <1>0, <1>1, <1>6, <2>2, <3>1, <3>2 DEF QuotaRefused, Moves, TypeOK
    <3> QED
      BY <1>1, <3>2, <3>3
  <2> QED
    BY <2>0, <2>1, <2>2
<1>7. CASE Fails(p)
  <2>1. PICK cause \in {"rate", "transient", "permanent"} :
           calls' = [calls EXCEPT ![p].pc = "ended", ![p].cause = cause]
    BY <1>7 DEF Fails
  <2>2. cause \in Causes
    BY DEF Causes
  <2>3. calls' = [calls EXCEPT ![p] = To("ended", cause)]
    BY <1>0, <2>1 DEF Call
  <2>4. Moves(p, To("ended", cause))
    BY <1>0, <1>1, <1>7, <2>2, <2>3 DEF Fails, Moves, TypeOK
  <2> QED
    BY <1>1, <2>2, <2>4
<1>8. CASE Succeeds(p)
  <2>1. calls' = [calls EXCEPT ![p] = To("ended", c.cause)]
    BY <1>0, <1>8 DEF Succeeds, Call
  <2>2. Moves(p, To("ended", c.cause))
    BY <1>0, <1>1, <1>8, <2>1 DEF Succeeds, Moves, TypeOK
  <2> QED
    BY <1>0, <1>1, <2>2
<1>9. CASE CallCancelled(p)
  <2>1. calls' = [calls EXCEPT ![p] = To("ended", "cancelled")]
    BY <1>0, <1>9 DEF CallCancelled, Call
  <2>2. "cancelled" \in Causes
    BY DEF Causes
  <2>3. Moves(p, To("ended", "cancelled"))
    BY <1>0, <1>1, <1>9, <2>1, <2>2 DEF CallCancelled, Moves, TypeOK
  <2> QED
    BY <1>1, <2>2, <2>3
<1> QED
  BY <1>3, <1>4, <1>5, <1>6, <1>7, <1>8, <1>9 DEF CallStep

(* A new call knows what it is asked for and has no answer.                *)
LEMMA AskingIs ==
    ASSUME NEW D \in SUBSET Domains, NEW pc \in {"queued", "starting"}
    PROVE  /\ Asking(D, pc) \in Call /\ CallOK(Asking(D, pc))
           /\ Asking(D, pc).pc = pc /\ Asking(D, pc).asked = D /\ Asking(D, pc).got = {}
           /\ Asking(D, pc).cause = "none"
<1>1. /\ Asking(D, pc).pc = pc /\ Asking(D, pc).asked = D /\ Asking(D, pc).got = {}
      /\ Asking(D, pc).todo = {} /\ Asking(D, pc).cause = "none"
  BY DEF Asking, NoCall
<1>2. Asking(D, pc) \in Call
  BY DEF Asking, NoCall, Call, Causes
<1>3. CallOK(Asking(D, pc))
  BY <1>1 DEF CallOK
<1> QED
  BY <1>1, <1>2, <1>3

(* The call that has not been made.                                        *)
LEMMA NoCallIs ==
    /\ NoCall \in Call /\ CallOK(NoCall)
    /\ NoCall.pc = "idle" /\ NoCall.asked = {} /\ NoCall.got = {} /\ NoCall.cause = "none"
  BY DEF NoCall, Call, CallOK, Causes

---------------------------------------------------------------------------
(* Every step preserves the inductive invariant.                           *)

(* A batch begins with nothing asked.                                      *)
LEMMA InitKeeps == Init => DispatchIInv
<1> SUFFICES ASSUME Init PROVE DispatchIInv
  OBVIOUS
<1>1. mode \in Modes /\ Members[mode] \subseteq Providers
  BY PoolAssumption DEF Init
<1>2. TypeOK
  BY <1>1, NoCallIs DEF Init, TypeOK, Phases, Outcomes
<1>3. \A p \in Providers : CallOK(calls[p]) /\ calls[p].pc = "idle"
         /\ calls[p].asked = {} /\ calls[p].got = {}
  BY NoCallIs DEF Init
<1>4. NothingYet /\ PhaseOfMode /\ Reported /\ Shares /\ Chain /\ Pair
  BY <1>3 DEF Init, NothingYet, PhaseOfMode, Reported, Shares, Chain, Pair
<1>5. Confirmed /\ Kept /\ PrimaryOnce /\ NoOverlap
  BY <1>3 DEF Init, Confirmed, Kept, PrimaryOnce, PrimaryResults, NoOverlap
<1>6. UnverifiedIsReviewed /\ AnswerNotLost
  BY DEF Init, UnverifiedIsReviewed, AnswerNotLost
<1> QED
  BY <1>2, <1>3, <1>4, <1>5, <1>6 DEF DispatchIInv

(* The operator, the clock and the other pools touch the token, the        *)
(* cooldowns and the retry times alone.                                    *)
LEMMA EnvironmentKeeps ==
    ASSUME DispatchIInv,
           UNCHANGED <<mode, phase, cand, remaining, verifier, toVerify, calls, results,
                       errors, differs, review, outcome>>,
           cancel' \in BOOLEAN, cooling' \subseteq Providers, ahead' \subseteq Providers
    PROVE  DispatchIInv'
<1>1. TypeOK'
  BY DEF DispatchIInv, TypeOK
<1>2. \A p \in Providers : CallOK(calls'[p])
  BY DEF DispatchIInv
<1>3. NothingYet' /\ PhaseOfMode' /\ Reported' /\ Shares' /\ Chain' /\ Pair'
  BY DEF DispatchIInv, NothingYet, PhaseOfMode, Reported, Shares, Chain, Pair, Open, Ended
<1>4. Confirmed' /\ Kept' /\ PrimaryOnce' /\ NoOverlap'
  BY DEF DispatchIInv, Confirmed, Kept, PrimaryOnce, PrimaryResults, NoOverlap
<1>5. UnverifiedIsReviewed' /\ AnswerNotLost'
  BY DEF DispatchIInv, UnverifiedIsReviewed, AnswerNotLost
<1> QED
  BY <1>1, <1>2, <1>3, <1>4, <1>5 DEF DispatchIInv

(* A step of a call happens before the worker reads the results.           *)
LEMMA MovesKeep ==
    ASSUME DispatchIInv, NEW p \in Providers, NEW c \in Call, Moves(p, c)
    PROVE  DispatchIInv'
<1>0. TypeOK /\ calls \in [Providers -> Call]
  BY DEF DispatchIInv, TypeOK
<1>1. \A q \in Providers : calls'[q] = IF q = p THEN c ELSE calls[q]
  BY <1>0 DEF Moves
<1>2. /\ mode' = mode /\ phase' = phase /\ cand' = cand /\ cancel' = cancel
      /\ remaining' = remaining /\ verifier' = verifier /\ toVerify' = toVerify
      /\ results' = results /\ errors' = errors /\ review' = review /\ outcome' = outcome
  BY DEF Moves
<1>3. /\ calls[p].pc \in {"queued", "starting", "running"}
      /\ c.pc \in {"starting", "running", "ended"}
      /\ c.asked = calls[p].asked /\ CallOK(c)
  BY DEF Moves
<1>4. phase \in {"collect", "fallback", "primary", "verify", "stopping"}
  BY <1>0, <1>3 DEF DispatchIInv, NothingYet, NoOverlap, TypeOK, Phases
<1>5. results \subseteq Providers /\ errors \subseteq Providers
      /\ p \notin results /\ p \notin errors
  BY <1>0, <1>3 DEF DispatchIInv, Reported, Ended, TypeOK
<1>6. TypeOK'
  BY <1>0, <1>2 DEF TypeOK, Moves
<1>7. \A q \in Providers : CallOK(calls'[q])
  BY <1>1, <1>3 DEF DispatchIInv
<1>8. NothingYet'
  BY <1>2, <1>4 DEF DispatchIInv, NothingYet
<1>9. PhaseOfMode'
  BY <1>2 DEF DispatchIInv, PhaseOfMode
<1>10. Reported'
  BY <1>1, <1>2, <1>3, <1>5 DEF DispatchIInv, Reported, Ended
<1>11. Shares'
  BY <1>1, <1>2, <1>3 DEF DispatchIInv, Shares
<1>12. Chain'
  BY <1>1, <1>2, <1>3, <1>5 DEF DispatchIInv, Chain, Open
<1>13. Pair'
  <2>1. \A q \in Providers : calls'[q].pc # "idle" => calls[q].pc # "idle"
    BY <1>1, <1>3
  <2>2. \A q \in results : calls'[q] = calls[q]
    BY <1>1, <1>5
  <2> QED
    BY <1>2, <2>1, <2>2 DEF DispatchIInv, Pair
<1>14. Confirmed'
  BY <1>2, <1>4 DEF Confirmed
<1>15. Kept'
  BY <1>1, <1>2, <1>4, <1>5 DEF DispatchIInv, Kept
<1>16. PrimaryOnce'
  BY <1>1, <1>2, <1>5 DEF DispatchIInv, PrimaryOnce, PrimaryResults
<1>17. NoOverlap'
  BY <1>2, <1>4 DEF NoOverlap
<1>18. UnverifiedIsReviewed' /\ AnswerNotLost'
  <2>1. \A d \in Domains : outcome'[d] = "none"
    BY <1>2, <1>4 DEF DispatchIInv, NothingYet
  <2>2. toVerify' \subseteq Domains
    BY <1>6 DEF TypeOK
  <2> QED
    BY <2>1, <2>2 DEF UnverifiedIsReviewed, AnswerNotLost
<1> QED
  BY <1>6, <1>7, <1>8, <1>9, <1>10, <1>11, <1>12, <1>13, <1>14, <1>15, <1>16, <1>17, <1>18
  DEF DispatchIInv

(* As long as no row has been settled nothing is claimed about any.        *)
LEMMA NothingSettled ==
    ASSUME NothingYet, TypeOK', outcome' = outcome,
           phase \notin {"settle", "cancelled", "raised", "done"}
    PROVE  /\ \A d \in Domains : outcome'[d] = "none"
           /\ UnverifiedIsReviewed' /\ AnswerNotLost'
<1>1. \A d \in Domains : outcome'[d] = "none"
  BY DEF NothingYet
<1>2. toVerify' \subseteq Domains
  BY DEF TypeOK
<1> QED
  BY <1>1, <1>2 DEF UnverifiedIsReviewed, AnswerNotLost

(* The first calls split the domains, or ask one provider, or ask all.     *)
LEMMA BeginKeeps ==
    ASSUME DispatchIInv, Begin
    PROVE  DispatchIInv'
<1>0. TypeOK /\ calls \in [Providers -> Call] /\ mode \in Modes
      /\ Members[mode] \subseteq Providers
  BY PoolAssumption DEF DispatchIInv, TypeOK
<1>1. phase = "begin" /\ cand' = Members[mode] \ cooling /\ cand' \subseteq Providers
      /\ UNCHANGED <<mode, cooling, cancel, verifier, toVerify, results, errors, ahead,
                     differs, review, outcome>>
  BY <1>0 DEF Begin
<1>2. /\ \A p \in Providers : calls[p].pc = "idle" /\ calls[p].got = {}
      /\ results = {} /\ errors = {} /\ verifier = NoProvider /\ toVerify = {}
  BY <1>1 DEF DispatchIInv, NothingYet, CallOK
<1> DEFINE Fresh == \A p \in Providers : calls'[p].got = {} /\ CallOK(calls'[p])
           Asks(P, pc) == \A p \in Providers : calls'[p].pc = "idle"
                                               \/ (p \in P /\ calls'[p].pc = pc)
<1>3. ASSUME calls' \in [Providers -> Call], Fresh, remaining' \subseteq Domains,
             phase' \in {"cooled", "collect", "fallback", "primary"},
             phase' = "cooled" => \A p \in Providers : calls'[p].pc = "idle",
             Asks(cand', "queued") \/ Asks(cand', "starting"),
             \A p \in Providers : calls'[p].pc = "queued" => phase' = "collect",
             PhaseOfMode', Shares',
             phase' = "fallback" => \A p \in Providers : calls'[p].pc = "idle",
             phase' = "primary" =>
                \A p, q \in Providers : calls'[p].pc # "idle" /\ calls'[q].pc # "idle" => p = q
      PROVE  DispatchIInv'
  <2>1. TypeOK'
    BY <1>0, <1>1, <1>3 DEF TypeOK, Phases
  <2>2. UnverifiedIsReviewed' /\ AnswerNotLost' /\ \A d \in Domains : outcome'[d] = "none"
    BY <1>1, <2>1, NothingSettled DEF DispatchIInv
  <2>3. NothingYet'
    BY <1>1, <1>2, <1>3, <2>2 DEF NothingYet
  <2>4. Reported'
    BY <1>1, <1>2, <1>3 DEF Reported
  <2>5. Chain'
    BY <1>1, <1>2, <1>3 DEF Chain, Open
  <2>6. Pair'
    BY <1>1, <1>2, <1>3 DEF Pair
  <2>7. Confirmed' /\ Kept' /\ PrimaryOnce' /\ NoOverlap'
    BY <1>1, <1>2, <1>3 DEF Confirmed, Kept, PrimaryOnce, PrimaryResults, NoOverlap
  <2> QED
    BY <1>3, <2>1, <2>2, <2>3, <2>4, <2>5, <2>6, <2>7 DEF DispatchIInv
<1>4. remaining \subseteq Domains /\ Shares /\ \A p \in Providers : CallOK(calls[p])
  BY DEF DispatchIInv, TypeOK
<1>5. CASE cand' = {} /\ phase' = "cooled" /\ UNCHANGED <<calls, remaining>>
  <2>1. Shares'
    BY <1>1, <1>4, <1>5 DEF Shares
  <2>2. PhaseOfMode'
    BY <1>1, <1>2, <1>5 DEF PhaseOfMode
  <2> QED
    BY <1>0, <1>2, <1>3, <1>4, <1>5, <2>1, <2>2
<1>6. ASSUME mode = "distribute", phase' = "collect", UNCHANGED remaining,
             NEW f \in [Domains -> cand'],
             calls' = [p \in Providers |->
                         IF \E d \in Domains : f[d] = p
                         THEN Asking({d \in Domains : f[d] = p}, "queued")
                         ELSE NoCall]
      PROVE  DispatchIInv'
  <2> DEFINE Share(p) == {d \in Domains : f[d] = p}
  <2>0. \A p \in Providers :
           \/ calls'[p] = Asking(Share(p), "queued") /\ p \in cand'
           \/ calls'[p] = NoCall
    BY <1>6
  <2>1. \A p \in Providers : Share(p) \in SUBSET Domains
    OBVIOUS
  <2>2. \A p \in Providers :
           /\ calls'[p].got = {} /\ CallOK(calls'[p]) /\ calls'[p] \in Call
           /\ calls'[p].asked \subseteq Share(p)
           /\ calls'[p].pc = "idle" \/ (p \in cand' /\ calls'[p].pc = "queued")
    <3> TAKE p \in Providers
    <3> HIDE DEF Share
    <3>1. CASE calls'[p] = NoCall
      BY <3>1, NoCallIs
    <3>2. CASE calls'[p] = Asking(Share(p), "queued") /\ p \in cand'
      BY <2>1, <3>2, AskingIs
    <3> QED
      BY <2>0, <3>1, <3>2
  <2>3. calls' \in [Providers -> Call]
    BY <1>6, <2>2
  <2>4. Shares'
    BY <2>2 DEF Shares
  <2>5. PhaseOfMode'
    BY <1>1, <1>2, <1>6 DEF PhaseOfMode
  <2> HIDE DEF Share
  <2> QED
    BY <1>3, <1>4, <1>6, <2>2, <2>3, <2>4, <2>5
<1>7. ASSUME mode = "compare", phase' = "collect", UNCHANGED remaining,
             calls' = [p \in Providers |->
                         IF p \in cand' THEN Asking(Domains, "queued") ELSE NoCall]
      PROVE  DispatchIInv'
  <2>1. /\ Asking(Domains, "queued") \in Call /\ CallOK(Asking(Domains, "queued"))
        /\ Asking(Domains, "queued").pc = "queued" /\ Asking(Domains, "queued").got = {}
    BY AskingIs
  <2>2. \A p \in Providers :
           /\ calls'[p].got = {} /\ CallOK(calls'[p]) /\ calls'[p] \in Call
           /\ calls'[p].pc = "idle" \/ (p \in cand' /\ calls'[p].pc = "queued")
    BY <1>7, <2>1, NoCallIs
  <2>3. calls' \in [Providers -> Call]
    BY <1>7, <2>2
  <2>4. Shares' /\ PhaseOfMode'
    BY <1>1, <1>2, <1>7 DEF Shares, PhaseOfMode
  <2> QED
    BY <1>3, <1>4, <1>7, <2>2, <2>3, <2>4
<1>8. CASE mode = "fallback" /\ phase' = "fallback" /\ remaining' = Domains /\ UNCHANGED calls
  <2>1. Shares' /\ PhaseOfMode'
    BY <1>1, <1>2, <1>8 DEF Shares, PhaseOfMode
  <2> QED
    BY <1>0, <1>2, <1>3, <1>4, <1>8, <2>1
<1>9. ASSUME cand' # {}, mode = "verify", phase' = "primary", UNCHANGED remaining,
             calls' = [calls EXCEPT ![First(FallbackRank, cand')] = Asking(Domains, "starting")]
      PROVE  DispatchIInv'
  <2> DEFINE f == First(FallbackRank, cand')
  <2>0. f \in cand'
    BY <1>1, <1>9, FirstIsOne, PoolAssumption
  <2> HIDE DEF f
  <2>1. /\ Asking(Domains, "starting") \in Call /\ CallOK(Asking(Domains, "starting"))
        /\ Asking(Domains, "starting").pc = "starting" /\ Asking(Domains, "starting").got = {}
    BY AskingIs
  <2>2. calls' = [calls EXCEPT ![f] = Asking(Domains, "starting")]
    BY <1>9 DEF f
  <2>3. \A p \in Providers :
           /\ calls'[p].got = {} /\ CallOK(calls'[p])
           /\ calls'[p].pc = "idle" \/ (p = f /\ calls'[p].pc = "starting")
    BY <1>0, <1>2, <1>4, <2>1, <2>2
  <2>4. calls' \in [Providers -> Call]
    BY <1>0, <2>1, <2>2
  <2>5. Shares' /\ PhaseOfMode'
    BY <1>1, <1>2, <1>9 DEF Shares, PhaseOfMode
  <2> QED
    BY <1>3, <1>4, <1>9, <2>0, <2>3, <2>4, <2>5
<1> QED
  BY <1>5, <1>6, <1>7, <1>8, <1>9 DEF Begin

(* With every candidate cooling down nobody has been asked.                *)
LEMMA CooledKeeps ==
    ASSUME DispatchIInv, Cooled
    PROVE  DispatchIInv'
<1>0. TypeOK /\ phase = "cooled" /\ phase' \in {"settle", "raised"}
      /\ errors' \subseteq Providers /\ ahead' \subseteq Providers
      /\ UNCHANGED <<mode, cand, cooling, cancel, remaining, verifier, toVerify, calls,
                     results, differs, review, outcome>>
      /\ (phase' = "raised" => errors' = errors)
  BY DEF DispatchIInv, Cooled, TypeOK
<1>1. /\ \A p \in Providers : calls[p].pc = "idle" /\ calls[p].got = {}
      /\ results = {} /\ errors = {} /\ verifier = NoProvider /\ toVerify = {}
  BY <1>0 DEF DispatchIInv, NothingYet, CallOK
<1>2. TypeOK'
  BY <1>0 DEF TypeOK, Phases
<1>3. UnverifiedIsReviewed' /\ AnswerNotLost' /\ \A d \in Domains : outcome'[d] = "none"
  BY <1>0, <1>2, NothingSettled DEF DispatchIInv
<1>4. NothingYet' /\ PhaseOfMode' /\ Reported'
  BY <1>0, <1>1, <1>3 DEF DispatchIInv, NothingYet, PhaseOfMode, Reported
<1>5. Shares' /\ Chain' /\ Pair'
  BY <1>0, <1>1 DEF DispatchIInv, Shares, Chain, Pair
<1>6. Confirmed' /\ Kept' /\ PrimaryOnce' /\ NoOverlap'
  BY <1>0, <1>1 DEF Confirmed, Kept, PrimaryOnce, PrimaryResults, NoOverlap
<1> QED
  BY <1>0, <1>2, <1>3, <1>4, <1>5, <1>6 DEF DispatchIInv

(* A completed future adds its answers to the results.                     *)
LEMMA CollectKeeps ==
    ASSUME DispatchIInv, NEW p \in Providers, Collect(p)
    PROVE  DispatchIInv'
<1>0. TypeOK /\ phase = "collect" /\ mode \in {"distribute", "compare"}
      /\ Ended(p) /\ p \notin results \cup errors /\ verifier = NoProvider
  BY DEF DispatchIInv, Collect, PhaseOfMode
<1>1. UNCHANGED <<mode, phase, cand, cooling, cancel, remaining, verifier, toVerify,
                  calls, differs, review, outcome>>
  BY DEF Collect
<1>2. results' = IF calls[p].got # {} THEN results \cup {p} ELSE results
  BY DEF Collect, Appended
<1>3. /\ errors' \in {errors, errors \cup {p}}
      /\ ahead' \in {ahead, ahead \cup {p}}
  BY DEF Collect, RecordError
<1>4. TypeOK'
  BY <1>0, <1>1, <1>2, <1>3 DEF TypeOK
<1>5. UnverifiedIsReviewed' /\ AnswerNotLost' /\ \A d \in Domains : outcome'[d] = "none"
  BY <1>0, <1>1, <1>4, NothingSettled DEF DispatchIInv
<1>6. NothingYet' /\ PhaseOfMode'
  BY <1>0, <1>1, <1>5 DEF DispatchIInv, NothingYet, PhaseOfMode
<1>7. Reported'
  BY <1>0, <1>1, <1>2, <1>3 DEF DispatchIInv, Reported, Ended
<1>8. Shares' /\ Chain' /\ Pair' /\ Confirmed'
  BY <1>0, <1>1 DEF DispatchIInv, Shares, Chain, Pair, Confirmed
<1>9. Kept'
  BY <1>0, <1>1, <1>2, <1>3 DEF DispatchIInv, Kept
<1>10. PrimaryOnce'
  <2>1. CASE mode = "compare"
    BY <1>1, <2>1 DEF PrimaryOnce, PrimaryResults
  <2>2. CASE mode = "distribute"
    <3>1. \A q, r \in Providers : q # r => calls[q].got \cap calls[r].got = {}
      BY <2>2 DEF DispatchIInv, Shares, CallOK
    <3>2. results' \subseteq Providers
      BY <1>4 DEF TypeOK
    <3> QED
      BY <1>1, <3>1, <3>2 DEF PrimaryOnce, PrimaryResults
  <2> QED
    BY <1>0, <2>1, <2>2
<1>11. NoOverlap'
  BY <1>0, <1>1 DEF NoOverlap
<1> QED
  BY <1>1, <1>4, <1>5, <1>6, <1>7, <1>8, <1>9, <1>10, <1>11 DEF DispatchIInv

(* Handing over to the worker: the dispatcher keeps what it has, no call   *)
(* is under way and every answer has been put into the results.            *)
LEMMA HandsOver ==
    ASSUME DispatchIInv,
           phase \in {"collect", "fallback"}, phase' = "settle",
           UNCHANGED <<mode, cand, cooling, cancel, remaining, verifier, toVerify, calls,
                       results, errors, ahead, differs, review, outcome>>,
           \A p \in Providers : calls[p].pc \in {"idle", "ended"},
           mode # "fallback" => \A p \in Providers : calls[p].got = {} \/ p \in results
    PROVE  DispatchIInv'
<1>1. TypeOK'
  BY DEF DispatchIInv, TypeOK, Phases
<1>2. UnverifiedIsReviewed' /\ AnswerNotLost' /\ \A d \in Domains : outcome'[d] = "none"
  BY <1>1, NothingSettled DEF DispatchIInv
<1>3. NothingYet' /\ PhaseOfMode' /\ Reported'
  BY DEF DispatchIInv, NothingYet, PhaseOfMode, Reported, Ended
<1>4. Shares' /\ Chain' /\ Pair'
  BY DEF DispatchIInv, Shares, Chain, Pair
<1>5. Confirmed'
  BY DEF DispatchIInv, Confirmed, PhaseOfMode
<1>6. Kept' /\ PrimaryOnce' /\ NoOverlap'
  BY DEF DispatchIInv, Kept, PrimaryOnce, PrimaryResults, NoOverlap
<1> QED
  BY <1>1, <1>2, <1>3, <1>4, <1>5, <1>6 DEF DispatchIInv

(* Every future has been collected.                                        *)
LEMMA CollectEndsKeeps ==
    ASSUME DispatchIInv, CollectEnds
    PROVE  DispatchIInv'
<1>1. \A p \in Providers : calls[p].pc = "idle" \/ p \in results \cup errors
  BY DEF CollectEnds
<1>2. phase = "collect" /\ mode # "fallback"
  BY DEF CollectEnds, DispatchIInv, PhaseOfMode
<1>3. \A p \in Providers : calls[p].pc \in {"idle", "ended"}
  BY <1>1, <1>2 DEF DispatchIInv, Reported, Ended
<1>4. \A p \in Providers : calls[p].got = {} \/ p \in results
  BY <1>1, <1>2 DEF DispatchIInv, Kept, CallOK
<1> QED
  BY <1>2, <1>3, <1>4, HandsOver DEF CollectEnds

(* The fallback order is exhausted or nothing is missing.                  *)
LEMMA FallbackEndsKeeps ==
    ASSUME DispatchIInv, FallbackEnds
    PROVE  DispatchIInv'
<1>1. \A p \in Providers : calls[p].pc \in {"idle", "ended"}
  BY DEF FallbackEnds, DispatchIInv, Reported
<1>2. mode = "fallback" /\ phase = "fallback"
  BY DEF FallbackEnds, DispatchIInv, PhaseOfMode
<1> QED
  BY <1>1, <1>2, HandsOver DEF FallbackEnds

(* The next candidate is asked for what is missing, and nobody else is     *)
(* under way.                                                              *)
LEMMA FallbackNextKeeps ==
    ASSUME DispatchIInv, FallbackNext
    PROVE  DispatchIInv'
<1> DEFINE untried == {p \in cand : calls[p].pc = "idle"}
           f == First(FallbackRank, untried)
           c == Asking(remaining, "starting")
<1>0. TypeOK /\ phase = "fallback" /\ mode = "fallback" /\ calls \in [Providers -> Call]
      /\ remaining \subseteq Domains /\ cand \subseteq Providers
      /\ results \subseteq Providers /\ errors \subseteq Providers
  BY DEF DispatchIInv, FallbackNext, PhaseOfMode, TypeOK
<1>1. f \in untried
  <2>1. untried \in SUBSET Providers /\ untried # {}
    BY <1>0 DEF FallbackNext
  <2> QED
    BY <2>1, FirstIsOne, PoolAssumption
<1>2. calls' = [calls EXCEPT ![f] = c]
  BY DEF FallbackNext
<1>3. c \in Call /\ CallOK(c) /\ c.pc = "starting" /\ c.asked = remaining /\ c.got = {}
  BY <1>0, AskingIs
<1>4. f \in Providers /\ f \in cand /\ calls[f].pc = "idle"
  BY <1>0, <1>1
<1> HIDE DEF f, c, untried
<1>5. \A q \in Providers : calls'[q] = IF q = f THEN c ELSE calls[q]
  BY <1>0, <1>2
<1>6. UNCHANGED <<mode, phase, cand, cooling, cancel, remaining, verifier, toVerify,
                  results, errors, ahead, differs, review, outcome>>
  BY DEF FallbackNext
<1>7. f \notin results /\ f \notin errors
  BY <1>0, <1>4 DEF DispatchIInv, Reported, Ended
<1>8. TypeOK'
  BY <1>0, <1>2, <1>3, <1>6 DEF TypeOK
<1>9. \A q \in Providers : CallOK(calls'[q])
  BY <1>3, <1>5 DEF DispatchIInv
<1>10. UnverifiedIsReviewed' /\ AnswerNotLost' /\ \A d \in Domains : outcome'[d] = "none"
  BY <1>0, <1>6, <1>8, NothingSettled DEF DispatchIInv
<1>11. NothingYet' /\ PhaseOfMode'
  BY <1>0, <1>6, <1>10 DEF DispatchIInv, NothingYet, PhaseOfMode
<1>12. Reported'
  BY <1>0, <1>3, <1>4, <1>5, <1>6, <1>7 DEF DispatchIInv, Reported, Ended
<1>13. Chain'
  <2>1. \A q \in Providers : ~Open(q)
    BY DEF FallbackNext, Open, Ended
  <2>2. \A q \in Providers : Open(q)' => q = f
    BY <1>5, <1>6, <2>1 DEF Open
  <2> QED
    BY <1>0, <1>3, <1>5, <1>6, <1>7, <2>2 DEF DispatchIInv, Chain
<1>14. Shares' /\ Pair' /\ Confirmed' /\ Kept' /\ NoOverlap'
  BY <1>0, <1>6 DEF Shares, Pair, Confirmed, Kept, NoOverlap
<1>15. PrimaryOnce'
  BY <1>0, <1>5, <1>6, <1>7 DEF DispatchIInv, PrimaryOnce, PrimaryResults
<1> QED
  BY <1>8, <1>9, <1>10, <1>11, <1>12, <1>13, <1>14, <1>15 DEF DispatchIInv

(* A candidate's answers are among what the earlier ones left.             *)
LEMMA FallbackReturnsKeeps ==
    ASSUME DispatchIInv, NEW p \in Providers, FallbackReturns(p)
    PROVE  DispatchIInv'
<1>0. TypeOK /\ phase = "fallback" /\ mode = "fallback" /\ Ended(p)
      /\ p \notin results \cup errors /\ results \subseteq Providers
      /\ errors \subseteq Providers /\ verifier = NoProvider /\ toVerify = {}
  BY DEF DispatchIInv, FallbackReturns, PhaseOfMode, TypeOK
<1>1. UNCHANGED <<mode, cand, cooling, cancel, verifier, toVerify, calls, differs,
                  review, outcome>>
      /\ phase' \in {"fallback", "raised", "settle"}
  BY DEF FallbackReturns
<1>2. results' = IF calls[p].got # {} THEN results \cup {p} ELSE results
  BY DEF FallbackReturns, Appended
<1>3. /\ errors' \in {errors, errors \cup {p}}
      /\ ahead' \in {ahead, ahead \cup {p}}
  BY DEF FallbackReturns, RecordError
<1>4. remaining' = IF calls[p].got = {} THEN remaining ELSE calls[p].asked \ calls[p].got
  BY DEF FallbackReturns, StillMissing, Unanswered
<1>5. Open(p) /\ calls[p].asked \subseteq remaining /\ calls[p].got \subseteq remaining
  BY <1>0 DEF DispatchIInv, Chain, CallOK, Open, Ended
<1>6. TypeOK'
  <2>1. remaining' \subseteq Domains
    BY <1>0, <1>4, <1>5 DEF TypeOK
  <2> QED
    BY <1>0, <1>1, <1>2, <1>3, <2>1 DEF TypeOK, Phases
<1>7. UnverifiedIsReviewed' /\ AnswerNotLost' /\ \A d \in Domains : outcome'[d] = "none"
  BY <1>0, <1>1, <1>6, NothingSettled DEF DispatchIInv
<1>8. NothingYet' /\ PhaseOfMode'
  BY <1>0, <1>1, <1>7 DEF DispatchIInv, NothingYet, PhaseOfMode
<1>9. Reported'
  BY <1>0, <1>1, <1>2, <1>3 DEF DispatchIInv, Reported, Ended
<1>10. \A q \in results : calls[q].got \cap remaining = {}
  BY <1>0 DEF DispatchIInv, Chain
<1>11. Chain'
  <2>1. \A q \in results' : calls[q].got \cap remaining' = {}
    BY <1>2, <1>4, <1>5, <1>10
  <2>2. \A q \in Providers : Open(q)' => q = p /\ calls[p].got = {}
    BY <1>0, <1>1, <1>2, <1>3, <1>5 DEF DispatchIInv, Chain, Open
  <2>3. \A q \in Providers : Open(q)' => calls[q].asked \subseteq remaining'
    BY <1>4, <1>5, <2>2
  <2> QED
    BY <1>1, <2>1, <2>2, <2>3 DEF Chain
<1>12. Shares' /\ Pair' /\ Confirmed' /\ Kept'
  BY <1>0, <1>1 DEF Shares, Pair, Confirmed, Kept
<1>13. PrimaryOnce'
  BY <1>0, <1>1, <1>2, <1>5, <1>10 DEF DispatchIInv, PrimaryOnce, PrimaryResults
<1>14. NoOverlap'
  <2>1. \A q \in Providers : calls[q].pc \in {"idle", "ended"}
    BY <1>0, <1>5 DEF DispatchIInv, Chain, Open, Reported, Ended
  <2> QED
    BY <1>1, <2>1 DEF NoOverlap
<1>15. \A q \in Providers : CallOK(calls'[q])
  BY <1>1 DEF DispatchIInv
<1> QED
  BY <1>6, <1>7, <1>8, <1>9, <1>11, <1>12, <1>13, <1>14, <1>15 DEF DispatchIInv

(* The primary's answers are kept, and what needs verification goes to     *)
(* another provider or is marked for review.                               *)
LEMMA PrimaryReturnsKeeps ==
    ASSUME DispatchIInv, NEW p \in Providers, PrimaryReturns(p)
    PROVE  DispatchIInv'
<1>0. TypeOK /\ phase = "primary" /\ mode = "verify" /\ Ended(p)
      /\ calls \in [Providers -> Call] /\ cand \subseteq Providers
      /\ calls[p].got \subseteq Domains
  BY DEF DispatchIInv, PrimaryReturns, PhaseOfMode, TypeOK, Call
<1>1. UNCHANGED <<mode, cand, cooling, cancel, remaining, differs, outcome>>
  BY DEF PrimaryReturns
<1>2. /\ results = {} /\ errors = {} /\ verifier = NoProvider /\ toVerify = {}
      /\ \A q \in Providers : q # p => calls[q].pc = "idle" /\ calls[q].got = {}
  BY <1>0 DEF DispatchIInv, Pair, CallOK, Ended
<1>3. CASE calls[p].got = {} /\ phase' = "raised"
           /\ UNCHANGED <<results, errors, ahead, toVerify, verifier, review, calls>>
  <2>1. TypeOK'
    BY <1>0, <1>1, <1>3 DEF TypeOK, Phases
  <2>2. UnverifiedIsReviewed' /\ AnswerNotLost' /\ \A d \in Domains : outcome'[d] = "none"
    BY <1>0, <1>1, <2>1, NothingSettled DEF DispatchIInv
  <2>3. NothingYet' /\ PhaseOfMode' /\ Reported'
    BY <1>0, <1>1, <1>2, <1>3 DEF DispatchIInv, NothingYet, PhaseOfMode, Reported, Ended
  <2>4. Shares' /\ Chain' /\ Pair' /\ Confirmed'
    BY <1>0, <1>1, <1>2, <1>3 DEF Shares, Chain, Pair, Confirmed
  <2>5. Kept' /\ PrimaryOnce' /\ NoOverlap'
    BY <1>0, <1>1, <1>2, <1>3 DEF Kept, PrimaryOnce, PrimaryResults, NoOverlap, Ended
  <2>6. \A q \in Providers : CallOK(calls'[q])
    BY <1>3 DEF DispatchIInv
  <2> QED
    BY <2>1, <2>2, <2>3, <2>4, <2>5, <2>6 DEF DispatchIInv
<1>4. ASSUME calls[p].got # {}, results' = {p},
             errors' \in {errors, errors \cup {p}}, ahead' \in {ahead, ahead \cup {p}},
             NEW V \in SUBSET calls[p].got, toVerify' = V,
             cand \ {p} # {}, verifier' = First(VerificationRank, cand \ {p}),
             calls' = [calls EXCEPT ![verifier'] = Asking(V, "starting")],
             phase' = "verify", UNCHANGED review
      PROVE  DispatchIInv'
  <2> DEFINE c == Asking(V, "starting")
  <2>1. verifier' \in cand \ {p}
    <3> DEFINE others == cand \ {p}
    <3>1. others \in SUBSET Providers /\ others # {} /\ verifier' = First(VerificationRank, others)
      BY <1>0, <1>4
    <3> HIDE DEF others
    <3>2. First(VerificationRank, others) \in others
      BY <3>1, FirstIsOne, PoolAssumption
    <3> QED
      BY <3>1, <3>2 DEF others
  <2>2. c \in Call /\ CallOK(c) /\ c.pc = "starting" /\ c.asked = V /\ c.got = {}
    BY <1>0, AskingIs
  <2>3. calls' = [calls EXCEPT ![verifier'] = c]
    BY <1>4
  <2> HIDE DEF c
  <2>4. \A q \in Providers : calls'[q] = IF q = verifier' THEN c ELSE calls[q]
    BY <1>0, <2>1, <2>3
  <2>5. TypeOK'
    <3>1. calls' \in [Providers -> Call]
      BY <1>0, <2>2, <2>3
    <3>2. verifier' \in Providers
      BY <1>0, <2>1
    <3> QED
      BY <1>0, <1>1, <1>2, <1>4, <3>1, <3>2 DEF TypeOK, Phases
  <2>6. UnverifiedIsReviewed' /\ AnswerNotLost' /\ \A d \in Domains : outcome'[d] = "none"
    BY <1>0, <1>1, <2>5, NothingSettled DEF DispatchIInv
  <2>7. NothingYet' /\ PhaseOfMode'
    BY <1>0, <1>1, <1>4, <2>6 DEF NothingYet, PhaseOfMode
  <2>8. Reported'
    BY <1>0, <1>1, <1>2, <1>4, <2>1, <2>2, <2>4 DEF DispatchIInv, Reported, Ended
  <2>9. Shares' /\ Chain' /\ Confirmed' /\ Kept' /\ NoOverlap'
    BY <1>0, <1>1, <1>4 DEF Shares, Chain, Confirmed, Kept, NoOverlap
  <2>10. Pair'
    BY <1>0, <1>1, <1>2, <1>4, <2>1, <2>2, <2>4 DEF Pair
  <2>11. PrimaryOnce'
    BY <1>4 DEF PrimaryOnce, PrimaryResults
  <2>12. \A q \in Providers : CallOK(calls'[q])
    BY <2>2, <2>4 DEF DispatchIInv
  <2> QED
    BY <2>5, <2>6, <2>7, <2>8, <2>9, <2>10, <2>11, <2>12 DEF DispatchIInv
<1>5. ASSUME calls[p].got # {}, results' = {p},
             errors' \in {errors, errors \cup {p}}, ahead' \in {ahead, ahead \cup {p}},
             NEW V \in SUBSET calls[p].got, toVerify' = V, review' = V,
             phase' = "settle", UNCHANGED <<verifier, calls>>
      PROVE  DispatchIInv'
  <2>1. TypeOK'
    BY <1>0, <1>1, <1>2, <1>5 DEF TypeOK, Phases
  <2>2. UnverifiedIsReviewed' /\ AnswerNotLost' /\ \A d \in Domains : outcome'[d] = "none"
    BY <1>0, <1>1, <2>1, NothingSettled DEF DispatchIInv
  <2>3. NothingYet' /\ PhaseOfMode'
    BY <1>0, <1>1, <1>5 DEF NothingYet, PhaseOfMode
  <2>4. Reported'
    BY <1>0, <1>1, <1>2, <1>5 DEF DispatchIInv, Reported, Ended
  <2>5. Shares' /\ Chain' /\ Pair' /\ Confirmed'
    BY <1>0, <1>1, <1>5 DEF Shares, Chain, Pair, Confirmed
  <2>6. Kept' /\ PrimaryOnce' /\ NoOverlap'
    BY <1>0, <1>1, <1>2, <1>5 DEF Kept, PrimaryOnce, PrimaryResults, NoOverlap, Ended
  <2>7. \A q \in Providers : CallOK(calls'[q])
    BY <1>5 DEF DispatchIInv
  <2> QED
    BY <2>1, <2>2, <2>3, <2>4, <2>5, <2>6, <2>7 DEF DispatchIInv
<1>6. CASE /\ calls[p].got # {} /\ results' = {p}
           /\ IF calls[p].cause = "none" THEN UNCHANGED <<errors, ahead>> ELSE RecordError(p)
           /\ \E V \in VerifyDomains(p) :
                /\ toVerify' = V
                /\ LET others == cand \ {p}
                   IN IF V # {} /\ others # {}
                      THEN /\ verifier' = First(VerificationRank, others)
                           /\ calls' = [calls EXCEPT ![verifier'] = Asking(V, "starting")]
                           /\ phase' = "verify" /\ UNCHANGED review
                      ELSE /\ review' = V
                           /\ phase' = "settle" /\ UNCHANGED <<verifier, calls>>
  <2>1. errors' \in {errors, errors \cup {p}} /\ ahead' \in {ahead, ahead \cup {p}}
    BY <1>6 DEF RecordError
  <2>2. PICK V \in SUBSET calls[p].got :
          /\ toVerify' = V
          /\ \/ /\ cand \ {p} # {} /\ verifier' = First(VerificationRank, cand \ {p})
                /\ calls' = [calls EXCEPT ![verifier'] = Asking(V, "starting")]
                /\ phase' = "verify" /\ UNCHANGED review
             \/ /\ review' = V
                /\ phase' = "settle" /\ UNCHANGED <<verifier, calls>>
    BY <1>6, Zenon DEF VerifyDomains
  <2> QED
    BY <1>4, <1>5, <1>6, <2>1, <2>2
<1> QED
  BY <1>3, <1>6 DEF PrimaryReturns

(* What the verifier left out or contradicts is marked; the rest has been  *)
(* answered by both.                                                       *)
LEMMA VerifierReturnsKeeps ==
    ASSUME DispatchIInv, VerifierReturns
    PROVE  DispatchIInv'
<1>0. TypeOK /\ phase = "verify" /\ mode = "verify" /\ Ended(verifier)
      /\ calls \in [Providers -> Call] /\ results \subseteq Providers
  BY DEF DispatchIInv, VerifierReturns, PhaseOfMode, TypeOK
<1>1. /\ verifier \in Providers /\ verifier \notin results /\ results # {}
      /\ \A q \in Providers : calls[q].pc # "idle" => q = verifier \/ q \in results
      /\ \A q \in results : toVerify \subseteq calls[q].got
      /\ calls[verifier].got \subseteq Domains
  BY <1>0 DEF DispatchIInv, Pair, TypeOK, Call
<1>2. UNCHANGED <<mode, cand, cooling, cancel, remaining, verifier, toVerify, calls,
                  differs, outcome>>
      /\ phase' = "settle"
  BY DEF VerifierReturns
<1>3. results' = IF calls[verifier].got # {} THEN results \cup {verifier} ELSE results
  BY DEF VerifierReturns, Appended
<1>4. errors' \in {errors, errors \cup {verifier}} /\ ahead' \in {ahead, ahead \cup {verifier}}
  BY DEF VerifierReturns, RecordError
<1>5. review' = (toVerify \ calls[verifier].got) \cup (calls[verifier].got \cap differs)
  BY DEF VerifierReturns, Doubtful
<1>6. TypeOK'
  <2>1. review' \subseteq Domains
    BY <1>0, <1>1, <1>5 DEF TypeOK
  <2> QED
    BY <1>0, <1>1, <1>2, <1>3, <1>4, <2>1 DEF TypeOK, Phases
<1>7. UnverifiedIsReviewed' /\ AnswerNotLost' /\ \A d \in Domains : outcome'[d] = "none"
  BY <1>0, <1>2, <1>6, NothingSettled DEF DispatchIInv
<1>8. NothingYet' /\ PhaseOfMode'
  BY <1>0, <1>2 DEF NothingYet, PhaseOfMode
<1>9. Reported'
  BY <1>0, <1>2, <1>3, <1>4 DEF DispatchIInv, Reported, Ended
<1>10. Shares' /\ Chain'
  BY <1>0, <1>2 DEF Shares, Chain
<1>11. Pair'
  BY <1>0, <1>2, <1>3 DEF DispatchIInv, Pair
<1>12. Confirmed'
  <2> SUFFICES ASSUME NEW d \in toVerify \ review'
               PROVE  \E p, q \in results' :
                         /\ p # q /\ verifier = q
                         /\ d \in calls[p].got \cap calls[q].got /\ d \notin differs
    BY <1>2 DEF Confirmed
  <2>1. d \in calls[verifier].got /\ d \notin differs
    BY <1>5
  <2>2. PICK p \in results : TRUE
    BY <1>1
  <2>3. p \in results' /\ verifier \in results' /\ p # verifier /\ d \in calls[p].got
    BY <1>1, <1>3, <2>1
  <2> QED
    BY <2>1, <2>3
<1>13. Kept'
  <2>1. \A q \in Providers : calls[q].got = {} \/ q \in results'
    BY <1>1, <1>3 DEF DispatchIInv, CallOK
  <2> QED
    BY <1>0, <1>2, <2>1 DEF Kept
<1>14. PrimaryOnce'
  BY <1>0, <1>2, <1>11 DEF Pair, PrimaryOnce, PrimaryResults
<1>15. NoOverlap'
  BY <1>0, <1>1, <1>2 DEF DispatchIInv, Reported, NoOverlap, Ended
<1>16. \A q \in Providers : CallOK(calls'[q])
  BY <1>2 DEF DispatchIInv
<1> QED
  BY <1>6, <1>7, <1>8, <1>9, <1>10, <1>11, <1>12, <1>13, <1>14, <1>15, <1>16
  DEF DispatchIInv

(* A cancelled batch drops the calls no thread has taken.                  *)
LEMMA ObserveCancelKeeps ==
    ASSUME DispatchIInv, ObserveCancel
    PROVE  DispatchIInv'
<1> DEFINE drop(p) == [calls[p] EXCEPT !.pc = "dropped"]
<1>0. TypeOK /\ calls \in [Providers -> Call] /\ results \subseteq Providers
      /\ errors \subseteq Providers
      /\ phase \in {"begin", "collect", "fallback", "primary", "verify"}
  BY DEF DispatchIInv, ObserveCancel, TypeOK
<1>1. phase' = "stopping"
      /\ UNCHANGED <<mode, cand, cooling, cancel, remaining, verifier, toVerify, results,
                     errors, ahead, differs, review, outcome>>
  BY DEF ObserveCancel
<1>2. \A p \in Providers : calls'[p] = IF calls[p].pc = "queued" THEN drop(p) ELSE calls[p]
  BY DEF ObserveCancel
<1>3. \A p \in Providers : drop(p) \in Call /\ drop(p).pc = "dropped"
         /\ drop(p).asked = calls[p].asked /\ drop(p).got = calls[p].got
         /\ drop(p).todo = calls[p].todo
  BY <1>0 DEF Call
<1> HIDE DEF drop
<1>4. \A p \in Providers : calls'[p] \in Call /\ CallOK(calls'[p])
         /\ calls'[p].asked = calls[p].asked /\ calls'[p].got = calls[p].got
         /\ (calls'[p].pc = "idle" <=> calls[p].pc = "idle")
         /\ (calls'[p].pc = "ended" <=> calls[p].pc = "ended")
         /\ calls'[p].pc # "queued"
  BY <1>0, <1>2, <1>3 DEF DispatchIInv, CallOK
<1>5. TypeOK'
  <2>1. calls' \in [Providers -> Call]
    BY <1>4 DEF ObserveCancel
  <2> QED
    BY <1>0, <1>1, <2>1 DEF TypeOK, Phases
<1>6. UnverifiedIsReviewed' /\ AnswerNotLost' /\ \A d \in Domains : outcome'[d] = "none"
  BY <1>0, <1>1, <1>5, NothingSettled DEF DispatchIInv
<1>7. NothingYet' /\ PhaseOfMode'
  BY <1>1, <1>6 DEF DispatchIInv, NothingYet, PhaseOfMode
<1>8. Reported'
  BY <1>0, <1>1, <1>4 DEF DispatchIInv, Reported, Ended
<1>9. Shares' /\ Chain' /\ Pair'
  BY <1>1, <1>4 DEF DispatchIInv, Shares, Chain, Pair
<1>10. Confirmed' /\ Kept' /\ NoOverlap'
  BY <1>1 DEF Confirmed, Kept, NoOverlap
<1>11. PrimaryOnce'
  BY <1>0, <1>1, <1>4 DEF DispatchIInv, PrimaryOnce, PrimaryResults
<1> QED
  BY <1>4, <1>5, <1>6, <1>7, <1>8, <1>9, <1>10, <1>11 DEF DispatchIInv

(* The shutdown waits for the calls that threads have taken.               *)
LEMMA ShutdownEndsKeeps ==
    ASSUME DispatchIInv, ShutdownEnds
    PROVE  DispatchIInv'
<1>0. TypeOK /\ phase = "stopping" /\ phase' = "cancelled"
      /\ UNCHANGED <<mode, cand, cooling, cancel, remaining, verifier, toVerify, calls,
                     results, errors, ahead, differs, review, outcome>>
  BY DEF DispatchIInv, ShutdownEnds
<1>1. TypeOK'
  BY <1>0 DEF TypeOK, Phases
<1>2. UnverifiedIsReviewed' /\ AnswerNotLost'
  BY <1>0, <1>1, NothingSettled DEF DispatchIInv
<1>3. NothingYet' /\ PhaseOfMode' /\ Reported'
  BY <1>0 DEF DispatchIInv, NothingYet, PhaseOfMode, Reported, Ended
<1>4. Shares' /\ Chain' /\ Pair'
  BY <1>0 DEF DispatchIInv, Shares, Chain, Pair
<1>5. Confirmed' /\ Kept' /\ PrimaryOnce'
  BY <1>0 DEF DispatchIInv, Confirmed, Kept, PrimaryOnce, PrimaryResults
<1>6. NoOverlap'
  BY <1>0 DEF DispatchIInv, Reported, ShutdownEnds, NoOverlap
<1>7. \A q \in Providers : CallOK(calls'[q])
  BY <1>0 DEF DispatchIInv
<1> QED
  BY <1>1, <1>2, <1>3, <1>4, <1>5, <1>6, <1>7 DEF DispatchIInv

(* The worker classifies only confirmed or marked answers, and gives up    *)
(* only rows nobody answered.                                              *)
LEMMA SettleKeeps ==
    ASSUME DispatchIInv, NEW d \in Domains, Settle(d)
    PROVE  DispatchIInv'
<1>0. TypeOK /\ phase \in {"settle", "cancelled", "raised"} /\ outcome \in [Domains -> Outcomes]
  BY DEF DispatchIInv, Settle, TypeOK
<1>1. UNCHANGED <<mode, cand, cooling, cancel, remaining, verifier, toVerify, calls,
                  results, errors, ahead, differs, review>>
      /\ outcome' = [outcome EXCEPT ![d] = Settled(d)] /\ phase' \in {phase, "done"}
  BY DEF Settle
<1>2. Settled(d) \in Outcomes
  BY <1>0 DEF Settled, Outcomes
<1>3. \A e \in Domains : outcome'[e] = IF e = d THEN Settled(d) ELSE outcome[e]
  BY <1>0, <1>1
<1>4. TypeOK'
  BY <1>0, <1>1, <1>2 DEF TypeOK, Phases
<1>5. NothingYet' /\ PhaseOfMode' /\ Reported'
  BY <1>0, <1>1 DEF DispatchIInv, NothingYet, PhaseOfMode, Reported, Ended
<1>6. Shares' /\ Chain' /\ Pair'
  BY <1>0, <1>1 DEF DispatchIInv, Shares, Chain, Pair
<1>7. Confirmed' /\ Kept' /\ PrimaryOnce' /\ NoOverlap'
  BY <1>0, <1>1 DEF DispatchIInv, Confirmed, Kept, PrimaryOnce, PrimaryResults, NoOverlap
<1>8. UnverifiedIsReviewed'
  <2> SUFFICES ASSUME mode = "verify", NEW e \in toVerify \ review, outcome'[e] = "classified"
               PROVE  \E p, q \in results :
                         /\ p # q /\ verifier = q
                         /\ e \in calls[p].got \cap calls[q].got /\ e \notin differs
    BY <1>1 DEF UnverifiedIsReviewed
  <2>0. e \in Domains
    BY <1>0 DEF TypeOK
  <2>1. CASE e # d
    BY <1>3, <2>0, <2>1 DEF DispatchIInv, UnverifiedIsReviewed
  <2>2. CASE e = d
    <3>1. phase = "settle"
      BY <1>0, <1>3, <2>0, <2>2 DEF Settled
    <3> QED
      BY <3>1 DEF DispatchIInv, Confirmed
  <2> QED
    BY <2>1, <2>2
<1>9. AnswerNotLost'
  <2> SUFFICES ASSUME mode # "fallback", NEW e \in Domains, outcome'[e] = "failed",
                      NEW p \in Providers
               PROVE  e \notin calls[p].got
    BY <1>1 DEF AnswerNotLost
  <2>1. CASE e # d
    BY <1>3, <2>1 DEF DispatchIInv, AnswerNotLost
  <2>2. CASE e = d /\ phase = "raised"
    BY <2>2 DEF DispatchIInv, Kept
  <2>3. CASE e = d /\ phase = "settle"
    <3>1. d \notin Completed
      BY <1>3, <2>3 DEF Settled
    <3>2. calls[p].got = {} \/ p \in results
      BY <2>3 DEF DispatchIInv, Kept
    <3> QED
      BY <2>3, <3>1, <3>2 DEF Completed
  <2>4. CASE e = d /\ phase = "cancelled"
    BY <1>3, <2>4 DEF Settled
  <2> QED
    BY <1>0, <2>1, <2>2, <2>3, <2>4
<1>10. \A q \in Providers : CallOK(calls'[q])
  BY <1>1 DEF DispatchIInv
<1> QED
  BY <1>4, <1>5, <1>6, <1>7, <1>8, <1>9, <1>10 DEF DispatchIInv

---------------------------------------------------------------------------
(* The invariant is inductive: it survives every step of the calls, of the *)
(* dispatcher, of the worker and of the environment.                       *)
LEMMA DispatchInductive == DispatchIInv /\ [Next]_vars => DispatchIInv'
<1> SUFFICES ASSUME DispatchIInv, [Next]_vars PROVE DispatchIInv'
  OBVIOUS
<1>0. cooling \subseteq Providers /\ ahead \subseteq Providers /\ cancel \in BOOLEAN
      /\ Members[mode] \subseteq Providers /\ TypeOK
      /\ \A p \in Providers : CallOK(calls[p])
  BY PoolAssumption DEF DispatchIInv, TypeOK
<1>1. CASE UNCHANGED vars
  BY <1>0, <1>1, EnvironmentKeeps DEF vars
<1>2. ASSUME NEW p \in Providers, CallStep(p) PROVE DispatchIInv'
  <2>1. PICK c \in Call : Moves(p, c)
    BY <1>0, <1>2, CallStepMoves
  <2> QED
    BY <2>1, MovesKeep
<1>3. CASE Dispatcher
  <2>1. ASSUME NEW p \in Providers, Collect(p) \/ FallbackReturns(p) \/ PrimaryReturns(p)
        PROVE  DispatchIInv'
    BY <2>1, CollectKeeps, FallbackReturnsKeeps, PrimaryReturnsKeeps
  <2>2. ASSUME NEW d \in Domains, Settle(d) PROVE DispatchIInv'
    BY <2>2, SettleKeeps
  <2> QED
    BY <1>3, <2>1, <2>2, BeginKeeps, CooledKeeps, CollectEndsKeeps, FallbackNextKeeps,
       FallbackEndsKeeps, VerifierReturnsKeeps, ObserveCancelKeeps, ShutdownEndsKeeps
    DEF Dispatcher
<1>4. CASE Environment
  <2>1. CASE Cancel
    BY <1>0, <2>1, EnvironmentKeeps DEF Cancel
  <2>2. ASSUME NEW p \in Providers, CoolingEnds(p) PROVE DispatchIInv'
    BY <1>0, <2>2, EnvironmentKeeps DEF CoolingEnds
  <2>3. ASSUME NEW p \in Providers, RetryPasses(p) PROVE DispatchIInv'
    BY <1>0, <2>3, EnvironmentKeeps DEF RetryPasses
  <2>4. ASSUME NEW p \in Providers, OtherPool(p) PROVE DispatchIInv'
    BY <1>0, <2>4, EnvironmentKeeps DEF OtherPool
  <2> QED
    BY <1>4, <2>1, <2>2, <2>3, <2>4 DEF Environment
<1> QED
  BY <1>1, <1>2, <1>3, <1>4 DEF Next

(* In every pool mode a domain gets at most one primary classification,    *)
(* and no request of a batch is queued or running when the worker settles  *)
(* its rows, whatever fails, is cancelled or comes back late               *)
(* (dispatch_analysis, _dispatch_distribute, _dispatch_fallback).          *)
THEOREM DispatchIsSafe == Spec => []DispatchInv
<1>1. DispatchIInv => DispatchInv
  BY DEF DispatchIInv, DispatchInv
<1> QED
  BY InitKeeps, DispatchInductive, <1>1, PTL DEF Spec

(* A classification that needed verification and carries no review mark    *)
(* was confirmed by a second provider (_dispatch_verify).                  *)
THEOREM VerificationIsSound == Spec => []UnverifiedIsReviewed
<1>1. DispatchIInv => UnverifiedIsReviewed
  BY DEF DispatchIInv
<1> QED
  BY InitKeeps, DispatchInductive, <1>1, PTL DEF Spec

(* Outside fallback mode no row that some provider answered is given up    *)
(* (_handle_dispatch_result over the results the dispatcher collected).    *)
THEOREM AnswersAreKept == Spec => []AnswerNotLost
<1>1. DispatchIInv => AnswerNotLost
  BY DEF DispatchIInv
<1> QED
  BY InitKeeps, DispatchInductive, <1>1, PTL DEF Spec

=============================================================================
