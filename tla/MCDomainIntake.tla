--------------------------- MODULE MCDomainIntake ---------------------------
(* Two queries in the log of the Pi-hole, and three lists with two domains *)
(* between them.                                                           *)
EXTENDS DomainIntake, TLC

CONSTANTS d1, d2, q1, q2, w1, w2, l1, l2, l3,
    SharedQueries, SharedDue, SharedTime, SharedFaults, SharedRequests   \* bounds of Both

MCDomainOf == (q1 :> d1) @@ (q2 :> d2)
MCLists == <<l1, l2, l3>>
\* The size limit cuts the last line of l3 off.
Line(form, name, size) == [form |-> form, name |-> name, size |-> size]
MCLinesOf ==
    (l1 :> <<Line("comment", d2, 1), Line("adblock", d1, 1), Line("hosts", d1, 1),
             Line("plain", "localhost", 1), Line("hosts", d2, 1)>>)
    @@ (l2 :> <<Line("plain", d2, 1)>>)
    @@ (l3 :> <<Line("other", d2, 1), Line("plain", d1, 1), Line("plain", d2, 7)>>)

\* Where both are enabled their states multiply: there the log, the rechecks,
\* time, faults and requests have smaller bounds.
Both == scanOn /\ auditOn

MCInit == IntakeInit /\ (Both => Cardinality(Logged) <= SharedQueries)

MCNext ==
    /\ IntakeNext
    /\ Both => /\ Cardinality(Logged') <= SharedQueries /\ Cardinality(due') <= SharedDue
               /\ now' <= SharedTime
               /\ sfaults' + afaults' <= SharedFaults /\ requests' <= SharedRequests

MCSpec == MCInit /\ [][MCNext]_intakeVars /\ ScanFairness /\ AuditFairness
=============================================================================
