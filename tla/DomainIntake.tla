---------------------------- MODULE DomainIntake ----------------------------
(* The scanner and the list auditor over one database, with the classifier *)
(* taking domains from the queue.  Scans and list audits may be enabled or *)
(* not; with the scans off the log of the Pi-hole does not matter.         *)
EXTENDS QueryScanner, ListAudit

intakeVars == <<scanVars, auditVars, store>>

IntakeInit ==
    /\ StoreInit /\ ScanInit /\ AuditInit
    /\ ~scanOn => Logged = {}

Classifier ==
    /\ \E d \in Domains : Classify(d) \/ (scanOn /\ BecomesDue(d))
    /\ UNCHANGED <<scanVars, auditVars>>

IntakeNext ==
    \/ scanOn /\ ScanNext /\ UNCHANGED auditVars
    \/ AuditNext /\ UNCHANGED scanVars
    \/ Classifier

IntakeSafety == IntakeInit /\ [][IntakeNext]_intakeVars

IntakeSpec == IntakeSafety /\ ScanFairness /\ AuditFairness

(* Both threads get on: queries are counted, backfills end, and due audits *)
(* are carried out.                                                        *)
IntakeProgress == EventuallyCounted /\ BackfillEnds /\ AuditHappens
=============================================================================
