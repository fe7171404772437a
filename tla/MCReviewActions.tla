--------------------------- MODULE MCReviewActions ---------------------------
(***************************************************************************)
(* Small instances of ReviewActions for TLC.                               *)
(***************************************************************************)
EXTENDS ReviewActions

CONSTANT Alone   \* a frontend that decides only beside the other one

\* The classifier and the other frontend meet with every queue, task and
\* preference.  No decision reads these: while Alone decides they stay empty,
\* and the classifier rests.
Aside == deciding[Alone].pc = "idle" \/ (job.pc = "idle" /\ ~staged /\ ~open /\ pref = "none")

\* The mode is read only where there is an action to carry out, the profile
\* only where a deny rule is asked for; two tasks of one job are those of a
\* conflict or a simulation and of the model.
Told ==
    /\ job.sim => job.o.action # "none"
    /\ ~(job.o.policy /\ job.o.llm)
    /\ profiled /\ job.pc # "idle" => job.o.action = "deny" \/ job.pc = "ack"

BoundedNext == Next /\ Aside' /\ Told'

BoundedSpec == Init /\ [][BoundedNext]_vars
=============================================================================
