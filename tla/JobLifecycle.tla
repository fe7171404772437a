---------------------------- MODULE JobLifecycle ----------------------------
(***************************************************************************)
(* What the durable queue promises about one domain's job: it is requested *)
(* before it is worked on, it is worked on before it is finished or given  *)
(* up, and a job that was given up waits for a new request.                *)
(***************************************************************************)
CONSTANT Jobs
VARIABLE job

States == {"none", "queued", "processing", "failed"}

\* Request, claim, withdrawal, completion, deferral, failure, new request.
Moves == {<<"none", "queued">>, <<"queued", "processing">>, <<"queued", "none">>,
          <<"processing", "none">>, <<"processing", "queued">>, <<"processing", "failed">>,
          <<"failed", "queued">>, <<"failed", "none">>}

Init == job = [j \in Jobs |-> "none"]

\* One transaction may move several jobs (a batch claim, a restart).
Next == /\ job' \in [Jobs -> States]
        /\ \A j \in Jobs : job'[j] = job[j] \/ <<job[j], job'[j]>> \in Moves

Spec == Init /\ [][Next]_job
=============================================================================
