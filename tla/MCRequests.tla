----------------------------- MODULE MCRequests -----------------------------
(***************************************************************************)
(* The two clients that keep state about a server: the requests of the     *)
(* analysis threads to a provider, and a connection to a Pi-hole.  They    *)
(* share nothing; a behaviour shows one of them.                           *)
(***************************************************************************)
EXTENDS ProviderRequests, PiHoleConnection, TLC

VARIABLE part

clientVars == <<reqVars, connVars, part>>

Kind(s, o, p) == [style |-> s, output |-> o, pooled |-> p]

MCKinds == { Kind("chat_completions", "auto", TRUE), Kind("anthropic_messages", "auto", FALSE) }

After(k, t) == [kind |-> k, ticks |-> t]

MCHeaders == { {}, {After("duration", 1), After("epoch", 3)},
               {After("epoch", 1)}, {After("duration", 5), After("duration", -1)} }

ClientInit ==
    /\ ReqInit /\ ConnInit
    /\ part \in {"provider", "pihole"}

ClientNext ==
    \/ part = "provider" /\ ReqNext /\ UNCHANGED <<connVars, part>>
    \/ part = "pihole" /\ ConnNext /\ UNCHANGED <<reqVars, part>>

(* A thread that can go on does, a request is answered or times out, and    *)
(* time passes.  That the ledger grants a reservation is not assumed.       *)
ClientFairness ==
    /\ WF_reqVars(part = "provider" /\ ReqTick)
    /\ \A w \in Workers : WF_reqVars(part = "provider" /\ OwnStep(w))

ClientSpec == ClientInit /\ [][ClientNext]_clientVars /\ ClientFairness
=============================================================================
