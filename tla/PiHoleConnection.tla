-------------------------- MODULE PiHoleConnection --------------------------
(***************************************************************************)
(* One connection to a Pi-hole (pihole6api/connection.py): the session it  *)
(* logs in for, its renewal after a 401, the state of health it reports    *)
(* and its end.  A request holds the connection's lock from its first      *)
(* message to its last, so operations follow each other; what interleaves  *)
(* with them is the server, which may end sessions, restart, refuse, or    *)
(* whose answers may be lost.                                              *)
(***************************************************************************)
EXTENDS Integers, FiniteSets

CONSTANTS
    NoSession,      \* session_id is None
    MaxSessions,    \* bound: sessions the server hands out
    MaxOps,         \* bound: operations
    MaxFaults       \* bound: lost messages, refusals and server errors

VARIABLES
    sid,            \* session_id
    closed,         \* _closed
    health,         \* _health: state and consecutive_failures
    op,             \* operation in progress: idle, get, post, logout, close
    renewed,        \* the operation has met a 401
    sessions,       \* external: sessions valid on the server
    handed,         \* external: sessions handed out
    applied,        \* external: times the server applied the operation
    orphans,        \* history: sessions the connection lost by a fault
    outcome,        \* history: result of the last operation
    ops, faults

connVars == <<sid, closed, health, op, renewed, sessions, handed, applied, orphans,
              outcome, ops, faults>>

ASSUME ConnConstants ==
    /\ MaxSessions \in Nat /\ MaxOps \in Nat /\ MaxFaults \in Nat
    /\ NoSession \notin 1..MaxSessions

States == {"unknown", "online", "auth_error", "degraded", "api_error", "offline", "closed"}

ConnTypeOK ==
    /\ sid \in 1..MaxSessions \union {NoSession}
    /\ closed \in BOOLEAN
    /\ health \in [state : States, failures : 0..(2 * MaxOps + MaxFaults)]
    /\ op \in {"idle", "get", "post", "logout", "close"}
    /\ sessions \subseteq 1..handed
    /\ orphans \subseteq 1..handed
    /\ closed /\ op = "idle" => sid = NoSession

ConnInit ==
    /\ sid = NoSession /\ closed = FALSE
    /\ health = [state |-> "unknown", failures |-> 0]
    /\ op = "idle" /\ renewed = FALSE
    /\ sessions = {} /\ handed = 0 /\ applied = 0 /\ orphans = {}
    /\ outcome = "none" /\ ops = 0 /\ faults = 0

(* _record_response *)
Recorded(status) ==
    IF status \in 200..299 THEN [state |-> "online", failures |-> 0]
    ELSE [state |-> IF status \in {401, 403} THEN "auth_error"
                    ELSE IF status = 429 \/ status >= 500 THEN "degraded" ELSE "api_error",
          failures |-> health.failures + 1]

(* _record_failure *)
Failed(state) == [state |-> state, failures |-> health.failures + 1]

Fault == faults < MaxFaults /\ faults' = faults + 1

(* The operation ends; close and close_session forget the session whatever  *)
(* happened, and close also the connection.                                 *)
Finish(how, newSid, newHealth) ==
    /\ op' = "idle"
    /\ renewed' = FALSE
    /\ outcome' = how
    /\ sid' = IF op \in {"logout", "close"} THEN NoSession ELSE newSid
    /\ closed' = (closed \/ op = "close")
    /\ health' = IF op = "close" THEN [newHealth EXCEPT !.state = "closed"] ELSE newHealth

-----------------------------------------------------------------------------
(* request; a closed connection raises at once. *)
Begin(o) ==
    /\ op = "idle" /\ ~closed /\ ops < MaxOps
    /\ op' = o /\ applied' = 0 /\ ops' = ops + 1
    /\ UNCHANGED <<sid, closed, health, renewed, sessions, handed, orphans, outcome, faults>>

(* close_session, when there is one to close *)
BeginLogout == sid # NoSession /\ Begin("logout")

(* close: without a session there is nothing to tell the server. *)
CloseUnused ==
    /\ op = "idle" /\ ~closed /\ sid = NoSession
    /\ closed' = TRUE
    /\ health' = [health EXCEPT !.state = "closed"]
    /\ UNCHANGED <<sid, op, renewed, sessions, handed, applied, orphans, outcome, ops, faults>>

BeginClose == sid # NoSession /\ Begin("close")

(* _authenticate: the server opens a session ... *)
Login ==
    /\ op # "idle" /\ sid = NoSession /\ handed < MaxSessions
    /\ handed' = handed + 1
    /\ sessions' = sessions \union {handed + 1}
    /\ \/ /\ sid' = handed + 1
          /\ health' = Recorded(200)
          /\ UNCHANGED <<closed, op, renewed, orphans, outcome, faults>>
       \/ /\ Fault      \* ... but its answer is lost
          /\ orphans' = orphans \union {handed + 1}
          /\ Finish("connection", NoSession, Failed("offline"))
    /\ UNCHANGED <<applied, ops>>

(* ... or refuses, with an error status or without a connection, ... *)
LoginRefused ==
    /\ op # "idle" /\ sid = NoSession
    /\ Fault
    /\ \/ \E s \in {401, 429, 503} : Finish("refused", NoSession, Recorded(s))
       \/ Finish("connection", NoSession, Failed("offline"))
    /\ UNCHANGED <<sessions, handed, applied, orphans, ops>>

(* ... or answers 200 with a session that is not valid or has no ID: the    *)
(* answer is recorded first, then the failure, which counts from zero.      *)
LoginInvalid ==
    /\ op # "idle" /\ sid = NoSession
    /\ Fault
    /\ Finish("refused", NoSession, [state |-> "auth_error", failures |-> 1])
    /\ UNCHANGED <<sessions, handed, applied, orphans, ops>>

(* ... or answers 200 with a body that is no JSON object: _decode_json      *)
(* raises, and the answer stays recorded as a good one.  The server may     *)
(* have opened a session nobody learns of.                                  *)
LoginMalformed ==
    /\ op # "idle" /\ sid = NoSession
    /\ Fault
    /\ Finish("malformed", NoSession, Recorded(200))
    /\ \/ UNCHANGED <<sessions, handed, orphans>>
       \/ /\ handed < MaxSessions /\ handed' = handed + 1
          /\ sessions' = sessions \union {handed + 1}
          /\ orphans' = orphans \union {handed + 1}
    /\ UNCHANGED <<applied, ops>>

(* The server knows the session and does what it is asked. *)
Served ==
    /\ applied' = applied + 1
    /\ sessions' = IF op \in {"logout", "close"} THEN sessions \ {sid} ELSE sessions

(* _send_raw and request: the operation with the session's headers, ... *)
Exchange ==
    /\ op # "idle" /\ sid # NoSession /\ sid \in sessions
    /\ Served
    /\ Finish("ok", sid, Recorded(200))
    /\ UNCHANGED <<handed, orphans, ops, faults>>

(* ... whose answer is lost.  The adapter repeats a GET once for a broken   *)
(* read, which changes nothing on the server; other methods are not         *)
(* repeated.                                                                *)
ExchangeLost ==
    /\ op # "idle" /\ sid # NoSession /\ sid \in sessions
    /\ Fault
    /\ Served
    /\ Finish("connection", sid, Failed("offline"))
    /\ UNCHANGED <<handed, orphans, ops>>

(* The message itself is lost, or the server answers with an error.  The    *)
(* adapter repeats a GET for a busy server and in the end raises, so it is  *)
(* reported as an API error.  A logout that fails leaves the session to the *)
(* server.                                                                  *)
ExchangeFails ==
    /\ op # "idle" /\ sid # NoSession
    /\ Fault
    /\ \/ Finish("connection", sid, Failed("offline"))
       \/ \E s \in {400, 403} : Finish("refused", sid, Recorded(s))
       \/ op = "get" /\ Finish("connection", sid, Failed("api_error"))
       \/ op # "get" /\ Finish("refused", sid, Recorded(503))
    /\ orphans' = IF op \in {"logout", "close"} THEN orphans \union {sid} ELSE orphans
    /\ UNCHANGED <<sessions, handed, applied, ops>>

(* Faulty variant: a 403 renews too. *)
RenewAnyway ==
    /\ op # "idle" /\ sid # NoSession
    /\ ~renewed
    /\ sid' = NoSession /\ renewed' = TRUE /\ health' = Recorded(401)
    /\ UNCHANGED <<closed, op, sessions, handed, applied, orphans, outcome, ops, faults>>

(* 401 for a session the server does not know: forget it and send the       *)
(* operation again, ...                                                     *)
Renew ==
    /\ op # "idle" /\ sid # NoSession /\ sid \notin sessions
    /\ ~renewed
    /\ sid' = NoSession /\ renewed' = TRUE /\ health' = Recorded(401)
    /\ UNCHANGED <<closed, op, sessions, handed, applied, orphans, outcome, ops, faults>>

(* ... once. *)
RenewedInVain ==
    /\ op # "idle" /\ sid # NoSession /\ sid \notin sessions
    /\ renewed
    /\ Finish("refused", sid, Recorded(401))
    /\ UNCHANGED <<sessions, handed, applied, orphans, ops, faults>>

(* The server ends a session: it expires, is revoked, or FTL restarts. *)
SessionEnds ==
    \E s \in sessions :
        /\ sessions' = sessions \ {s}
        /\ UNCHANGED <<sid, closed, health, op, renewed, handed, applied, orphans,
                       outcome, ops, faults>>

-----------------------------------------------------------------------------
ConnNext ==
    \/ \E o \in {"get", "post"} : Begin(o)
    \/ BeginLogout \/ BeginClose \/ CloseUnused
    \/ Login \/ LoginRefused \/ LoginInvalid \/ LoginMalformed
    \/ Exchange \/ ExchangeLost \/ ExchangeFails
    \/ Renew \/ RenewedInVain \/ SessionEnds

-----------------------------------------------------------------------------
(* An operation reaches the server once: reported as done it was applied    *)
(* exactly once, although a 401 made request send it twice, and after a     *)
(* lost answer at most once.                                                *)
AppliedOnce ==
    /\ applied <= 1
    /\ op = "idle" /\ outcome = "ok" => applied = 1

(* Every session the server still holds is the one the connection uses or   *)
(* one a fault took from it: renewals and closes leave none behind.         *)
NoSessionLeft == sessions \ orphans \subseteq {sid}

(* A closed connection asks the server for nothing more. *)
ClosedIsSilent ==
    [][closed => handed' = handed /\ applied' = applied]_connVars

(* An operation that the server refused or that did not reach it never      *)
(* leaves the connection reported online (the status the window and the     *)
(* headless service show).  The one failure that does is the body that is   *)
(* no JSON object, in the answer to a login.                                *)
FailureIsReported ==
    op = "idle" /\ outcome \in {"refused", "connection"} => health.state # "online"

(* Through expired sessions and lost messages a change is applied once, no *)
(* session is left behind, refusals and losses show, and a closed          *)
(* connection is silent.                                                   *)
ConnectionSafe ==
    /\ [](ConnTypeOK /\ AppliedOnce /\ NoSessionLeft /\ FailureIsReported)
    /\ ClosedIsSilent
=============================================================================
