---------------------------- MODULE Credentials ----------------------------
(***************************************************************************)
(* The secrets of the configuration files (credentials.py).  They live in  *)
(* the keyring of the operating system; a secret the keyring cannot take   *)
(* stays in the file as plaintext.  The outcome of the last read of a key  *)
(* is remembered, so that a save does not delete a secret that could not   *)
(* be read.                                                                *)
(***************************************************************************)
EXTENDS Naturals, Sequences, FiniteSets

CONSTANTS
    None,       \* absent value; also the empty secret
    Secrets,    \* passwords, tokens and keys
    Keys        \* entries of the keyring

VARIABLES
    keyring,    \* secret under each key, None when there is none
    up,         \* the keyring backend answers
    readState   \* _READ_STATES: unread, present, missing or unavailable

credVars == <<keyring, up, readState>>

(* _read_secret *)
ReadState(k) ==
    IF ~up THEN "unavailable" ELSE IF keyring[k] = None THEN "missing" ELSE "present"

(* Value of a slot after loading: the stored one when there is one. *)
Hydrated(k, plain) == IF ReadState(k) = "present" THEN keyring[k] ELSE plain

(* A plaintext value that is in the keyring after the load, so that the    *)
(* file can be rewritten without it.                                       *)
Migrated(k, plain) == plain # None /\ up

(* The slots of vals are read; a plaintext the keyring lacks is moved in.  *)
AfterLoad(vals) ==
    /\ keyring' = [k \in Keys |->
         IF k \in DOMAIN vals /\ ReadState(k) = "missing" THEN vals[k] ELSE keyring[k]]
    /\ readState' = [k \in Keys |->
         IF k \notin DOMAIN vals THEN readState[k]
         ELSE IF Migrated(k, vals[k]) THEN "present" ELSE ReadState(k)]

(* Faulty variant: the outcome of the last read is not looked at. *)
DeletesUnread(k, value) == value = None /\ up

(* An empty value deletes the stored one, unless it could not be read. *)
Deletes(k, value) == value = None /\ up /\ readState[k] # "unavailable"

(* The slots of vals are stored or deleted. *)
AfterSave(vals) ==
    /\ keyring' = [k \in Keys |->
         IF k \notin DOMAIN vals THEN keyring[k]
         ELSE IF vals[k] # None /\ up THEN vals[k]
         ELSE IF Deletes(k, vals[k]) THEN None ELSE keyring[k]]
    /\ readState' = [k \in Keys |->
         IF k \notin DOMAIN vals THEN readState[k]
         ELSE IF vals[k] # None /\ up THEN "present"
         ELSE IF Deletes(k, vals[k]) /\ keyring[k] # None THEN "missing" ELSE readState[k]]

(* What the file keeps of the secrets: those the keyring did not take. *)
Payload(vals) == [k \in DOMAIN vals |-> IF up THEN None ELSE vals[k]]

(* The keyring is locked, unlocked, or its service stops. *)
BackendChanges ==
    /\ up' = ~up
    /\ UNCHANGED <<keyring, readState>>

CredTypeOK ==
    /\ keyring \in [Keys -> Secrets \cup {None}]
    /\ up \in BOOLEAN
    /\ readState \in [Keys -> {"unread", "present", "missing", "unavailable"}]
=============================================================================
