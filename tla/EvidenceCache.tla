--------------------------- MODULE EvidenceCache ---------------------------
(***************************************************************************)
(* The files a downloaded catalogue is cached in (research_common.py):     *)
(* the payload and its metadata, each written whole, one after the other,  *)
(* by the thread that holds the catalogue's lock.  Another thread may      *)
(* rewrite the metadata to scrub a secret without that lock.  A payload is *)
(* its version, and so is the ETag the server gives it.                    *)
(***************************************************************************)
EXTENDS Integers

CONSTANTS
    Fetchers,       \* threads of one process
    Absent,         \* no such file
    Empty,          \* the empty payload of a 304 answer
    MaxVersion,     \* bound: versions the server publishes
    MaxCrashes      \* bound: ends of the process

VARIABLES
    payload,        \* the .bin file
    meta,           \* the .json file: etag, fresh, secret
    owner,          \* thread that holds _cache_lock
    at,             \* step of each thread
    copy,           \* metadata a thread has read
    got,            \* version a thread received
    published,      \* external: version the server has
    crashes

cacheVars == <<payload, meta, owner, at, copy, got, published, crashes>>

Versions == 1..MaxVersion

Metadata == [etag : Versions, fresh : BOOLEAN, secret : BOOLEAN]

ASSUME CacheConstants ==
    /\ MaxVersion \in Nat \ {0}
    /\ Absent \notin Versions \union Metadata \union Fetchers
    /\ Empty \notin Versions

CacheTypeOK ==
    /\ payload \in Versions \union {Absent, Empty}
    /\ meta \in Metadata \union {Absent}
    /\ owner \in Fetchers \union {Absent}
    /\ at \in [Fetchers -> {"idle", "request", "first", "second", "scrub"}]
    /\ \A f \in Fetchers : at[f] \in {"request", "first", "second"} <=> owner = f
    /\ published \in Versions

(* An older release kept the key in the metadata's URL. *)
CacheInit ==
    /\ published = 1
    /\ \/ payload = Absent /\ meta = Absent
       \/ payload = 1 /\ meta = [etag |-> 1, fresh |-> FALSE, secret |-> TRUE]
    /\ owner = Absent
    /\ at = [f \in Fetchers |-> "idle"]
    /\ copy = [f \in Fetchers |-> Absent]
    /\ got = [f \in Fetchers |-> Absent]
    /\ crashes = 0

-----------------------------------------------------------------------------
(* _scrub_cached_metadata_secret: read, ... *)
ScrubRead(f) ==
    /\ at[f] = "idle"
    /\ meta # Absent /\ meta.secret
    /\ copy' = [copy EXCEPT ![f] = meta]
    /\ at' = [at EXCEPT ![f] = "scrub"]
    /\ UNCHANGED <<payload, meta, owner, got, published, crashes>>

(* ... and write back without the secret what was read, then fetch. *)
ScrubWrite(f) ==
    /\ at[f] = "scrub"
    /\ meta' = [copy[f] EXCEPT !.secret = FALSE]
    /\ at' = [at EXCEPT ![f] = "idle"]
    /\ UNCHANGED <<payload, owner, copy, got, published, crashes>>

(* fetch_cached_bytes, once nothing is left to scrub: a fresh payload is    *)
(* used as it is, which changes nothing; else the server is asked, with the *)
(* validators of the metadata.                                              *)
AskServer(f) ==
    /\ at[f] = "idle" /\ owner = Absent
    /\ ~(meta # Absent /\ meta.secret)
    /\ ~(payload # Absent /\ meta # Absent /\ meta.fresh)
    /\ owner' = f
    /\ copy' = [copy EXCEPT ![f] = meta]
    /\ at' = [at EXCEPT ![f] = "request"]
    /\ UNCHANGED <<payload, meta, got, published, crashes>>

EtagMatches(f) == copy[f] # Absent /\ copy[f].etag = published

(* 304 and a payload: the metadata is renewed from what was read. *)
NotModified(f) ==
    /\ at[f] = "request" /\ EtagMatches(f) /\ payload # Absent
    /\ meta' = [copy[f] EXCEPT !.fresh = TRUE]
    /\ owner' = Absent
    /\ at' = [at EXCEPT ![f] = "idle"]
    /\ UNCHANGED <<payload, copy, got, published, crashes>>

(* Faulty variant: the metadata names the URL that was asked. *)
ReceiveWithKey(f) ==
    /\ at[f] = "request" /\ ~(EtagMatches(f) /\ payload # Absent)
    /\ got' = [got EXCEPT ![f] = IF EtagMatches(f) THEN Empty ELSE published]
    /\ copy' = [copy EXCEPT ![f] = [etag |-> published, fresh |-> TRUE, secret |-> TRUE]]
    /\ at' = [at EXCEPT ![f] = "first"]
    /\ UNCHANGED <<payload, meta, owner, published, crashes>>

(* 200, or a 304 without a payload, whose empty body is stored. *)
Receive(f) ==
    /\ at[f] = "request" /\ ~(EtagMatches(f) /\ payload # Absent)
    /\ got' = [got EXCEPT ![f] = IF EtagMatches(f) THEN Empty ELSE published]
    /\ copy' = [copy EXCEPT ![f] = [etag |-> published, fresh |-> TRUE, secret |-> FALSE]]
    /\ at' = [at EXCEPT ![f] = "first"]
    /\ UNCHANGED <<payload, meta, owner, published, crashes>>

(* An error status or no answer. *)
FetchFails(f) ==
    /\ at[f] = "request"
    /\ owner' = Absent
    /\ at' = [at EXCEPT ![f] = "idle"]
    /\ UNCHANGED <<payload, meta, copy, got, published, crashes>>

(* Faulty variant: the metadata first. *)
MetadataFirst == <<"metadata", "payload">>

WriteOrder == <<"payload", "metadata">>

Stored(f, file) ==
    /\ payload' = IF file = "payload" THEN got[f] ELSE payload
    /\ meta' = IF file = "metadata" THEN copy[f] ELSE meta

(* Two files, each replaced as a whole (_atomic_write). *)
WriteFirst(f) ==
    /\ at[f] = "first"
    /\ Stored(f, WriteOrder[1])
    /\ at' = [at EXCEPT ![f] = "second"]
    /\ UNCHANGED <<owner, copy, got, published, crashes>>

WriteSecond(f) ==
    /\ at[f] = "second"
    /\ Stored(f, WriteOrder[2])
    /\ owner' = Absent
    /\ at' = [at EXCEPT ![f] = "idle"]
    /\ UNCHANGED <<copy, got, published, crashes>>

(* max_age passes. *)
GrowOld ==
    /\ meta # Absent /\ meta.fresh
    /\ meta' = [meta EXCEPT !.fresh = FALSE]
    /\ UNCHANGED <<payload, owner, at, copy, got, published, crashes>>

Publish ==
    /\ published < MaxVersion
    /\ published' = published + 1
    /\ UNCHANGED <<payload, meta, owner, at, copy, got, crashes>>

(* The process ends anywhere; the files stay. *)
CacheCrash ==
    /\ crashes < MaxCrashes
    /\ crashes' = crashes + 1
    /\ owner' = Absent
    /\ at' = [f \in Fetchers |-> "idle"]
    /\ copy' = [f \in Fetchers |-> Absent]
    /\ got' = [f \in Fetchers |-> Absent]
    /\ UNCHANGED <<payload, meta, published>>

CacheNext ==
    \/ \E f \in Fetchers :
        \/ ScrubRead(f) \/ ScrubWrite(f) \/ AskServer(f)
        \/ NotModified(f) \/ Receive(f) \/ FetchFails(f)
        \/ WriteFirst(f) \/ WriteSecond(f)
    \/ GrowOld \/ Publish \/ CacheCrash

-----------------------------------------------------------------------------
(* The validators never run ahead of the payload: whatever order threads,   *)
(* the scrub and the end of the process take, an ETag on disk is of the     *)
(* stored payload or of an older one.  So a 304 can neither confirm a       *)
(* payload that is not the server's nor come without one.                   *)
ValidatorsBehindPayload ==
    meta # Absent => payload \in Versions /\ meta.etag <= payload

(* A key once scrubbed from the metadata is never written back, whichever   *)
(* fetch, confirmation or late scrub writes the file next.                  *)
SecretStaysScrubbed ==
    [][meta # Absent /\ ~meta.secret => meta' # Absent /\ ~meta'.secret]_cacheVars

(* The two files of a catalogue always belong together.                    *)
CacheInv == CacheTypeOK /\ ValidatorsBehindPayload
=============================================================================
