-------------------------- MODULE ProviderRegistry --------------------------
(***************************************************************************)
(* The registry of provider limits (provider_registry.py): bundled with    *)
(* the program, refreshed from a server, verified and cached as two files. *)
(* A payload is its version, its entries and who signed it; a signature is *)
(* the payload it was made for.                                            *)
(***************************************************************************)
EXTENDS Integers, Sequences, FiniteSets

CONSTANTS
    Nothing,        \* absent value
    Payloads,       \* registries: [ver, genuine, limits]
    Bundled,        \* the one in the program
    ProviderLimits, \* user limits of a provider: [mode, local, limits]
    Metrics,        \* metric and window of a limit
    MaxFetches      \* bound: refreshes

ASSUME BundledIsGenuine == Bundled \in Payloads /\ Bundled.genuine
ASSUME PayloadsAreRegistries ==
    /\ Nothing \notin Payloads
    /\ \A p \in Payloads : p.ver \in Nat /\ p.limits \in [Metrics -> Nat]
ASSUME LimitsAreNaturals ==
    \A p \in ProviderLimits : p.limits \in [Metrics -> Nat]

VARIABLES
    server,     \* registry and signature the server publishes
    cache,      \* cached registry, Nothing when there is none
    cacheSig,   \* payload the cached signature belongs to
    fetch,      \* step of the refresh: idle, registry, both, first
    got, gotSig, \* payload and signature of the refresh
    profile,    \* limits resolved last: what for, and the limits
    accepted,   \* history: the registry accepted last
    halfStored,       \* history: the process ended between the two files
    fetches

regVars == <<server, cache, cacheSig, fetch, got, gotSig, profile, accepted, halfStored, fetches>>

(* verify_registry_signature *)
Verified(payload, sig) == sig = payload /\ payload.genuine

(* load_provider_registry: the cached one when it is verified and not      *)
(* older than the bundled one.                                             *)
InUse ==
    IF cache = Nothing \/ cacheSig = Nothing THEN Bundled
    ELSE IF ~Verified(cache, cacheSig) THEN Bundled
    ELSE IF cache.ver < Bundled.ver THEN Bundled ELSE cache

-----------------------------------------------------------------------------
RegInit ==
    /\ server = [payload |-> Bundled, sig |-> Bundled]
    /\ cache = Nothing /\ cacheSig = Nothing
    /\ fetch = "idle" /\ got = Nothing /\ gotSig = Nothing
    /\ profile = Nothing /\ accepted = Bundled /\ halfStored = FALSE /\ fetches = 0

(* The server publishes a registry, then its signature. *)
PublishPayload ==
    \E p \in Payloads :
        /\ server' = [server EXCEPT !.payload = p]
        /\ UNCHANGED <<cache, cacheSig, fetch, got, gotSig, profile, accepted, halfStored, fetches>>

PublishSignature ==
    /\ server' = [server EXCEPT !.sig = server.payload]
    /\ UNCHANGED <<cache, cacheSig, fetch, got, gotSig, profile, accepted, halfStored, fetches>>

(* refresh_provider_registry: two requests, ... *)
FetchRegistry ==
    /\ fetch = "idle"
    /\ fetches < MaxFetches
    /\ fetches' = fetches + 1
    /\ got' = server.payload
    /\ fetch' = "registry"
    /\ UNCHANGED <<server, cache, cacheSig, gotSig, profile, accepted, halfStored>>

FetchSignature ==
    /\ fetch = "registry"
    /\ gotSig' = server.sig
    /\ fetch' = "both"
    /\ UNCHANGED <<server, cache, cacheSig, got, profile, accepted, halfStored, fetches>>

Acceptable(payload, sig) == Verified(payload, sig) /\ payload.ver >= InUse.ver

(* ... the checks, and the first file; a refused registry changes nothing. *)
AcceptRegistry ==
    /\ fetch = "both"
    /\ IF Acceptable(got, gotSig)
       THEN cache' = got /\ fetch' = "first" /\ UNCHANGED <<got, gotSig>>
       ELSE fetch' = "idle" /\ got' = Nothing /\ gotSig' = Nothing /\ UNCHANGED cache
    /\ UNCHANGED <<server, cacheSig, profile, accepted, halfStored, fetches>>

(* Faulty variant: the cached signature stays the one of the last file. *)
WriteNoSignature ==
    /\ fetch = "first"
    /\ accepted' = got
    /\ fetch' = "idle" /\ got' = Nothing /\ gotSig' = Nothing
    /\ UNCHANGED <<server, cache, cacheSig, profile, halfStored, fetches>>

WriteSignature ==
    /\ fetch = "first"
    /\ cacheSig' = gotSig
    /\ accepted' = got
    /\ fetch' = "idle" /\ got' = Nothing /\ gotSig' = Nothing
    /\ UNCHANGED <<server, cache, profile, halfStored, fetches>>

(* The process ends and starts again. *)
Restart ==
    /\ fetch # "idle"
    /\ halfStored' = (halfStored \/ fetch = "first")
    /\ fetch' = "idle" /\ got' = Nothing /\ gotSig' = Nothing
    /\ UNCHANGED <<server, cache, cacheSig, profile, accepted, fetches>>

-----------------------------------------------------------------------------
(* resolve_provider_limit_profile.  A limit of 0 is none. *)
NoLimits == [m \in Metrics |-> 0]

(* A local provider has no limits, one the registry does not know has none *)
(* either.                                                                 *)
RegistryLimits(p, r) == IF p.local \/ ~p.listed THEN NoLimits ELSE r.limits

(* The smaller of two limits, where both are set. *)
Capped(a, b) == IF a > 0 /\ b > 0 THEN (IF a < b THEN a ELSE b) ELSE IF a > 0 THEN a ELSE b

Resolved(p, r) ==
    CASE p.mode = "manual" -> p.limits
      [] p.mode = "auto_cap" -> [m \in Metrics |-> Capped(RegistryLimits(p, r)[m], p.limits[m])]
      [] OTHER -> RegistryLimits(p, r)

(* A request resolves the limits of its provider. *)
ResolveLimits ==
    \E p \in ProviderLimits :
        /\ profile' = [for |-> p, from |-> InUse, limits |-> Resolved(p, InUse)]
        /\ UNCHANGED <<server, cache, cacheSig, fetch, got, gotSig, accepted, halfStored, fetches>>

RegNext ==
    \/ PublishPayload \/ PublishSignature
    \/ FetchRegistry \/ FetchSignature \/ AcceptRegistry \/ WriteSignature
    \/ Restart \/ ResolveLimits

RegSpec == RegInit /\ [][RegNext]_regVars

-----------------------------------------------------------------------------
(* Limits come from a registry that is signed and not older than the one   *)
(* of the program, whatever the server published, and wherever a refresh   *)
(* was interrupted.                                                        *)
RegistryTrusted ==
    profile # Nothing => profile.from.genuine /\ profile.from.ver >= Bundled.ver

(* Between refreshes the registry accepted last is the one in use, unless  *)
(* a refresh was cut off between its two files or the program brings a     *)
(* newer one.                                                              *)
RegistryNotLost == (fetch # "first" /\ ~halfStored) => InUse = accepted \/ accepted.ver < Bundled.ver

(* A refresh never replaces the registry by an older one. *)
NoRegistryDowngrade == [][accepted'.ver >= accepted.ver \/ halfStored]_regVars

(* With a cap, no limit is above the one of the registry or above the one  *)
(* of the user.                                                            *)
CapsRespected ==
    (profile # Nothing /\ profile.for.mode = "auto_cap") =>
        \A m \in Metrics :
            /\ profile.for.limits[m] > 0 => profile.limits[m] \in 1..profile.for.limits[m]
            /\ RegistryLimits(profile.for, profile.from)[m] > 0 =>
                  profile.limits[m] \in 1..RegistryLimits(profile.for, profile.from)[m]

(* The registry in use is trusted, the last one accepted, never replaced by*)
(* an older one, and its limits are combined with those of the user.       *)
RegistrySafe ==
    /\ [](RegistryTrusted /\ RegistryNotLost /\ CapsRespected)
    /\ NoRegistryDowngrade
=============================================================================
