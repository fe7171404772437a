--------------------------- MODULE OptionsFormat ---------------------------
(***************************************************************************)
(* What load_options makes of a configuration file (config.py): migration  *)
(* of older layouts, then validation.  Of each group of settings the model *)
(* keeps the ones other settings depend on; None is an absent or           *)
(* unparsable value, and every other scalar is clamped in the same way.    *)
(***************************************************************************)
EXTENDS Integers, SequencesExt

CONSTANTS
    Nil,            \* absent or unparsable value
    FreshIds,       \* generated provider ids, by position
    NormalOf,       \* spelling of a tag -> normalised tag
    DefaultTags,    \* _DEFAULT_TAGS
    DefaultOrder,   \* columns of the review table, in order
    DefaultKinds,   \* kinds of evidence source: [kind, on], in order
    CurrentVersion  \* CURRENT_SCHEMA_VERSION

Number == Int \cup {Nil}

Spellings == DOMAIN NormalOf

TagPolicy == [tag : Spellings, policy : STRING]

Kind == [kind : STRING, on : BOOLEAN]

Distinct(s) == \A i, j \in DOMAIN s : s[i] = s[j] => i = j

ASSUME VersionIsPositive == CurrentVersion \in Nat \ {0}

ASSUME NilIsNoValue == Nil \notin Int \cup STRING \cup Spellings \cup TagPolicy

(* The words the program chooses are texts. *)
ASSUME ChoicesAreText ==
    {"stable", "prerelease", "manual_review", "order", "queued", "realtime", "background",
     "distribute", "fallback", "compare", "verify"} \subseteq STRING

ASSUME TagsAreNormal ==
    /\ NormalOf \in [Spellings -> Spellings]
    /\ \A t \in Spellings : NormalOf[NormalOf[t]] = NormalOf[t]
    /\ "unknown" \in Spellings /\ NormalOf["unknown"] = "unknown"
    /\ DefaultTags \in Seq(Spellings)

ASSUME DefaultLayouts ==
    /\ DefaultOrder \in Seq(STRING) /\ Distinct(DefaultOrder)
    /\ {"order", "queued"} \subseteq ToSet(DefaultOrder)
    /\ DefaultKinds \in Seq(Kind)

(* The elements of s at the positions of P, in their order. *)
Picked(s, P) ==
    [n \in 1..Cardinality(P) |-> s[CHOOSE k \in P : Cardinality({j \in P : j <= k}) = n]]

Those(s, V) == Picked(s, {i \in DOMAIN s : s[i] \in V})

Without(s, V) == Picked(s, {i \in DOMAIN s : s[i] \notin V})

Once(s) == Picked(s, {i \in DOMAIN s : s[i] # Nil /\ \A j \in 1..(i - 1) : s[j] # s[i]})

AsInt(v, default) == IF v = Nil THEN default ELSE v

AtLeast(lo, v) == IF v < lo THEN lo ELSE v

Between(lo, hi, v) == IF v < lo THEN lo ELSE IF v > hi THEN hi ELSE v

-----------------------------------------------------------------------------
(* Migration. *)

(* A provider keeps its id unless it has none or an earlier one has it. *)
UniqueIds(ids) ==
    [i \in DOMAIN ids |->
        IF ids[i] # Nil /\ \A j \in 1..(i - 1) : ids[j] # ids[i] THEN ids[i] ELSE FreshIds[i]]

MigrateProviders(raw) == IF raw = <<>> THEN <<FreshIds[1]>> ELSE UniqueIds(raw)

ActiveId(ids, active) == ids[Between(0, Len(ids) - 1, AsInt(active, 0)) + 1]

DefaultPool(pool, id) ==
    [pool |-> pool, mode |-> IF pool = "realtime" THEN "fallback" ELSE "distribute", members |-> <<id>>]

(* Memberships of providers that are gone are dropped, missing pools are   *)
(* added with the active provider.                                         *)
MigratePools(pools, ids, active) ==
    LET kept == [i \in DOMAIN pools |->
                    [pools[i] EXCEPT !.members = Those(@, ToSet(ids))]]
        absent == Without(<<"realtime", "background">>, {pools[i].pool : i \in DOMAIN pools})
    IN  kept \o [i \in DOMAIN absent |-> DefaultPool(absent[i], ActiveId(ids, active))]

KindsOf(s) == {s[i].kind : i \in DOMAIN s}

(* Unsupported evidence sources are dropped, a legacy switch turns all of  *)
(* them off, and the sources that are missing are added.                   *)
MigrateKinds(kinds, legacyOff) ==
    LET supported == Picked(kinds, {i \in DOMAIN kinds : kinds[i].kind \in KindsOf(DefaultKinds)})
        kept == [i \in DOMAIN supported |-> [supported[i] EXCEPT !.on = @ /\ ~legacyOff]]
    IN  kept \o Picked(DefaultKinds, {i \in DOMAIN DefaultKinds : DefaultKinds[i].kind \notin KindsOf(kept)})

(* The columns order and queued join a stored layout as second and third. *)
MigrateColumns(order) ==
    LET With(s, c, i) == IF s = <<>> \/ c \in ToSet(s) THEN s
                         ELSE InsertAt(s, IF i <= Len(s) THEN i ELSE Len(s) + 1, c)
    IN  With(With(order, "order", 2), "queued", 3)

Migrate(raw) ==
    LET ids == MigrateProviders(raw.providers)
    IN  [raw EXCEPT !.version = CurrentVersion,
                    !.providers = ids,
                    !.pools = MigratePools(raw.pools, ids, raw.active),
                    !.kinds = MigrateKinds(raw.kinds, raw.legacyOff),
                    !.legacyOff = FALSE,
                    !.order = MigrateColumns(raw.order)]

-----------------------------------------------------------------------------
(* Validation. *)

MaxPort == 65535
DefaultPort == 8765

(* Numbers are clamped: of those of the services, the port. *)
ValidateServices(o) == [o EXCEPT !.port = Between(1, MaxPort, AsInt(@, DefaultPort))]

(* A value outside a choice becomes the default; the former name of the    *)
(* update channel is translated.                                           *)
ValidateChoices(o) ==
    [o EXCEPT !.channel = IF @ = "development" THEN "prerelease"
                          ELSE IF @ \in {"stable", "prerelease"} THEN @ ELSE "stable"]

(* A request takes at most a worker's batch. *)
ValidateBatches(o) ==
    LET batch == AtLeast(1, AsInt(o.batch, 25))
        asked == AtLeast(1, AsInt(o.perRequest, 10))
    IN  [o EXCEPT !.batch = batch, !.perRequest = IF asked > batch THEN batch ELSE asked]

(* The review threshold is not above the one of automatic actions. *)
ValidateThresholds(o) ==
    LET auto == Between(0, 100, AsInt(o.auto, 95))
        review == Between(0, 100, AsInt(o.review, 75))
    IN  [o EXCEPT !.auto = auto, !.review = IF review > auto THEN auto ELSE review]

(* Tags and the keys of their policies are normalised; a later spelling of *)
(* a key wins; a tag without a policy goes to manual review.               *)
ValidateTags(o) ==
    LET named == Once([i \in DOMAIN o.tags |-> NormalOf[o.tags[i]]])
        tags == IF named = <<>> THEN <<"unknown">> ELSE named
        keys == {NormalOf[p.tag] : p \in ToSet(o.policies)}
        Latest(t) == Max({i \in DOMAIN o.policies : NormalOf[o.policies[i].tag] = t})
        stated == [i \in DOMAIN o.policies |->
                      [tag |-> NormalOf[o.policies[i].tag],
                       policy |-> o.policies[Latest(NormalOf[o.policies[i].tag])].policy]]
        unstated == Without(tags, keys)
    IN  [o EXCEPT !.tags = tags,
                  !.policies = Once(stated) \o
                      [i \in DOMAIN unstated |-> [tag |-> unstated[i], policy |-> "manual_review"]]]

(* The known columns once each, then the ones the layout lacks. *)
ValidateTables(o) ==
    LET kept == Once(Those(o.order, ToSet(DefaultOrder)))
    IN  [o EXCEPT !.order = kept \o Without(DefaultOrder, ToSet(kept))]

ValidateProviders(o) ==
    LET ids == IF o.providers = <<>> THEN <<FreshIds[1]>> ELSE UniqueIds(o.providers)
    IN  [o EXCEPT !.providers = ids, !.active = Between(0, Len(ids) - 1, AsInt(@, 0))]

ValidateKinds(o) == [o EXCEPT !.kinds = MigrateKinds(@, FALSE)]

(* A pool keeps the configured providers, once each, or falls back to the  *)
(* active one.                                                             *)
PoolMembers(members, ids, active) ==
    LET kept == Once(Those(members, ToSet(ids)))
    IN  IF kept = <<>> THEN <<ids[active + 1]>> ELSE kept

(* Exactly the two pools, in order; of two with one name the first. *)
ValidatePools(o) ==
    LET Valid(p) ==
            [p EXCEPT !.mode = IF @ \in {"distribute", "fallback", "compare", "verify"} THEN @
                               ELSE DefaultPool(p.pool, 0).mode,
                      !.members = PoolMembers(@, o.providers, o.active)]
        Pool(name) ==
            IF \E i \in DOMAIN o.pools : o.pools[i].pool = name
            THEN Valid(o.pools[Min({i \in DOMAIN o.pools : o.pools[i].pool = name})])
            ELSE DefaultPool(name, o.providers[o.active + 1])
    IN  [o EXCEPT !.pools = <<Pool("realtime"), Pool("background")>>]

Validate(o) ==
    [ValidatePools(ValidateKinds(ValidateProviders(ValidateTables(ValidateChoices(ValidateTags(
        ValidateThresholds(ValidateBatches(ValidateServices(o))))))))) EXCEPT !.version = CurrentVersion]

(* The options a missing or unreadable file stands for. *)
DefaultOptions(sim, url, pw) ==
    Validate([version |-> CurrentVersion, port |-> Nil, channel |-> "stable", batch |-> Nil,
              perRequest |-> Nil, auto |-> Nil, review |-> Nil,
              tags |-> DefaultTags, policies |-> <<>>, order |-> <<>>, providers |-> <<>>, active |-> 0,
              pools |-> <<>>, kinds |-> <<>>, legacyOff |-> FALSE,
              sim |-> sim, url |-> url, pw |-> pw])
=============================================================================
