--------------------------- MODULE MCInstallation ---------------------------
(***************************************************************************)
(* What an installation keeps on disk between two starts: its settings and *)
(* secrets, the registry of providers, and the program itself with the     *)
(* database it migrates.  They share no state here; a behaviour shows one  *)
(* of them.                                                                *)
(***************************************************************************)
EXTENDS AppUpdate, ProviderRegistry, SettingsStore, TLC

VARIABLE part

CONSTANTS b0, b1, d1, d2,
          p1, p2, p3, f1, f2, f3, i1, i2, i3, kPw, kVapid, k1, k2, k3, u1, u2, s1, s2

installationVars == <<updVars, regVars, setVars, part>>

Release(v, dev, pre, draft, dig, b) ==
    [ver |-> v, dev |-> dev, pre |-> pre, draft |-> draft, digest |-> dig, build |-> b,
     assets |-> IF dig = Unset THEN {"platform", "other"} ELSE {"exact", "platform"}]

MCFeeds ==
    { <<Release(9, FALSE, FALSE, TRUE, Unset, Unset), Release(2, FALSE, TRUE, FALSE, d1, Unset),
        Release(1, FALSE, FALSE, FALSE, Unset, Unset)>>,
      <<Release(1, TRUE, TRUE, FALSE, Unset, b1), Release(2, FALSE, FALSE, FALSE, d1, Unset)>>,
      <<Release(0, FALSE, FALSE, FALSE, Unset, Unset), Release(2, FALSE, TRUE, FALSE, Unset, Unset)>> }

MCArchives ==
    { [ver |-> 2, build |-> b1, digest |-> d1, platform |-> "here"],
      [ver |-> 1, build |-> b1, digest |-> d2, platform |-> "here"],
      [ver |-> 0, build |-> Unset, digest |-> d2, platform |-> "here"],
      [ver |-> 2, build |-> b1, digest |-> d2, platform |-> "there"] }

Limits(a, b) == ("rpm" :> a) @@ ("tpd" :> b)

MCBundled == [ver |-> 2, genuine |-> TRUE, limits |-> Limits(3, 0)]

MCPayloads ==
    { MCBundled,
      [ver |-> 1, genuine |-> TRUE, limits |-> Limits(1, 1)],
      [ver |-> 3, genuine |-> TRUE, limits |-> Limits(2, 2)],
      [ver |-> 5, genuine |-> FALSE, limits |-> Limits(9, 9)] }

Provider(m, l, k, a, b) == [mode |-> m, local |-> l, listed |-> k, limits |-> Limits(a, b)]

MCProviderLimits ==
    { Provider("auto", FALSE, TRUE, 1, 1), Provider("auto_cap", FALSE, TRUE, 4, 1),
      Provider("auto_cap", TRUE, TRUE, 1, 0), Provider("auto_cap", FALSE, FALSE, 0, 2),
      Provider("manual", FALSE, TRUE, 9, 0) }

MCNameOrder == <<p2, f1, p3, f2, p1, f3>>
MCFreshIds == <<f1, f2, f3>>
MCNormalOf == [ads |-> "ads", Ads |-> "ads", cdn |-> "cdn", unknown |-> "unknown"]
MCDefaultTags == <<"ads", "unknown">>
MCDefaultOrder == <<"selected", "order", "queued", "domain">>
MCDefaultKinds == <<[kind |-> "adguard", on |-> TRUE], [kind |-> "rdap", on |-> FALSE]>>
MCInstKey == (i1 :> k1) @@ (i2 :> k2) @@ (i3 :> k3)

MCRawRegistries ==
    { Nil, Corrupt, Later,
      [active |-> i2, list |-> <<[id |-> i1, url |-> u1], [id |-> i2, url |-> u2]>>] }

(* A file of an earlier version, one of this version edited by hand, and   *)
(* one of a later version.                                                 *)
Legacy ==
    [version |-> 3, port |-> 0, channel |-> "development", batch |-> 5, perRequest |-> 10, auto |-> 60, review |-> 75,
     tags |-> <<"Ads", "ads", "cdn">>,
     policies |-> <<[tag |-> "ads", policy |-> "allow"], [tag |-> "Ads", policy |-> "deny"]>>,
     order |-> <<"domain", "gone", "selected">>, providers |-> <<p1, p1>>, active |-> 1,
     pools |-> <<>>, kinds |-> <<[kind |-> "gone", on |-> TRUE], [kind |-> "rdap", on |-> TRUE]>>,
     legacyOff |-> TRUE, sim |-> FALSE, url |-> u2, pw |-> s1]

Edited ==
    [version |-> 18, port |-> 70000, channel |-> "nightly", batch |-> 0, perRequest |-> Nil, auto |-> Nil, review |-> 200,
     tags |-> <<>>, policies |-> <<>>, order |-> <<>>, providers |-> <<p1, p2>>, active |-> 7,
     pools |-> <<[pool |-> "background", mode |-> "fastest", members |-> <<p3, p2, p2>>],
                 [pool |-> "spare", mode |-> "fallback", members |-> <<p1>>],
                 [pool |-> "background", mode |-> "verify", members |-> <<p1>>]>>,
     kinds |-> <<>>, legacyOff |-> FALSE, sim |-> TRUE, url |-> u1, pw |-> None]

Future == [Edited EXCEPT !.version = 19]

MCRawFiles == {Absent, Legacy, Edited, Future}

(* Generated ids are interchangeable: the first registry gets one that is  *)
(* free.                                                                   *)
OneFreshId ==
    (gui = "pages" /\ gui' = "first" /\ ~Registered(reg)) =>
        insts'.active = IF Fresh(i1) THEN i1 ELSE IF Fresh(i2) THEN i2 ELSE i3

(* Where the user edits another file the instance has no password, its     *)
(* file stays readable and its first save goes through.                    *)
InstancesAside ==
    focus = "instances" \/ (instPw' = {} /\ reg' # Corrupt /\ (faults' # faults => gui # "first"))

(* The registry thread meets one edit of the options. *)
OneRacingEdit == (focus = "options" /\ bg' \in {"loaded", "stored"}) => saves' <= 1

(* The user starts the program a second time where the rollback went well. *)
SecondAside == botched' => proc'[Second].at = "off"

(* The part that is not shown is in its first state.  An old database is   *)
(* updated on the stable channel; without a registry the stored passwords  *)
(* differ only in their number.                                            *)
InstallationInit ==
    /\ part \in {"update", "registry", "settings"}
    /\ UpdInit /\ RegInit /\ SetInit
    /\ part # "update" => channel = "stable" /\ inside /\ db.ver = LegacyVersion
    /\ channel = "prerelease" => db.ver = LegacyVersion
    /\ reg = Corrupt => keyring[k3] = None /\ (keyring[k1] = None => keyring[k2] = None)
    /\ reg = Later => \A k \in Keys : keyring[k] = None
    /\ part # "settings" => file = Absent /\ focus = "options" /\ up

InstallationNext ==
    \/ part = "update" /\ UpdNext /\ SecondAside /\ UNCHANGED <<regVars, setVars, part>>
    \/ part = "registry" /\ RegNext /\ UNCHANGED <<updVars, setVars, part>>
    \/ part = "settings" /\ SetNext /\ OneFreshId /\ InstancesAside /\ OneRacingEdit
                          /\ UNCHANGED <<updVars, regVars, part>>

(* The script and the processes it started run on. *)
InstallationFairness ==
    /\ WF_updVars(part = "update" /\ ScriptNext)
    /\ \A p \in Procs : WF_updVars(part = "update" /\ AppSteps(p))
    /\ WF_updVars(part = "update" /\ MarkStarted)

InstallationSpec == InstallationInit /\ [][InstallationNext]_installationVars /\ InstallationFairness
=============================================================================
