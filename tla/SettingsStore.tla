--------------------------- MODULE SettingsStore ---------------------------
(***************************************************************************)
(* The configuration files and who reads and writes them.                  *)
(*                                                                         *)
(*   options    options.json (config.py): the Settings tab holds the       *)
(*              options it loaded at start-up and saves them whole; other  *)
(*              views and the registry thread load, change and save.       *)
(*   instances  pihole_instances.json: loaded by the Settings tab when it  *)
(*              is built, and written by it just before the options.       *)
(*   push       push_notifications.json: loaded and saved whole.           *)
(*                                                                         *)
(* A load runs under the lock of its file.  A save stores the secrets      *)
(* first and replaces the file afterwards, under the lock; the save of the *)
(* instances then deletes the secrets of the removed ones.  In a behaviour *)
(* the user edits one of the three files.                                  *)
(***************************************************************************)
EXTENDS Credentials, OptionsFormat

CONSTANTS
    Absent, Corrupt, \* a file that is missing, that is unreadable
    Later,          \* pihole_instances.json of a later schema
    RawFiles,       \* options.json at the first start: records, or Absent
    RawRegistries,  \* pihole_instances.json at the first start
    SlotKey,          \* keyring key of a secret of the options, such as an API key
    VapidKey,       \* keyring key of the generated push key
    Instances,      \* Pi-hole instance ids
    InstKey,        \* keyring key of each instance
    Urls,           \* base URLs
    NameOrder,      \* provider ids in the order of their names
    NewProvider,    \* id of a provider the user adds
    MaxSaves,       \* bound: edits and saves
    MaxFaults       \* bound: outages, unreadable files, crashes

ProviderIds == ToSet(NameOrder)

PoolEntry == [pool : STRING, mode : STRING, members : Seq(ProviderIds)]

(* Options: the settings as a file or a thread holds them. *)
Options ==
    [version : Nat, port : Number, channel : STRING, batch : Number, perRequest : Number,
     auto : Number, review : Number, tags : Seq(Spellings), policies : Seq(TagPolicy),
     order : Seq(STRING), providers : Seq(ProviderIds \cup {Nil}), active : Number,
     pools : Seq(PoolEntry), kinds : Seq(Kind), legacyOff : BOOLEAN, sim : BOOLEAN, url : Urls,
     pw : Secrets \cup {None}]

Registry == [active : Instances, list : Seq([id : Instances, url : Urls])]

ASSUME KeysAreDistinct ==
    /\ SlotKey \in Keys /\ VapidKey \in Keys /\ SlotKey # VapidKey
    /\ InstKey \in [Instances -> Keys \ {SlotKey, VapidKey}]
    /\ \A i, j \in Instances : InstKey[i] = InstKey[j] => i = j

ASSUME ValuesAreDistinct ==
    /\ None \notin Secrets /\ Nil \notin Secrets \cup {None}
    /\ Nil \notin Registry /\ Corrupt \notin Registry /\ Later \notin Registry
    /\ Later # Nil /\ Later # Corrupt
    /\ {Absent, Corrupt, Nil} \cap Options = {} /\ Absent # Corrupt
    /\ Secrets # {} /\ Urls # {} /\ Instances # {}
    /\ MaxSaves \in Nat /\ MaxFaults \in Nat

(* A registry the program wrote: its ids are distinct, one is active.     *)
ASSUME RegistriesAreKnown ==
    \A r \in RawRegistries \ {Nil, Corrupt, Later} :
        /\ r \in Registry
        /\ \E n \in DOMAIN r.list : r.list[n].id = r.active
        /\ \A m, n \in DOMAIN r.list : r.list[m].id = r.list[n].id => m = n

(* The name of a provider is its own, and an id is generated only where a  *)
(* file has none of its own or one twice.                                  *)
ASSUME ProvidersAreKnown ==
    /\ Distinct(NameOrder) /\ NameOrder \in Seq(ProviderIds) /\ Nil \notin ProviderIds
    /\ NewProvider \in ProviderIds
    /\ FreshIds \in Seq(ProviderIds) /\ Distinct(FreshIds) /\ FreshIds # <<>>
    /\ \A f \in RawFiles \ {Absent} :
        /\ f \in Options
        /\ Len(f.providers) <= Len(FreshIds)
        /\ ToSet(f.providers) \cap ToSet(FreshIds) = {}

VARIABLES
    file,       \* options.json: a record, Absent or Corrupt
    tab,        \* options of the Settings tab, Nil before it is built
    other,      \* options of the thread that loads, changes and saves, or Nil
    gui,        \* step of the GUI thread
    bg,         \* step of the registry thread
    pend,       \* payload of the GUI's save, secrets stored, file not replaced
    bgPend,     \* payload of the registry thread's save
    bgOpts,     \* options of the registry thread
    reg,        \* pihole_instances.json: a registry, Nil when absent, Corrupt or Later
    regPlain,   \* instances whose password stands in the file
    insts,      \* instances shown in the Settings tab
    instPw,     \* instances whose password the tab holds
    regStep,    \* next step of a save of the instances
    payload,    \* passwords the keyring did not take, for the file
    gone,       \* removed instances whose secrets are to be deleted
    push,       \* push_notifications.json, Nil when absent
    focus,      \* the file the user edits
    chosen,     \* history: simulation mode the user chose last
    secret,     \* history: secret the user saved last
    seq,        \* history: number of writes of options.json
    steady,     \* history: no change of the backend
    damaged,    \* history: options.json was unreadable
    raced,      \* history: the registry thread saved options older than the file
    torn,       \* history: a crash between the two files of one save
    cut,        \* history: the instances were unreadable, or a crash cut their save
    dropped,    \* history: instances whose password the user emptied
    saves, faults

setVars == <<file, tab, other, gui, bg, pend, bgPend, bgOpts, reg, insts, push, focus,
             chosen, secret, seq, steady, damaged, raced, torn, saves, faults, keyring, up, readState,
             regPlain, instPw, regStep, payload, gone, cut, dropped>>

ui == <<tab, other, gui, pend>>
thread == <<bg, bgPend, bgOpts>>
piholes == <<reg, insts, regPlain, instPw, regStep, payload, gone, cut, dropped>>
hist == <<chosen, secret, seq, steady, damaged, raced, torn>>

Fault == faults < MaxFaults /\ faults' = faults + 1
Saving == saves < MaxSaves /\ saves' = saves + 1

(* The main window is there, and with it the threads it starts. *)
Built == gui \notin {"start", "pages", "first"}

-----------------------------------------------------------------------------
(* options.json.  Beside the validated settings a record holds the         *)
(* simulation mode, the URL of the Pi-hole and a secret.                  *)
Defaults == DefaultOptions(TRUE, CHOOSE u \in Urls : TRUE, None)

Readable(f) == f \notin {Absent, Corrupt}
Newer(f) == Readable(f) /\ f.version > CurrentVersion

(* A file of a newer version is refused. *)
Loadable(f) == ~Newer(f)

(* What load_options returns; only a readable or a missing file has its    *)
(* secrets read from the keyring.                                          *)
Loaded ==
    LET o == IF Readable(file) THEN Validate(Migrate(file)) ELSE Defaults
    IN  IF file = Corrupt THEN o ELSE [o EXCEPT !.pw = Hydrated(SlotKey, o.pw)]

(* The load writes the file when it was missing or a secret was moved. *)
LoadWrites == file = Absent \/ (Readable(file) /\ Migrated(SlotKey, file.pw))

LoadOptions ==
    /\ Loadable(file)
    /\ IF file = Corrupt THEN UNCHANGED <<keyring, readState>>
       ELSE LET plain == IF Readable(file) THEN file.pw ELSE None
            IN  AfterLoad([k \in {SlotKey} |-> plain])
    /\ file' = IF LoadWrites
               THEN [Loaded EXCEPT !.pw = IF up THEN None ELSE Loaded.pw]
               ELSE file
    /\ seq' = IF LoadWrites THEN seq + 1 ELSE seq
    /\ UNCHANGED up

(* secure_options_payload of validated options. *)
StoreSecrets(o) == AfterSave([k \in {SlotKey} |-> o.pw]) /\ UNCHANGED up

ForFile(o) == [Validate(o) EXCEPT !.pw = Payload([k \in {SlotKey} |-> o.pw])[SlotKey]]

-----------------------------------------------------------------------------
(* pihole_instances.json *)
NamesOf(r) == [i \in DOMAIN r.list |-> r.list[i].id]
InstancesOf(r) == ToSet(NamesOf(r))
UrlOf(r, i) == r.list[CHOOSE n \in DOMAIN r.list : r.list[n].id = i].url

(* Faulty variant: the stored active instance is kept. *)
ReconcileNever(r, url) == r

(* The registry follows the options: the instance with their URL is the    *)
(* active one, and a single instance takes their URL.                      *)
Reconcile(r, url) ==
    IF \E n \in DOMAIN r.list : r.list[n].url = url
    THEN [r EXCEPT !.active = r.list[Min({n \in DOMAIN r.list : r.list[n].url = url})].id]
    ELSE IF Len(r.list) = 1 THEN [r EXCEPT !.list[1].url = url] ELSE r

(* A new id is generated for the instance of the options. *)
FirstRegistry(url, i) == [active |-> i, list |-> <<[id |-> i, url |-> url]>>]

Registered(r) == r \notin {Nil, Corrupt, Later}

(* _existing_instance_ids, and those a save removes. *)
ExistingIds(r) == IF Registered(r) THEN InstancesOf(r) ELSE {}
Removed(old, new) == ExistingIds(old) \ InstancesOf(new)

KeysOf(ids) == {InstKey[i] : i \in ids}

(* Passwords by key: those of the instances held, none for the others.     *)
(* Which password it is does not matter.                                   *)
Password == CHOOSE s \in Secrets : TRUE
Passwords(ids, held) == [k \in KeysOf(ids) |-> IF k \in KeysOf(held) THEN Password ELSE None]

(* A generated id was never used. *)
Fresh(i) == i \notin ExistingIds(reg) /\ keyring[InstKey[i]] = None

-----------------------------------------------------------------------------
SetInit ==
    /\ file \in RawFiles
    /\ tab = Nil /\ other = Nil /\ gui = "start" /\ bg = "idle"
    /\ pend = Nil /\ bgPend = Nil /\ bgOpts = Nil
    /\ insts = Nil /\ push = Nil /\ instPw = {} /\ regStep = "none" /\ payload = {} /\ gone = {}
    /\ focus \in {"options", "instances", "push"}
    /\ reg \in IF focus = "instances" THEN RawRegistries ELSE {Nil}
    /\ IF Registered(reg) THEN Readable(file) /\ ~Newer(file) /\ \E n \in DOMAIN reg.list : reg.list[n].url = file.url
       ELSE focus # "options" => file = Absent
    /\ up \in BOOLEAN
    /\ \E stored \in SUBSET Instances :
        /\ Registered(reg) => stored \subseteq InstancesOf(reg)
        /\ reg = Nil => stored = {}
        /\ keyring = [k \in Keys |-> IF k \in KeysOf(stored) THEN Password ELSE None]
        /\ regPlain = ExistingIds(reg) \ stored
        /\ steady = (up \/ stored = {})
    /\ cut = (reg \in {Corrupt, Later}) /\ dropped = {}
    /\ readState = [k \in Keys |-> "unread"]
    /\ chosen = IF Readable(file) THEN file.sim ELSE TRUE
    /\ secret = IF Readable(file) THEN file.pw ELSE None
    /\ seq = 0 /\ damaged = FALSE /\ raced = FALSE /\ torn = FALSE
    /\ saves = 0 /\ faults = 0

(* The page sorts the providers by name; the one shown in its form is the  *)
(* active one.                                                             *)
Sorted(ids) == Those(NameOrder, ToSet(ids))

ShowProvider(o, id) ==
    LET ids == Sorted(o.providers)
    IN  [o EXCEPT !.providers = ids, !.active = (CHOOSE n \in DOMAIN ids : ids[n] = id) - 1]

(* The Settings tab is built: it loads the options and keeps them. *)
BuildTab ==
    /\ gui = "start"
    /\ LoadOptions
    /\ tab' = ShowProvider(Loaded, Loaded.providers[Loaded.active + 1])
    /\ gui' = "pages"
    /\ UNCHANGED <<other, pend, thread, piholes, push, focus, chosen, secret, steady, damaged, raced, torn, saves, faults>>

(* load_pihole_instances, when the page of the connection is filled: an    *)
(* instance whose URL is the one of the options is given their password,   *)
(* if they have one; passwords that stand in the file are moved into the   *)
(* keyring.  A registry of a later schema is refused.                      *)
LoadInstances ==
    /\ gui = "pages"
    /\ reg # Later
    /\ \/ Registered(reg) /\ insts' = Reconcile(reg, tab.url)
       \/ ~Registered(reg) /\ \E i \in Instances : Fresh(i) /\ insts' = FirstRegistry(tab.url, i)
    /\ \E given \in SUBSET {insts'.active} :
        /\ given # {} => UrlOf(insts', insts'.active) = tab.url
        /\ LET ids == InstancesOf(insts')
               inText == (regPlain \cap ids) \cup given
               rewrites == ~Registered(reg) \/ (up /\ inText # {})
           IN  /\ AfterLoad(Passwords(ids, inText))
               /\ instPw' = inText \cup {i \in ids : ReadState(InstKey[i]) = "present"}
               /\ gui' = IF rewrites THEN "first" ELSE "idle"
               /\ regStep' = IF rewrites THEN "secrets" ELSE "none"
    /\ dropped' = {}
    /\ UNCHANGED <<file, tab, other, pend, thread, reg, regPlain, payload, gone, cut, push, focus, hist, up, saves, faults>>

(* A worker thread reads the options at the start of a cycle. *)
WorkerReads ==
    /\ Built
    /\ LoadOptions
    /\ LoadWrites \/ keyring' # keyring \/ readState' # readState
    /\ UNCHANGED <<ui, thread, piholes, push, focus, chosen, secret, steady, damaged, raced, torn, saves, faults>>

(* The user changes a setting of a page; the tab saves all its options. *)
PageEdit(o) ==
    /\ focus = "options"
    /\ gui = "idle"
    /\ Saving
    /\ tab' = o
    /\ gui' = "tab"
    /\ UNCHANGED <<file, other, pend, thread, piholes, push, focus, hist, credVars, faults>>

SelectProvider ==
    tab # Nil /\ \E id \in ToSet(tab.providers) : PageEdit(ShowProvider(tab, id))

WithProvider(o) == ShowProvider([o EXCEPT !.providers = Append(@, NewProvider)], NewProvider)

(* A custom provider, or the copy of one. *)
AddProvider ==
    /\ tab # Nil
    /\ NewProvider \notin ToSet(tab.providers)
    /\ PageEdit(WithProvider(tab))

(* A preset brings its recommended batch sizes. *)
AddPreset ==
    /\ tab # Nil
    /\ NewProvider \notin ToSet(tab.providers)
    /\ PageEdit([WithProvider(tab) EXCEPT !.batch = 5, !.perRequest = 5])

(* The scan for local servers found the provider: added, or shown when it  *)
(* is configured.                                                          *)
DiscoverProvider ==
    /\ tab # Nil
    /\ PageEdit(IF NewProvider \in ToSet(tab.providers) THEN ShowProvider(tab, NewProvider)
                ELSE WithProvider(tab))

(* The provider of the form is removed, from the pools too; the next one   *)
(* is shown.                                                               *)
WithoutShown(o) ==
    LET n == o.active + 1
        rest == RemoveAt(o.providers, n)
        pools == [i \in DOMAIN o.pools |->
                     [o.pools[i] EXCEPT !.members = Without(o.pools[i].members, {o.providers[n]})]]
    IN  ShowProvider([o EXCEPT !.providers = rest, !.pools = pools],
                     rest[IF n <= Len(rest) THEN n ELSE Len(rest)])

RemoveProvider ==
    /\ tab # Nil
    /\ Len(tab.providers) > 1
    /\ PageEdit(WithoutShown(tab))

(* The pools page writes the members its list shows, which it loaded       *)
(* before: one of them may be gone.                                        *)
EditPool ==
    tab # Nil /\ \E i \in DOMAIN tab.pools, m \in ToSet(tab.providers) \cup {NewProvider} :
        PageEdit([tab EXCEPT !.pools[i].members = <<m>>, !.pools[i].mode = "compare"])

SetNumbers ==
    tab # Nil /\ \E n \in {0, 30} :
        PageEdit([tab EXCEPT !.batch = n, !.perRequest = 20, !.auto = n])

(* A secret of a page, such as the API key of the provider of the form. *)
SetSecret ==
    tab # Nil /\ \E s \in Secrets \cup {None} : s # tab.pw /\ PageEdit([tab EXCEPT !.pw = s])

(* Faulty variant: the Settings tab keeps its own simulation mode. *)
SyncTabNever(sim) == tab' = tab

(* The Settings tab is told of the simulation mode. *)
SyncTab(sim) == tab' = [tab EXCEPT !.sim = sim]

(* A view of the main window loads, changes and saves: the header button   *)
(* of the simulation mode.                                                 *)
ToggleSimulation ==
    /\ focus = "options"
    /\ gui = "idle"
    /\ Saving
    /\ LoadOptions
    /\ other' = [Loaded EXCEPT !.sim = ~chosen]
    /\ chosen' = ~chosen
    /\ gui' = "view"
    /\ UNCHANGED <<tab, pend, thread, piholes, push, focus, secret, steady, damaged, raced, torn, faults>>

(* First half of a save: validation and secrets. *)
GuiStores ==
    /\ gui \in {"tab", "view"}
    /\ pend = Nil
    /\ LET o == IF gui = "tab" THEN tab ELSE other
       IN  /\ StoreSecrets(o)
           /\ pend' = ForFile(o)
           /\ tab' = IF gui = "tab" THEN Validate(o) ELSE tab
           /\ secret' = IF gui = "tab" THEN o.pw ELSE secret
    /\ UNCHANGED <<file, other, gui, thread, piholes, push, focus,
                   chosen, seq, steady, damaged, raced, torn, saves, faults>>

(* Second half: the file is replaced. *)
GuiReplaces ==
    /\ gui \in {"tab", "view"}
    /\ pend # Nil
    /\ file' = pend
    /\ seq' = seq + 1
    /\ IF gui = "view" THEN SyncTab(other.sim) ELSE UNCHANGED tab
    /\ pend' = Nil /\ other' = Nil /\ gui' = "idle"
    /\ UNCHANGED <<thread, piholes, push, focus, chosen, secret, steady, damaged, raced, torn, saves, faults>>
    /\ UNCHANGED credVars

-----------------------------------------------------------------------------
(* refresh_provider_registry_if_due on the executor: load, note the time   *)
(* of the check, save.                                                     *)
BgLoads ==
    /\ bg = "idle"
    /\ Built
    /\ LoadOptions
    /\ bgOpts' = <<Loaded, seq'>>
    /\ bg' = "loaded"
    /\ UNCHANGED <<ui, bgPend, piholes, push, focus, chosen, secret, steady, damaged, raced, torn, saves, faults>>

BgStores ==
    /\ bg = "loaded"
    /\ StoreSecrets(bgOpts[1])
    /\ bgPend' = ForFile(bgOpts[1])
    /\ bg' = "stored"
    /\ raced' = (raced \/ bgOpts[2] # seq \/ pend # Nil)
    /\ UNCHANGED <<file, ui, bgOpts, piholes, push, focus, chosen, secret, seq, steady, damaged, torn, saves, faults>>

BgReplaces ==
    /\ bg = "stored"
    /\ file' = bgPend
    /\ raced' = (raced \/ bgOpts[2] # seq \/ pend # Nil)
    /\ seq' = seq + 1
    /\ bg' = "done" /\ bgPend' = Nil /\ bgOpts' = Nil
    /\ UNCHANGED <<ui, piholes, push, focus, chosen, secret, steady, damaged, torn, saves, faults>>
    /\ UNCHANGED credVars

-----------------------------------------------------------------------------
(* Instances in the Settings tab: what the user enters. *)
InstanceEdit(new, pw) ==
    /\ focus = "instances"
    /\ gui = "idle"
    /\ Saving
    /\ insts' = new
    /\ instPw' = pw
    /\ dropped' = (dropped \cup (instPw \ pw)) \ pw
    /\ UNCHANGED <<file, ui, thread, reg, regPlain, regStep, payload, gone, cut, push, focus, hist, credVars, faults>>

SelectInstance ==
    insts # Nil /\ \E i \in InstancesOf(insts) : InstanceEdit([insts EXCEPT !.active = i], instPw)

(* The active instance gets another URL. *)
WithUrl(r, u) ==
    [r EXCEPT !.list = [n \in DOMAIN r.list |->
        IF r.list[n].id = r.active THEN [r.list[n] EXCEPT !.url = u] ELSE r.list[n]]]

EditUrl == insts # Nil /\ \E u \in Urls : InstanceEdit(WithUrl(insts, u), instPw)

(* Its password is entered, or the field is emptied. *)
EditPassword ==
    insts # Nil /\ \E pw \in {instPw \cup {insts.active}, instPw \ {insts.active}} : InstanceEdit(insts, pw)

AddInstance ==
    insts # Nil /\ \E i \in Instances \ InstancesOf(insts), u \in Urls :
        /\ Fresh(i)
        /\ InstanceEdit([active |-> i, list |-> Append(insts.list, [id |-> i, url |-> u])], instPw \cup {i})

RemoveInstance ==
    /\ insts # Nil
    /\ Len(insts.list) > 1
    /\ LET rest == Picked(insts.list, {n \in DOMAIN insts.list : insts.list[n].id # insts.active})
       IN  InstanceEdit([active |-> rest[1].id, list |-> rest], instPw)

(* "Save + Set Active + Test": the instances are saved, then the options.  *)
SaveInstances ==
    /\ focus = "instances"
    /\ gui = "idle"
    /\ Saving
    /\ gui' = "store"
    /\ regStep' = "secrets"
    /\ UNCHANGED <<file, tab, other, pend, thread, reg, insts, regPlain, instPw, payload, gone, cut, dropped,
                   push, focus, hist, credVars, faults>>

(* save_pihole_instances, first step: the passwords are stored; an empty   *)
(* one deletes what is stored.                                             *)
StoreInstanceSecrets ==
    /\ regStep = "secrets"
    /\ AfterSave(Passwords(InstancesOf(insts), instPw))
    /\ payload' = IF up THEN {} ELSE instPw \cap InstancesOf(insts)
    /\ regStep' = "replace"
    /\ UNCHANGED <<file, ui, thread, reg, insts, regPlain, instPw, gone, cut, dropped, push, focus, hist, up, saves, faults>>

(* Second step: the file is replaced. *)
ReplaceRegistry ==
    /\ regStep = "replace"
    /\ gone' = Removed(reg, insts)
    /\ reg' = insts
    /\ regPlain' = payload
    /\ regStep' = "delete"
    /\ UNCHANGED <<file, ui, thread, insts, instPw, payload, cut, dropped, push, focus, hist, credVars, saves, faults>>

(* Third step: the secrets of the removed instances are deleted; then the  *)
(* tab is shown, or takes over the active instance.                        *)
DeleteRemoved ==
    /\ regStep = "delete"
    /\ AfterSave(Passwords(gone, {}))
    /\ regStep' = "none" /\ gone' = {} /\ payload' = {}
    /\ IF gui = "first" THEN gui' = "idle" /\ tab' = tab
       ELSE gui' = "tab" /\ tab' = [tab EXCEPT !.url = UrlOf(insts, insts.active)]
    /\ UNCHANGED <<file, other, pend, thread, reg, insts, regPlain, instPw, cut, dropped, push, focus, hist, up, saves, faults>>

-----------------------------------------------------------------------------
(* push_notifications.json: the page is loaded, then saved whole.  A save  *)
(* with UnifiedPush enabled and no private key generates one.              *)
PushKey == Hydrated(VapidKey, IF push = Nil THEN None ELSE push)

(* The page reads the file, moving a plaintext key into the keyring; its   *)
(* save stores the key and replaces the file.                              *)
OpenPush ==
    /\ focus = "push"
    /\ gui = "idle"
    /\ Saving
    /\ AfterLoad([k \in {VapidKey} |-> IF push = Nil THEN None ELSE push])
    /\ push' = IF push # Nil /\ Migrated(VapidKey, push) THEN None ELSE push
    /\ other' = PushKey
    /\ gui' = "push"
    /\ UNCHANGED <<file, tab, pend, thread, piholes, focus, hist, up, faults>>

SavePush ==
    /\ gui = "push"
    /\ \E generated \in Secrets :
        LET vals == [k \in {VapidKey} |-> IF other # None THEN other ELSE generated]
        IN  AfterSave(vals) /\ push' = Payload(vals)[VapidKey]
    /\ other' = Nil
    /\ gui' = "idle"
    /\ UNCHANGED <<file, tab, pend, thread, piholes, focus, hist, up, saves, faults>>

-----------------------------------------------------------------------------
(* The keyring goes away or comes back. *)
Outage ==
    /\ Fault
    /\ BackendChanges
    /\ steady' = FALSE
    /\ UNCHANGED <<file, ui, thread, piholes, push, focus, chosen, secret, seq, damaged, raced, torn, saves>>

(* options.json cannot be read or parsed. *)
Damage ==
    /\ Fault
    /\ Readable(file) /\ ~Newer(file)
    /\ file' = Corrupt
    /\ damaged' = TRUE
    /\ UNCHANGED <<ui, thread, piholes, push, focus, chosen, secret, seq, steady, raced, torn, saves, credVars>>

(* pihole_instances.json cannot be read or parsed. *)
DamageRegistry ==
    /\ Fault
    /\ Registered(reg)
    /\ reg' = Corrupt /\ regPlain' = {} /\ cut' = TRUE
    /\ UNCHANGED <<file, ui, thread, insts, instPw, regStep, payload, gone, dropped, push, focus, hist, credVars, saves>>

(* The process ends and is started again. *)
Crash ==
    /\ Fault
    /\ gui # "start"
    /\ torn' = (torn \/ gui = "tab" \/ bg = "stored")
    /\ cut' = (cut \/ gui \in {"first", "store"})
    /\ tab' = Nil /\ other' = Nil /\ pend' = Nil /\ gui' = "start"
    /\ insts' = Nil /\ instPw' = {} /\ regStep' = "none" /\ payload' = {} /\ gone' = {} /\ dropped' = {}
    /\ bg' = "idle" /\ bgPend' = Nil /\ bgOpts' = Nil
    /\ readState' = [k \in Keys |-> "unread"]
    /\ UNCHANGED <<file, reg, regPlain, push, focus, chosen, secret, seq, steady, damaged, raced, saves, keyring, up>>

SetNext ==
    \/ BuildTab \/ LoadInstances \/ WorkerReads
    \/ SelectProvider \/ AddProvider \/ AddPreset \/ DiscoverProvider \/ RemoveProvider \/ EditPool
    \/ SetNumbers \/ SetSecret \/ ToggleSimulation
    \/ GuiStores \/ GuiReplaces \/ BgLoads \/ BgStores \/ BgReplaces
    \/ SelectInstance \/ EditUrl \/ EditPassword \/ AddInstance \/ RemoveInstance
    \/ SaveInstances \/ StoreInstanceSecrets \/ ReplaceRegistry \/ DeleteRemoved
    \/ OpenPush \/ SavePush
    \/ Outage \/ Damage \/ DamageRegistry \/ Crash

SetSafety == SetInit /\ [][SetNext]_setVars

-----------------------------------------------------------------------------
SetTypeOK ==
    /\ CredTypeOK
    /\ gui \in {"start", "pages", "first", "idle", "store", "tab", "view", "push"}
    /\ bg \in {"idle", "loaded", "stored", "done"}
    /\ gui # "start" => tab # Nil
    /\ gui \notin {"start", "pages"} => insts # Nil /\ insts.active \in InstancesOf(insts)
    /\ Registered(reg) => reg.active \in InstancesOf(reg)
    /\ regStep \in {"none", "secrets", "replace", "delete"}
    /\ regPlain \cup instPw \cup payload \cup gone \cup dropped \subseteq Instances
    /\ Readable(file) => file.pw \in Secrets \cup {None} /\ file.sim \in BOOLEAN /\ file.url \in Urls
    /\ chosen \in BOOLEAN /\ secret \in Secrets \cup {None}
    /\ saves \in 0..MaxSaves /\ faults \in 0..MaxFaults

(* Every file the program writes is a fixed point of loading: it is read   *)
(* back as what was saved, whatever older or damaged file it came from.    *)
WrittenIsStable ==
    (seq > 0 /\ Readable(file)) => Validate(Migrate(file)) = file

(* Every pool of loaded options can run: it has a member, and each member  *)
(* is a configured provider, also after the user removes providers.        *)
PoolsRunnable ==
    (tab # Nil /\ gui # "tab") =>
        \A n \in DOMAIN tab.pools :
            /\ tab.pools[n].members # <<>>
            /\ ToSet(tab.pools[n].members) \subseteq ToSet(tab.providers)

(* The secret the keyring or the file holds for the slot. *)
Recoverable == IF up /\ keyring[SlotKey] # None THEN keyring[SlotKey]
               ELSE IF Readable(file) THEN file.pw ELSE None

(* While the backend and the file stay as they are, the secret saved       *)
(* last can be read again, with a keyring and without one.                 *)
SecretKept ==
    (steady /\ ~damaged /\ ~raced /\ ~torn /\ pend = Nil /\ bg # "stored" /\ gui # "start") => Recoverable = secret

(* The simulation mode of the file is the one the user chose, although the *)
(* Settings tab saves options it loaded long before.                       *)
SimulationKept ==
    (gui = "idle" /\ ~raced /\ faults = 0 /\ bg # "stored") => file.sim = chosen

(* When the Settings tab is built its active instance is the one the       *)
(* options connect to, also after a crash between the two files; only an   *)
(* edited URL that reached one of them, a file that was lost, or an older  *)
(* URL that the registry thread put back leaves no instance to agree on.   *)
ActiveAgrees ==
    [][(gui = "pages" /\ gui' \in {"first", "idle"}) =>
        \/ UrlOf(insts', insts'.active) = tab'.url
        \/ /\ torn \/ damaged \/ raced \/ cut
           /\ \A n \in DOMAIN insts'.list : insts'.list[n].url # tab'.url]_setVars

(* Once a save of the instances is over, the keyring holds no secret of an *)
(* instance that is not registered, while the keyring stays as it is and   *)
(* no crash cuts the save.                                                 *)
NoOrphanSecrets ==
    (Registered(reg) /\ regStep = "none" /\ steady /\ ~cut) =>
        \A i \in Instances : keyring[InstKey[i]] # None => i \in InstancesOf(reg)

(* A file of a newer version of the program is never overwritten. *)
NewerKept == [][(Newer(file) => file' = file) /\ (reg = Later => reg' = reg)]_setVars

(* The key subscribers know is not replaced while the backend is steady,   *)
(* although a save generates a key where it finds none.                    *)
PushKeyStable ==
    [][(steady' /\ push # Nil /\ PushKey # None) => PushKey' = PushKey]_setVars

(* No holder of old options, crash or old file costs the user a setting or *)
(* a secret, or leaves options that cannot be run, while the keyring stays *)
(* as it is.                                                               *)
SettingsInv ==
    /\ SetTypeOK /\ WrittenIsStable /\ PoolsRunnable
    /\ SecretKept /\ SimulationKept /\ NoOrphanSecrets

(* No start or save replaces what another file or version relies on.       *)
FilesKept == ActiveAgrees /\ NewerKept /\ PushKeyStable

(* The keyring loses the password of an instance only when the user        *)
(* removed the instance or emptied its password: not when the keyring did  *)
(* not answer while the instances were loaded, so that the tab holds no    *)
(* password of it, and answers again when they are saved.                  *)
OutageKeepsPasswords ==
    [][\A i \in Instances :
        (keyring[InstKey[i]] # None /\ keyring'[InstKey[i]] = None) => i \in gone \cup dropped]_setVars
=============================================================================
