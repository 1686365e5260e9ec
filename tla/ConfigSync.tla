----------------------------- MODULE ConfigSync -----------------------------
(***************************************************************************)
(* The two configuration files and what keeps them alike: ConfigSyncService *)
(* copies the newer file over the older one, ConfigWatcher calls it after   *)
(* every change of a file, and the functions of package config read and     *)
(* write both through copies in memory.  LoadConfig and LoadMultiConfig     *)
(* read their file until it can be read, then never again (sync.Once); a    *)
(* save refreshes the copy.                                                 *)
(*                                                                          *)
(* config.json is the value of its one source and sink, or Broken when it   *)
(* does not parse.  multi_config.json is [ok, src, es]: whether it parses,  *)
(* the sources in it [id, mysql, val], and whether it has an Elasticsearch  *)
(* sink; sinks and jobs are merged as sources are, and left out.  Users     *)
(* edit both files with other programs and may leave them half written.     *)
(***************************************************************************)
EXTENDS Naturals, Sequences, FiniteSets

CONSTANTS
    Values,    \* settings of a source
    Valid,     \* those that ValidateConfig accepts
    InitMulti, \* what multi_config.json may hold at first
    UserMulti, \* what a user may write to it, parsable or not
    Added,     \* sources that AddDataSource is called with
    Callers,   \* goroutines that call AddDataSource and RemoveDataSource
    ChanCap,   \* capacity of eventChan, 100 in the code
    MaxSyncs,  \* bound: goroutines of handleFileChange at a time
    MaxEdits,  \* bound: edits, calls and ticks of the clock from outside
    MaxTies    \* bound: writes that get the other file's modification time

Broken == 0
Source == [id : STRING, mysql : BOOLEAN, val : Values]
Multi == [ok : BOOLEAN, src : Seq(Source), es : BOOLEAN]

ASSUME ConfigAssumption ==
    /\ Broken \notin Values /\ Valid \subseteq Values
    /\ InitMulti \cup UserMulti \subseteq Multi /\ Added \subseteq Source
    /\ "sync" \notin Callers
    /\ ChanCap \in Nat \ {0} /\ MaxSyncs \in Nat \ {0}
    /\ MaxEdits \in Nat /\ MaxTies \in Nat

Files == {"config", "multi"}
Everyone == Callers \cup {"sync"}

\* No copy of multi_config.json: every copy is of a file that parses.
Nothing == [ok |-> FALSE, src |-> << >>, es |-> FALSE]

VARIABLES
    config,  \* config.json
    multi,   \* multi_config.json
    newer,   \* the file with the later modification time, or "equal"
    cfg,     \* the copy of config.json: [once, path, val]
    multiCfg,\* the copy of multi_config.json: [once, val]
    sync,    \* the holder of ConfigSyncService.mu: [st, ...]
    call,    \* calls of AddDataSource and RemoveDataSource
    watch,   \* watchLoop, by file: [notify, armed, entry, handler]
    autoSync,\* the watcher's switch
    auto,    \* goroutines of handleFileChange, by stage
    events,  \* events in eventChan
    loop,    \* eventLoop: "recv", or "status" while it sends to itself
    life,    \* "up", "stopped" or "crashed"
    edits, ties

\* History.
VARIABLES
    stale,   \* who has not read what multi_config.json now holds
    unseen,  \* a user's edit of multi_config.json that the copy does not show
    touched, \* a file was written since the start
    skipped  \* the change handled last was not to be synchronised

disk == <<config, multi, newer, ties, touched>>
copies == <<cfg, multiCfg, unseen, stale>>
goroutines == <<auto, events, loop, life>>
switch == <<autoSync, skipped>>
vars == <<disk, copies, sync, call, watch, goroutines, switch, edits>>

Ids(src) == {src[i].id : i \in DOMAIN src}

\* The elements of src at the positions I, in their order.
Sublist(src, I) == [k \in 1..Cardinality(I) |-> src[CHOOSE i \in I : Cardinality({j \in I : j <= i}) = k]]

\* A write of file f: the watcher is told, and f is the newer one unless the
\* clock has not moved since the other was written.
Touch(f) ==
    /\ watch' = [watch EXCEPT ![f].notify = TRUE]
    /\ touched' = TRUE
    /\ \/ newer' = f /\ UNCHANGED ties
       \/ newer' = "equal" /\ ties < MaxTies /\ ties' = ties + 1

-----------------------------------------------------------------------------
(* Loading and saving. *)

\* Neither is loaded after it if the file does not parse; sync.Once is then
\* reset, and a copy that a save has left remains.
LoadConfig ==
    IF cfg.once THEN cfg
    ELSE [once |-> config # Broken, path |-> TRUE, val |-> IF config # Broken THEN config ELSE cfg.val]

LoadMultiConfig == IF multiCfg.once \/ ~multi.ok THEN multiCfg ELSE [once |-> TRUE, val |-> multi]

\* w has the copy, which is the file unless a user's edit is not seen.
Reads(w) == stale' = IF unseen' THEN stale \cup {w} ELSE stale \ {w}

Loaded ==
    /\ multiCfg' = LoadMultiConfig
    /\ unseen' = (unseen /\ (multiCfg.once \/ ~multi.ok))

SaveConfig(v) ==
    /\ config' = v
    /\ cfg' = [cfg EXCEPT !.val = v]
    /\ Touch("config")

SaveMultiConfig(m) ==
    /\ multi' = m
    /\ multiCfg' = [multiCfg EXCEPT !.val = m]
    /\ unseen' = FALSE /\ stale' = Everyone
    /\ Touch("multi")

-----------------------------------------------------------------------------
(* Edits and calls from outside. *)

Step == edits < MaxEdits /\ edits' = edits + 1
Outside == Step /\ UNCHANGED <<goroutines, switch>>

EditConfig(v) ==
    /\ Outside
    /\ config' = v /\ Touch("config")
    /\ UNCHANGED <<multi, copies, sync, call>>

EditMulti(m) ==
    /\ Outside
    /\ multi' = m /\ Touch("multi")
    /\ unseen' = (m # multiCfg.val) /\ stale' = Everyone
    /\ UNCHANGED <<config, cfg, multiCfg, sync, call>>

\* The path is known once config.json was to be loaded, whether it could or not.
UpdateConfig(v) ==
    /\ cfg.path
    /\ SaveConfig(v)

\* Only HotUpdate validates what it is given.
ValidateConfig(v) == v \in Valid

HotUpdate(v) == ValidateConfig(v) /\ UpdateConfig(v)
UpdateConfiguration(v) == UpdateConfig(v)

Update(v) ==
    /\ Outside
    /\ HotUpdate(v) \/ UpdateConfiguration(v)
    /\ UNCHANGED <<multi, multiCfg, unseen, stale, sync, call>>

\* ReloadConfiguration and Reload reset sync.Once, and the file is read.
ReloadConfiguration ==
    /\ Outside
    /\ cfg' = [once |-> config # Broken, path |-> TRUE, val |-> config]
    /\ UNCHANGED <<disk, multiCfg, unseen, stale, sync, call, watch>>

\* Validating loads both.
ValidateConfigurations ==
    /\ Outside
    /\ cfg' = LoadConfig /\ Loaded
    /\ UNCHANGED <<disk, stale, sync, call, watch>>

\* AddDataSource and RemoveDataSource begin with a copy of the configuration.
GetMultiConfig(c, new) ==
    /\ Outside
    /\ call[c].st = "idle" /\ multiCfg.val.ok
    /\ call' = [call EXCEPT ![c] = [st |-> "save", new |-> [multiCfg.val EXCEPT !.src = new],
                                    gone |-> Ids(multiCfg.val.src) \ Ids(new)]]
    /\ UNCHANGED unseen /\ Reads(c)
    /\ UNCHANGED <<disk, cfg, multiCfg, sync, watch>>

AddDataSource(c, s) == s.id \notin Ids(multiCfg.val.src) /\ GetMultiConfig(c, Append(multiCfg.val.src, s))

RemoveDataSource(c, id) ==
    LET src == multiCfg.val.src
    IN  \E i \in DOMAIN src :
            /\ src[i].id = id /\ \A j \in 1..(i - 1) : src[j].id # id
            /\ GetMultiConfig(c, Sublist(src, DOMAIN src \ {i}))

UpdateMultiConfig(c) ==
    /\ call[c].st = "save"
    /\ SaveMultiConfig(call[c].new)
    /\ call' = [call EXCEPT ![c] = [st |-> "idle"]]
    /\ UNCHANGED <<config, cfg, sync, goroutines, switch, edits>>

-----------------------------------------------------------------------------
(* The synchronisation service. *)

\* The legacy configuration as a source; the sources of the present file
\* follow, except the default one.
MigrateFromLegacyConfig(v) == <<[id |-> "default-mysql", mysql |-> TRUE, val |-> v]>>

\* Mutant of MergeConfigs: MySQL sources are taken for the default one.
MergeConfigsByType(new, existing) == new \o Sublist(existing, {i \in DOMAIN existing : ~existing[i].mysql})

\* The sources of the present file that are added: once each, under other ids.
Preserved(new, existing) ==
    {i \in DOMAIN existing : /\ existing[i].id \notin {"default-mysql"} \cup Ids(new)
                            /\ \A j \in DOMAIN existing : existing[j].id = existing[i].id => i <= j}

MergeConfigs(new, existing) == new \o Sublist(existing, Preserved(new, existing))

MySQL(src) == Sublist(src, {i \in DOMAIN src : src[i].mysql})

Free == [st |-> "idle"]

\* BiDirectionalSync takes the lock and compares the modification times.
BiDirectionalSync ==
    /\ auto.run > 0 /\ sync = Free
    /\ IF newer = "equal"
       THEN auto' = [auto EXCEPT !.run = @ - 1, !.done = @ + 1] /\ UNCHANGED sync
       ELSE /\ sync' = [st |-> "load", from |-> newer, by |-> "auto"]
            /\ auto' = [auto EXCEPT !.run = @ - 1]
    /\ UNCHANGED <<disk, copies, call, watch, events, loop, life, switch, edits>>

\* A call from outside takes the lock.
Manual(f) ==
    /\ sync = Free
    /\ sync' = [st |-> "load", from |-> f, by |-> "manual"]

SyncConfigToMulti == Manual("config")
SyncMultiToConfig == Manual("multi")

TriggerSync ==
    /\ Outside
    /\ \/ SyncConfigToMulti
       \/ SyncMultiToConfig
       \/ newer # "equal" /\ Manual(newer)
    /\ UNCHANGED <<disk, copies, call, watch>>

\* The service returns: the goroutine reports it, TriggerSync sends a status
\* update unless it failed.
Returned(by, ok) ==
    /\ sync' = Free
    /\ auto' = [auto EXCEPT !.done = IF by = "auto" THEN @ + 1 ELSE @,
                            !.status = IF by = "manual" /\ ok THEN @ + 1 ELSE @]

\* syncConfigToMultiInternal up to its save.  When multi_config.json cannot be
\* loaded the error is dropped and nothing of it is merged.
LoadForMulti ==
    LET default == MigrateFromLegacyConfig(LoadConfig.val)
        blind == ~LoadMultiConfig.once
        src == IF blind THEN default ELSE MergeConfigs(default, LoadMultiConfig.val.src)
    IN  /\ sync.st = "load" /\ sync.from = "config"
        /\ cfg' = LoadConfig
        /\ \/ /\ LoadConfig.once /\ Loaded /\ Reads("sync")
              /\ sync' = [st |-> "save", from |-> "config", by |-> sync.by, blind |-> blind,
                          out |-> [ok |-> TRUE, src |-> src, es |-> TRUE]]
              /\ UNCHANGED auto
           \/ ~LoadConfig.once /\ Returned(sync.by, FALSE) /\ UNCHANGED <<multiCfg, unseen, stale>>
        /\ UNCHANGED <<disk, call, watch, events, loop, life, switch, edits>>

\* The first MySQL source and the first Elasticsearch sink make config.json.
ConvertMultiToLegacy(m) == IF MySQL(m.src) # << >> /\ m.es THEN Head(MySQL(m.src)).val ELSE Broken

\* syncMultiToConfigInternal up to its save.
LoadForConfig ==
    LET v == IF LoadMultiConfig.once THEN ConvertMultiToLegacy(LoadMultiConfig.val) ELSE Broken
    IN  /\ sync.st = "load" /\ sync.from = "multi"
        /\ Loaded
        /\ \/ v = Broken /\ Returned(sync.by, FALSE)
           \/ v # Broken /\ sync' = [st |-> "save", from |-> "multi", by |-> sync.by, out |-> v] /\ UNCHANGED auto
        /\ UNCHANGED <<disk, cfg, stale, call, watch, events, loop, life, switch, edits>>

Save ==
    /\ sync.st = "save"
    /\ \/ /\ sync.from = "config" /\ SaveMultiConfig(sync.out)
          /\ UNCHANGED <<config, cfg>>
       \/ /\ sync.from = "multi" /\ SaveConfig(sync.out)
          /\ UNCHANGED <<multi, multiCfg, unseen, stale>>
    /\ Returned(sync.by, TRUE)
    /\ UNCHANGED <<call, events, loop, life, switch, edits>>

-----------------------------------------------------------------------------
(* The watcher. *)

contents == <<disk, copies, sync, call>>
files == <<contents, edits>>
Room == events < ChanCap
Total == auto.start + auto.run + auto.done + auto.status

\* Mutant of WatchLoop: only config.json is a watched file.
WatchConfigOnly(f) ==
    /\ life = "up" /\ watch[f].notify
    /\ watch' = [watch EXCEPT ![f].notify = FALSE,
                              ![f].armed = IF f = "config" THEN 1 ELSE 0, ![f].entry = IF f = "config" THEN "armed" ELSE "none"]
    /\ UNCHANGED <<files, goroutines, switch>>

\* watchLoop: the timer in the map, unless it has fired, is replaced.
WatchLoop(f) ==
    /\ life = "up" /\ watch[f].notify
    /\ watch' = [watch EXCEPT ![f].notify = FALSE, ![f].entry = "armed",
                              ![f].armed = IF watch[f].entry = "armed" THEN @ ELSE @ + 1]
    /\ UNCHANGED <<files, goroutines, switch>>

\* A timer fires: the one in the map, or one that is not in it any more.
Fire(f) ==
    /\ life # "crashed" /\ watch[f].armed > 0 /\ watch[f].handler = "none"
    /\ \E entry \in {watch[f].entry, "fired"} :
        /\ entry = "fired" => watch[f].entry = "armed"
        /\ entry = "armed" => watch[f].armed > 1
        /\ watch' = [watch EXCEPT ![f].armed = @ - 1, ![f].handler = "send", ![f].entry = entry]
    /\ UNCHANGED <<files, goroutines, switch>>

\* handleFileChange: after Stop, the send and the end of the context are both
\* ready, and either is taken.
HandleFileChange(f) ==
    /\ life # "crashed" /\ watch[f].handler = "send"
    /\ watch' = [watch EXCEPT ![f].handler = "delete"]
    /\ \/ /\ Room /\ (autoSync => Total < MaxSyncs)
          /\ events' = events + 1
          /\ auto' = IF autoSync THEN [auto EXCEPT !.start = @ + 1] ELSE auto
          /\ skipped' = ~autoSync
       \/ /\ life = "stopped"
          /\ UNCHANGED <<events, auto, skipped>>
    /\ UNCHANGED <<files, loop, life, autoSync>>

\* The timer's goroutine deletes whatever the map holds for its file, which may
\* be a newer timer.  The map has no lock: Go may end the process when
\* watchLoop uses it at the same time.
DeleteEntry(f) ==
    /\ life # "crashed" /\ watch[f].handler = "delete"
    /\ watch' = [watch EXCEPT ![f].handler = "none", ![f].entry = "none"]
    /\ \/ UNCHANGED life
       \/ life = "up" /\ (\E g \in Files : watch[g].notify) /\ life' = "crashed"
    /\ UNCHANGED <<files, auto, events, loop, switch>>

\* A goroutine sends an event and goes on to its next stage, or finds the
\* context ended.
Sends(stage, then) ==
    /\ life # "crashed" /\ auto[stage] > 0
    /\ \/ /\ Room
          /\ events' = events + 1
          /\ auto' = IF then = "end" THEN [auto EXCEPT ![stage] = @ - 1]
                     ELSE [auto EXCEPT ![stage] = @ - 1, ![then] = @ + 1]
       \/ /\ life = "stopped"
          /\ auto' = [auto EXCEPT ![stage] = @ - 1]
          /\ UNCHANGED events
    /\ UNCHANGED <<files, watch, loop, life, switch>>

SyncStarted == Sends("start", "run")
SyncCompleted == Sends("done", "status")
PublishStatusUpdate == sync = Free /\ Sends("status", "end")

\* eventLoop hands an event to the subscribers, without waiting for any.
PublishEvent ==
    /\ life = "up" /\ loop = "recv" /\ events > 0
    /\ events' = events - 1
    /\ UNCHANGED <<files, watch, auto, loop, life, switch>>

\* Every 30 seconds it sends a status update to its own channel.
Tick ==
    /\ Step
    /\ life = "up" /\ loop = "recv"
    /\ loop' = "status"
    /\ UNCHANGED <<contents, watch, auto, events, life, switch>>

TickStatus ==
    /\ life = "up" /\ loop = "status" /\ sync = Free /\ Room
    /\ events' = events + 1 /\ loop' = "recv"
    /\ UNCHANGED <<files, watch, auto, life, switch>>

\* Stop ends both loops; timers and goroutines run on.
Stop ==
    /\ Step
    /\ life = "up"
    /\ life' = "stopped"
    /\ UNCHANGED <<contents, watch, auto, events, loop, switch>>

SetAutoSync(enabled) ==
    /\ Step
    /\ autoSync' = enabled
    /\ UNCHANGED <<contents, watch, goroutines, skipped>>

-----------------------------------------------------------------------------
Init ==
    /\ config \in Values /\ multi \in InitMulti
    /\ newer \in {"config", "multi"} /\ autoSync = TRUE
    /\ cfg = [once |-> FALSE, path |-> FALSE, val |-> Broken] /\ multiCfg = [once |-> FALSE, val |-> Nothing]
    /\ sync = Free /\ call = [c \in Callers |-> [st |-> "idle"]]
    /\ watch = [f \in Files |-> [notify |-> FALSE, armed |-> 0, entry |-> "none", handler |-> "none"]]
    /\ auto = [start |-> 0, run |-> 0, done |-> 0, status |-> 0]
    /\ events = 0 /\ loop = "recv" /\ life = "up"
    /\ edits = 0 /\ ties = 0
    /\ unseen = FALSE /\ stale = Everyone /\ touched = FALSE /\ skipped = FALSE

Alive == life # "crashed"
Service == Alive /\ (BiDirectionalSync \/ LoadForMulti \/ LoadForConfig \/ Save)
Goroutines == SyncStarted \/ SyncCompleted \/ PublishStatusUpdate
Handler(f) == Fire(f) \/ HandleFileChange(f) \/ DeleteEntry(f)
EventLoop == PublishEvent \/ TickStatus

Next ==
    \/ Alive /\ \/ \E v \in Values \cup {Broken} : EditConfig(v)
                \/ \E v \in Values : Update(v)
                \/ \E m \in UserMulti : EditMulti(m)
                \/ ReloadConfiguration \/ ValidateConfigurations
                \/ \E c \in Callers, s \in Added : AddDataSource(c, s)
                \/ \E c \in Callers : \E id \in Ids(multiCfg.val.src) : RemoveDataSource(c, id)
                \/ \E enabled \in BOOLEAN : SetAutoSync(enabled)
                \/ \E c \in Callers : UpdateMultiConfig(c)
                \/ TriggerSync
    \/ Service \/ Goroutines \/ EventLoop \/ Tick \/ Stop
    \/ \E f \in Files : WatchLoop(f) \/ Handler(f)

\* Goroutines run on; those that wait for room in the channel are served in
\* turn.  Nothing makes the ticker tick or a user act.
Spec ==
    /\ Init /\ [][Next]_vars
    /\ WF_vars(Service) /\ SF_vars(Goroutines) /\ WF_vars(EventLoop)
    /\ \A f \in Files : WF_vars(WatchLoop(f)) /\ SF_vars(Handler(f))
    /\ \A c \in Callers : WF_vars(UpdateMultiConfig(c))

-----------------------------------------------------------------------------
(* Properties. *)

\* A source leaves multi_config.json only when a user takes it out, when
\* RemoveDataSource is asked to, when the operation that saves began with
\* something else than the file now holds (another has written it since, or a
\* user had before and sync.Once keeps the copy), or when the file did not parse
\* and a synchronisation replaces it.  Synchronising in either direction, over and over,
\* keeps all.
LostOnlyIfKnown ==
    [][\A id \in Ids(multi.src) \ Ids(multi'.src) :
         \/ edits' # edits
         \/ \E c \in Callers : /\ call[c].st = "save" /\ call'[c].st = "idle"
                              /\ (id \in call[c].gone \/ c \in stale)
         \/ /\ sync.st = "save" /\ sync.from = "config" /\ sync'.st = "idle"
            /\ ("sync" \in stale \/ sync.blind)]_vars

\* The event loop waits for itself: it sends to a channel only it empties.
Jammed == loop = "status" /\ ~Room

\* What synchronising would begin with cannot be loaded or converted.
Unsyncable ==
    \/ newer = "config" /\ ~LoadConfig.once
    \/ newer = "multi" /\ (~LoadMultiConfig.once \/ ConvertMultiToLegacy(LoadMultiConfig.val) = Broken)

\* Once nobody edits, config.json and the default source come to agree and stay so,
\* although each synchronisation causes the next one; unless nothing was
\* written since the start (the watcher looks at changes only), both files were
\* written at one time, the last change fell to a watcher that is switched off, stopped
\* or jammed, or the newer file, or the copy kept of it, is of no use.
EventuallyAgree ==
    <>[](\/ multi.ok /\ MySQL(multi.src) # << >> /\ Head(MySQL(multi.src)).val = config
         \/ ~touched \/ newer = "equal"
         \/ skipped \/ life # "up" \/ Jammed
         \/ Unsyncable)
=============================================================================
