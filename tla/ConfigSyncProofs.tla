-------------------------- MODULE ConfigSyncProofs --------------------------
(***************************************************************************)
(* Proofs about ConfigSync: for any sources, any number of callers, edits  *)
(* and synchronisations, and channels of any capacity.                     *)
(***************************************************************************)
EXTENDS ConfigSync, FiniteSetTheorems, WellFoundedInduction, TLAPS

-----------------------------------------------------------------------------
(* The inductive invariant.                                                *)

IsList(src) == src \in Seq({src[i] : i \in DOMAIN src})

\* A synchronisation is about to save multi_config.json.
Merging == sync.st = "save" /\ sync.from = "config"

TypeInv ==
    /\ IsList(multi.src) /\ IsList(multiCfg.val.src)
    /\ multiCfg = [once |-> multiCfg.once, val |-> multiCfg.val]
    /\ multiCfg.once \in BOOLEAN /\ unseen \in BOOLEAN
    /\ sync.st \in {"idle", "load", "save"}
    /\ Merging => IsList(sync.out.src) /\ sync.out.ok /\ sync.blind \in BOOLEAN
    /\ call = [c \in Callers |-> call[c]]
    /\ \A c \in Callers : call[c].st \in {"idle", "save"}
    /\ \A c \in Callers : call[c].st = "save" =>
          IsList(call[c].new.src) /\ call[c].new.ok
    /\ edits \in Nat

\* The copy of multi_config.json, when there is one, is equal to the file until
\* a user edits that.
CopyInv ==
    /\ multiCfg.once => multiCfg.val.ok
    /\ multiCfg.val.ok /\ ~unseen => multiCfg.val = multi

\* What is about to be saved has all sources of the file but those to be removed,
\* if what it was made from is still the content of the file.
KeptInv ==
    /\ Merging /\ "sync" \notin stale /\ ~sync.blind => Ids(multi.src) \subseteq Ids(sync.out.src)
    /\ \A c \in Callers : call[c].st = "save" /\ c \notin stale =>
          Ids(multi.src) \subseteq Ids(call[c].new.src) \cup call[c].gone

Inv == TypeInv /\ CopyInv /\ KeptInv

-----------------------------------------------------------------------------
(* Lemmas about lists of sources.                                          *)

\* A sequence is a list of what is in it.
LEMMA SeqIsList ==
    ASSUME NEW S, NEW s \in Seq(S)
    PROVE  IsList(s)
  BY DEF IsList

\* Positions are finitely many.
LEMMA FiniteRange ==
    ASSUME NEW n \in Nat, NEW I, I \subseteq 1..n
    PROVE  IsFiniteSet(I)
<1>1. I \in SUBSET Nat /\ \A i \in I : i <= n
  OBVIOUS
<1> QED
  BY <1>1, FS_BoundedSetOfNaturals

\* A position has a rank among others, and no other has the same.
LEMMA Ranks ==
    ASSUME NEW n \in Nat, NEW I, I \subseteq 1..n, NEW i \in I
    PROVE  /\ IsFiniteSet(I)
           /\ Cardinality({j \in I : j <= i}) \in 1..Cardinality(I)
           /\ \A k \in I : Cardinality({j \in I : j <= k}) = Cardinality({j \in I : j <= i}) => k = i
<1>1. IsFiniteSet(I)
  BY FiniteRange
<1> DEFINE Below(k) == {j \in I : j <= k}
<1>2. \A k \in I : Below(k) \subseteq I /\ k \in Below(k) /\ IsFiniteSet(Below(k))
  BY <1>1, FS_Subset
<1>3. Cardinality(Below(i)) \in Nat /\ Cardinality(Below(i)) # 0 /\ Cardinality(Below(i)) <= Cardinality(I)
  BY <1>1, <1>2, FS_EmptySet, FS_Subset, FS_CardinalityType
<1>4. \A k, m \in I : k < m => Cardinality(Below(k)) < Cardinality(Below(m))
  <2> TAKE k, m \in I
  <2> HAVE k < m
  <2>1. k \in Int /\ m \in Int /\ \A j \in I : j \in Int
    OBVIOUS
  <2>2. Below(k) \subseteq Below(m) /\ m \in Below(m) /\ m \notin Below(k)
    <3>1. \A j \in I : j <= k => j <= m
      BY <2>1
    <3>2. ~(m <= k) /\ m <= m
      BY <2>1
    <3> QED
      BY <3>1, <3>2, Zenon
  <2>3. IsFiniteSet(Below(k)) /\ IsFiniteSet(Below(m))
    BY <1>2
  <2> HIDE DEF Below
  <2>4. Cardinality(Below(k)) <= Cardinality(Below(m)) /\ Cardinality(Below(k)) # Cardinality(Below(m))
    BY <2>2, <2>3, FS_Subset
  <2> QED
    BY <2>3, <2>4, FS_CardinalityType
<1>5. \A k \in I : Cardinality(Below(k)) \in Nat
  BY <1>2, FS_CardinalityType
<1>6. \A k \in I : Cardinality(Below(k)) = Cardinality(Below(i)) => k = i
  <2> SUFFICES ASSUME NEW k \in I, Cardinality(Below(k)) = Cardinality(Below(i)) PROVE k = i
    OBVIOUS
  <2> HIDE DEF Below
  <2> QED
    BY <1>4, <1>5
<1>7. Cardinality(I) \in Nat
  BY <1>1, FS_CardinalityType
<1> QED
  BY <1>1, <1>3, <1>6, <1>7

\* A sublist has the elements it is asked for.
LEMMA SublistFact ==
    ASSUME NEW src, IsList(src), NEW I, I \subseteq DOMAIN src
    PROVE  /\ IsList(Sublist(src, I))
           /\ \A i \in I : \E k \in DOMAIN Sublist(src, I) : Sublist(src, I)[k] = src[i]
<1>1. PICK n \in Nat : DOMAIN src = 1..n
  BY DEF IsList
<1>2. Cardinality(I) \in Nat
  BY <1>1, FiniteRange, FS_CardinalityType
<1> DEFINE t == Sublist(src, I)
<1>3. DOMAIN t = 1..Cardinality(I)
  BY DEF Sublist
<1>4. IsList(t)
  <2>1. t = [k \in 1..Cardinality(I) |-> t[k]]
    BY DEF Sublist
  <2> HIDE DEF t
  <2> QED
    BY <1>2, <1>3, <2>1 DEF IsList
<1>5. ASSUME NEW i \in I
      PROVE  \E k \in DOMAIN t : t[k] = src[i]
  <2> DEFINE r == Cardinality({j \in I : j <= i})
  <2>1. r \in 1..Cardinality(I)
    BY <1>1, Ranks
  <2>2. \A k \in I : Cardinality({j \in I : j <= k}) = r => k = i
    BY <1>1, Ranks
  <2>3. (CHOOSE k \in I : Cardinality({j \in I : j <= k}) = r) = i
    BY <2>2
  <2>4. t[r] = src[i]
    BY <2>1, <2>3 DEF Sublist
  <2> QED
    BY <1>3, <2>1, <2>4
<1> QED
  BY <1>4, <1>5

Within(s, u) == \A i \in DOMAIN s : \E k \in DOMAIN u : u[k] = s[i]

\* Two lists, one behind the other.
LEMMA ConcatFact ==
    ASSUME NEW s, NEW t, IsList(s), IsList(t)
    PROVE  /\ IsList(s \o t)
           /\ Within(s, s \o t) /\ Within(t, s \o t)
<1> DEFINE S == {s[i] : i \in DOMAIN s} \cup {t[i] : i \in DOMAIN t}
<1>1. s \in Seq(S) /\ t \in Seq(S)
  BY DEF IsList
<1> HIDE DEF S
<1> DEFINE u == s \o t
<1>2. u \in Seq(S) /\ Len(u) = Len(s) + Len(t) /\ DOMAIN u = 1..(Len(s) + Len(t))
  BY <1>1
<1>3. \A i \in 1..Len(s) : i \in DOMAIN u /\ u[i] = s[i]
  BY <1>1, <1>2
<1>4. \A i \in 1..Len(t) : Len(s) + i \in DOMAIN u /\ u[Len(s) + i] = t[i]
  BY <1>1, <1>2
<1>5. DOMAIN s = 1..Len(s) /\ DOMAIN t = 1..Len(t)
  BY <1>1
<1> HIDE DEF u
<1>6. IsList(u)
  BY <1>2 DEF IsList
<1>7. Within(s, u) /\ Within(t, u)
  BY <1>3, <1>4, <1>5 DEF Within
<1> QED
  BY <1>6, <1>7 DEF u

\* A source more makes a list.
LEMMA AppendFact ==
    ASSUME NEW src, IsList(src), NEW s
    PROVE  IsList(Append(src, s))
<1> DEFINE S == {src[i] : i \in DOMAIN src} \cup {s}
<1>1. src \in Seq(S) /\ s \in S
  BY DEF IsList
<1> HIDE DEF S
<1> DEFINE u == Append(src, s)
<1>2. u \in Seq(S)
  BY <1>1
<1> HIDE DEF u
<1>3. IsList(u)
  BY <1>2 DEF IsList
<1> QED
  BY <1>3 DEF u

\* The first source with an id.
LEMMA FirstWith ==
    ASSUME NEW src, IsList(src), NEW i \in DOMAIN src
    PROVE  \E k \in DOMAIN src : /\ src[k].id = src[i].id
                                 /\ \A j \in DOMAIN src : src[j].id = src[k].id => k <= j
<1>1. PICK n \in Nat : DOMAIN src = 1..n
  BY DEF IsList
<1> DEFINE K == {k \in DOMAIN src : src[k].id = src[i].id}
<1>2. K \in SUBSET Nat /\ K # {}
  BY <1>1
<1>3. PICK k \in K : \A j \in K : <<j, k>> \notin OpToRel(<, Nat)
  BY <1>2, NatLessThanWellFounded, WFMin
<1>4. \A j \in K : k <= j
  <2> HIDE DEF K
  <2>1. \A j \in K : j \in Nat /\ k \in Nat /\ ~(j < k)
    BY <1>2, <1>3 DEF OpToRel
  <2> QED
    BY <2>1
<1> QED
  BY <1>4

\* mergeConfigs keeps every id of the present file.
LEMMA MergeKeeps ==
    ASSUME NEW new, NEW existing, IsList(new), IsList(existing), "default-mysql" \in Ids(new)
    PROVE  /\ IsList(MergeConfigs(new, existing))
           /\ Ids(existing) \subseteq Ids(MergeConfigs(new, existing))
<1> DEFINE I == Preserved(new, existing)
           t == Sublist(existing, I)
           u == new \o t
<1>1. I \subseteq DOMAIN existing
  BY DEF Preserved
<1>2. IsList(t) /\ \A i \in I : \E k \in DOMAIN t : t[k] = existing[i]
  BY <1>1, SublistFact
<1> HIDE DEF t
<1>3. IsList(u) /\ Within(new, u) /\ Within(t, u)
  BY <1>2, ConcatFact
<1> HIDE DEF u
<1>4. Ids(existing) \subseteq Ids(u)
  <2> SUFFICES ASSUME NEW i \in DOMAIN existing PROVE existing[i].id \in Ids(u)
    BY DEF Ids
  <2>1. CASE existing[i].id \in Ids(new)
    BY <1>3, <2>1 DEF Ids, Within
  <2>2. CASE existing[i].id \notin Ids(new)
    <3>1. PICK k \in DOMAIN existing : /\ existing[k].id = existing[i].id
                                       /\ \A j \in DOMAIN existing : existing[j].id = existing[k].id => k <= j
      BY FirstWith
    <3>2. k \in I
      BY <2>2, <3>1 DEF Preserved
    <3>3. PICK m \in DOMAIN t : t[m] = existing[k]
      BY <1>2, <3>2
    <3>4. PICK l \in DOMAIN u : u[l] = t[m]
      BY <1>3 DEF Within
    <3> QED
      BY <3>1, <3>3, <3>4 DEF Ids
  <2> QED
    BY <2>1, <2>2
<1> QED
  BY <1>3, <1>4 DEF MergeConfigs, t, u

\* The legacy configuration makes a list of one source, the default one.
LEMMA MigratedFact ==
    ASSUME NEW v
    PROVE  IsList(MigrateFromLegacyConfig(v)) /\ "default-mysql" \in Ids(MigrateFromLegacyConfig(v))
<1> DEFINE m == MigrateFromLegacyConfig(v)
<1>1. DOMAIN m = 1..1 /\ m[1].id = "default-mysql" /\ m \in Seq({m[1]})
  BY DEF MigrateFromLegacyConfig
<1> HIDE DEF m
<1>2. IsList(m) /\ "default-mysql" \in Ids(m)
  BY <1>1 DEF IsList, Ids
<1> QED
  BY <1>2 DEF m

-----------------------------------------------------------------------------
(* The invariant.                                                          *)

\* Steps that neither read nor write multi_config.json or its copy.
Beside ==
    /\ UNCHANGED <<multi, multiCfg, call, unseen, stale>>
    /\ sync' = sync \/ sync'.st = "load"
    /\ edits' \in {edits, edits + 1}

\* Steps that load multi_config.json and no more.
Loads ==
    /\ Loaded
    /\ UNCHANGED <<multi, call, stale>>
    /\ sync' = sync \/ sync'.st = "idle" \/ (sync'.st = "save" /\ sync'.from = "multi")
    /\ edits' \in {edits, edits + 1}

\* A synchronisation loads both files, and makes one of the two.
Merges ==
    /\ Loaded /\ Reads("sync")
    /\ UNCHANGED <<multi, call, edits>>
    /\ \E by, src : \E blind \in BOOLEAN :
          /\ sync' = [st |-> "save", from |-> "config", by |-> by, blind |-> blind,
                      out |-> [ok |-> TRUE, src |-> src, es |-> TRUE]]
          /\ IsList(LoadMultiConfig.val.src) => IsList(src)
          /\ ~blind /\ IsList(LoadMultiConfig.val.src) =>
                LoadMultiConfig.once /\ Ids(LoadMultiConfig.val.src) \subseteq Ids(src)

\* A call takes a copy of the configuration and makes a list of it.
Copies(c, new) == GetMultiConfig(c, new) /\ (IsList(multiCfg.val.src) => IsList(new))

\* A synchronisation saves config.json.
SavesConfig ==
    /\ UNCHANGED <<multi, multiCfg, call, unseen, stale, edits>>
    /\ sync'.st = "idle"

\* It saves multi_config.json.
SavesMulti ==
    /\ Merging
    /\ SaveMultiConfig(sync.out)
    /\ sync'.st = "idle" /\ UNCHANGED <<call, edits>>

\* What a step has to do with multi_config.json.
Part ==
    \/ Beside \/ Loads \/ Merges \/ SavesConfig \/ SavesMulti
    \/ \E m \in UserMulti : EditMulti(m)
    \/ \E c \in Callers : \E new : Copies(c, new)
    \/ \E c \in Callers : UpdateMultiConfig(c)

LEMMA LoadForMultiPart == LoadForMulti => Merges \/ SavesConfig
<1> SUFFICES ASSUME LoadForMulti PROVE Merges \/ SavesConfig
  OBVIOUS
<1> DEFINE default == MigrateFromLegacyConfig(LoadConfig.val)
           blind == ~LoadMultiConfig.once
           src == IF blind THEN default ELSE MergeConfigs(default, LoadMultiConfig.val.src)
<1>1. CASE LoadConfig.once
  <2>1. IsList(LoadMultiConfig.val.src) => IsList(src)
    BY MigratedFact, MergeKeeps
  <2>2. ~blind /\ IsList(LoadMultiConfig.val.src) =>
            LoadMultiConfig.once /\ Ids(LoadMultiConfig.val.src) \subseteq Ids(src)
    BY MigratedFact, MergeKeeps
  <2>3. /\ Loaded /\ Reads("sync") /\ UNCHANGED <<multi, call, edits>>
        /\ sync' = [st |-> "save", from |-> "config", by |-> sync.by, blind |-> blind,
                    out |-> [ok |-> TRUE, src |-> src, es |-> TRUE]]
    BY <1>1 DEF LoadForMulti, disk
  <2>4. blind \in BOOLEAN
    OBVIOUS
  <2> HIDE DEF src, blind
  <2> QED
    BY <2>1, <2>2, <2>3, <2>4, Zenon DEF Merges
<1>2. CASE ~LoadConfig.once
  BY <1>2 DEF LoadForMulti, disk, Returned, Free, SavesConfig
<1> QED
  BY <1>1, <1>2

LEMMA LoadForConfigPart == LoadForConfig => Loads
<1> SUFFICES ASSUME LoadForConfig PROVE Loads
  OBVIOUS
<1>1. Loaded /\ UNCHANGED <<multi, call, stale, edits>>
  BY DEF LoadForConfig, disk
<1>2. sync' = Free \/ \E by, v : sync' = [st |-> "save", from |-> "multi", by |-> by, out |-> v]
  BY Zenon DEF LoadForConfig, Returned
<1>3. sync'.st = "idle" \/ (sync'.st = "save" /\ sync'.from = "multi")
  <2>1. CASE sync' = Free
    BY <2>1 DEF Free
  <2>2. ASSUME NEW by, NEW v, sync' = [st |-> "save", from |-> "multi", by |-> by, out |-> v]
        PROVE  sync'.st = "save" /\ sync'.from = "multi"
    BY <2>2
  <2> QED
    BY <1>2, <2>1, <2>2
<1> QED
  BY <1>1, <1>3 DEF Loads

LEMMA SavePart == Save => SavesConfig \/ SavesMulti
  BY DEF Save, SaveConfig, Returned, Free, SavesConfig, SavesMulti, Merging

LEMMA Parts == [Next]_vars => Part
<1> SUFFICES ASSUME [Next]_vars, ~(\E m \in UserMulti : EditMulti(m)),
                    ~(\E c \in Callers : UpdateMultiConfig(c)), ~LoadForMulti, ~LoadForConfig, ~Save,
                    ~(\E c \in Callers : \E new : Copies(c, new))
             PROVE  Beside \/ Loads
  BY LoadForMultiPart, LoadForConfigPart, SavePart DEF Part
<1> USE DEF disk, copies, goroutines, switch
<1>1. CASE UNCHANGED vars
  BY <1>1 DEF vars, Beside
<1>2. ASSUME NEW v, EditConfig(v) \/ Update(v)
      PROVE  Beside
  BY <1>2 DEF EditConfig, Update, Outside, Step, Beside
<1>3. CASE ReloadConfiguration
  BY <1>3 DEF ReloadConfiguration, Outside, Step, Beside
<1>11. CASE ValidateConfigurations
  BY <1>11 DEF ValidateConfigurations, Outside, Step, Loads
<1>12. ASSUME NEW enabled \in BOOLEAN, SetAutoSync(enabled)
       PROVE  Beside
  BY <1>12 DEF SetAutoSync, contents, Step, Beside
<1>4. ASSUME NEW c \in Callers, NEW s \in Added, AddDataSource(c, s)
      PROVE  FALSE
  <2> DEFINE new == Append(multiCfg.val.src, s)
  <2>1. IsList(multiCfg.val.src) => IsList(new)
    BY AppendFact
  <2>2. GetMultiConfig(c, new)
    BY <1>4 DEF AddDataSource
  <2> HIDE DEF new
  <2> QED
    BY <2>1, <2>2 DEF Copies
<1>5. ASSUME NEW c \in Callers, NEW id, RemoveDataSource(c, id)
      PROVE  FALSE
  <2> DEFINE src == multiCfg.val.src
  <2>0. PICK i \in DOMAIN src : GetMultiConfig(c, Sublist(src, DOMAIN src \ {i}))
    BY <1>5, Zenon DEF RemoveDataSource
  <2> HIDE DEF src
  <2> DEFINE I == DOMAIN src \ {i}
             new == Sublist(src, I)
  <2>1. IsList(src) => IsList(new)
    <3>1. I \subseteq DOMAIN src
      OBVIOUS
    <3> HIDE DEF I
    <3> QED
      BY <3>1, SublistFact
  <2>2. GetMultiConfig(c, new)
    BY <2>0
  <2> HIDE DEF new
  <2> QED
    BY <2>1, <2>2 DEF Copies, src
<1>6. CASE TriggerSync
  BY <1>6 DEF TriggerSync, SyncConfigToMulti, SyncMultiToConfig, Manual, Outside, Step, Beside
<1>7. CASE Service
  BY <1>7 DEF Service, BiDirectionalSync, Beside
<1>8. CASE Goroutines
  BY <1>8 DEF Goroutines, SyncStarted, SyncCompleted, PublishStatusUpdate, Sends, files, contents, Beside
<1>9. CASE EventLoop \/ Tick \/ Stop
  BY <1>9 DEF EventLoop, PublishEvent, TickStatus, Tick, Stop, Step, files, contents, Beside
<1>10. ASSUME NEW f \in Files, WatchLoop(f) \/ Handler(f)
       PROVE  Beside
  BY <1>10 DEF WatchLoop, Handler, Fire, HandleFileChange, DeleteEntry, files, contents, Beside
<1> QED
  BY <1>1, <1>2, <1>3, <1>4, <1>5, <1>6, <1>7, <1>8, <1>9, <1>10, <1>11, <1>12 DEF Next

\* What has been loaded is the file, unless a user's edit is not seen.
LEMMA LoadFacts ==
    ASSUME Inv, Loaded
    PROVE  /\ multiCfg' = [once |-> LoadMultiConfig.once, val |-> LoadMultiConfig.val]
           /\ LoadMultiConfig.once \in BOOLEAN /\ unseen' \in BOOLEAN
           /\ IsList(LoadMultiConfig.val.src)
           /\ LoadMultiConfig.once => LoadMultiConfig.val.ok
           /\ LoadMultiConfig.val.ok /\ ~unseen' => LoadMultiConfig.val = multi
<1>1. CASE multiCfg.once \/ ~multi.ok
  <2>1. LoadMultiConfig = multiCfg /\ unseen' = unseen
    BY <1>1 DEF LoadMultiConfig, Loaded, Inv, TypeInv
  <2> QED
    BY <2>1 DEF Loaded, Inv, TypeInv, CopyInv
<1>2. CASE ~multiCfg.once /\ multi.ok
  <2>1. LoadMultiConfig = [once |-> TRUE, val |-> multi] /\ unseen' = FALSE
    BY <1>2 DEF LoadMultiConfig, Loaded
  <2> QED
    BY <1>2, <2>1 DEF Loaded, Inv, TypeInv
<1> QED
  BY <1>1, <1>2

LEMMA InvInit == Init => Inv
<1> SUFFICES ASSUME Init PROVE Inv
  OBVIOUS
<1>1. IsList(multi.src)
  <2>1. multi.src \in Seq(Source)
    BY ConfigAssumption DEF Init, Multi
  <2> QED
    BY <2>1, SeqIsList
<1>2. IsList(Nothing.src) /\ ~Nothing.ok
  BY DEF IsList, Nothing
<1> QED
  BY <1>1, <1>2 DEF Init, Inv, TypeInv, CopyInv, KeptInv, Merging, Free

LEMMA InvStep == Inv /\ [Next]_vars => Inv'
<1> SUFFICES ASSUME Inv, Part PROVE Inv'
  BY Parts
<1> USE DEF Inv, TypeInv, CopyInv, KeptInv, Merging
<1>1. CASE Beside
  BY <1>1 DEF Beside
<1>2. ASSUME NEW m \in UserMulti, EditMulti(m)
      PROVE  Inv'
  <2>1. IsList(m.src)
    <3>1. m.src \in Seq(Source)
      BY ConfigAssumption DEF Multi
    <3> QED
      BY <3>1, SeqIsList
  <2>2. /\ multi' = m /\ unseen' = (m # multiCfg.val) /\ stale' = Everyone
        /\ UNCHANGED <<multiCfg, sync, call>> /\ edits' = edits + 1
    BY <1>2 DEF EditMulti, Outside, Step
  <2>3. unseen' \in BOOLEAN /\ (~unseen' => multiCfg.val = m)
    BY <2>2, Zenon
  <2>4. "sync" \in Everyone /\ \A c \in Callers : c \in Everyone
    BY DEF Everyone
  <2> QED
    BY <2>1, <2>2, <2>3, <2>4
<1>3. ASSUME NEW c \in Callers, NEW new, Copies(c, new)
      PROVE  Inv'
  <2> DEFINE gone == Ids(multiCfg.val.src) \ Ids(new)
             m == [multiCfg.val EXCEPT !.src = new]
  <2>1. /\ UNCHANGED <<multi, multiCfg, sync, unseen>> /\ edits' = edits + 1
        /\ stale' = IF unseen THEN stale \cup {c} ELSE stale \ {c}
        /\ IsList(new) /\ multiCfg.val.ok
        /\ call' = [call EXCEPT ![c] = [st |-> "save", new |-> m, gone |-> gone]]
    <3>1. GetMultiConfig(c, new) /\ IsList(new)
      BY <1>3 DEF Copies
    <3> QED
      BY <3>1 DEF GetMultiConfig, Reads, Outside, Step, disk
  <2>2. m.ok /\ m.src = new
    BY <2>1
  <2>3. Ids(multiCfg.val.src) \subseteq Ids(new) \cup gone
    OBVIOUS
  <2>4. ~unseen => Ids(multi.src) \subseteq Ids(new) \cup gone
    BY <2>1, <2>3
  <2> HIDE DEF gone, m
  <2>5. /\ call' = [d \in Callers |-> call'[d]]
        /\ call'[c].st = "save" /\ call'[c].new = m /\ call'[c].gone = gone
        /\ \A d \in Callers \ {c} : call'[d] = call[d] /\ (d \in stale' <=> d \in stale)
        /\ "sync" \in stale' <=> "sync" \in stale
        /\ unseen => c \in stale'
    BY <2>1, ConfigAssumption
  <2>6. TypeInv' /\ CopyInv'
    BY <2>1, <2>2, <2>5
  <2>7. Merging' /\ "sync" \notin stale' /\ ~sync'.blind => Ids(multi'.src) \subseteq Ids(sync'.out.src)
    BY <2>1, <2>5
  <2>8. ASSUME NEW d \in Callers, call'[d].st = "save", d \notin stale'
        PROVE  Ids(multi'.src) \subseteq Ids(call'[d].new.src) \cup call'[d].gone
    BY <2>1, <2>2, <2>4, <2>5, <2>8
  <2> QED
    BY <2>6, <2>7, <2>8, Zenon DEF Ids
<1>4. ASSUME NEW c \in Callers, UpdateMultiConfig(c)
      PROVE  Inv'
  <2> DEFINE new == call[c].new
  <2>1. /\ UNCHANGED <<sync, edits>> /\ IsList(new.src) /\ new.ok
        /\ multi' = new /\ multiCfg' = [once |-> multiCfg.once, val |-> new]
        /\ unseen' = FALSE /\ stale' = Everyone
        /\ call' = [call EXCEPT ![c] = [st |-> "idle"]]
    BY <1>4 DEF UpdateMultiConfig, SaveMultiConfig
  <2>2. /\ call' = [d \in Callers |-> call'[d]] /\ call'[c].st = "idle"
        /\ \A d \in Callers \ {c} : call'[d] = call[d]
    BY <2>1
  <2>3. "sync" \in Everyone /\ \A d \in Callers : d \in Everyone
    BY DEF Everyone
  <2> HIDE DEF new
  <2> QED
    BY <2>1, <2>2, <2>3
<1>5. CASE Loads
  <2>1. Loaded /\ UNCHANGED <<multi, call, stale>>
    BY <1>5 DEF Loads
  <2>2. PICK val, once :
            /\ multiCfg' = [once |-> once, val |-> val] /\ IsList(val.src) /\ unseen' \in BOOLEAN
            /\ once \in BOOLEAN /\ (once => val.ok)
            /\ val.ok /\ ~unseen' => val = multi
    BY <2>1, LoadFacts, Zenon
  <2>3. ~Merging' \/ sync' = sync
    BY <1>5 DEF Loads
  <2>4. sync'.st \in {"idle", "load", "save"} /\ edits' \in Nat
    BY <1>5 DEF Loads
  <2>5. TypeInv' /\ CopyInv'
    BY <2>1, <2>2, <2>3, <2>4
  <2>6. multi' = multi /\ call' = call /\ stale' = stale
    BY <2>1
  <2>7. Merging' /\ "sync" \notin stale' /\ ~sync'.blind => Ids(multi'.src) \subseteq Ids(sync'.out.src)
    BY <2>3, <2>6
  <2>8. ASSUME NEW c \in Callers, call'[c].st = "save", c \notin stale'
        PROVE  Ids(multi'.src) \subseteq Ids(call'[c].new.src) \cup call'[c].gone
    BY <2>6, <2>8
  <2> QED
    BY <2>5, <2>7, <2>8, Zenon DEF Ids
<1>6. CASE Merges
  <2>1. PICK val, once :
            /\ LoadMultiConfig.val = val /\ LoadMultiConfig.once = once
            /\ multiCfg' = [once |-> once, val |-> val] /\ IsList(val.src) /\ unseen' \in BOOLEAN
            /\ once \in BOOLEAN /\ (once => val.ok)
            /\ val.ok /\ ~unseen' => val = multi
    BY <1>6, LoadFacts, Zenon DEF Merges
  <2>2. PICK by, src, blind :
            /\ sync' = [st |-> "save", from |-> "config", by |-> by, blind |-> blind,
                        out |-> [ok |-> TRUE, src |-> src, es |-> TRUE]]
            /\ IsList(src) /\ blind \in BOOLEAN
            /\ ~blind => once /\ Ids(val.src) \subseteq Ids(src)
    BY <1>6, <2>1, Zenon DEF Merges
  <2>3. UNCHANGED <<multi, call, edits>> /\ stale' = IF unseen' THEN stale \cup {"sync"} ELSE stale \ {"sync"}
    BY <1>6 DEF Merges, Reads
  <2>4. /\ unseen' => "sync" \in stale'
        /\ \A c \in Callers : c \in stale' <=> c \in stale
    BY <2>3, ConfigAssumption
  <2>5. sync'.st = "save" /\ sync'.from = "config" /\ sync'.blind = blind /\ sync'.out.src = src /\ sync'.out.ok
    BY <2>2
  <2>6. TypeInv' /\ CopyInv'
    BY <2>1, <2>2, <2>3, <2>5
  <2>7. ~unseen' /\ ~blind => Ids(multi.src) \subseteq Ids(src)
    BY <2>1, <2>2
  <2>8. Merging' /\ "sync" \notin stale' /\ ~sync'.blind => Ids(multi'.src) \subseteq Ids(sync'.out.src)
    BY <2>3, <2>4, <2>5, <2>7
  <2>9. ASSUME NEW c \in Callers, call'[c].st = "save", c \notin stale'
        PROVE  Ids(multi'.src) \subseteq Ids(call'[c].new.src) \cup call'[c].gone
    BY <2>3, <2>4, <2>9
  <2> QED
    BY <2>6, <2>8, <2>9, Zenon DEF Ids
<1>7. CASE SavesConfig
  BY <1>7 DEF SavesConfig
<1>8. CASE SavesMulti
  <2>1. /\ UNCHANGED <<call, edits>> /\ IsList(sync.out.src) /\ sync.out.ok
        /\ multi' = sync.out /\ multiCfg' = [once |-> multiCfg.once, val |-> sync.out]
        /\ unseen' = FALSE /\ stale' = Everyone /\ sync'.st = "idle"
    BY <1>8 DEF SavesMulti, SaveMultiConfig
  <2>3. \A d \in Callers : d \in Everyone
    BY DEF Everyone
  <2> QED
    BY <2>1, <2>3
<1> QED
  BY <1>1, <1>2, <1>3, <1>4, <1>5, <1>6, <1>7, <1>8 DEF Part

-----------------------------------------------------------------------------
\* However synchronisations, calls and edits interleave, whichever file the
\* watcher takes for the newer one and whatever users leave in them: a source leaves
\* multi_config.json only by a user's hand, by RemoveDataSource, by an operation that
\* began with what the file no longer holds, or over a file that does not parse.
THEOREM LostOnlyIfKnownHolds == Spec => LostOnlyIfKnown
<1> DEFINE Known == \A id \in Ids(multi.src) \ Ids(multi'.src) :
         \/ edits' # edits
         \/ \E c \in Callers : /\ call[c].st = "save" /\ call'[c].st = "idle"
                              /\ (id \in call[c].gone \/ c \in stale)
         \/ /\ sync.st = "save" /\ sync.from = "config" /\ sync'.st = "idle"
            /\ ("sync" \in stale \/ sync.blind)
<1>1. Inv /\ [Next]_vars => [Known]_vars
  <2> SUFFICES ASSUME Inv, Part, NEW id \in Ids(multi.src) \ Ids(multi'.src)
               PROVE  \/ edits' # edits
                      \/ \E c \in Callers : /\ call[c].st = "save" /\ call'[c].st = "idle"
                                            /\ (id \in call[c].gone \/ c \in stale)
                      \/ /\ sync.st = "save" /\ sync.from = "config" /\ sync'.st = "idle"
                         /\ ("sync" \in stale \/ sync.blind)
    BY Parts
  <2>1. multi' # multi
    OBVIOUS
  <2>2. ASSUME NEW m \in UserMulti, EditMulti(m)
        PROVE  edits' # edits
    BY <2>2 DEF EditMulti, Outside, Step, Inv, TypeInv
  <2>3. ASSUME NEW c \in Callers, UpdateMultiConfig(c)
        PROVE  /\ call[c].st = "save" /\ call'[c].st = "idle"
               /\ id \in call[c].gone \/ c \in stale
    <3>1. call[c].st = "save" /\ multi' = call[c].new
      BY <2>3 DEF UpdateMultiConfig, SaveMultiConfig
    <3>2. call'[c].st = "idle"
      BY <2>3 DEF UpdateMultiConfig, Inv, TypeInv
    <3> QED
      BY <3>1, <3>2 DEF Inv, KeptInv
  <2>4. CASE SavesMulti
    <3>1. Merging /\ multi' = sync.out /\ sync'.st = "idle"
      BY <2>4 DEF SavesMulti, SaveMultiConfig
    <3> QED
      BY <3>1 DEF Inv, KeptInv, Merging
  <2>5. Beside \/ Loads \/ Merges \/ SavesConfig \/ (\E c \in Callers : \E new : Copies(c, new)) => multi' = multi
    BY DEF Beside, Loads, Merges, SavesConfig, Copies, GetMultiConfig, disk
  <2> QED
    BY <2>1, <2>2, <2>3, <2>4, <2>5 DEF Part
<1>2. LostOnlyIfKnown <=> [][Known]_vars
  BY DEF LostOnlyIfKnown
<1> QED
  BY <1>1, <1>2, InvInit, InvStep, PTL DEF Spec
=============================================================================
