--------------------------- MODULE ModelStoreProofs ---------------------------
(***************************************************************************)
(* Proofs about the model store, for every set of engines and processes,   *)
(* every pair of paths, bucket and number of faults; about the tunnel; and *)
(* about the split of the chips.                                           *)
(***************************************************************************)
EXTENDS ModelStore, SSHTunnel, TLAPS

OneOrigin == Origin(path["target"]) = Origin(path["draft"])

(* The weights w may stand for role r in process p: they are of that       *)
(* model's origin, a thread of the process loaded them, and in the role    *)
(* they stand for, or as a target when both roles have one origin.         *)
FitsRole(w, p, r) ==
    /\ w \in Weights
    /\ Origin(w.model) = Origin(path[r])
    /\ ProcessOf[w.loader] = p
    /\ w.as = IF OneOrigin THEN "target" ELSE r

SharedFits ==
    \A p \in Process, r \in Role :
        shared[p][Key(r)] # NoWeights => FitsRole(shared[p][Key(r)], p, r)

AdapterFits ==
    \A e \in Engine, r \in Role :
        adapter[e][r] # NoWeights => FitsRole(adapter[e][r], ProcessOf[e], r)

(* _SHARED is never emptied while its process lives: with one origin, an   *)
(* engine that turned to its draft finds the target's weights there.       *)
DraftFindsTarget ==
    \A e \in Engine :
        OneOrigin /\ role[e] = "draft" => Held(e) # NoWeights /\ pc[e] # "load"

StoreInv == TypeOK /\ SharedFits /\ AdapterFits /\ DraftFindsTarget
-----------------------------------------------------------------------------
Label == {"new", "resolve", "rsync", "tokenizer", "shared", "load", "ready", "failed"}

(* What uploads and syncs change. *)
DeliveryType ==
    /\ toUpload \in Seq(Model)
    /\ bucket \in [Model -> SUBSET File]
    /\ disk \in [Model -> SUBSET File]
    /\ listing \in [Engine -> SUBSET File]
    /\ early \subseteq Model
    /\ faults \in 0..MaxFaults

LEMMA OriginsAreKeys ==
    ASSUME StoreAssumption, NEW m \in Model
    PROVE  Origin(m) \in Keys
BY DEF StoreAssumption, Origin, EasydelRepo, Keys, Checkpoint

LEMMA KeyIsKey ==
    ASSUME StoreAssumption, TypeOK, NEW r \in Role
    PROVE  Key(r) \in Keys /\ path[r] \in Model
<1>1. path[r] \in Model /\ Origin(path[r]) \in Keys
    BY OriginsAreKeys DEF TypeOK
<1>. QED
    BY <1>1 DEF Key, Keys

(* The two roles share a key when, and only when, they share the origin. *)
LEMMA KeysShared ==
    ASSUME NEW r \in Role, NEW s \in Role, r # s
    PROVE  Key(r) = Key(s) <=> OneOrigin
<1>. DEFINE p == path["target"]
            q == path["draft"]
<1>1. Key("target") = Key("draft") <=> p = q \/ Origin(p) = Origin(q)
    BY DEF Key
<1>2. p = q => Origin(p) = Origin(q)
    OBVIOUS
<1>. QED
    BY <1>1, <1>2 DEF OneOrigin, Role

(* Steps that leave paths, weights and roles alone: only a constructor     *)
(* that found nothing in _SHARED goes on to load.                          *)
LEMMA QuietStep ==
    ASSUME StoreInv,
           UNCHANGED <<path, shared, role, adapter>>,
           DeliveryType',
           pc' \in [Engine -> Label],
           \A e \in Engine : pc'[e] = "load" => pc[e] = "load" \/ Held(e) = NoWeights
    PROVE  StoreInv'
<1>1. TypeOK'
    BY DEF StoreInv, TypeOK, Label, DeliveryType
<1>2. SharedFits' /\ AdapterFits'
    BY DEF StoreInv, SharedFits, AdapterFits, FitsRole, Key, OneOrigin
<1>3. DraftFindsTarget'
    BY DEF StoreInv, DraftFindsTarget, Held, Key, OneOrigin
<1>. QED
    BY <1>1, <1>2, <1>3 DEF StoreInv

(* One constructor moves to a label other than "load". *)
LEMMA GotoStep ==
    ASSUME StoreInv, NEW e \in Engine, NEW label \in Label \ {"load"},
           Goto(e, label),
           UNCHANGED <<path, shared, role, adapter>>,
           DeliveryType'
    PROVE  StoreInv'
<1>1. pc \in [Engine -> Label]
    BY DEF StoreInv, TypeOK, Label
<1>2. pc' \in [Engine -> Label]
    BY <1>1 DEF Goto
<1>3. \A d \in Engine : pc'[d] = "load" => pc[d] = "load"
    BY <1>1 DEF Goto
<1>. QED
    BY <1>2, <1>3, QuietStep

(* An adapter is given weights that fit its role. *)
LEMMA EquipStep ==
    ASSUME StoreInv, StoreAssumption, NEW e \in Engine, NEW w,
           FitsRole(w, ProcessOf[e], role[e]),
           Equip(e, w),
           shared' \in [Process -> [Keys -> Weights \cup {NoWeights}]],
           SharedFits',
           \A d \in Engine : OneOrigin /\ (role[d] = "draft" \/ d = e)
                               => shared'[ProcessOf[d]][Key("draft")] # NoWeights
    PROVE  StoreInv'
<1>1. /\ UNCHANGED <<path, bucketVars, diskVars, faults>>
      /\ adapter' = [adapter EXCEPT ![e][role[e]] = w]
    BY DEF Equip
<1>2. \/ role' = [role EXCEPT ![e] = "draft"] /\ pc' = [pc EXCEPT ![e] = "resolve"]
      \/ role' = role /\ pc' = [pc EXCEPT ![e] = "ready"]
    BY DEF Equip, Goto
<1>3. TypeOK'
    BY <1>1, <1>2 DEF StoreInv, TypeOK, Role, FitsRole, bucketVars, diskVars
<1>4. AdapterFits'
    BY <1>1 DEF StoreInv, TypeOK, AdapterFits, FitsRole, OneOrigin, Role
<1>5. DraftFindsTarget'
    <2>. SUFFICES ASSUME NEW d \in Engine, OneOrigin, role'[d] = "draft"
                  PROVE  Held(d)' # NoWeights /\ pc'[d] # "load"
        BY <1>1 DEF DraftFindsTarget, OneOrigin
    <2>1. role[d] = "draft" \/ d = e
        BY <1>2 DEF StoreInv, TypeOK
    <2>2. Held(d)' = shared'[ProcessOf[d]][Key("draft")]
        BY <1>1 DEF Held, Key
    <2>3. pc'[d] # "load"
        BY <1>2, <2>1 DEF StoreInv, TypeOK, DraftFindsTarget
    <2>. QED
        BY <2>1, <2>2, <2>3
<1>. QED
    BY <1>3, <1>4, <1>5 DEF StoreInv

LEMMA ReuseStep ==
    ASSUME StoreInv, StoreAssumption, NEW e \in Engine, Reuse(e)
    PROVE  StoreInv'
<1>. DEFINE w == Held(e)
<1>1. role[e] \in Role /\ ProcessOf[e] \in Process
    BY StoreAssumption DEF StoreInv, TypeOK
<1>2. FitsRole(w, ProcessOf[e], role[e])
    BY <1>1 DEF Reuse, StoreInv, SharedFits, Held
<1>3. shared' = shared /\ path' = path /\ Equip(e, w) /\ w # NoWeights
    BY DEF Reuse, Equip
<1>4. SharedFits' /\ shared' \in [Process -> [Keys -> Weights \cup {NoWeights}]]
    BY <1>3 DEF StoreInv, TypeOK, SharedFits, FitsRole, Key, OneOrigin
<1>5. ASSUME NEW d \in Engine, OneOrigin, role[d] = "draft" \/ d = e
      PROVE  shared'[ProcessOf[d]][Key("draft")] # NoWeights
    <2>1. Held(d) # NoWeights
        BY <1>3, <1>5 DEF StoreInv, DraftFindsTarget
    <2>2. Key(role[d]) = Key("draft")
        BY <1>5, KeysShared DEF StoreInv, TypeOK, Role
    <2>. QED
        BY <2>1, <2>2, <1>3 DEF Held
<1>. QED
    BY <1>2, <1>3, <1>4, <1>5, EquipStep

LEMMA LoadStep ==
    ASSUME StoreInv, StoreAssumption, NEW e \in Engine, Load(e)
    PROVE  StoreInv'
<1>. DEFINE w == Loaded(e)
            p == ProcessOf[e]
            k == Key(role[e])
<1>1. role[e] \in Role /\ p \in Process /\ k \in Keys /\ path[role[e]] \in Model
    BY StoreAssumption, KeyIsKey DEF StoreInv, TypeOK
<1>2. OneOrigin => role[e] = "target"
    BY <1>1 DEF Load, StoreInv, DraftFindsTarget, Role
<1>3. FitsRole(w, p, role[e])
    BY <1>1, <1>2 DEF FitsRole, Loaded, Weights, Path
<1>4. /\ shared' = [shared EXCEPT ![p][k] = w]
      /\ path' = path /\ Equip(e, w)
      /\ w # NoWeights
    BY <1>3, StoreAssumption DEF Load, Equip, FitsRole
<1>5. shared \in [Process -> [Keys -> Weights \cup {NoWeights}]]
    BY DEF StoreInv, TypeOK
<1>6. shared' \in [Process -> [Keys -> Weights \cup {NoWeights}]]
    BY <1>1, <1>3, <1>4, <1>5 DEF FitsRole
<1>7. shared'[p][k] = w
    BY <1>1, <1>4, <1>5
<1>8. \A q \in Process, key \in Keys : q # p \/ key # k => shared'[q][key] = shared[q][key]
    BY <1>1, <1>4, <1>5
<1>9. SharedFits'
    <2>. SUFFICES ASSUME NEW q \in Process, NEW r \in Role,
                         shared'[q][Key(r)] # NoWeights
                  PROVE  FitsRole(shared'[q][Key(r)], q, r)
        BY <1>4 DEF SharedFits, FitsRole, Key, OneOrigin
    <2>1. Key(r) \in Keys
        BY KeyIsKey DEF StoreInv
    <2>2. CASE q = p /\ Key(r) = k
        <3>1. OneOrigin \/ r = role[e]
            BY <2>2, <1>1, KeysShared
        <3>2. Origin(path[r]) = Origin(path[role[e]])
            BY <3>1, <1>1 DEF OneOrigin, Role
        <3>. QED
            BY <2>2, <3>1, <3>2, <1>3, <1>7 DEF FitsRole
    <2>3. CASE ~ (q = p /\ Key(r) = k)
        <3>1. shared'[q][Key(r)] = shared[q][Key(r)]
            BY <2>1, <2>3, <1>8
        <3>. QED
            BY <3>1 DEF StoreInv, SharedFits
    <2>. QED
        BY <2>2, <2>3
<1>10. ASSUME NEW d \in Engine, OneOrigin, role[d] = "draft" \/ d = e
       PROVE  shared'[ProcessOf[d]][Key("draft")] # NoWeights
    <2>1. Key("draft") = k /\ Key(role[d]) = k
        BY <1>1, <1>10, KeysShared DEF StoreInv, TypeOK, Role
    <2>2. ProcessOf[d] \in Process
        BY StoreAssumption
    <2>3. CASE ProcessOf[d] = p
        BY <2>1, <2>3, <1>7, <1>4
    <2>4. CASE ProcessOf[d] # p
        <3>1. Held(d) # NoWeights
            BY <2>4, <1>10 DEF StoreInv, DraftFindsTarget
        <3>. QED
            BY <1>1, <2>1, <2>2, <2>4, <3>1, <1>8 DEF Held
    <2>. QED
        BY <2>3, <2>4
<1>. QED
    BY <1>3, <1>4, <1>6, <1>9, <1>10, EquipStep

(* A process that starts afresh holds nothing and has no role to remember. *)
LEMMA AfreshStep ==
    ASSUME StoreInv, StoreAssumption, NEW p \in Process, StartAfresh(p),
           faults' \in 0..MaxFaults
    PROVE  StoreInv'
<1>1. TypeOK'
    BY DEF StoreInv, TypeOK, StartAfresh, NoAdapters, Role, bucketVars
<1>2. path' = path
    BY DEF StartAfresh
<1>3. \A q \in Process, k \in Keys :
        shared'[q][k] = IF q = p THEN NoWeights ELSE shared[q][k]
    BY DEF StartAfresh, StoreInv, TypeOK
<1>4. SharedFits'
    BY <1>2, <1>3, KeyIsKey DEF StoreInv, SharedFits, FitsRole, Key, OneOrigin
<1>5. AdapterFits'
    BY <1>2 DEF StoreInv, AdapterFits, FitsRole, OneOrigin, StartAfresh, NoAdapters, EnginesOf
<1>6. DraftFindsTarget'
    <2>. SUFFICES ASSUME NEW e \in Engine, OneOrigin, role'[e] = "draft"
                  PROVE  Held(e)' # NoWeights /\ pc'[e] # "load"
        BY <1>2 DEF DraftFindsTarget, OneOrigin
    <2>1. e \notin EnginesOf(p) /\ role'[e] = role[e] /\ pc'[e] = pc[e]
        BY DEF StartAfresh
    <2>2. ProcessOf[e] # p /\ ProcessOf[e] \in Process
        BY <2>1, StoreAssumption DEF EnginesOf
    <2>3. Held(e) # NoWeights /\ pc[e] # "load" /\ Key(role[e]) \in Keys
        BY <2>1, KeyIsKey DEF StoreInv, DraftFindsTarget, Role
    <2>. QED
        BY <2>1, <2>2, <2>3, <1>2, <1>3 DEF Held, Key
<1>. QED
    BY <1>1, <1>4, <1>5, <1>6 DEF StoreInv
-----------------------------------------------------------------------------
LEMMA InitStore ==
    ASSUME StoreAssumption, Init
    PROVE  StoreInv
<1>. USE DEF Init, NoAdapters, Role
<1>1. toUpload \in Seq(Model)
    BY DEF StoreAssumption
<1>2. TypeOK
    BY <1>1 DEF StoreAssumption, TypeOK
<1>3. SharedFits
    BY <1>2, KeyIsKey DEF SharedFits
<1>4. AdapterFits /\ DraftFindsTarget
    BY DEF AdapterFits, DraftFindsTarget
<1>. QED
    BY <1>2, <1>3, <1>4 DEF StoreInv

LEMMA AddFile ==
    ASSUME NEW files \in [Model -> SUBSET File], NEW m \in Model, NEW f \in File
    PROVE  [files EXCEPT ![m] = @ \cup {f}] \in [Model -> SUBSET File]
OBVIOUS

(* The uploading script touches nothing that an engine holds. *)
LEMMA UploadStep ==
    ASSUME StoreInv, StoreAssumption, UploadFile \/ Uploaded \/ UploadRaises
    PROVE  StoreInv'
<1>. DEFINE m == Head(toUpload)
<1>1. /\ toUpload \in Seq(Model) /\ toUpload # <<>>
      /\ bucket \in [Model -> SUBSET File] /\ faults \in 0..MaxFaults
    BY DEF StoreInv, TypeOK, UploadFile, Uploaded, UploadRaises
<1>2. m \in Model /\ Tail(toUpload) \in Seq(Model)
    BY <1>1
<1>3. toUpload' \in {toUpload, Tail(toUpload), <<>>}
    BY DEF UploadFile, Uploaded, UploadRaises
<1>4. toUpload' \in Seq(Model)
    <2>1. <<>> \in Seq(Model)
        OBVIOUS
    <2>. HIDE DEF m
    <2>. QED
        BY <1>1, <1>2, <1>3, <2>1, Zenon
<1>5. bucket' = bucket \/ \E f \in File : bucket' = [bucket EXCEPT ![m] = @ \cup {f}]
    BY DEF UploadFile, Uploaded, UploadRaises
<1>6. bucket' \in [Model -> SUBSET File]
    BY <1>1, <1>2, <1>5, AddFile
<1>7. faults' = faults \/ (faults < MaxFaults /\ faults' = faults + 1)
    BY DEF UploadFile, Uploaded, UploadRaises
<1>8. faults' \in 0..MaxFaults
    BY <1>1, <1>7, StoreAssumption DEF StoreAssumption
<1>9. UNCHANGED <<path, disk, listing, early, shared, role, adapter, pc>>
    BY DEF UploadFile, Uploaded, UploadRaises, diskVars, engineVars
<1>10. DeliveryType'
    BY <1>4, <1>6, <1>8, <1>9 DEF StoreInv, TypeOK, DeliveryType
<1>11. pc \in [Engine -> Label]
    BY DEF StoreInv, TypeOK, Label
<1>. QED
    BY <1>9, <1>10, <1>11, QuietStep

LEMMA NextStore ==
    ASSUME StoreInv, StoreAssumption, [Next]_vars
    PROVE  StoreInv'
<1>1. DeliveryType /\ pc \in [Engine -> Label]
    BY DEF StoreInv, TypeOK, Label, DeliveryType
<1>. USE DEF DeliveryType, bucketVars, diskVars, engineVars
<1>2. ASSUME NEW e \in Engine, Construct(e) PROVE StoreInv'
    BY <1>1, <1>2, GotoStep DEF Construct, Label
<1>3. ASSUME NEW e \in Engine, ResolveHubId(e) PROVE StoreInv'
    BY <1>1, <1>3, GotoStep DEF ResolveHubId, Label
<1>4. ASSUME NEW e \in Engine, Resolve(e) PROVE StoreInv'
    BY <1>1, <1>4, GotoStep DEF Resolve, Label
<1>5. ASSUME NEW e \in Engine, BeginSync(e) PROVE StoreInv'
    <2>1. Path(e) \in Model
        BY DEF Path, StoreInv, TypeOK
    <2>2. DeliveryType'
        BY <1>1, <1>5, <2>1 DEF BeginSync
    <2>. QED
        BY <1>5, <2>2, GotoStep DEF BeginSync, Label
<1>6. ASSUME NEW e \in Engine, Copy(e) PROVE StoreInv'
    <2>1. Path(e) \in Model
        BY DEF Path, StoreInv, TypeOK
    <2>2. listing[e] \subseteq File
        BY <1>1
    <2>3. disk' \in [Model -> SUBSET File]
        BY <1>1, <1>6, <2>1, <2>2 DEF Copy
    <2>4. DeliveryType'
        BY <1>1, <1>6, <2>3 DEF Copy
    <2>. QED
        BY <1>1, <1>6, <2>4, QuietStep DEF Copy
<1>7. ASSUME NEW e \in Engine, SyncReturns(e) PROVE StoreInv'
    <2>1. DeliveryType'
        BY <1>1, <1>7 DEF SyncReturns
    <2>. QED
        BY <1>7, <2>1, GotoStep DEF SyncReturns, Label
<1>8. ASSUME NEW e \in Engine, SyncRaises(e) PROVE StoreInv'
    <2>1. DeliveryType'
        BY <1>1, <1>8, StoreAssumption DEF SyncRaises
    <2>. QED
        BY <1>8, <2>1, GotoStep DEF SyncRaises, Label
<1>9. ASSUME NEW e \in Engine, NothingToSync(e) PROVE StoreInv'
    BY <1>1, <1>9, GotoStep DEF NothingToSync, Label
<1>10. ASSUME NEW e \in Engine, LoadTokenizer(e) PROVE StoreInv'
    BY <1>1, <1>10, GotoStep DEF LoadTokenizer, Label
<1>11. ASSUME NEW e \in Engine, HubFails(e) PROVE StoreInv'
    <2>1. DeliveryType'
        BY <1>1, <1>11, StoreAssumption DEF HubFails
    <2>. QED
        BY <1>11, <2>1, GotoStep DEF HubFails, Label
<1>12. ASSUME NEW e \in Engine, Reuse(e) PROVE StoreInv'
    BY <1>12, ReuseStep
<1>13. ASSUME NEW e \in Engine, BeginLoad(e) PROVE StoreInv'
    <2>1. pc' \in [Engine -> Label]
        BY <1>1, <1>13 DEF BeginLoad, Goto, Label
    <2>2. \A d \in Engine : pc'[d] = "load" => pc[d] = "load" \/ Held(d) = NoWeights
        BY <1>1, <1>13 DEF BeginLoad, Goto
    <2>. QED
        BY <1>1, <1>13, <2>1, <2>2, QuietStep DEF BeginLoad
<1>14. ASSUME NEW e \in Engine, Load(e) PROVE StoreInv'
    BY <1>14, LoadStep
<1>15. ASSUME NEW e \in Engine, LoadRaises(e) PROVE StoreInv'
    BY <1>1, <1>15, GotoStep DEF LoadRaises, Label
<1>16. ASSUME NEW p \in Process, Exit(p) PROVE StoreInv'
    BY <1>1, <1>16, AfreshStep DEF Exit
<1>17. ASSUME NEW p \in Process, Interrupt(p) PROVE StoreInv'
    <2>1. faults' \in 0..MaxFaults
        BY <1>1, <1>17, StoreAssumption DEF Interrupt
    <2>. QED
        BY <1>17, <2>1, AfreshStep DEF Interrupt
<1>18. ASSUME UploadFile \/ Uploaded \/ UploadRaises PROVE StoreInv'
    BY <1>18, UploadStep
<1>19. CASE UNCHANGED vars
    BY <1>1, <1>19, QuietStep DEF vars
<1>. QED
    BY <1>2, <1>3, <1>4, <1>5, <1>6, <1>7, <1>8, <1>9, <1>10, <1>11, <1>12, <1>13, <1>14,
       <1>15, <1>16, <1>17, <1>18, <1>19
    DEF Next, ConstructorStep

LEMMA StoreInvariant == Spec => []StoreInv
<1>1. Init => StoreInv
    BY InitStore, StoreAssumption
<1>2. StoreInv /\ [Next]_vars => StoreInv'
    BY NextStore, StoreAssumption
<1>. QED
    BY <1>1, <1>2, PTL DEF Spec

(* However threads race for _SHARED and processes come and go, an adapter  *)
(* holds weights of its own path's origin; and an engine alone in its      *)
(* process has them on its own mesh, when target and draft have different  *)
(* origins and are not Gemma 4 (GemmaAdapter.__init__, LLMEngine.__init__).*)
THEOREM WeightsOfOwnPathHolds == Spec => []WeightsOfOwnPath
<1>1. ASSUME StoreInv PROVE WeightsOfOwnPath
    <2>. SUFFICES ASSUME NEW e \in Engine, NEW r \in Role, adapter[e][r] # NoWeights
                  PROVE  /\ Origin(adapter[e][r].model) = Origin(path[r])
                         /\ EnginesOf(ProcessOf[e]) = {e} /\ ~ OneOrigin
                              => Placement(adapter[e][r]) = Mesh(e, r)
        BY DEF WeightsOfOwnPath, OneOrigin
    <2>1. FitsRole(adapter[e][r], ProcessOf[e], r)
        BY <1>1 DEF StoreInv, AdapterFits
    <2>2. ASSUME EnginesOf(ProcessOf[e]) = {e}, ~ OneOrigin
          PROVE  adapter[e][r].loader = e /\ adapter[e][r].as = r
        <3>1. adapter[e][r].loader \in EnginesOf(ProcessOf[e])
            BY <2>1 DEF FitsRole, Weights, EnginesOf
        <3>. QED
            BY <2>1, <2>2, <3>1 DEF FitsRole
    <2>. QED
        BY <2>1, <2>2 DEF FitsRole, Placement
<1>. QED
    BY <1>1, StoreInvariant, PTL

(* With one origin for both models no draft is ever loaded a second time,    *)
(* whichever thread's load was stored last (share_key in LLMEngine).       *)
THEOREM OnePathLoadsOnceHolds == Spec => []OnePathLoadsOnce
<1>1. StoreInv => OnePathLoadsOnce
    BY DEF StoreInv, AdapterFits, FitsRole, OneOrigin, OnePathLoadsOnce, Role
<1>. QED
    BY <1>1, StoreInvariant, PTL
-----------------------------------------------------------------------------
(* The state of a model store keeps its types. *)
THEOREM StoreTypeOK == Spec => []TypeOK
<1>1. StoreInv => TypeOK
    BY DEF StoreInv
<1>. QED
    BY <1>1, StoreInvariant, PTL

(* What an rsync listed, unless early, is the whole model. *)
ListingIsWhole ==
    \A e \in Engine :
        faults = 0 /\ pc[e] = "rsync" /\ Path(e) \notin early => listing[e] = File

SyncInv == ListingIsWhole /\ PartialOnlyAfterFault

(* Steps of engines outside an rsync, and of nobody, on the way to a       *)
(* directory: no rsync begins or ends.                                     *)
LEMMA NoSyncStep ==
    ASSUME SyncInv,
           disk' = disk, early' = early,
           \A e \in Engine : (pc'[e] = "rsync") = (pc[e] = "rsync"),
           \A e \in Engine : pc[e] = "rsync" => Path(e)' = Path(e) /\ listing'[e] = listing[e],
           faults' = 0 => faults = 0
    PROVE  SyncInv'
<1>1. \A m \in Model : Syncing(m)' = Syncing(m)
    BY DEF Syncing
<1>2. PartialOnlyAfterFault'
    BY <1>1 DEF SyncInv, PartialOnlyAfterFault
<1>3. ListingIsWhole'
    BY DEF SyncInv, ListingIsWhole
<1>. QED
    BY <1>2, <1>3 DEF SyncInv

LEMMA BeginSyncStep ==
    ASSUME SyncInv, TypeOK, NEW e \in Engine, BeginSync(e)
    PROVE  SyncInv'
<1>. USE DEF BeginSync, Goto, bucketVars, engineVars
<1>1. /\ pc' = [pc EXCEPT ![e] = "rsync"] /\ listing' = [listing EXCEPT ![e] = bucket[Path(e)]]
      /\ disk' = disk /\ faults' = faults /\ path' = path /\ role' = role
      /\ early \subseteq early' /\ (bucket[Path(e)] # File => Path(e) \in early')
    OBVIOUS
<1>2. \A d \in Engine : Path(d)' = Path(d)
    BY <1>1 DEF Path
<1>3. \A d \in Engine : d # e => pc'[d] = pc[d] /\ listing'[d] = listing[d]
    BY <1>1 DEF TypeOK
<1>4. pc'[e] = "rsync" /\ listing'[e] = bucket[Path(e)]
    BY <1>1 DEF TypeOK
<1>5. ListingIsWhole'
    BY <1>1, <1>2, <1>3, <1>4 DEF SyncInv, ListingIsWhole
<1>6. \A m \in Model : Syncing(m) => Syncing(m)'
    BY <1>2, <1>3, <1>4 DEF Syncing
<1>7. PartialOnlyAfterFault'
    BY <1>1, <1>6 DEF SyncInv, PartialOnlyAfterFault
<1>. QED
    BY <1>5, <1>7 DEF SyncInv

LEMMA CopyStep ==
    ASSUME SyncInv, TypeOK, NEW e \in Engine, Copy(e)
    PROVE  SyncInv'
<1>. USE DEF Copy, bucketVars, engineVars
<1>1. \E f : disk' = [disk EXCEPT ![Path(e)] = @ \cup {f}]
    OBVIOUS
<1>2. UNCHANGED <<path, role, pc, listing, early, faults>> /\ pc[e] = "rsync"
    OBVIOUS
<1>3. \A d \in Engine : Path(d)' = Path(d)
    BY <1>2 DEF Path
<1>4. ListingIsWhole'
    BY <1>2, <1>3 DEF SyncInv, ListingIsWhole
<1>5. \A m \in Model : Syncing(m)' = Syncing(m) /\ (m = Path(e) => Syncing(m))
    BY <1>2, <1>3 DEF Syncing
<1>6. \A m \in Model : m # Path(e) => disk'[m] = disk[m]
    BY <1>1 DEF TypeOK
<1>7. PartialOnlyAfterFault'
    BY <1>2, <1>5, <1>6 DEF SyncInv, PartialOnlyAfterFault
<1>. QED
    BY <1>4, <1>7 DEF SyncInv

(* Whoever ends an rsync without a fault leaves the whole model, unless    *)
(* what it listed was not whole.                                           *)
LEMMA EndSyncStep ==
    ASSUME SyncInv, TypeOK, NEW e \in Engine, pc[e] = "rsync", NEW label \in {"tokenizer", "failed"},
           Goto(e, label), UNCHANGED <<path, role, disk, early, faults>>,
           \A d \in Engine : d # e => listing'[d] = listing[d],
           faults = 0 /\ Path(e) \notin early => disk[Path(e)] = File
    PROVE  SyncInv'
<1>1. pc' = [pc EXCEPT ![e] = label] /\ label # "rsync"
    BY DEF Goto
<1>2. \A d \in Engine : Path(d)' = Path(d)
    BY DEF Path
<1>3. \A d \in Engine : d # e => pc'[d] = pc[d]
    BY <1>1 DEF TypeOK
<1>4. pc'[e] # "rsync"
    BY <1>1 DEF TypeOK
<1>5. ListingIsWhole'
    BY <1>2, <1>3, <1>4 DEF SyncInv, ListingIsWhole
<1>6. \A m \in Model : m # Path(e) => Syncing(m)' = Syncing(m)
    BY <1>2, <1>3, <1>4 DEF Syncing
<1>7. PartialOnlyAfterFault'
    BY <1>6 DEF SyncInv, PartialOnlyAfterFault
<1>. QED
    BY <1>5, <1>7 DEF SyncInv

LEMMA NextSync ==
    ASSUME SyncInv, TypeOK, StoreAssumption, [Next]_vars
    PROVE  SyncInv'
<1>. USE DEF bucketVars, diskVars, engineVars
<1>1. faults \in Nat /\ pc \in [Engine -> Label]
    BY StoreAssumption DEF TypeOK, StoreAssumption, Label
<1>2. ASSUME faults' = faults + 1 PROVE SyncInv'
    <2>1. faults' # 0
        BY <1>1, <1>2
    <2>. QED
        BY <2>1 DEF SyncInv, ListingIsWhole, PartialOnlyAfterFault
<1>3. ASSUME NEW e \in Engine, NEW label \in Label \ {"rsync"}, pc[e] # "rsync", Goto(e, label),
             UNCHANGED <<path, role, diskVars, faults>>
      PROVE  SyncInv'
    <2>1. \A d \in Engine : (pc'[d] = "rsync") = (pc[d] = "rsync")
        BY <1>1, <1>3 DEF Goto
    <2>. QED
        BY <1>3, <2>1, NoSyncStep DEF Path
<1>4. ASSUME NEW e \in Engine,
             Construct(e) \/ ResolveHubId(e) \/ Resolve(e) \/ LoadTokenizer(e) \/ BeginLoad(e) \/ LoadRaises(e)
      PROVE  SyncInv'
    BY <1>3, <1>4 DEF Construct, ResolveHubId, Resolve, LoadTokenizer, BeginLoad, LoadRaises, Label
<1>5. ASSUME NEW e \in Engine, NEW w, pc[e] # "rsync", Equip(e, w)
      PROVE  SyncInv'
    <2>1. /\ UNCHANGED <<path, diskVars, faults>>
          /\ role' = role \/ role' = [role EXCEPT ![e] = "draft"]
          /\ pc' = [pc EXCEPT ![e] = "resolve"] \/ pc' = [pc EXCEPT ![e] = "ready"]
        BY <1>5 DEF Equip, Goto
    <2>2. \A d \in Engine : (pc'[d] = "rsync") = (pc[d] = "rsync")
        BY <1>1, <1>5, <2>1
    <2>3. \A d \in Engine : pc[d] = "rsync" => role'[d] = role[d]
        BY <1>5, <2>1 DEF TypeOK
    <2>. QED
        BY <2>1, <2>2, <2>3, NoSyncStep DEF Path
<1>6. ASSUME NEW e \in Engine, Reuse(e) \/ Load(e) PROVE SyncInv'
    BY <1>5, <1>6 DEF Reuse, Load
<1>7. ASSUME NEW e \in Engine, SyncReturns(e) PROVE SyncInv'
    <2>1. faults = 0 /\ Path(e) \notin early => disk[Path(e)] = File
        <3>1. pc[e] = "rsync" /\ listing[e] \subseteq disk[Path(e)]
            BY <1>7 DEF SyncReturns, Directory
        <3>2. Path(e) \in Model
            BY DEF TypeOK, Path
        <3>3. disk[Path(e)] \subseteq File
            BY <3>2 DEF TypeOK
        <3>. QED
            BY <3>1, <3>3 DEF SyncInv, ListingIsWhole
    <2>2. \A d \in Engine : d # e => listing'[d] = listing[d]
        BY <1>7 DEF SyncReturns, TypeOK
    <2>. QED
        BY <1>7, <2>1, <2>2, EndSyncStep DEF SyncReturns
<1>8. ASSUME NEW e \in Engine, NothingToSync(e) PROVE SyncInv'
    <2>1. faults = 0 => Path(e) \in early
        BY <1>8 DEF NothingToSync, SyncInv, ListingIsWhole, File
    <2>. QED
        BY <1>8, <2>1, EndSyncStep DEF NothingToSync
<1>9. ASSUME NEW p \in Process, Exit(p) PROVE SyncInv'
    <2>1. UNCHANGED <<path, disk, early, faults>>
        BY <1>9 DEF Exit, StartAfresh
    <2>2. \A d \in Engine : (pc'[d] = "rsync") = (pc[d] = "rsync")
        BY <1>1, <1>9 DEF Exit, StartAfresh
    <2>3. \A d \in Engine : pc[d] = "rsync" => role'[d] = role[d] /\ listing'[d] = listing[d]
        BY <1>9 DEF Exit, StartAfresh
    <2>. QED
        BY <2>1, <2>2, <2>3, NoSyncStep DEF Path
<1>10. ASSUME UploadFile \/ Uploaded PROVE SyncInv'
    <2>1. UNCHANGED <<path, role, pc, diskVars, faults>>
        BY <1>10 DEF UploadFile, Uploaded
    <2>. QED
        BY <2>1, NoSyncStep DEF Path
<1>11. CASE UNCHANGED vars
    BY <1>11, NoSyncStep DEF vars, Path
<1>. QED
    BY <1>2, <1>4, <1>6, <1>7, <1>8, <1>9, <1>10, <1>11, BeginSyncStep, CopyStep
    DEF Next, ConstructorStep, UploadRaises, SyncRaises, HubFails, Interrupt

(* A model's directory with a config.json and no rsync under way is whole, *)
(* until a sync was cut off or read a bucket that was still being filled:  *)
(* however many engines of however many processes sync it at once          *)
(* (sync_gcs_to_local, upload_local_to_gcs).                               *)
THEOREM PartialOnlyAfterFaultHolds == Spec => []PartialOnlyAfterFault
<1>1. Init => SyncInv
    BY DEF Init, SyncInv, ListingIsWhole, PartialOnlyAfterFault
<1>2. SyncInv /\ TypeOK /\ [Next]_vars => SyncInv'
    BY NextSync, StoreAssumption
<1>3. SyncInv => PartialOnlyAfterFault
    BY DEF SyncInv
<1>. QED
    BY <1>1, <1>2, <1>3, StoreTypeOK, PTL DEF Spec
-----------------------------------------------------------------------------
(* The tunnel.  What runs is what the object holds; and since processes    *)
(* are counted from one, an object that holds none has none running.       *)
TunnelInv ==
    /\ spawned \in Nat
    /\ alive \subseteq {held}
    /\ NoProcess \notin alive

LEMMA TunnelStep == TunnelInv /\ [TunnelNext]_tunnelVars => TunnelInv'
<1>. SUFFICES ASSUME TunnelInv, [TunnelNext]_tunnelVars PROVE TunnelInv'
    OBVIOUS
<1>1. ASSUME Start PROVE TunnelInv'
    <2>1. CASE held # NoProcess
        BY <1>1, <2>1 DEF Start, TunnelInv
    <2>2. CASE held = NoProcess
        <3>1. alive = {}
            BY <2>2 DEF TunnelInv
        <3>2. /\ spawned' = spawned + 1 /\ held' = spawned'
              /\ alive' = alive \cup {spawned'}
            BY <1>1, <2>2 DEF Start
        <3>3. spawned' \in Nat /\ spawned' # NoProcess
            BY <3>2 DEF TunnelInv, NoProcess
        <3>. QED
            BY <3>1, <3>2, <3>3 DEF TunnelInv
    <2>. QED
        BY <2>1, <2>2
<1>2. CASE CallStart
    BY <1>1, <1>2 DEF CallStart
<1>3. CASE CallStop
    BY <1>3 DEF CallStop, TunnelInv
<1>4. CASE WaitReturns
    BY <1>4 DEF WaitReturns, TunnelInv, IsAlive
<1>5. CASE WaitTimesOut
    BY <1>5 DEF WaitTimesOut, TunnelInv
<1>6. CASE CallEnsure
    BY <1>6 DEF CallEnsure, TunnelInv
<1>7. CASE EnsureTries
    BY <1>1, <1>7 DEF EnsureTries, TunnelInv
<1>8. CASE EnsureReturns
    BY <1>8 DEF EnsureReturns, TunnelInv
<1>9. CASE Dies
    BY <1>9 DEF Dies, TunnelInv
<1>10. CASE UNCHANGED tunnelVars
    BY <1>10 DEF tunnelVars, TunnelInv
<1>. QED
    BY <1>2, <1>3, <1>4, <1>5, <1>6, <1>7, <1>8, <1>9, <1>10 DEF TunnelNext

(* However calls, timeouts and deaths alternate, every running ssh process *)
(* is the one stop() can end (ssh_tunnel.py:37-75).                        *)
THEOREM OneTunnelHolds == TunnelSpec => []OneTunnel
<1>1. TunnelInit => TunnelInv
    BY DEF TunnelInit, TunnelInv
<1>2. TunnelInv => OneTunnel
    BY DEF TunnelInv, OneTunnel
<1>. QED
    BY <1>1, <1>2, TunnelStep, PTL DEF TunnelSpec

-----------------------------------------------------------------------------
(* The split of the chips, for every number of chips.                      *)

(* The draft gets a chip as soon as there are two, and never all of them. *)
LEMMA SplitCounts ==
    ASSUME NEW n \in Nat \ {0}
    PROVE  /\ DraftCount(n) \in 0..(n - 1)
           /\ n > 1 => DraftCount(n) >= 1
           /\ TargetCount(n) \in 1..n
<1>1. CASE n >= 8
    <2>1. n \div 8 \in 1..(n - 1)
        BY <1>1
    <2>2. DraftCount(n) = n \div 8
        BY <1>1, <2>1 DEF DraftCount, AtLeastOne
    <2>. QED
        BY <2>1, <2>2 DEF TargetCount
<1>2. CASE n < 8
    <2>1. n \in 1..7
        BY <1>2
    <2>2. \A i \in {3, 5, 6, 7} : AtLeastOne(i \div 4) = 1
        BY DEF AtLeastOne
    <2>3. DraftCount(n) = IF n = 1 THEN 0 ELSE 1
        BY <2>1, <2>2 DEF DraftCount
    <2>. QED
        BY <2>1, <2>3 DEF TargetCount
<1>. QED
    BY <1>1, <1>2

(* Under "auto" the two meshes share no chip and leave none idle; the      *)
(* target always has one and the draft as soon as there are two            *)
(* (_split_counts and the slices of jax.devices()).                        *)
THEOREM SplitIsPartition ==
    ASSUME NEW n \in Nat \ {0}
    PROVE  LET meshes == AllocateMeshes("auto", n)
           IN  /\ meshes.target \cap meshes.draft = {}
               /\ meshes.target \cup meshes.draft = 1..n
               /\ meshes.target # {}
               /\ n > 1 => meshes.draft # {}
<1>1. /\ DraftCount(n) \in 0..(n - 1)
      /\ n > 1 => DraftCount(n) >= 1
      /\ TargetCount(n) \in 1..n
      /\ TargetCount(n) + DraftCount(n) = n
    BY SplitCounts DEF TargetCount
<1>2. /\ AllocateMeshes("auto", n).target = 1..TargetCount(n)
      /\ AllocateMeshes("auto", n).draft = TargetCount(n) + 1..n
    BY <1>1 DEF AllocateMeshes
<1>3. 1 \in 1..TargetCount(n)
    BY <1>1
<1>4. n > 1 => n \in TargetCount(n) + 1..n
    BY <1>1
<1>5. 1..TargetCount(n) \cap (TargetCount(n) + 1..n) = {}
    BY <1>1
<1>6. 1..TargetCount(n) \cup (TargetCount(n) + 1..n) = 1..n
    BY <1>1
<1>. QED
    BY <1>2, <1>3, <1>4, <1>5, <1>6

(* A mesh's grid holds exactly its devices. *)
THEOREM GridHoldsDevices ==
    ASSUME NEW n \in Nat \ {0}
    PROVE  MeshShape(n)[1] * MeshShape(n)[2] = n
BY DEF MeshShape
=============================================================================
