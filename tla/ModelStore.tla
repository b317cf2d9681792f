------------------------------ MODULE ModelStore ------------------------------
(***************************************************************************)
(* From a model's path to weights on chips: scripts/download_models.py     *)
(* uploads models to the bucket, connect/gcs_storage.py copies a model     *)
(* from there to a directory of the VM, an adapter of jax_ssd/models loads *)
(* the directory, or reuses what the process already holds in _SHARED, and *)
(* LLMEngine.__init__ does so for the target and then for the draft.       *)
(*                                                                         *)
(* Two adapters differ in where they load from: GemmaAdapter reads the     *)
(* directory; Gemma4Adapter has the directory synced all the same, and     *)
(* then loads an EasyDeL checkpoint of the hub that it picks by the path's *)
(* name.                                                                   *)
(*                                                                         *)
(* Engines are constructed by threads (tui/app.py starts one per mode) of  *)
(* one or more processes.  The directory is on disk and outlives them, and *)
(* _SHARED dies with its process.  Paths come from the environment, so     *)
(* they are the same for every engine.                                     *)
(***************************************************************************)
EXTENDS MeshAllocator, Sequences
LOCAL INSTANCE Functions

CONSTANTS
    Engine, Process,
    ProcessOf,    \* the process of each engine
    Speculating,  \* the engines whose mode is not AR: they load a draft too
    Model,        \* paths: of the bucket,
    OnHub,        \* or ids of the hub
    Gemma4,       \* the paths _is_gemma4_path takes
    Name,         \* what _easydel_repo reads in their names
    Profiles,     \* bound: the pairs of paths that are configured
    Uploads,      \* bound: the sequences of models that are uploaded meanwhile
    NoWeights,
    Chips,        \* len(jax.devices())
    MaxFaults     \* bound: syncs that fail and processes that are interrupted

Role == {"target", "draft"}

(* The values of _GEMMA4_EASYDEL. *)
Checkpoint == {"E2B-it", "E4B-it", "E2B-it-assistant", "E4B-it-assistant"}
Unlisted == "unlisted"

(* _easydel_repo: the listed checkpoint of that name; else the path itself *)
(* if it is one of EasyDeL's, else the nearest.                            *)
EasydelRepo(m) ==
    IF Name[m].listed # Unlisted THEN Name[m].listed
    ELSE IF Name[m].easydel THEN m
    ELSE IF Name[m].e4b THEN "E4B-it"
    ELSE IF Name[m].assistant THEN "E2B-it-assistant"
    ELSE "E2B-it"

(* Where the weights of a path are read from. *)
Origin(m) == IF m \in Gemma4 THEN EasydelRepo(m) ELSE m

(* Who loaded the weights and as what decides the chips they are put on. *)
Weights == [model : Model, loader : Engine, as : Role]

ASSUME StoreAssumption ==
    /\ ProcessOf \in [Engine -> Process]
    /\ Speculating \subseteq Engine
    /\ OnHub \subseteq Model /\ Gemma4 \subseteq Model
    /\ Name \in [Gemma4 -> [listed : Checkpoint \cup {Unlisted}, easydel : BOOLEAN,
                          e4b : BOOLEAN, assistant : BOOLEAN]]
    /\ Profiles \subseteq [Role -> Model] /\ Uploads \subseteq Seq(Model)
    /\ Model \cap Checkpoint = {}
    /\ Chips \in Nat \ {0, 1}
    /\ MaxFaults \in Nat
    /\ NoWeights \notin Weights

File == {"config", "tokenizer", "weights"}

VARIABLES
    toUpload, \* the models download_models.py has yet to upload
    bucket,   \* the files of each model in the bucket
    path,     \* TARGET_MODEL_PATH and DRAFT_MODEL_PATH
    disk,     \* the files of each model's local directory
    listing,  \* the files each engine's rsync found in the bucket
    early,    \* history: the models an rsync listed before they were whole
    shared,   \* _SHARED of each process
    pc,       \* how far each engine's constructor is
    role,     \* the adapter it is constructing
    adapter,  \* the weights its adapters hold
    faults

bucketVars == <<toUpload, bucket>>
diskVars == <<disk, listing, early>>
engineVars == <<shared, role, adapter>>
vars == <<path, bucketVars, diskVars, engineVars, pc, faults>>

(* share_key when both paths are the same; else the path, and for Gemma 4  *)
(* the checkpoint.  Each family has a _SHARED of its own; their keys are   *)
(* not the same, so one map stands for both.                               *)
SharedKey == "shared"
Keys == Model \cup Checkpoint \cup {SharedKey}

(* Mutant: share_key without comparing the paths. *)
KeyOfPair(r) == SharedKey

Key(r) == IF path["target"] = path["draft"] THEN SharedKey ELSE Origin(path[r])

(* AR forces all_target; the other modes split the chips. *)
Mesh(e, r) == AllocateMeshes(IF e \in Speculating THEN "auto" ELSE "all_target", Chips)[r]

(* fsdp_shard_params puts the weights on the mesh of the adapter that loads. *)
(* (Gemma4Adapter passes on only how many devices it was given.)           *)
Placement(w) == Mesh(w.loader, w.as)

Path(e) == path[role[e]]
Directory(e) == disk[Path(e)]

NoAdapters == [r \in Role |-> NoWeights]

Goto(e, label) == pc' = [pc EXCEPT ![e] = label]
-----------------------------------------------------------------------------
(* upload_local_to_gcs: gcloud storage cp, file by file in any order. *)
UploadFile ==
    /\ toUpload # <<>>
    /\ \E f \in File \ bucket[Head(toUpload)] :
          bucket' = [bucket EXCEPT ![Head(toUpload)] = @ \cup {f}]
    /\ UNCHANGED <<toUpload, path, diskVars, engineVars, pc, faults>>

(* The next model of the pair. *)
Uploaded ==
    /\ toUpload # <<>>
    /\ bucket[Head(toUpload)] = File
    /\ toUpload' = Tail(toUpload)
    /\ UNCHANGED <<bucket, path, diskVars, engineVars, pc, faults>>

(* check=True: the script ends. *)
UploadRaises ==
    /\ toUpload # <<>>
    /\ faults < MaxFaults
    /\ faults' = faults + 1
    /\ toUpload' = <<>>
    /\ UNCHANGED <<bucket, path, diskVars, engineVars, pc>>
-----------------------------------------------------------------------------
(* LLMEngine.__init__ reaches its first load_model_adapter. *)
Construct(e) ==
    /\ pc[e] = "new"
    /\ Goto(e, "resolve")
    /\ UNCHANGED <<path, bucketVars, diskVars, engineVars, faults>>

(* A hub id is not a place on the VM: resolve_model_path raises, and       *)
(* _resolve_hf_or_local hands it on.                                       *)
ResolveHubId(e) ==
    /\ pc[e] = "resolve"
    /\ Path(e) \in OnHub
    /\ Goto(e, IF Path(e) \in Gemma4 THEN "tokenizer" ELSE "failed")
    /\ UNCHANGED <<path, bucketVars, diskVars, engineVars, faults>>

(* sync_gcs_to_local: config.json is taken for the whole model. *)
Resolve(e) ==
    /\ pc[e] = "resolve"
    /\ Path(e) \notin OnHub
    /\ "config" \in Directory(e)
    /\ Goto(e, "tokenizer")
    /\ UNCHANGED <<path, bucketVars, diskVars, engineVars, faults>>

(* gcloud storage rsync lists the bucket once, *)
BeginSync(e) ==
    /\ pc[e] = "resolve"
    /\ Path(e) \notin OnHub
    /\ "config" \notin Directory(e)
    /\ listing' = [listing EXCEPT ![e] = bucket[Path(e)]]
    /\ early' = IF bucket[Path(e)] = File THEN early ELSE early \cup {Path(e)}
    /\ Goto(e, "rsync")
    /\ UNCHANGED <<path, bucketVars, disk, engineVars, faults>>

(* and copies the files in any order, each one whole. *)
Copy(e) ==
    /\ pc[e] = "rsync"
    /\ \E f \in listing[e] \ Directory(e) :
          disk' = [disk EXCEPT ![Path(e)] = @ \cup {f}]
    /\ UNCHANGED <<path, bucketVars, listing, early, engineVars, pc, faults>>

(* Mutant: the sync is not waited for. *)
SyncInBackground(e) ==
    /\ pc[e] = "rsync"
    /\ "config" \in Directory(e)
    /\ listing' = [listing EXCEPT ![e] = {}]
    /\ Goto(e, "tokenizer")
    /\ UNCHANGED <<path, bucketVars, disk, early, engineVars, faults>>

SyncReturns(e) ==
    /\ pc[e] = "rsync"
    /\ listing[e] # {} /\ listing[e] \subseteq Directory(e)
    /\ listing' = [listing EXCEPT ![e] = {}]
    /\ Goto(e, "tokenizer")
    /\ UNCHANGED <<path, bucketVars, disk, early, engineVars, faults>>

(* check=True turns a failure of gcloud into an exception: it is cut off,  *)
SyncRaises(e) ==
    /\ pc[e] = "rsync"
    /\ faults < MaxFaults
    /\ faults' = faults + 1
    /\ listing' = [listing EXCEPT ![e] = {}]
    /\ Goto(e, "failed")
    /\ UNCHANGED <<path, bucketVars, disk, early, engineVars>>

(* or there is nothing under the path. *)
NothingToSync(e) ==
    /\ pc[e] = "rsync"
    /\ listing[e] = {}
    /\ Goto(e, "failed")
    /\ UNCHANGED <<path, bucketVars, diskVars, engineVars, faults>>
-----------------------------------------------------------------------------
(* The tokenizer comes before _SHARED is looked at: from the directory,    *)
(* for Gemma 4 from the hub.                                               *)
LoadTokenizer(e) ==
    /\ pc[e] = "tokenizer"
    /\ Goto(e, IF Path(e) \in Gemma4 \/ "tokenizer" \in Directory(e) THEN "shared" ELSE "failed")
    /\ UNCHANGED <<path, bucketVars, diskVars, engineVars, faults>>

(* Neither of the hub's two tokenizers, or none of the four ways to build  *)
(* the model, can be had (_load_gemma4_tokenizer, _load_easydel_model).    *)
HubFails(e) ==
    /\ pc[e] \in {"tokenizer", "load"}
    /\ Path(e) \in Gemma4
    /\ faults < MaxFaults
    /\ faults' = faults + 1
    /\ Goto(e, "failed")
    /\ UNCHANGED <<path, bucketVars, diskVars, engineVars>>

(* The adapter is complete; the constructor turns to the draft or ends. *)
Equip(e, w) ==
    /\ adapter' = [adapter EXCEPT ![e][role[e]] = w]
    /\ IF role[e] = "target" /\ e \in Speculating
       THEN role' = [role EXCEPT ![e] = "draft"] /\ Goto(e, "resolve")
       ELSE UNCHANGED role /\ Goto(e, "ready")
    /\ UNCHANGED <<path, bucketVars, diskVars, faults>>

Held(e) == shared[ProcessOf[e]][Key(role[e])]

(* if key in _SHARED *)
Reuse(e) ==
    /\ pc[e] = "shared"
    /\ Held(e) # NoWeights
    /\ Equip(e, Held(e))
    /\ UNCHANGED shared

(* The weights are loaded outside any lock: another thread may be here too. *)
BeginLoad(e) ==
    /\ pc[e] = "shared"
    /\ Held(e) = NoWeights
    /\ Goto(e, "load")
    /\ UNCHANGED <<path, bucketVars, diskVars, engineVars, faults>>

(* Mutant: what the weights were placed for is lost. *)
LoadedUnplaced(e) == [model |-> Path(e), loader |-> e]

Loaded(e) == [model |-> Path(e), loader |-> e, as |-> role[e]]

CanLoad(e) == Path(e) \in Gemma4 \/ Directory(e) = File

(* Mutant: what was loaded is not kept. *)
LoadPrivately(e) ==
    /\ pc[e] = "load"
    /\ CanLoad(e)
    /\ Equip(e, Loaded(e))
    /\ UNCHANGED shared

(* _SHARED[key] = (self.model, self.params), over whatever is there. *)
Load(e) ==
    /\ pc[e] = "load"
    /\ CanLoad(e)
    /\ Equip(e, Loaded(e))
    /\ shared' = [shared EXCEPT ![ProcessOf[e]][Key(role[e])] = Loaded(e)]

(* from_pretrained raises when a file is missing. *)
LoadRaises(e) ==
    /\ pc[e] = "load"
    /\ ~ CanLoad(e)
    /\ Goto(e, "failed")
    /\ UNCHANGED <<path, bucketVars, diskVars, engineVars, faults>>
-----------------------------------------------------------------------------
EnginesOf(p) == {e \in Engine : ProcessOf[e] = p}

(* The process goes and the next start of the command finds only the disk. *)
StartAfresh(p) ==
    /\ pc' = [e \in Engine |-> IF e \in EnginesOf(p) THEN "new" ELSE pc[e]]
    /\ role' = [e \in Engine |-> IF e \in EnginesOf(p) THEN "target" ELSE role[e]]
    /\ adapter' = [e \in Engine |-> IF e \in EnginesOf(p) THEN NoAdapters ELSE adapter[e]]
    /\ shared' = [shared EXCEPT ![p] = [k \in Keys |-> NoWeights]]
    /\ listing' = [e \in Engine |-> IF e \in EnginesOf(p) THEN {} ELSE listing[e]]
    /\ UNCHANGED <<path, bucketVars, disk, early>>

(* The command ends by itself once its constructors have ended. *)
Exit(p) ==
    /\ \A e \in EnginesOf(p) : pc[e] \in {"ready", "failed"}
    /\ StartAfresh(p)
    /\ UNCHANGED faults

(* Ctrl-C, or the VM's end: the process dies, and the rsync it runs with it. *)
Interrupt(p) ==
    /\ \E e \in EnginesOf(p) : pc[e] \notin {"new", "ready", "failed"}
    /\ faults < MaxFaults
    /\ faults' = faults + 1
    /\ StartAfresh(p)

ConstructorStep(e) ==
    \/ ResolveHubId(e) \/ Resolve(e) \/ BeginSync(e) \/ Copy(e) \/ SyncReturns(e)
    \/ NothingToSync(e) \/ LoadTokenizer(e) \/ Reuse(e) \/ BeginLoad(e) \/ Load(e) \/ LoadRaises(e)

(* One of the uploads may be under way, if the models are used here. *)
Init ==
    /\ path \in Profiles
    /\ toUpload \in {u \in Uploads : Range(u) \subseteq {path[r] : r \in Role} \ OnHub}
    /\ bucket = [m \in Model |-> IF m \in Range(toUpload) THEN {} ELSE File]
    /\ disk = [m \in Model |-> {}]
    /\ listing = [e \in Engine |-> {}]
    /\ early = {}
    /\ shared = [p \in Process |-> [k \in Keys |-> NoWeights]]
    /\ pc = [e \in Engine |-> "new"]
    /\ role = [e \in Engine |-> "target"]
    /\ adapter = [e \in Engine |-> NoAdapters]
    /\ faults = 0

Next ==
    \/ UploadFile \/ Uploaded \/ UploadRaises
    \/ \E e \in Engine :
          Construct(e) \/ ConstructorStep(e) \/ SyncRaises(e) \/ HubFails(e)
    \/ \E p \in Process : Exit(p) \/ Interrupt(p)

(* A constructor is a thread that nothing in it blocks. *)
Spec == Init /\ [][Next]_vars /\ \A e \in Engine : WF_vars(ConstructorStep(e))
-----------------------------------------------------------------------------
TypeOK ==
    /\ path \in [Role -> Model]
    /\ toUpload \in Seq(Model)
    /\ bucket \in [Model -> SUBSET File]
    /\ disk \in [Model -> SUBSET File]
    /\ listing \in [Engine -> SUBSET File]
    /\ early \subseteq Model
    /\ shared \in [Process -> [Keys -> Weights \cup {NoWeights}]]
    /\ pc \in [Engine -> {"new", "resolve", "rsync", "tokenizer", "shared", "load",
                          "ready", "failed"}]
    /\ role \in [Engine -> Role]
    /\ adapter \in [Engine -> [Role -> Weights \cup {NoWeights}]]
    /\ faults \in 0..MaxFaults

Syncing(m) == \E e \in Engine : pc[e] = "rsync" /\ Path(e) = m

(* config.json stands for the whole model (gcs_storage.py tests nothing    *)
(* else), which is sound once no sync is under way, until one was cut off  *)
(* or read a bucket that an upload was still filling.                      *)
PartialOnlyAfterFault ==
    \A m \in Model :
        faults = 0 /\ m \notin early /\ ~ Syncing(m) /\ "config" \in disk[m] => disk[m] = File

(* _SHARED is filled by racing threads and never emptied: still an adapter *)
(* holds weights of its own path's origin, and an engine that is alone in  *)
(* its process keeps target and draft on disjoint chips when their origins *)
(* differ; Gemma 4 is not told which chips are its own.                    *)
WeightsOfOwnPath ==
    \A e \in Engine, r \in Role : adapter[e][r] # NoWeights =>
        /\ Origin(adapter[e][r].model) = Origin(path[r])
        /\ /\ EnginesOf(ProcessOf[e]) = {e}
           /\ Origin(path["target"]) # Origin(path["draft"])
           /\ path[r] \notin Gemma4
           => Placement(adapter[e][r]) = Mesh(e, r)

(* With one origin for both models the draft reuses what a target loaded,  *)
(* whichever thread's load was stored last: share_key, or the checkpoint,  *)
(* saves the second copy.                                                  *)
OnePathLoadsOnce ==
    \A e \in Engine :
        Origin(path["target"]) = Origin(path["draft"]) /\ adapter[e]["draft"] # NoWeights
            => adapter[e]["draft"].as = "target"

(* A sync of a whole model that nothing disturbs brings the whole model. *)
UndisturbedSyncCompletes ==
    \A m \in Model \ OnHub : Syncing(m) ~> (disk[m] = File \/ faults > 0 \/ m \in early)

(* "Return local path, syncing from GCS if needed" (gcs_storage.py:71): the*)
(* local path that resolve_model_path returns holds the model, if an upload*)
(* did not still run when it was listed.                                   *)
ResolvedIsWhole ==
    \A e \in Engine : pc[e] = "tokenizer" /\ Path(e) \notin OnHub \cup early => Directory(e) = File
=============================================================================
