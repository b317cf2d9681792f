------------------------------- MODULE EnvFile -------------------------------
(***************************************************************************)
(* The .env files that configure everything else.  The operator's copy is  *)
(* edited by hand and by scripts/update_env_from_gcloud.py, and            *)
(* scripts/push_hf_token.py merges the profile it names                    *)
(* (connect/profiles.py) into the VM's copy.  Both scripts rewrite a file  *)
(* line by line; python-dotenv reads it, and of two lines for one key the  *)
(* last.                                                                   *)
(*                                                                         *)
(* A line sets a key in one of four forms: KEY=v, "KEY = v", export KEY=v, *)
(* and # KEY=v, which sets nothing.                                        *)
(***************************************************************************)
EXTENDS Integers, Sequences

CONSTANTS
    EnvKey,      \* the keys that some file or script names
    LocalFiles,  \* bound: the files an operator writes by hand,
    VmFiles,     \* and what may be on the VM before the first push
    Shell,       \* what the operator's shell exports
    HfTokens,    \* the values that start with hf_
    Host         \* bound: the VM's addresses

Form == {"plain", "spaced", "export", "comment"}

(* A value is the sequence of its parts: a path's are its places. *)
Unset == <<>>

VARIABLES
    localEnv, vmEnv,  \* the two files, sequences of lines
    pushed            \* history: push_hf_token has succeeded

envVars == <<localEnv, vmEnv, pushed>>

EnvLine == [key : EnvKey, value : Seq(STRING), form : Form]

Line(k, v) == [key |-> k, value |-> v, form |-> "plain"]

(* dict.update, and the dict display {**f, **g}. *)
Update(f, g) == [k \in DOMAIN f \cup DOMAIN g |-> IF k \in DOMAIN g THEN g[k] ELSE f[k]]

(* The value of the last line of key k in one of these forms. *)
LastOf(lines, k, forms) ==
    LET set == {i \in 1..Len(lines) : lines[i].key = k /\ lines[i].form \in forms}
    IN  IF set = {} THEN Unset
        ELSE lines[CHOOSE i \in set : \A j \in set : j <= i].value

(* load_dotenv, and the parser of update_env_from_gcloud.py, to which the  *)
(* key of an export line is another key.                                   *)
Dotenv(lines) == [k \in EnvKey |-> LastOf(lines, k, Form \ {"comment"})]
LoadEnv(lines, k) == LastOf(lines, k, {"plain", "spaced"})

OrDefault(v, default) == IF v = Unset THEN default ELSE v

(* What push_hf_token.py sees of the local file: it wins over the shell. *)
Setting(k) == OrDefault(Dotenv(localEnv)[k], Shell[k])

(* HF_TOKEN of the file or of the shell, else the other name for it. *)
HfToken == OrDefault(Setting("HF_TOKEN"), Setting("HUGGING_FACE_HUB_TOKEN"))
-----------------------------------------------------------------------------
(* write_env_key: every line of the key, else a new one at the end. *)
WriteEnvKey(lines, k, v) ==
    LET matches(l) == l.key = k /\ l.form \in {"plain", "spaced"}
        out == [i \in 1..Len(lines) |-> IF matches(lines[i]) THEN Line(k, v) ELSE lines[i]]
    IN  IF \E i \in 1..Len(lines) : matches(lines[i]) THEN out ELSE Append(out, Line(k, v))

(* The keys of env_updates in its order; the last seven are passed on when *)
(* they are set.                                                           *)
KeyOrder ==
    <<"HF_TOKEN", "MODEL_PROFILE", "JAX_PLATFORMS", "TARGET_MODEL_PATH", "DRAFT_MODEL_PATH",
      "GCP_PROJECT", "TPU_ZONE", "TPU_VM_NAME", "TPU_SLICE_CHIPS", "GCS_BUCKET",
      "GCS_MODEL_PREFIX", "SSD_SHARDING_BACKEND">>
Passed == {KeyOrder[i] : i \in 6..12}

(* A line for each of these keys, in the order of the data. *)
LinesOf(data, keys) ==
    LET new[i \in 0..Len(KeyOrder)] ==
            IF i = 0 THEN <<>>
            ELSE IF KeyOrder[i] \in keys
                 THEN Append(new[i - 1], Line(KeyOrder[i], data[KeyOrder[i]]))
                 ELSE new[i - 1]
    IN  new[Len(KeyOrder)]

Hit(line, data) == line.form = "plain" /\ line.key \in DOMAIN data
KeptLines(lines, data) ==
    [i \in 1..Len(lines) |->
        IF Hit(lines[i], data) THEN Line(lines[i].key, data[lines[i].key]) ELSE lines[i]]
NewKeys(lines, data) == {k \in DOMAIN data : \A i \in 1..Len(lines) : Hit(lines[i], data) => lines[i].key # k}

(* Mutant: new keys go first, as in the script the code builds and does not*)
(* run.                                                                    *)
MergedInFront(lines, data) == LinesOf(data, NewKeys(lines, data)) \o KeptLines(lines, data)

(* The script that push_hf_token.py runs on the VM: KEY=v lines are        *)
(* replaced where they stand, and what was not seen is appended.           *)
Merged(lines, data) == KeptLines(lines, data) \o LinesOf(data, NewKeys(lines, data))
-----------------------------------------------------------------------------
(* A script that sees a line which sets a key also sees the last that does.*)
(* Files written by hand meet it if they set no key twice; of two lines in *)
(* different forms a script may replace the one that counts for nothing.   *)
LastIsSeen(lines, forms) ==
    \A i, j \in 1..Len(lines) :
        /\ i < j /\ lines[i].key = lines[j].key
        /\ lines[i].form \in forms /\ lines[j].form # "comment"
        => lines[j].form \in forms
-----------------------------------------------------------------------------
Pair(target, draft) == [target |-> target, draft |-> draft]

PROFILES ==
    Update([p \in {"sd-pair-7b", "sd-pair-7b-dual8"} |-> Pair("gemma-7b-it", "gemma-2b-it")],
    Update([p \in {"sd-pair-2b", "sd-pair"} |-> Pair("gemma-2-2b-it", "gemma-2b-it")],
           [p \in {"sd-pair-gemma4-e2b"} |-> Pair("gemma-4-E2B-it", "gemma-4-E2B-it-assistant")]))

OfHub == {"sd-pair-gemma4-e2b"}

(* Where a profile's models are: the hub, else the bucket, else here. *)
Place(p, bucketUrl, prefix) ==
    IF p \in OfHub THEN <<"google">>
    ELSE IF bucketUrl # Unset THEN bucketUrl \o prefix
    ELSE <<"./models">>

PathsOf(p, place) ==
    [TARGET_MODEL_PATH |-> Append(place, PROFILES[p].target),
     DRAFT_MODEL_PATH  |-> Append(place, PROFILES[p].draft)]

(* Mutant: without a bucket only the target's path is given. *)
TargetDefault(p, bucketUrl, prefix) ==
    LET paths == PathsOf(p, Place(p, bucketUrl, prefix))
    IN  Update([MODEL_PROFILE |-> <<p>>],
               IF p \notin OfHub /\ bucketUrl = Unset
               THEN [TARGET_MODEL_PATH |-> paths.TARGET_MODEL_PATH] ELSE paths)

ProfileEnvDefaults(p, bucketUrl, prefix) ==
    Update([MODEL_PROFILE |-> <<p>>], PathsOf(p, Place(p, bucketUrl, prefix)))

EnvUpdates(p) ==
    Update(Update([HF_TOKEN |-> HfToken, MODEL_PROFILE |-> <<p>>,
                   JAX_PLATFORMS |-> OrDefault(Setting("JAX_PLATFORMS"), <<"tpu">>)],
                  ProfileEnvDefaults(p, Setting("GCS_BUCKET"),
                                     OrDefault(Setting("GCS_MODEL_PREFIX"), <<"models">>))),
           [k \in {q \in Passed : Setting(q) # Unset} |-> Setting(k)])

(* get_profile; an unknown name raises. *)
ProfileName == OrDefault(Setting("MODEL_PROFILE"), <<"sd-pair-7b">>)
Known(name) == \E p \in DOMAIN PROFILES : name = <<p>>
-----------------------------------------------------------------------------
EditByHand ==
    /\ localEnv' \in LocalFiles
    /\ UNCHANGED <<vmEnv, pushed>>

(* update_env_from_gcloud.py; --vm is optional. *)
UpdateEnv(host, vm) ==
    LET addressed == WriteEnvKey(localEnv, "TPU_SSH_HOST", host)
    IN  /\ LoadEnv(localEnv, "GCP_PROJECT") # Unset /\ LoadEnv(localEnv, "TPU_ZONE") # Unset
        /\ localEnv' = WriteEnvKey(WriteEnvKey(addressed, "TPU_SSH_USER", <<"user">>), "TPU_VM_NAME", vm)
        /\ UNCHANGED <<vmEnv, pushed>>

UpdateAny ==
    \E host \in Host, arg \in {Unset, <<"vm-2">>} :
        UpdateEnv(host, OrDefault(arg, OrDefault(LoadEnv(localEnv, "TPU_VM_NAME"), <<"ssd-tpu-v6e-vm">>)))

(* push_hf_token.py. *)
Push ==
    /\ HfToken \in HfTokens
    /\ Known(ProfileName)
    /\ vmEnv' = Merged(vmEnv, EnvUpdates(ProfileName[1]))
    /\ pushed' = TRUE
    /\ UNCHANGED localEnv

(* The words the code puts into values; that literals are strings is known *)
(* to TLC, and has to be said to the prover.                               *)
Words ==
    DOMAIN PROFILES
        \cup {PROFILES[p].target : p \in DOMAIN PROFILES} \cup {PROFILES[p].draft : p \in DOMAIN PROFILES}
        \cup {"google", "./models", "models", "tpu", "user", "vm-2", "ssd-tpu-v6e-vm"}

ASSUME EnvAssumption ==
    /\ {KeyOrder[i] : i \in 1..Len(KeyOrder)} 
          \cup {"TPU_SSH_HOST", "TPU_SSH_USER", "HUGGING_FACE_HUB_TOKEN"} \subseteq EnvKey
    /\ LocalFiles \cup VmFiles \subseteq Seq(EnvLine)
    /\ \A lines \in LocalFiles : LastIsSeen(lines, {"plain", "spaced"})
    /\ \A lines \in VmFiles : LastIsSeen(lines, {"plain"})
    /\ Shell \in [EnvKey -> Seq(STRING)]
    /\ Host \subseteq Seq(STRING)
    /\ HfTokens \subseteq Seq(STRING) /\ Unset \notin HfTokens
    /\ Words \subseteq STRING

EnvInit == localEnv \in LocalFiles /\ vmEnv \in VmFiles /\ pushed = FALSE

EnvNext == EditByHand \/ UpdateAny \/ Push

EnvSpec == EnvInit /\ [][EnvNext]_envVars
-----------------------------------------------------------------------------
Overridden(env, data) == [k \in EnvKey |-> IF k \in DOMAIN data THEN data[k] ELSE env[k]]

(* A file of lines is used as a map of keys: whatever the forms of its     *)
(* lines, python-dotenv reads from the VM's file what was pushed and, for  *)
(* every other key, what it read before; and from the operator's file the  *)
(* VM that update_env_from_gcloud.py was told, whose new line may have to  *)
(* win over an export line it does not see.                                *)
EnvFilesAreMaps ==
    [][/\ Push => Dotenv(vmEnv') = Overridden(Dotenv(vmEnv), EnvUpdates(ProfileName[1]))
       /\ \A host \in Host, vm \in {<<"vm-2">>} :
            UpdateEnv(host, vm) =>
                Dotenv(localEnv') = Overridden(Dotenv(localEnv),
                    [k \in {"TPU_SSH_HOST", "TPU_SSH_USER", "TPU_VM_NAME"} |->
                        IF k = "TPU_VM_NAME" THEN vm ELSE IF k = "TPU_SSH_HOST" THEN host ELSE <<"user">>])]_envVars

(* Pushes of different profiles over a hand-written file never leave the   *)
(* VM with a target of one profile and a draft of another, nor with one    *)
(* from the hub and one from the bucket: EasyDeL and the bucket's loader   *)
(* do not mix in an engine.                                                *)
VmProfileIsWhole ==
    pushed => \E p \in DOMAIN PROFILES :
        LET env == Dotenv(vmEnv)
            target == env["TARGET_MODEL_PATH"]
        IN  /\ env["MODEL_PROFILE"] = <<p>>
            /\ target # Unset
            /\ LET place == SubSeq(target, 1, Len(target) - 1)
               IN  /\ \A k \in {"TARGET_MODEL_PATH", "DRAFT_MODEL_PATH"} : env[k] = PathsOf(p, place)[k]
                   /\ p \in OfHub <=> place = <<"google">>
=============================================================================
