---------------------------- MODULE MCModelStore ----------------------------
(***************************************************************************)
(* How a model gets to the VM, and the user to it: in each behaviour the   *)
(* model store, the ssh tunnel, or the files that configure the two.       *)
(*                                                                         *)
(* An AR and a speculating engine share a process, as two panels of the    *)
(* terminal UI do; a second process has a speculating engine alone.  Two   *)
(* models of the bucket, perhaps still being uploaded; one of them for     *)
(* both roles; a Gemma 4 pair of the hub; one checkpoint by two names.     *)
(***************************************************************************)
EXTENDS ModelStore, SSHTunnel, EnvFile

VARIABLE subject

MCProcessOf == [e \in Engine |-> IF e = "solo" THEN "other" ELSE "tui"]

MCName ==
    [m \in Gemma4 |->
        [listed    |-> IF m = "e2b-hub" THEN "E2B-it" ELSE Unlisted,
         easydel   |-> m = "EasyDeL-hub",
         e4b       |-> FALSE,
         assistant |-> m \in {"assistant", "EasyDeL-hub"}]]

MCProfiles ==
    {[target |-> t, draft |-> d] : <<t, d>> \in
        {<<"7b", "2b">>, <<"2b", "2b">>, <<"e2b-hub", "assistant">>, <<"e2b-bucket", "e2b-hub">>,
         <<"e2b-hub", "EasyDeL-hub">>}}

MCUploads == {<<>>, <<"7b">>}

(* Files by hand: each names a key at most once in a form that sets it. *)
MCEnvKey ==
    {KeyOrder[i] : i \in 1..Len(KeyOrder)}
        \cup {"TPU_SSH_HOST", "TPU_SSH_USER", "HUGGING_FACE_HUB_TOKEN"}

Written(k, v, f) == [key |-> k, value |-> <<v>>, form |-> f]

(* What the operator pasted is not a token. *)
MCUnfilled == <<Written("HF_TOKEN", "your-token", "plain"), Written("GCS_BUCKET", "gs://new", "plain")>>

MCLocalFiles ==
    LET vm == <<Written("HF_TOKEN", "hf_new", "plain"), Written("GCP_PROJECT", "project", "plain"),
                Written("TPU_ZONE", "zone", "spaced"), Written("TPU_VM_NAME", "vm-1", "export")>>
    IN  {vm,
         Append(vm, Written("GCS_BUCKET", "gs://new", "plain")),
         vm \o <<Written("MODEL_PROFILE", "sd-pair-2b", "export"), Written("GCS_MODEL_PREFIX", "jax", "plain")>>,
         Append(vm, Written("MODEL_PROFILE", "sd-pair-gemma4-e2b", "spaced")),
         Append(vm, Written("MODEL_PROFILE", "sd-pair-13b", "plain")),
         MCUnfilled,
         <<Written("HF_TOKEN", "hf_new", "comment"), Written("GCS_BUCKET", "gs://new", "plain")>>}

MCVmFiles ==
    {<<>>,
     <<Written("HF_TOKEN", "hf_old", "export"), Written("MODEL_PROFILE", "sd-pair", "comment"),
       Written("DRAFT_MODEL_PATH", "mine", "spaced"), Written("GCS_BUCKET", "gs://old", "plain"),
       Written("TPU_SSH_HOST", "host-0", "plain")>>}

MCShell ==
    [k \in MCEnvKey |->
        CASE k = "JAX_PLATFORMS"          -> <<"cpu">>
          [] k = "HUGGING_FACE_HUB_TOKEN" -> <<"hf_shell">>
          [] OTHER                        -> <<>>]

MCHfTokens == {<<"hf_new">>, <<"hf_old">>, <<"hf_shell">>}

MCHost == {<<"host-1">>, <<"host-2">>}

DeliveryInit ==
    /\ subject \in {"store", "tunnel", "env"}
    /\ Init /\ TunnelInit /\ EnvInit
    /\ subject # "store" => path = [target |-> "7b", draft |-> "2b"] /\ toUpload = <<>>
    /\ subject # "env" => localEnv = MCUnfilled /\ vmEnv = <<>>

DeliveryNext ==
    \/ subject = "store" /\ Next /\ UNCHANGED <<tunnelVars, envVars, subject>>
    \/ subject = "tunnel" /\ TunnelNext /\ UNCHANGED <<vars, envVars, subject>>
    \/ subject = "env" /\ EnvNext /\ UNCHANGED <<vars, tunnelVars, subject>>

deliveryVars == <<vars, tunnelVars, envVars, subject>>

DeliverySpec ==
    /\ DeliveryInit /\ [][DeliveryNext]_deliveryVars
    /\ \A e \in Engine : WF_deliveryVars(subject = "store" /\ ConstructorStep(e) /\ UNCHANGED <<tunnelVars, envVars, subject>>)
=============================================================================
