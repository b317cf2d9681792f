# SSD on TPU: specifications and proofs

TLA+ models of the speculative decoding runtime in this repository (`jax_ssd/`, `connect/`), the TLC
configurations that check them on small instances, and TLAPS proofs of the properties that
matter most. `PROJECT.json` lists the runs, the theorems, the code lines every definition
models, the mutants that show each property can fail, the hazards and the findings.

## 1. Inventory

| Component | State | Operations | Interacts with |
|---|---|---|---|
| Configuration (`jax_ssd/config.py`) | none that changes | `mq_len` | everything |
| Greedy verification (`algorithm/verify.py`, oracle `reference/cuda_ssd/verify_torch.py`) | none (pure) | `verify_greedy`, `verify_sample` | called by the engine |
| Speculation cache (`algorithm/spec_cache.py`) | keys, tokens, valid bits | `create`, `reset`, `lookup`, `insert` | owned by the worker's thread |
| Draft worker (`runtime/workers.py`) | `_running`, `_context_tokens`, two queues, the cache | `start`, `stop`, `submit`, `get_response`, `set_context`; thread: `_loop`, `_handle`, `_rebuild_cache` | engine's thread, through the queues, the flag and the context |
| Engine (`runtime/engine.py`) | the sequence being decoded, `recovery`, the last answer, metrics | `generate` (AR, SD, SSD, Instance-SSD), `generate_stream`, `shutdown` | adapters, worker, scheduler |
| Adapters (`models/*.py`) | Gemma: `_past_key_values`; toy: none | `prefill`, `decode`, `verify`, `commit_tokens`, `draft_speculate` | called by engine and worker |
| Scheduler, page manager, sequence (`runtime/`) | waiting, running, finished; free list, reference counts, page tables | `add_request`, `schedule`, `postprocess*`; `allocate*`, `rollback_speculative`, `free_sequence` | `generate` calls `add_request` and `schedule` |
| Priors (`algorithm/branch_prior.py`, `instance_prior.py`) | none (pure) | top-F candidates, branch expansion, best span, mixing | worker |
| Kernels (`kernels/`) | page arrays | slot mapping, buckets, masks, attention | adapters |
| Device split (`connect/mesh_allocator.py`) | none (pure) | `allocate_meshes` | called by the engine's constructor |
| Model cache and weights (`connect/gcs_storage.py`, `scripts/download_models.py`, `models/model_loader.py`, `gemma_adapter.py`, `gemma4_adapter.py`) | the bucket; the local directories on disk; `_SHARED`, one per process and family | `upload_local_to_gcs`, `resolve_model_path`, `sync_gcs_to_local`, the adapters' constructors | engines' constructors, the UI's threads, `gcloud` |
| Tunnel and diagnostics (`connect/ssh_tunnel.py`, `diagnostics.py`) | the ssh process | `start`, `stop`, `ensure_connected` | operator |
| Profiles and `.env` files (`connect/profiles.py`, `scripts/push_hf_token.py`, `update_env_from_gcloud.py`) | the operator's `.env` and the VM's | merge a profile into the VM's file, rewrite keys of the operator's | every process reads them when it starts |
| UI, facade, benchmarks, other scripts | display | one thread and one engine per mode | engine |

### What is hard

* **Two threads, two queues, positional answers.** `get_response` times out after 30 seconds
  and leaves the request with the worker; the answer arrives for whoever asks next.
* **The worker can die or be stopped** at any point of a request; the engine only notices
  through timeouts.
* **The prompt's context is shared without a lock** and read three times for every row that is
  drafted from it: for the truth test, for the salience and for the spans. The engine may set the
  next prompt between any two of them.
* **Speculation must be invisible**: whatever was drafted, cached, late or stale, the tokens
  must be those of plain greedy decoding. The verification arithmetic (K+1 positions, a
  recovery index that depends on a cumulative product) and the adapters' hidden caches are
  where that can go wrong.
* **Models come from a directory on disk** that threads and processes fill and read without a
  lock, from a bucket that another machine may still be filling, and that outlives a copy cut
  short; within a process they share `_SHARED`, also unlocked.
* **Calls end in the middle**: an `on_token` callback or a model that raises leaves an engine, a
  worker or an adapter's cache between two steps, and nothing puts it back.
* **The tunnel's process lives its own life**: it dies, or outlives the wait of `stop`.
* **Configuration is rewritten line by line** by scripts that parse lines differently from
  each other and from the reader: two in Python, which are modelled, and four for a shell
  (`push_hf_token.ps1`, `update_env.ps1`, `provision_tpu.sh`, `setup_gcs.sh`), which are not.
* **Pages** are taken from one pool in two stages (target, then draft) with a partial failure
  in between, given back in two places, and counted by hand; `generate` takes them, gives
  none back, and goes on appending tokens to a sequence that was refused and waits, so what that
  sequence asks for grows.

What makes each part correct: verification accepts exactly the target's own prefix; the
worker is a first-in first-out server and its cache is transparent; a draft continues the
prefix it was asked for, whatever the adapter's cache holds; the engine implements
greedy decoding, ends, and pairs answers with requests; adapters get the weights of their own
path's origin, whole and on their own chips; the page manager never loses or
shares a page, rollback keeps the pages of tokens, and admission is in order and not stuck; one ssh
process at most holds the tunnel's port; an `.env` file reads as a map.

## 2. Modules

| Module | Models | Notes |
|---|---|---|
| `SSDConfig` | `config.py` | tokens are vocabulary indices, because the worker's candidates are |
| `VerifyGreedy` | `verify_greedy`, one row | pure operators |
| `VerifyTorch` | `verify_greedy_torch` | the reference loop, one action per branch of its body |
| `SpecCache` | `spec_cache.py` | a row with a clear valid bit is `NoEntry`; logits (always zero) left out |
| `DraftService` | (abstract) what the worker promises | a FIFO server |
| `DraftWorker` | `workers.py` | the thread, and the client's calls as operators |
| `GreedyDecode` | (abstract) what decoding promises | a target automaton's greedy run |
| `LLMEngine` | `engine.py`, adapters, metrics | extends `DraftWorker` and `VerifyGreedy`: the composed system |
| `DraftAdapter` | `draft_speculate` of `gemma_adapter.py` and `toy_model.py` | a step per pass of the model, any of which may raise |
| `Priors` | `branch_prior.py`, `instance_prior.py` | pure operators |
| `Kernels` | `kv_cache.py`, `buckets.py`, `masks.py` | pure operators; a mask is the set of its zeros |
| `PagedScheduler` | `scheduler.py`, `page_manager.py` | page tables and free list as sequences of page numbers; takes the pages' number and size from `Kernels` |
| `MeshAllocator` | `mesh_allocator.py` | chips are numbers in the order of `jax.devices()` |
| `ModelStore` | `gcs_storage.py`, `download_models.py`'s upload, both Gemma adapters' constructors, `LLMEngine.__init__` | extends `MeshAllocator`; a directory is a set of three kinds of file |
| `SSHTunnel` | `ssh_tunnel.py` | the object and the processes it started |
| `EnvFile` | `push_hf_token.py`, `update_env_from_gcloud.py`, `profiles.py` | a file is a sequence of lines in four forms; a value is the sequence of its parts |
| `VerifySample` | `_verify_sample_row` | a softmax row is a distribution of `Mass` equal parts |
| `MC*` | | values for TLC, and the arbitrary client of the worker; where one run checks modules that share nothing, a variable `subject` says which of them a behaviour is of |
| `CommonLemmas` | | least numbers, induction over `0..n`, functions defined by a recurrence, sums of the fan-out list, the closed form of verification |
| `VerifyProofs` | | proofs about the reference loop, Gemma's drafts, spans and mixing |
| `WorkerProofs` | | proofs about the worker under any client |
| `LLMEngineProofs`, `DecodingProofs` | | proofs about the engine and its worker, and about what a call returns |
| `ModelStoreProofs` | | proofs about the split, directories, weights and the tunnel |
| `PagedProofs` | | proofs about slots and masks, pages' owners and admission |
| `EnvProofs` | | proofs about the `.env` files |

Operators marked *Mutant* are used by no specification. Each is a plausible bug in the
definition that follows it, and the property named with it in `PROJECT.json` must find it.

**Grain of the steps.** The worker's thread takes a step wherever it touches what the other
thread can see: `_running` (`LoopTop`), the request queue (`PollEmpty`, `TakeRequest`),
`_context_tokens`, the response queue (`Respond`). A row copied from the prompt takes three steps,
one for each read of `_context_tokens`: `TestContext`, `ScoreContext`, and the step that makes the
draft (`HandleRequest` on a miss, `InsertBranch` in the rebuild). The span may therefore be of one
prompt and the salience that ranks it of another: it is `SpanDraft[scored][copied]`. The cache belongs to the thread alone. The engine's thread
takes a step per model call, per emitted token and per queue operation. `DraftRaises` lets
the draft model raise during a request, which ends the thread (`ModelRaises`);
`CallbackRaises` lets `on_token` raise on any token, which ends the call of `generate`
(`EmitRaises`) with that token in the sequence, the rest of the iteration lost, and nothing
committed, recorded or submitted. The engine may be called again.

**The target model** is an automaton: `Ctx`, `Advance[c][t]`, `Argmax[c]`. `ctx` is the
context of the sequence itself, `kv` the context the adapter's private cache stands for. With
`Stateful` (Gemma) `prefill`, `decode` and `commit_tokens` move `kv` and `verify` reads it;
without (toy) the logits depend on the last token only (`LastTokenOnly`, an assumption that
TLC evaluates). The draft model is a function of the one token the worker passes it; SD's
draft is arbitrary. A span is any function of the prompt it
was scored for and the prompt it was copied from. So the engine's
properties hold for every draft; which drafts the adapters and the priors really make is
`DraftAdapter`'s and `Priors`' question.

**The model store.** Each engine is a constructor (`pc`, `role`: first the target's adapter, then
the draft's unless the mode is AR; both are loaded by one process, the role "both"). A path is of the
bucket or an id of the hub; `Gemma4Adapter` syncs a bucket path like the other adapter and then
loads a checkpoint of the hub that `EasydelRepo` picks by the path's name, so what a path's weights
are is its `Origin`. `UploadFile` puts a model into the bucket file by file, and `listing` is what
an `rsync` saw there when it began; `early` remembers the models that were listed too soon. Its steps are
the places where it touches what others touch: the test for `config.json` (`Resolve`), the files
`gcloud` writes one by one (`Copy`), the end of the command (`SyncReturns`, or `SyncRaises`, since
`check=True`), the tokenizer's file, the test of `_SHARED` (`Reuse`, `BeginLoad`) and the store
into it (`Load`, or `LoadRaises` when a file is missing). `Exit` and `Interrupt` end a process and
start its command again: `_SHARED` is gone, the directories stay. `Weights` record who loaded
them and as what, which decides the chips (`Placement`).

**The tunnel.** `start`, `stop` and `ensure_connected` of one caller; `Dies` may happen to any
process at any moment, and `stop`'s wait may end before the process does (`WaitTimesOut`), which
raises with `_process` still set. `Start` may fail in `ensure_connected` with an `OSError`.

**The `.env` files.** `Push` refuses what is not a token, after looking under both of the token's
names (`HfToken`, `HfTokens`). Lines are plain (`KEY=v`), spaced, `export` or comments. python-dotenv takes
the last line of a key in any of the first three; `load_env` does not see `export` lines, and the
script that a push runs on the VM replaces plain lines only and appends what it did not find.
Of two lines that set one key python-dotenv takes the last, and a script may see only the first
(a plain `HF_TOKEN=` line followed by an `export HF_TOKEN=` one): then it rewrites the line that
does not count, and nothing in the code prevents it. Files written by hand are therefore assumed to be such that a
script which sees a line of a key also sees the last line that sets it (`LastIsSeen`); a file that
sets no key twice meets it.

**History variables** (never read by an action's guard or by another variable): `for` in an
answer, `firstId`, `shown`, the `loader` and `as` of weights, `early`, `pushed`. `abandoned` counts timeouts and also bounds them.

**The engine and the pages.** `generate` calls `schedule` and ignores its result, and
nothing it decodes depends on the pages; so `LLMEngine` keeps only `_next_id` of the scheduler,
and `PagedScheduler` has two drivers. "generate" adds a prompt, calls `schedule`, appends tokens to
that sequence whether or not it was admitted (`GenerateAppends`, a round of the decoding loop, which
a callback may make the last), and does all that again; it never postprocesses. The postprocess methods have no caller in the repository: the
driver "steps" calls them as their parameters invite, `postprocess` in AR,
`postprocess_speculative` in the other modes, on running sequences. `schedule`'s loop is one step per iteration; nothing interleaves with it. The page table that the
engine hands to the models is zeros (`engine.py:190`, `:222`, `:266`), and the slots that
`kv_cache.py` computes are dropped; so no property puts the scheduler's tables and the kernels'
slots together.

## 3. Runs

| Run | Question | Bounds |
|---|---|---|
| `draft_side` | does the closed form equal the loop, for every input? what do adapters and priors draft? is the worker a FIFO server with a transparent cache, under any client? | K = 3, three tokens: all 3^4 x 3^3 inputs, every accepted length; prefixes and prompts of up to four tokens, five draft contexts, passes that raise, any other calls between drafts; the worker with two sequences, one prompt, two levels in the fan-out list, at most two requests and answers outstanding, five requests of all three commands |
| `engine_toy` | is decoding lossless, does it end, are answers and statistics right? | K = 2, three tokens, two calls of two prompts, limits 1 and 4, up to two answers late, all modes and roles, a worker that may die, a callback that may raise, shutdown |
| `engine_cached` | what remains true with a KV cache? | K = 2, five contexts that every token moves, two calls, limits 0 and 4 |
| `paged_scheduler` | are pages and requests accounted for, and is everyone admitted? | eight pages of two tokens, three requests of length 1 or 3, two may run; AR and SSD; both drivers, `generate` appending up to three tokens a sequence |
| `model_store` | do racing constructors get whole models, their own, loaded once? does the tunnel keep one process? do `.env` files stay maps? | eight chips; an AR and a speculating engine in one process, a speculating one in another; five pairs of paths (different, equal, two of the hub, one checkpoint by two names, an `EasyDeL/` id), an upload or none, one fault; three ssh processes; seven files by hand, one with no token in it and one that leaves it to the shell, two on the VM, four profiles and an unknown one |
| `kv_commit`, `length`, `overlap`, `rollback` | findings, see below | one or three prompts |
| `partial_sync`, `reconnect` | findings 5 and 6 | as `model_store` |
| `sample_row` | finding 7 | K = 2, two tokens, rows that are certain or even |

The bounds are chosen so that the cases of interest happen: drafts are right for one token
and then wrong, so acceptance is partial, full and empty; the fan-out list is shorter than
K + 1, so the table has a level that is never rebuilt; limits are such that the last
iteration overshoots; with eight pages two speculative requests do not fit, so the second
waits with its target pages and without its draft pages; in the model store two threads of one
process race for `_SHARED`, two processes for the directories, a fault can hit any copy, and a copy
can start between any two files of an upload; the third ssh process is one more than a process
that died and its successor; the VM's file by hand has a line of each form.
`CHECK_DEADLOCK FALSE` is there because those systems may stop: the bounds on calls and requests
run out and the loops end. The model store never stops (commands are started again), and its run
checks deadlock.

What a reader should know of the properties:

* `NextTokenIsGreedy`, `LosslessDecoding`: each appended token is the target's choice after
  everything before it; the second is the refinement of `GreedyDecode`.
* `AnswersOwnRequest`, `OutstandingIsAbandoned`: as long as no call gave up, the answer in
  hand is for the outcome submitted; afterwards answers are off by exactly the abandoned
  requests. That stale drafts are harmless to the output is `NextTokenIsGreedy`.
* `CacheIsTransparent`, `CacheIsOneRoundsMap`: a hit returns what a miss would have drafted,
  and the table holds one sequence's branches, each key once, with no row lost.
* `AnswersInOrder`: refinement of `DraftService`, whatever stop or a failure does.
* `CallsEnd`, `WorkerEnds`, `EveryRequestServed`: progress of both threads.
* `PagesHaveOneOwner`: a page is in the free list or in one table, once, and counted so.
* `OnlyHeadHoldsPages`, `EveryRequestAdmitted`: hold and wait exists, but only for the head of
  the queue, and so cannot block for ever a request that fits.
* `RollbackKeepsTokens`: the reverse of finding 4. A sequence that had pages for its tokens and those
  just accepted has them after rollback, though rollback runs after they were appended.
* `GenerateAdmitsNowOrNever`: `generate` gives nothing back, so a prompt that its own `schedule`
  does not admit is never admitted, nor any after it, though all are decoded and the tokens appended
  meanwhile change what each later `schedule` asks for.
* `DraftFromOwnPrompt`: in Instance-SSD a draft that the engine verifies for a sequence was scored
  and copied from that sequence's prompt, though `set_context` may come between the worker's reads.
* `DraftContinuesPrefix`: whatever other calls and passes that raised left in Gemma's cache, a
  draft is the greedy continuation of the prefix, without its first token, and the cache is put
  back. (That the first token is missing is what `gemma_adapter.py:166-173` does; the toy drafts it.)
* `SpanCopiesPrompt`, `MixKeepsBestCandidate`, `RebuildFollowsFanOut`: a span is a stretch of the
  prompt and none has more identifiers; mixing keeps a row's length and, with a fan-out above one,
  its best candidate; the worker fills the table in the order in which `branch_prior.py`, which
  it does not call, numbers the branches.
* `PartialOnlyAfterFault`, `UndisturbedSyncCompletes`: what taking `config.json` for the whole
  model rests on: no copy is under way, none was cut short, none read a bucket too soon.
* `OneTunnel`: every running ssh process is the one the object can stop.
* `EnvFilesAreMaps`, `VmProfileIsWhole`: each rewriting of a file overrides exactly the keys it is
  given, for the reader, whatever the forms of the lines; and the VM never has the target of one
  profile and the draft of another.
* `WeightsOfOwnPath`, `OnePathLoadsOnce`: the key of `_SHARED` names the origin and not the chips, so
  an adapter has weights of its own path's origin always, and on its own chips when its engine is
  alone in the process, the origins differ and the path is not a Gemma 4's (which is told only how
  many chips it has); with one origin no draft is loaded a second time.

**Fairness.** `DraftWorker`: weak fairness of the thread's step (the interpreter schedules a
runnable thread; `get(timeout=0.1)` returns); a model that raises is never obliged to.
`LLMEngine`: weak fairness of each thread; a caller is never obliged to call `generate` or
`shutdown`. `get_response` returns because either an answer arrives or its timeout fires;
how often a *live* worker is late is bounded by `MaxLate`, a dead one is always late.
`ModelStore`: weak fairness of each constructor, a thread in which nothing waits for another; a
copy is never obliged to fail, nor an upload to go on, nor a command to be ended or started. The
tunnel and the `.env` files have no fairness: nothing obliges their callers, and no property needs it.
`PagedScheduler`: `schedule` is called again and again and every running sequence receives
tokens again and again; that is an assumption about a caller the repository does not contain,
and `EveryRequestAdmitted` says what the scheduler makes of it.

## 4. Findings

1. **`kv_commit`** (`engine.py:245`, `:303`): on an adapter with a KV cache SD and SSD do not
   produce AR's tokens. `verify` feeds `[recovery] + spec` and discards the cache; `_commit`
   feeds `accepted + [new recovery]`. So the old recovery token is missing from the cache and
   the new one is fed again by the next pass. The plan asks for bitwise identical output.
2. **`length`** (`engine.py:240`): SD and SSD overshoot `max_new_tokens` by up to K tokens;
   `tests/test_engine_modes.py:32` asserts equal lengths, on drafts that are rarely accepted.
3. **`overlap`** (`workers.py:116`): the rebuild runs before the response is returned, so the
   target waits for it; the comment two lines above says it runs while the target verifies.
4. **`rollback`** (`scheduler.py:70`): accepted tokens are counted twice, so pages of rejected
   tokens are kept.
5. **`partial_sync`** (`gcs_storage.py:32`): `config.json` stands for the whole model, so a start
   beside a running copy, and every start after one that was cut short, gets the path of a
   directory without weights; loading raises, and no later start repairs the directory.
6. **`reconnect`** (`ssh_tunnel.py:38`): `start` returns while `_process` is set, and only `stop`
   resets it, so `ensure_connected` never replaces an ssh process that died; the plan calls the file
   an auto-reconnect wrapper.
7. **`sample_row`** (`verify.py:103`): sampling verification judges a draft token with the target's
   row after that token; greedy verification, here and in the reference, uses the row before it.
   So it may accept, or draw to recover, a token the target gives no probability in that place.

Met while modelling, and stated by the passing runs' properties as what the code does: Gemma's
draft lacks its first token, which verification then rejects unless the model repeats itself
(`gemma_adapter.py:166`; lossless, but slow); `Gemma4Adapter` syncs a directory it never reads
(`gemma4_adapter.py:163`); `mix_branch_candidates` with a fan-out of one drops the model's
candidate (`instance_prior.py:84`); `gather_kv_for_positions` returns zeros (`kv_cache.py:70`).

## 5. Proofs

All are proved for every value of the constants that meets the named assumptions
`ConfigAssumption`, `CacheAssumption`, `WorkerAssumption`, `EngineAssumption`, `DraftAssumption`,
`StoreAssumption`, `TunnelAssumption`, `CacheShape`, `SchedulerAssumption` and `EnvAssumption`,
which say what types the parameters
have, that the fan-out list is not empty and asks for at most as many candidates as there are
tokens, that an adapter without a cache looks at the last token, that there are at least two chips,
that pages hold at least one token, that hub checkpoints are not paths, and of the `.env` files what
section 2 says. (`EnvAssumption` also says that the code's string literals are strings, which TLC
knows and the prover does not.) Every invariant and every action property that a passing run
checks is a theorem, and so are the two refinements.

* `VerifyProofs`, the loop: `LoopInvariance`, `ParityHolds`, `AcceptedPrefixIsTargetsHolds`. The
  closed form is characterised first (`AcceptedIsPrefix`: the accepted positions are an interval,
  found by taking the least mismatch); a number with that characterisation is unique
  (`AcceptUntilUnique`), and the loop ends with one.
* `VerifyProofs`, the drafts: `DraftContinuesPrefixHolds`. `DraftInv` says where in the
  prefix and the draft the cache stands in each phase of `draft_speculate`, and that the cache it
  will put back is the one it found; a pass that raises leaves a cache that no later
  call reads before it sets its own. `SpansCopyPrompts` and `MixKeepsCandidates` are about
  the pure functions, for every prompt that is not empty and every row; `SpanCopiesPromptHolds` and
  `MixKeepsBestCandidateHolds` apply them to the prompts of a run. A window's score is its length
  plus nine times its identifiers, so among windows of one length the best score and the most
  identifiers are the same thing.
* `WorkerProofs`, for every client (`WorkerSpec`: anything is submitted, collected, set or
  stopped at any time): `WorkerTypeCorrect`; `CacheIsTransparentHolds`; `CacheIsOneRoundsMapHolds`,
  by `RoundInv`: a branch's slot is its place in the fan-out list, the candidates of the levels
  before its own and then its number (`PlaceOf`), which makes keys distinct and the rows fit;
  `RebuildFollowsFanOutHolds`, since `expand_fanout_branches` puts each branch at the same place
  (`FanOutRows`, from what flattening a sequence of sequences does); `AnswersInOrderHolds`, the
  refinement of `DraftService`, one lemma per step: taking, looking up and rebuilding stutter, and
  `Respond` serves the oldest request (`ServesIn` is a recurrence over the queue).
* `LLMEngineProofs`: `TypeCorrect` (a sequence being decoded has a legal id and is
  counted in `left`). `EngineIsClient`: every step of the composed system is a step of the worker
  under some client, so the worker's theorems hold for the engine too. `AnswersOwnRequestHolds`,
  `OutstandingIsAbandonedHolds` by `PairingInv`: the requests and answers under way, oldest first,
  are one for each call that gave up and one for the call that waits, and while nothing was
  abandoned that one is for the outcome just submitted. `DraftFromOwnPromptHolds` by
  `PromptInv`: all that is under way or cached for the current sequence was scored and copied from
  its prompt, because ids grow and the context is set before anything is submitted for a new one. A
  draft that `set_context` tears between two reads is of a request that was given up, so what the
  invariant says of a scored context is said of requests of the current sequence only.
* `DecodingProofs`: `ArIsGreedyHolds`, `NextTokenIsGreedyHolds`, `DecodingIsLossless`. The
  inductive invariant `GreedyInv` is needed because `NextTokenIsGreedy` speaks of the head of
  `pending` only. It says that the tokens on their way out form a chain in which each is the
  target's choice after the one before it (`PendingChain`), that between iterations the
  adapter fed `recovery` chooses what the sequence wants next (`RecoveryLeads`), and that in AR
  the cache holds the sequence but for its last token (`CacheFollows`). Nothing about the
  worker, its cache or its answers occurs in it: that is why no interleaving can matter. The
  hypothesis (no KV cache, or AR) cannot be dropped: finding 1. `OutputLengthHolds` adds that an
  iteration starts unfinished; `StatsCountTokensHolds` (`CountInv`) adds how many tokens have been
  shown and are not recorded yet, place by place.
* `ModelStoreProofs`: `SplitIsPartition`, `GridHoldsDevices`, for every number of chips;
  `StoreTypeOK`, `PartialOnlyAfterFaultHolds`, `WeightsOfOwnPathHolds`,
  `OnePathLoadsOnceHolds`. The properties of weights speak of
  adapters, which are filled from `_SHARED`, so `StoreInv` says of both what weights may stand for
  a role (`FitsRole`). That a draft never loads when there is one origin needs `DraftFindsTarget`:
  the engine's own target filled the key before, and while the process lives nobody empties it.
  That a directory is partial only after a fault needs what every copy under way still has to
  bring: a copy that ends has brought all it listed, and it listed all unless it was early.
  `OneTunnelHolds` is about the tunnel alone (`TunnelSpec`) and needs that an object that holds no
  process has none running.
* `PagedProofs`: `SlotOfPosition`, `PlacesAreDistinct`, `WritesAreRead`, `MasksAgree` about the pure
  functions, for every shape of the cache. `PagedTypeCorrect`, `PagesHaveOneOwnerHolds`,
  `AdmittedInOrderHolds` and `OnlyHeadHoldsPagesHolds` under both drivers, for
  every pool, limit and stream of requests, from one invariant, `PagedInv`. Its core is that the
  free list and the tables are shelves that hold each page once (`PagesOwned`): moving
  pages between shelves, from the free list's head to a table or from a table's end to the free list,
  keeps that, and then no page is lost, for the shelves' lengths add up to the pool. Admission is in
  order because ids run and then wait in order of arrival (`IdsInOrder`), and only the oldest waiting
  one holds pages (`OnlyOldestHolds`). `GenerateAdmitsNowOrNeverHolds` holds under the
  driver "generate": outside of `schedule` the oldest waiting request is refused (`Blocked`), and
  since free pages and places never come back and the pages it lacks never become fewer as tokens are
  appended (`ExtraGrows`), refused once is refused for ever. `RollbackKeepsTokensHolds` is that
  rounding up never shrinks as tokens grow (`BlocksGrow`).
* `EnvProofs`: `EnvFilesAreMapsHolds`, `VmProfileIsWholeHolds` (`EnvSpec`). Both scripts are one kind of
  rewriting (`Rewrites`): what is seen is replaced where it stands and what was not seen
  is appended. Such a rewriting overrides the map that python-dotenv reads (`RewritingOverrides`) if
  the script sees the last line of each key it sees, and leaves a file of which that is true again,
  which is the invariant, `EnvInv`.

**Recursion.** No module with theorems declares a `RECURSIVE` operator. Sums, flattening, feeding tokens
to a model, a queue's service and the appended lines are functions defined by a recurrence over
`0..n`; that such a function exists and takes its values where its steps do is proved by induction
over `n`, in the form of sets of numbers that contain 0 and every successor (`UpTo`,
`RecurrenceHasSolution`, `FollowsSolves`).

**Only model-checked.** Liveness (`CallsEnd`, `WorkerEnds`, `EveryRequestServed`,
`EveryRequestAdmitted`, `UndisturbedSyncCompletes`): fairness and `ENABLED` are out of the prover's
reach. The findings: their runs are counterexamples. The priors and the engine's runs use one
draft model and one target each; the theorems hold for all.

## 6. Not modelled

* Engine: `generate_stream` (it runs `generate` to its end and yields what it collected); the
  `generate_ar` branch of `_run_ar`, which hands the whole call to EasyDeL; the empty prompt (an
  `IndexError` in prefill); temperatures and end-of-sequence tokens, which the engine ignores.
* Worker: batches of more than one request, which nobody sends; an empty prompt set between the
  truth test and the spans of a request that was given up, which would end the thread as
  `ModelRaises` does.
* Numbers: the softmax arithmetic of `verify_sample` and its terms of 1e-12; the rounding of span
  scores (the best span is any of the best in exact arithmetic); the attention kernels and the
  compression of logits.
* Adapters: Gemma4's step-wise methods, Qwen and MaxText are stubs or thin subclasses.
* Model store: local model paths (returned as they are), two bucket paths with one last component,
  `check_gcs_access`, the roles "target" and "draft" of a process, what JAX does with weights that
  lie on other chips than the mesh.
* Connection: the diagnostics, which only report. The shell scripts that write `.env` too:
  `push_hf_token.ps1:28`, `update_env.ps1:13-23`, `provision_tpu.sh:31-38`, `setup_gcs.sh:46-59`. So
  `EnvFilesAreMaps` and `VmProfileIsWhole` speak of files that only the two Python scripts rewrite. The
  other scripts are straight lines of calls to `gcloud`. The race of two `launch_overnight.sh`.
* Display and benchmarks.
* A request larger than the page pool: the scheduler has no code that refuses it, and
  `EveryRequestAdmitted` would fail for it and for all behind it.

## 7. Plan

1. **Engine**: `generate_stream` with a consumer that stops early, and `generate_ar`.
2. **`.env` files**: the four shell scripts that write them, beside the two Python ones.
3. **Proofs**: what the findings' runs show could be bounded by theorems, for instance that rollback keeps
   at most as many pages too many as the accepted tokens fill, and that sampling verification
   would be sound with the rows shifted by one.
