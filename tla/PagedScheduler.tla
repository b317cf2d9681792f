---------------------------- MODULE PagedScheduler ----------------------------
(***************************************************************************)
(* jax_ssd/runtime/scheduler.py, page_manager.py and sequence.py: requests *)
(* wait in a queue, are admitted in order while their pages can be had,    *)
(* and give the pages back when they finish.  One thread calls all of it.  *)
(* schedule's loop is one step per iteration, and nothing else runs while  *)
(* it does.                                                                *)
(*                                                                         *)
(* A sequence is known by its id; of its tokens only their numbers matter. *)
(*                                                                         *)
(* Two drivers call it.  generate adds each prompt, calls schedule,        *)
(* ignores the result, and decodes: it appends to its sequence, running or *)
(* still waiting, and never postprocesses.  A stepping loop, which the     *)
(* repository has no code for, calls every method as the signatures invite.*)
(***************************************************************************)
EXTENDS SSDConfig, Kernels, FiniteSets

CONSTANTS
    Modes,                 \* modes the engine may be built with
    Drivers,               \* who calls the scheduler: "steps", "generate"
    MaxRunning,            \* the 16 in schedule
    SeqId,                 \* bound: ids of the requests added, 0 and up
    PromptLengths,         \* lengths of the prompts added
    MaxTokens              \* max_tokens of every call, or max_new_tokens

ASSUME SchedulerAssumption ==
    /\ Modes \subseteq DecodeMode
    /\ Drivers \subseteq {"steps", "generate"}
    /\ MaxRunning \in Nat /\ MaxTokens \in Nat
    /\ SeqId \subseteq Nat /\ PromptLengths \subseteq Nat

VARIABLES
    mode,        \* config.mode
    driver,      \* the caller, fixed
    pc,          \* "client", or "schedule" inside schedule's loop
    free,        \* free_blocks, popped and pushed at its end
    refCount,    \* ref_counts; a missing key is 0
    waiting,     \* deque of waiting sequences
    running,     \* list of running sequences
    finished,    \* list of finished sequences
    nextId,      \* _next_id
    tokens,      \* num_tokens of each sequence
    completion,  \* num_completion_tokens
    table,       \* block_table
    draftTable   \* draft_block_table

pageVars == <<free, refCount, table, draftTable>>
queueVars == <<waiting, running, finished>>
countVars == <<tokens, completion>>
vars == <<mode, driver, pc, pageVars, queueVars, nextId, countVars>>

-----------------------------------------------------------------------------
(* PageManager.                                                            *)

Blocks(n) == (n + BlockSize - 1) \div BlockSize

(* Pages a table lacks for n tokens. *)
Extra(t, n) == LET need == Blocks(n) - Len(t) IN IF need > 0 THEN need ELSE 0

Popped(f, n) == [i \in 1..n |-> f[Len(f) - i + 1]]
Rest(f, n) == SubSeq(f, 1, Len(f) - n)

(* Mutant: a page is counted down twice. *)
UncountedTwice(d) == [b \in Block |-> refCount[b] - (IF b \in d THEN 2 ELSE 0)]

(* The counts after the pages of d are counted once more, or once less. *)
Counted(d) == [b \in Block |-> refCount[b] + (IF b \in d THEN 1 ELSE 0)]
Uncounted(d) == [b \in Block |-> refCount[b] - (IF b \in d THEN 1 ELSE 0)]

(* allocate(seq, num_tokens). *)
CanAllocate(s, n) == Extra(table[s], tokens[s] + n) <= Len(free)

Taken(s, n) == Popped(free, Extra(table[s], tokens[s] + n))

(* Mutant: < where _free_block has <=. *)
ReturnedLate(d) == SelectSeq(d, LAMBDA b : refCount[b] < 1)

(* The pages of d that go back to the free list, in turn: those that no    *)
(* other table counts.                                                     *)
Returned(d) ==
    LET upTo[i \in 0..Len(d)] ==
            IF i = 0 THEN <<>>
            ELSE IF refCount[d[i]] <= 1 THEN Append(upTo[i - 1], d[i])
            ELSE upTo[i - 1]
    IN  upTo[Len(d)]

(* _free_block, for the pages of the sequence d in turn. *)
Release(d) ==
    /\ refCount' = Uncounted(Range(d))
    /\ free' = free \o Returned(d)

(* Mutant: the division is not rounded up. *)
KeptFloor(s, numTokens, accepted) ==
    LET used == (numTokens + accepted) \div BlockSize
    IN  IF Len(table[s]) > used THEN used ELSE Len(table[s])

(* What rollback_speculative(seq, accepted, reserved) leaves in the table: *)
(* the loop's two conditions are the same, reserved cancels out.           *)
Kept(s, numTokens, accepted) ==
    LET used == Blocks(numTokens + accepted)
    IN  IF Len(table[s]) > used THEN used ELSE Len(table[s])

-----------------------------------------------------------------------------
(* Scheduler.                                                              *)

(* K + 1 in SD and in the two asynchronous modes alike. *)
ReserveTokens == IF mode = "ar" THEN 1 ELSE K + 1

DraftReserve == ReserveTokens + K * MqLen

AddRequest ==
    /\ pc = "client" /\ nextId \in SeqId
    /\ \E n \in PromptLengths : tokens' = [tokens EXCEPT ![nextId] = n]
    /\ waiting' = Append(waiting, nextId)
    /\ nextId' = nextId + 1
    /\ pc' = IF driver = "generate" THEN "schedule" ELSE pc
    /\ UNCHANGED <<mode, driver, pageVars, running, finished, completion>>

(* One round of the decoding loop of generate, which may be the last one   *)
(* because a callback raises: prefill's token, then up to K accepted       *)
(* tokens and the recovery token while is_finished lets the loop go on.    *)
(* allocate reads their number when schedule tries the sequence again.     *)
GenerateAppends ==
    /\ pc = "client" /\ driver = "generate" /\ nextId - 1 \in SeqId
    /\ LET s == nextId - 1
           most == IF completion[s] = 0 \/ mode = "ar" THEN 1 ELSE K + 1
       IN  /\ completion[s] = 0 \/ completion[s] < MaxTokens
           /\ \E n \in 1..most : /\ tokens' = [tokens EXCEPT ![s] = @ + n]
                                 /\ completion' = [completion EXCEPT ![s] = @ + n]
    /\ UNCHANGED <<mode, driver, pc, pageVars, queueVars, nextId>>

Schedule ==
    /\ pc = "client" /\ driver = "steps"
    /\ pc' = "schedule"
    /\ UNCHANGED <<mode, driver, pageVars, queueVars, nextId, countVars>>

(* Mutant: one sequence fewer may run. *)
ScheduleReturnsEarly ==
    /\ pc = "schedule"
    /\ waiting = <<>> \/ Len(running) >= MaxRunning - 1
    /\ pc' = "client"
    /\ UNCHANGED <<mode, driver, pageVars, queueVars, nextId, countVars>>

(* The loop's condition, negated. *)
ScheduleReturns ==
    /\ pc = "schedule"
    /\ waiting = <<>> \/ Len(running) >= MaxRunning
    /\ pc' = "client"
    /\ UNCHANGED <<mode, driver, pageVars, queueVars, nextId, countVars>>

CanTry(s) ==
    /\ pc = "schedule" /\ waiting # <<>> /\ Len(running) < MaxRunning
    /\ s = Head(waiting)

(* Mutant: append where schedule has appendleft. *)
PutLast == waiting' = Append(Tail(waiting), Head(waiting))

(* waiting.appendleft(seq), after the popleft. *)
PutBack == waiting' = <<Head(waiting)>> \o Tail(waiting)

(* allocate failed. *)
NoTargetPages(s) ==
    /\ CanTry(s)
    /\ ~ CanAllocate(s, ReserveTokens)
    /\ PutBack
    /\ pc' = "client"
    /\ UNCHANGED <<mode, driver, pageVars, running, finished, nextId, countVars>>

(* allocate succeeded.  If allocate_draft then fails, the sequence goes    *)
(* back to the front with the target pages it was given.                   *)
TryAdmit(s) ==
    /\ CanTry(s)
    /\ CanAllocate(s, ReserveTokens)
    /\ LET taken == Taken(s, ReserveTokens)
           left == Rest(free, Len(taken))
           drafts == IF mode = "ar" THEN 0
                     ELSE Extra(draftTable[s], tokens[s] + DraftReserve)
           admitted == drafts <= Len(left)
           draftTaken == IF admitted THEN Popped(left, drafts) ELSE <<>>
       IN  /\ table' = [table EXCEPT ![s] = @ \o taken]
           /\ draftTable' = [draftTable EXCEPT ![s] = @ \o draftTaken]
           /\ free' = Rest(left, Len(draftTaken))
           /\ refCount' = Counted(Range(taken) \cup Range(draftTaken))
           /\ IF admitted
              THEN /\ waiting' = Tail(waiting)
                   /\ running' = Append(running, s)
                   /\ UNCHANGED pc
              ELSE /\ PutBack
                   /\ pc' = "client"
                   /\ UNCHANGED running
    /\ UNCHANGED <<mode, driver, finished, nextId, countVars>>

(* running.remove(seq): its first occurrence. *)
Removed(q, s) ==
    LET first == CHOOSE i \in 1..Len(q) : q[i] = s /\ \A j \in 1..(i - 1) : q[j] # s
    IN  SubSeq(q, 1, first - 1) \o SubSeq(q, first + 1, Len(q))

Steppable(s) == pc = "client" /\ driver = "steps" /\ s \in Range(running)

(* The end of both postprocess methods: is_finished after append_tokens.   *)
(* kept is the part of the page table that rollback left.                  *)
Settle(s, n, eos, kept) ==
    LET done == completion[s] + n >= MaxTokens \/ eos
        dropped == Popped(table[s], Len(table[s]) - kept)
        rest == Rest(table[s], Len(table[s]) - kept)
    IN  /\ tokens' = [tokens EXCEPT ![s] = @ + n]
        /\ completion' = [completion EXCEPT ![s] = @ + n]
        /\ IF done
           THEN /\ Release(dropped \o rest \o draftTable[s])
                /\ table' = [table EXCEPT ![s] = <<>>]
                /\ draftTable' = [draftTable EXCEPT ![s] = <<>>]
                /\ running' = Removed(running, s)
                /\ finished' = Append(finished, s)
           ELSE /\ Release(dropped)
                /\ table' = [table EXCEPT ![s] = rest]
                /\ UNCHANGED <<draftTable, running, finished>>
        /\ UNCHANGED <<mode, driver, pc, waiting, nextId>>

(* postprocess(seq, new_tokens, eos_id, max_tokens). *)
Postprocess(s) ==
    /\ Steppable(s) /\ mode = "ar"
    /\ \E eos \in BOOLEAN : Settle(s, 1, eos, Len(table[s]))

(* postprocess_speculative: the accepted tokens are appended before        *)
(* rollback_speculative adds them again; recovery is not appended.         *)
PostprocessSpeculative(s, n) ==
    /\ Steppable(s) /\ mode # "ar"
    /\ n \in 0..K
    /\ \E eos \in BOOLEAN :
        /\ eos => n > 0
        /\ Settle(s, n, eos, Kept(s, tokens[s] + n, n))

(* allocate called again for the next step, as its early return allows. *)
Reserve(s) ==
    /\ Steppable(s)
    /\ Extra(table[s], tokens[s] + ReserveTokens) > 0
    /\ CanAllocate(s, ReserveTokens)
    /\ LET taken == Taken(s, ReserveTokens)
       IN  /\ table' = [table EXCEPT ![s] = @ \o taken]
           /\ free' = Rest(free, Len(taken))
           /\ refCount' = Counted(Range(taken))
    /\ UNCHANGED <<mode, driver, pc, draftTable, queueVars, nextId, countVars>>
-----------------------------------------------------------------------------
Init ==
    /\ mode \in Modes /\ driver \in Drivers
    /\ pc = "client"
    /\ free = [i \in 1..NumBlocks |-> i - 1]
    /\ refCount = [b \in Block |-> 0]
    /\ waiting = <<>> /\ running = <<>> /\ finished = <<>>
    /\ nextId = 0
    /\ tokens = [s \in SeqId |-> 0] /\ completion = [s \in SeqId |-> 0]
    /\ table = [s \in SeqId |-> <<>>] /\ draftTable = [s \in SeqId |-> <<>>]

(* A step of the model that brings a running sequence nearer its end. *)
Progress(s) == Postprocess(s) \/ (\E n \in 1..K : PostprocessSpeculative(s, n))

InSchedule == ScheduleReturns \/ (\E s \in SeqId : NoTargetPages(s) \/ TryAdmit(s))

Next ==
    \/ AddRequest \/ GenerateAppends \/ Schedule \/ InSchedule
    \/ \E s \in SeqId :
        Postprocess(s) \/ (\E n \in 0..K : PostprocessSpeculative(s, n)) \/ Reserve(s)

(* The stepping client goes on calling schedule, and every running         *)
(* sequence goes on getting tokens.                                        *)
Spec ==
    /\ Init /\ [][Next]_vars
    /\ WF_vars(InSchedule) /\ WF_vars(Schedule)
    /\ \A s \in SeqId : SF_vars(Progress(s))
-----------------------------------------------------------------------------
TypeOK ==
    /\ mode \in DecodeMode /\ driver \in Drivers /\ pc \in {"client", "schedule"}
    /\ free \in Seq(Block) /\ refCount \in [Block -> Nat]
    /\ waiting \in Seq(SeqId) /\ running \in Seq(SeqId) /\ finished \in Seq(SeqId)
    /\ nextId \in Nat
    /\ tokens \in [SeqId -> Nat] /\ completion \in [SeqId -> Nat]
    /\ table \in [SeqId -> Seq(Block)] /\ draftTable \in [SeqId -> Seq(Block)]

(* Every page has one owner: it stands once in the free list and is not    *)
(* counted, or once in one table of one sequence and is counted once, so   *)
(* no admission, rollback or release loses, doubles or shares a page.      *)
PagesHaveOneOwner ==
    \A b \in Block :
        LET inFree == {i \in 1..Len(free) : free[i] = b}
            In(t) == UNION {{<<s, i>> : i \in {j \in 1..Len(t[s]) : t[s][j] = b}} : s \in SeqId}
            inTable == In(table)
            inDraft == In(draftTable)
        IN  /\ Cardinality(inFree) + Cardinality(inTable) + Cardinality(inDraft) = 1
            /\ refCount[b] = Cardinality(inTable) + Cardinality(inDraft)

(* Requests are admitted in the order they came and none is lost on the    *)
(* way back to the queue: what waits is the tail of the ids given out, and *)
(* every earlier id is running or finished, once.                          *)
AdmittedInOrder ==
    /\ waiting = [i \in 1..Len(waiting) |-> nextId - Len(waiting) + i - 1]
    /\ Range(running) \cup Range(finished) = 0..(nextId - Len(waiting) - 1)
    /\ Len(running) + Len(finished) = nextId - Len(waiting)

(* Waiting for draft pages while holding target pages cannot starve the    *)
(* running sequences of what they were promised, because only the head of  *)
(* the queue ever does it, and it holds no draft pages; what has finished  *)
(* holds nothing.                                                          *)
OnlyHeadHoldsPages ==
    /\ \A i \in 1..Len(waiting) :
        draftTable[waiting[i]] = <<>> /\ (i > 1 => table[waiting[i]] = <<>>)
    /\ \A s \in Range(finished) : table[s] = <<>> /\ draftTable[s] = <<>>

(* Under a stepping client a request whose pages fit the pool is admitted  *)
(* in the end, though the head of the queue holds target pages while it    *)
(* waits for draft pages.                                                  *)
EveryRequestAdmitted ==
    \A s \in SeqId : (driver = "steps" /\ s \in Range(waiting)) ~> (s \notin Range(waiting))

(* Under generate a prompt that its own schedule call does not admit never *)
(* starts to run, although it and all after it are decoded: nothing is     *)
(* ever given back, whoever is refused stays at the head, and what it asks *)
(* for only grows with the tokens it gets meanwhile (generate).            *)
GenerateAdmitsNowOrNever ==
    [][driver = "generate" =>
        Range(running') \subseteq Range(running) \cup {nextId - 1}]_vars

(* Rollback never drops a page of a token: a sequence that goes on and had *)
(* the pages of its tokens and of those just accepted has them still,      *)
(* though rollback_speculative runs after they were appended.              *)
RollbackKeepsTokens ==
    [][\A s \in SeqId, n \in 0..K :
        (/\ PostprocessSpeculative(s, n) /\ s \in Range(running')
         /\ Len(table[s]) >= Blocks(tokens[s] + n))
            => Len(table'[s]) >= Blocks(tokens'[s])]_vars

(* The plan's rule: rollback matches accept_until exactly.  A sequence     *)
(* that goes on keeps the pages of its tokens, the recovery token counted, *)
(* and no other (rollback_speculative, postprocess_speculative).           *)
RollbackIsExact ==
    [][\A s \in SeqId, n \in 0..K :
        PostprocessSpeculative(s, n) /\ s \in Range(running')
            => Len(table'[s]) <= Blocks(tokens'[s] + 1)]_vars
=============================================================================
