------------------------------- MODULE Kernels -------------------------------
(***************************************************************************)
(* jax_ssd/kernels: where a token's keys and values lie in the paged cache *)
(* (kv_cache.py), which batch shapes are compiled (buckets.py) and which   *)
(* positions a query may attend to (masks.py).  All functions; indices     *)
(* count from 0 as in the source, and a mask is the set of its zeros,      *)
(* pairs of a query and a key; everything else is minus infinity.          *)
(***************************************************************************)
EXTENDS Integers, Sequences

CONSTANTS BlockSize, NumBlocks   \* block_size, num_blocks

ASSUME CacheShape == BlockSize \in Nat \ {0} /\ NumBlocks \in Nat

Block == 0..NumBlocks - 1
Location == Block \X (0..BlockSize - 1)

(* The slot of position p of the sequence with this page table. *)
SlotOf(table, p) == table[p \div BlockSize + 1] * BlockSize + (p % BlockSize)

LocationOf(slot) == <<slot \div BlockSize, slot % BlockSize>>

(* KVCacheState.allocate; one layer, one value for the two vectors. *)
AllocatePages(zero) == [l \in Location |-> zero]

(* write_kv_slots: in the order of the slots, so the last write stays. *)
WriteSlots(pages, slots, values) ==
    [l \in Location |->
        LET writes == {i \in 1..Len(slots) : LocationOf(slots[i]) = l}
        IN  IF writes = {} THEN pages[l]
            ELSE values[CHOOSE i \in writes : \A j \in writes : j <= i]]

(* gather_kv_for_positions is a stub: it works out the slots and returns   *)
(* zeros.                                                                  *)
GatheredSlots(table, positions) == [i \in 1..Len(positions) |-> SlotOf(table, positions[i])]
Gathered(zero, positions) == [i \in 1..Len(positions) |-> zero]

(* bucket_batch_size: the first bucket that holds the batch, else the last.*)
Bucket == <<1, 2, 4, 8, 16>>

BucketBatchSize(batch) ==
    IF batch <= Bucket[Len(Bucket)]
    THEN Bucket[CHOOSE i \in 1..Len(Bucket) :
                  batch <= Bucket[i] /\ \A j \in 1..(i - 1) : Bucket[j] < batch]
    ELSE Bucket[Len(Bucket)]

(* pad_to_bucket: an array that is already too long is not cut. *)
PadToBucket(rows, batch, zero) ==
    IF Len(rows) >= batch THEN rows
    ELSE [i \in 1..batch |-> IF i <= Len(rows) THEN rows[i] ELSE zero]

(* One branch of build_branch_mask: every query sees the whole trunk, and  *)
(* a query of the branch sees the branch up to itself.                     *)
BranchMask(trunk, branch) ==
    LET position == 0..(trunk + branch - 1)
    IN  {m \in position \X position : m[2] < trunk \/ (m[1] >= trunk /\ m[2] <= m[1])}

(* build_verify_mask: the prefix, and the query's own tokens up to itself. *)
VerifyMask(seqLen, queryLen) ==
    {m \in (0..(queryLen - 1)) \X (0..(seqLen + queryLen - 1)) :
        m[2] < seqLen \/ m[2] <= seqLen + m[1]}
=============================================================================
