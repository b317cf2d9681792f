------------------------------ MODULE SpecCache ------------------------------
(***************************************************************************)
(* jax_ssd/algorithm/spec_cache.py: the fixed-size table of speculations,  *)
(* keyed by sequence, accepted length and recovery token.  A row whose     *)
(* valid bit is clear is NoEntry: lookup masks it and insert overwrites it,*)
(* so its old contents cannot be observed.  Draft logits are all zero      *)
(* wherever the worker builds them and are left out.                       *)
(***************************************************************************)
EXTENDS SSDConfig

CONSTANTS
    SeqId,      \* sequence ids in use: 0 and up, as the scheduler hands them out
    NoEntry     \* an invalid row

Key == [seq : SeqId, acc : 0..K, recovery : Token]
Entry == [key : Key, tokens : Draft]
Slot == 0..NumBranches - 1
Cache == [Slot -> Entry \cup {NoEntry}]

ASSUME CacheAssumption ==
    /\ SeqId \subseteq Nat
    /\ 0 \in SeqId
    /\ NoEntry \notin Entry

Create == [s \in Slot |-> NoEntry]

(* Mutant: the valid bits of the last round stay set. *)
ResetNothing(cache) == cache

Reset(cache) == [s \in DOMAIN cache |-> NoEntry]

(* An update at an index past the end is dropped, as jnp's at[].set does. *)
Insert(cache, slot, key, tokens) ==
    [cache EXCEPT ![slot] = [key |-> key, tokens |-> tokens]]

MatchingSlots(cache, key) ==
    {s \in DOMAIN cache : cache[s] # NoEntry /\ cache[s].key = key}

Hit(cache, key) == MatchingSlots(cache, key) # {}

(* argmax over the match row: the lowest matching row wins. *)
CachedTokens(cache, key) ==
    LET first == CHOOSE s \in MatchingSlots(cache, key) :
                     \A t \in MatchingSlots(cache, key) : s <= t
    IN  cache[first].tokens
=============================================================================
