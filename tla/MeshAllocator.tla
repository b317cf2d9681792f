---------------------------- MODULE MeshAllocator ----------------------------
(***************************************************************************)
(* connect/mesh_allocator.py: how n chips are split between the target and *)
(* the draft model.  Chips are numbered in the order of jax.devices().     *)
(***************************************************************************)
EXTENDS Integers

AtLeastOne(n) == IF n > 0 THEN n ELSE 1

DraftCount(n) ==
    CASE n >= 8       -> AtLeastOne(n \div 8)
      [] n \in {2, 4} -> 1
      [] n = 1        -> 0
      [] OTHER        -> AtLeastOne(n \div 4)

(* In every branch of _split_counts the target takes the rest. *)
TargetCount(n) == n - DraftCount(n)

(* devices[:t_count] and devices[t_count : t_count + d_count]; an empty    *)
(* set stands for a model without chips and without a mesh.                *)
AllocateMeshes(policy, n) ==
    CASE policy = "all_target" -> [target |-> 1..n, draft |-> {}]
      [] policy = "all_draft"  -> [target |-> {}, draft |-> 1..n]
      [] OTHER -> [target |-> 1..TargetCount(n),
                   draft |-> TargetCount(n) + 1..TargetCount(n) + DraftCount(n)]

(* _make_mesh: rows and columns of the grid; one axis is a single row. *)
MeshShape(n) == IF n \in {4, 8} THEN <<2, n \div 2>> ELSE <<1, n>>
=============================================================================
