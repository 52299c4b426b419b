----------------------------- MODULE BusTiming -----------------------------
(***************************************************************************)
(* The contention tables of a bus: for each kind of access an owned vector *)
(* and a pointer into it, and one table size for all of them.  Two sets of *)
(* operations write them, the members of Bus and the lambdas of the Python *)
(* binding; Z80::get_extra_cycles reads them on every access.              *)
(*                                                                         *)
(* A delay is data and left out; so are the contention masks, which only   *)
(* skip a lookup.                                                          *)
(***************************************************************************)
EXTENDS Integers, FiniteSetsExt

CONSTANTS
  Sizes,   \* sizes of the tables the host passes, 0 for none
  Uniform  \* the host is disciplined (see below)

ASSUME SizeAssumption == Sizes \subseteq Nat /\ 0 \in Sizes

Kinds == {"fetch", "mem_read", "mem_write", "io_read", "io_write"}

VARIABLES
  vec,   \* size of each owned vector
  table, \* where each pointer points: "null", "owned" or "freed" storage
  timing_table_size

vars == <<vec, table, timing_table_size>>

TypeOK ==
  /\ vec \in [Kinds -> Sizes]
  /\ table \in [Kinds -> {"null", "owned", "freed"}]
  /\ timing_table_size \in Sizes

Init ==
  /\ vec = [k \in Kinds |-> 0]
  /\ table = [k \in Kinds |-> "null"]
  /\ timing_table_size = 0

-----------------------------------------------------------------------------
(* Bus::set_timing_tables and Bus::clear_timing_tables.                    *)

\* Fault: the size is not reset before the maximum is taken.
SetTablesKeepsSize(sizes) ==
  /\ vec' = sizes
  /\ table' = [k \in Kinds |-> IF sizes[k] > 0 THEN "owned" ELSE "null"]
  /\ timing_table_size' = Max({sizes[k] : k \in Kinds} \cup {timing_table_size})

SetTables(sizes) ==
  /\ vec' = sizes
  /\ table' = [k \in Kinds |-> IF sizes[k] > 0 THEN "owned" ELSE "null"]
  /\ timing_table_size' = Max({sizes[k] : k \in Kinds})

ClearTables ==
  /\ vec' = [k \in Kinds |-> 0]
  /\ table' = [k \in Kinds |-> "null"]
  /\ timing_table_size' = 0

-----------------------------------------------------------------------------
(* The binding.                                                            *)

\* Each vector is replaced, so its old storage is gone; a pointer and the size
\* are only written for a table that is not empty.
PySetTables(sizes) ==
  /\ vec' = sizes
  /\ table' = [k \in Kinds |->
                 IF sizes[k] > 0 THEN "owned"
                 ELSE IF table[k] = "null" THEN "null" ELSE "freed"]
  /\ timing_table_size' =
       IF sizes["fetch"] > 0 THEN sizes["fetch"] ELSE timing_table_size

PyClearTables ==
  /\ table' = [k \in Kinds |-> "null"]
  /\ timing_table_size' = 0
  /\ UNCHANGED vec

-----------------------------------------------------------------------------

\* A host that keeps to what get_extra_cycles and the binding take for granted:
\* one size, a fetch table whenever there is another (the binding takes the
\* size from it), and no table withdrawn other than by clearing.
Disciplined(sizes) ==
  /\ (\E k \in Kinds : sizes[k] > 0) => sizes["fetch"] > 0
  /\ \A j, k \in Kinds : sizes[j] > 0 /\ sizes[k] > 0 => sizes[j] = sizes[k]
  /\ \A k \in Kinds : table[k] # "null" => sizes[k] > 0

Next ==
  \/ \E sizes \in [Kinds -> Sizes] :
       /\ Uniform => Disciplined(sizes)
       /\ SetTables(sizes) \/ PySetTables(sizes)
  \/ ClearTables \/ PyClearTables

Spec == Init /\ [][Next]_vars

-----------------------------------------------------------------------------
(* Properties.                                                             *)

\* get_extra_cycles reads the table of this kind, at every index below
\* timing_table_size as t_state runs on.
Consulted(k) == table[k] # "null" /\ timing_table_size > 0

\* A lookup is inside the storage the bus owns, whatever t_state is.
LookupsInRange ==
  \A k \in Kinds :
    Consulted(k) => table[k] = "owned" /\ timing_table_size <= vec[k]

\* The pointers point "to owned data (set after copying from Python)" and no
\* longer to what a later call replaced (the comment at the pointers; the
\* binding leaves the pointer of a table that becomes empty).
PointersOwned == \A k \in Kinds : table[k] \in {"null", "owned"}
=============================================================================
