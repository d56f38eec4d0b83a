------------------------------ MODULE IdBucket ------------------------------
(***************************************************************************)
(* util/container/id-bucket.sml: the table behind the handles that the C    *)
(* API hands out.  Index i of the table is a handle; its cell is FULL with  *)
(* the SML value it stands for, or FREE with the index of the next free     *)
(* cell.  The free cells are a list that starts at free and ends at -1; a   *)
(* table without a free cell doubles.                                       *)
(*                                                                          *)
(* A bucket is a record here, and each function of the structure is an      *)
(* operator from a bucket to a bucket.                                      *)
(***************************************************************************)
EXTENDS Integers

CONSTANT FirstCells     \* cells of a new table (4 in the code)

ASSUME FirstCellsAssumption == FirstCells \in Nat \ {0}

FREE(next) == <<"FREE", next>>
FULL(x) == <<"FULL", x>>

Cells(b) == 0..(b.size - 1)
IsFree(b, i) == b.table[i][1] = "FREE"
FreeCells(b) == {i \in Cells(b) : IsFree(b, i)}
NextFree(b, i) == b.table[i][2]

\* Is there a value under this index?  (sub; an index outside the table
\* raises Subscript.)
Found(b, i) == i \in Cells(b) /\ ~IsFree(b, i)
\* The value under an index that has one.
Sub(b, i) == b.table[i][2]

\* new
NewBucket == [free  |-> FirstCells - 1,
              size  |-> FirstCells,
              table |-> [i \in 0..(FirstCells - 1) |-> FREE(i - 1)]]

\* Mutant: the new cells are chained on to the last old one, which is full.
GrowJoined(b) ==
    [free  |-> 2 * b.size - 1,
     size  |-> 2 * b.size,
     table |-> [i \in 0..(2 * b.size - 1) |->
                   IF i < b.size THEN b.table[i] ELSE FREE(i - 1)]]

\* grow: double the table; the new cells are the new free list.
Grow(b) ==
    [free  |-> 2 * b.size - 1,
     size  |-> 2 * b.size,
     table |-> [i \in 0..(2 * b.size - 1) |->
                   IF i < b.size THEN b.table[i]
                   ELSE IF i = b.size THEN FREE(-1) ELSE FREE(i - 1)]]

\* The bucket in which alloc looks for a free cell, and the cell it takes.
Roomy(b) == IF b.free = -1 THEN Grow(b) ELSE b
AllocId(b) == Roomy(b).free

\* alloc
Alloc(b, x) ==
    LET r == Roomy(b)
    IN  [free  |-> NextFree(r, r.free),
         size  |-> r.size,
         table |-> [r.table EXCEPT ![r.free] = FULL(x)]]

\* Mutant: the freed cell ends the list, and the cells behind it are lost.
FreeAlone(b, i) ==
    [free |-> i, size |-> b.size, table |-> [b.table EXCEPT ![i] = FREE(-1)]]

\* free, of an index that is FULL (else it raises AlreadyFree).
Free(b, i) ==
    [free |-> i, size |-> b.size, table |-> [b.table EXCEPT ![i] = FREE(b.free)]]

\* replace, of an index that is FULL.
Replace(b, i, x) ==
    [free |-> b.free, size |-> b.size, table |-> [b.table EXCEPT ![i] = FULL(x)]]

-----------------------------------------------------------------------------
(***************************************************************************)
(* What a bucket must be for the functions above to be right.               *)
(***************************************************************************)

BucketType(b, Value) ==
    /\ b.size \in Nat \ {0}
    /\ b.free \in Int
    /\ b.table \in [Cells(b) -> ({"FREE"} \X Int) \cup ({"FULL"} \X Value)]

\* The free cells point at free cells, no two at the same one, and none at the
\* first: no cell is handed out while it is on the list a second time.
FreeListSound(b) ==
    /\ b.free \in {-1} \cup FreeCells(b)
    /\ \A i \in FreeCells(b) :
          NextFree(b, i) \in {-1} \cup (FreeCells(b) \ {b.free})
    /\ \A i, j \in FreeCells(b) :
          NextFree(b, i) = NextFree(b, j) /\ NextFree(b, i) # -1 => i = j

\* The indices that k steps along the free list reach, for k up to its length.
Reached(b) ==
    LET at[k \in 0..b.size] ==
            IF k = 0 THEN b.free
            ELSE IF at[k-1] = -1 THEN -1 ELSE NextFree(b, at[k-1])
    IN  {at[k] : k \in 0..b.size}

\* Every free cell is on the list: none is lost for good.
FreeListComplete(b) == FreeCells(b) \subseteq Reached(b)
=============================================================================
