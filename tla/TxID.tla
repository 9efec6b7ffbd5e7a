-------------------------------- MODULE TxID --------------------------------
(***************************************************************************)
(* Transaction ids of pkg/statestore/backend/memlog: unsigned counters of  *)
(* a fixed width that wrap around (uint64 in the code, where Half is       *)
(* 2^63), and their comparison by signed distance.                         *)
(***************************************************************************)
EXTENDS Integers

CONSTANT Half     \* half of the id space: 2^(w-1) for ids of w bits

ASSUME HalfAssumption == Half \in Nat /\ Half >= 2

TxMod == 2 * Half

TxIDs == 0 .. TxMod - 1

\* txid + 1 on an unsigned integer of the modelled width.
Inc(t) == IF t = TxMod - 1 THEN 0 ELSE t + 1

\* a + k for a small k, with wraparound.
Plus(a, k) == IF a + k >= TxMod THEN a + k - TxMod ELSE a + k

\* a - b on unsigned integers.
Sub(a, b) == IF a >= b THEN a - b ELSE a - b + TxMod

\* int64(d): the two's complement reading of an unsigned integer.
AsSigned(d) == IF d < Half THEN d ELSE d - TxMod

\* Mutant: ids compared as plain unsigned integers.
UnsignedLessEqual(a, b) == a <= b

\* isTxIDLessEqual: int64(a-b) <= 0
IsTxIDLessEqual(a, b) == AsSigned(Sub(a, b)) <= 0
=============================================================================
