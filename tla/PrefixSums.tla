----------------------------- MODULE PrefixSums -----------------------------
(***************************************************************************)
(* Totals over the fixed arrays of PdtlLedger.  Every aggregate of the     *)
(* ledger (pdtl_total_cell_reserves and its siblings) is a loop over the   *)
(* first `count' slots of a zero-indexed array; PrefixSum is that loop     *)
(* over the integers, before the accumulator is cut to 64 bits.            *)
(***************************************************************************)
EXTENDS Integers

(***************************************************************************)
(* f[0] + ... + f[n-1].  A recursive function, not a RECURSIVE operator,   *)
(* so that theorems can be proved about it.                                *)
(***************************************************************************)
PrefixSums(f, n) ==
    LET sum[k \in 0..n] == IF k = 0 THEN 0 ELSE sum[k - 1] + f[k - 1]
    IN  sum

PrefixSum(f, n) == PrefixSums(f, n)[n]

=============================================================================
