------------------------------ MODULE Amounts ------------------------------
(***************************************************************************)
(* The arithmetic of PdtlAmount (src/pdtl.h): an unsigned 64-bit integer,  *)
(* whose sums, differences and products are cut to the low 64 bits.        *)
(***************************************************************************)
EXTENDS Integers

CONSTANTS
    AmountModulus,  \* 2^64 in the code; a small number in the models
    WordModulus,    \* 2^32: what a uint32_t counts up to
    BpsScale        \* 10000: the basis points that make the whole

ASSUME AmountAssumption ==
    /\ AmountModulus \in Nat \ {0}
    /\ WordModulus \in Nat \ {0}
    /\ BpsScale \in Nat \ {0}

Amount == 0..(AmountModulus - 1)

\* stops at the largest amount (a faulty version of Plus, see Ledger)
FaultyPlus(a, b) == IF a + b >= AmountModulus THEN AmountModulus - 1 ELSE a + b

Plus(a, b) == (a + b) % AmountModulus

Minus(a, b) == (a - b) % AmountModulus

(***************************************************************************)
(* The fee of pdtl_issue_receipt: the product is cut to 64 bits before the *)
(* division truncates it.                                                  *)
(***************************************************************************)
FeeOf(gross, fee_bps) == ((gross * fee_bps) % AmountModulus) \div BpsScale

=============================================================================
