------------------------------ MODULE TxValue ------------------------------
(***************************************************************************)
(* The value sum of a transaction (CTransaction::GetValueOut,              *)
(* src/primitives/transaction.cpp) and the block-value check that applies  *)
(* it to a coinbase (IsBlockValueValid, src/masternode-payments.cpp).      *)
(* Pure operators over bounded inputs. A transaction is abstracted to what *)
(* the sum reads: its transparent output values, its Sapling valueBalance  *)
(* and the vpub_old of its JoinSplits. CAmount is a signed 64-bit integer; *)
(* it is scaled down to Width bits, with MAX_MONEY scaled so that the sum  *)
(* of two amounts in range still fits, as 2 * 21e14 fits in 2^63. The      *)
(* additions are signed overflow, undefined in C++; the build wraps them,  *)
(* and so does the model.                                                  *)
(***************************************************************************)
EXTENDS Integers, Sequences

CONSTANTS
    Width,       \* bits of CAmount (64), scaled
    MaxMoney,    \* MAX_MONEY, scaled
    Amounts,     \* the amounts an output, valueBalance or vpub_old may carry
    MaxOutputs   \* bound: outputs and JoinSplits per transaction

ASSUME /\ Width \in Nat \ {0}
       /\ MaxMoney \in Nat /\ 2 * MaxMoney < 2^(Width - 1)
       /\ Amounts \subseteq -(2^(Width - 1)) .. 2^(Width - 1) - 1

\* Two's-complement wrap of a mathematical integer to CAmount.
Wrap(x) == ((x + 2^(Width - 1)) % 2^Width) - 2^(Width - 1)

\* MoneyRange (amount.h): 0 <= nValue <= MAX_MONEY.
MoneyRange(v) == v >= 0 /\ v <= MaxMoney

\* The running nValueOut, or std::runtime_error("CTransaction::
\* GetValueOut(): value out of range") once thrown.
Sum(v) == [thrown |-> FALSE, value |-> v]
Throw  == [thrown |-> TRUE, value |-> 0]

\* Variant: the running sum is checked, the amount just added is not.
AddCheckedSumOnly(acc, v) ==
    IF acc.thrown THEN acc
    ELSE LET s == Wrap(acc.value + v) IN IF MoneyRange(s) THEN Sum(s) ELSE Throw

\* One step of GetValueOut's loops: add the amount to nValueOut, then throw
\* unless both the amount and the new sum are in MoneyRange.
AddChecked(acc, v) ==
    IF acc.thrown THEN acc
    ELSE LET s == Wrap(acc.value + v)
         IN  IF MoneyRange(v) /\ MoneyRange(s) THEN Sum(s) ELSE Throw

RECURSIVE AddAll(_, _)
AddAll(acc, vs) == IF vs = <<>> THEN acc ELSE AddAll(AddChecked(acc, Head(vs)), Tail(vs))

\* CTransaction::GetValueOut: the outputs, then -valueBalance when the
\* Sapling part takes value from the transparent pool (valueBalance <= 0;
\* the negation of INT64_MIN wraps to itself), then each vpub_old.
GetValueOut(tx) ==
    LET outs == AddAll(Sum(0), tx.vout)
        bal  == IF tx.valueBalance <= 0 THEN AddChecked(outs, Wrap(-tx.valueBalance))
                ELSE outs
    IN  AddAll(bal, tx.vpubOld)

\* IsBlockValueValid(nHeight, block, nExpectedValue) for the coinbase tx.
\* With SPORK_13 on, a not-synced node accepts blocks whose height is in
\* the first 100 of a budget cycle, and a synced node accepts budget
\* payment blocks (the budget code is not part of the repository, so which
\* heights those are is an input, superblock). Otherwise the coinbase may
\* pay out at most the expected value; a GetValueOut that throws is not an
\* acceptance.
IsBlockValueValid(tx, nExpectedValue, spork13, superblock) ==
    IF spork13 /\ superblock THEN TRUE
    ELSE LET out == GetValueOut(tx) IN ~out.thrown /\ out.value <= nExpectedValue

-----------------------------------------------------------------------------
Seqs(n) == UNION {[1 .. k -> Amounts] : k \in 0 .. n}

Txs == [vout : Seqs(MaxOutputs), valueBalance : Amounts, vpubOld : Seqs(1)]

RECURSIVE SumSeq(_)
SumSeq(s) == IF s = <<>> THEN 0 ELSE Head(s) + SumSeq(Tail(s))

\* Reference: what the transaction takes from the transparent pool, as a
\* mathematical integer, and whether each part of it is a valid amount.
TakenOut(tx) == SumSeq(tx.vout) + (IF tx.valueBalance <= 0 THEN -tx.valueBalance ELSE 0)
                + SumSeq(tx.vpubOld)
PartsInRange(tx) ==
    /\ \A i \in DOMAIN tx.vout : MoneyRange(tx.vout[i])
    /\ tx.valueBalance <= 0 => MoneyRange(-tx.valueBalance)
    /\ \A i \in DOMAIN tx.vpubOld : MoneyRange(tx.vpubOld[i])

\* No inflation through the block-value check: whenever IsBlockValueValid
\* accepts a coinbase on the value path (not a superblock), every output,
\* the value the Sapling part takes and every vpub_old is a valid amount,
\* and their true sum, without wrap-around, is at most the expected value.
\* A negative output that offsets a larger one, or a sum that wraps past
\* 2^63, must make GetValueOut throw.
NoInflationAccepted ==
    \A tx \in Txs, expected \in {0, 1, MaxMoney} :
        IsBlockValueValid(tx, expected, FALSE, FALSE) =>
            PartsInRange(tx) /\ TakenOut(tx) <= expected

=============================================================================
