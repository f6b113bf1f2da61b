---------------------------- MODULE AddressIndex ----------------------------
(***************************************************************************)
(* The address-index RPCs of src/rpc/misc.cpp (getaddressdeltas,          *)
(* getaddressbalance, getaddresstxids, getaddressutxos) over the indexes  *)
(* a short transaction history leaves behind.                              *)
(*                                                                         *)
(* A history is a sequence of transactions; transaction t is identified by *)
(* its position (its txhash and its place in the block, txindex), has a    *)
(* block height, spends a set of earlier unspent outputs and pays a        *)
(* sequence of outputs, each to an address with an amount. The address     *)
(* index and the address unspent index are what ConnectBlock writes for    *)
(* such a history (main.cpp, not part of the repository); GetAddressIndex  *)
(* and GetAddressUnspent read them. An address stands for its pair of      *)
(* hash and type: getIndexKey succeeds exactly for the addresses of Addrs, *)
(* and getAddressFromIndex cannot fail for a type getIndexKey produced.    *)
(***************************************************************************)
EXTENDS Integers, Sequences, FiniteSets, SequencesExt

CONSTANTS
    Addrs,       \* transparent (P2PKH or P2SH) addresses
    Invalid,     \* a string DecodeDestination does not accept
    OutputAmounts, \* output amounts
    MaxTx,       \* bound: transactions in a history
    MaxOuts      \* bound: outputs of a transaction

ASSUME Invalid \notin Addrs /\ MaxTx \in Nat \ {0} /\ MaxOuts \in Nat \ {0}

Outputs == UNION {[1 .. n -> [addr : Addrs, amount : OutputAmounts]] : n \in 1 .. MaxOuts}

OutpointsOf(h) == {<<t, o>> \in (1 .. Len(h)) \X (1 .. MaxOuts) : o <= Len(h[t].outs)}
SpentIn(h)     == UNION {h[t].spends : t \in 1 .. Len(h)}
UnspentIn(h)   == OutpointsOf(h) \ SpentIn(h)
Out(h, op)     == h[op[1]].outs[op[2]]
Tip(h)         == h[Len(h)].height

\* The histories of up to n transactions: each is in the block of the one
\* before or the next block, and spends outputs nothing spent before it.
RECURSIVE HistoriesOf(_)
HistoriesOf(n) ==
    IF n = 1 THEN {<<t>> : t \in [height : {1}, spends : {{}}, outs : Outputs]}
    ELSE LET prev == HistoriesOf(n - 1) IN
         prev \cup UNION {{Append(h, t) :
                             t \in [height : {Tip(h), Tip(h) + 1},
                                    spends : SUBSET UnspentIn(h),
                                    outs   : Outputs]} : h \in prev}

Histories == HistoriesOf(MaxTx)

\* The vin position of a spent outpoint, in a fixed order of the outpoints.
InputIndex(op) == (op[1] - 1) * MaxOuts + op[2]

\* ConnectBlock's address index: a credit per output, a debit per input,
\* keyed by (address, height, txindex, txhash, index, spending).
AddressIndexOf(h) ==
    {[addr |-> Out(h, op).addr, height |-> h[op[1]].height, tx |-> op[1],
      index |-> op[2], spending |-> FALSE, amount |-> Out(h, op).amount] : op \in OutpointsOf(h)}
    \cup
    {[addr |-> Out(h, op).addr, height |-> h[t].height, tx |-> t, index |-> InputIndex(op),
      spending |-> TRUE, amount |-> -Out(h, op).amount] : <<t, op>> \in
          {<<t, op>> \in (1 .. Len(h)) \X OutpointsOf(h) : op \in h[t].spends}}

\* The key order of CAddressIndexKey after the address.
KeyLess(x, y) ==
    \/ x.height < y.height
    \/ x.height = y.height /\ x.tx < y.tx
    \/ x.height = y.height /\ x.tx = y.tx /\ x.index < y.index
    \/ x.height = y.height /\ x.tx = y.tx /\ x.index = y.index /\ ~x.spending /\ y.spending

\* The elements of a finite set in the order Less.
SortedBy(S, Less(_, _)) ==
    [i \in 1 .. Cardinality(S) |-> CHOOSE e \in S : Cardinality({x \in S : Less(x, e)}) = i - 1]

\* GetAddressIndex: the entries of one address in key order, between the
\* heights start and end when both are positive.
GetAddressIndex(h, a, start, end) ==
    SortedBy({e \in AddressIndexOf(h) : e.addr = a /\ (start > 0 /\ end > 0 => e.height \in start .. end)},
             KeyLess)

\* GetAddressUnspent: the unspent outputs of one address, in key order.
GetAddressUnspent(h, a) ==
    SortedBy({[addr |-> Out(h, op).addr, tx |-> op[1], index |-> op[2], spending |-> FALSE,
               satoshis |-> Out(h, op).amount, height |-> h[op[1]].height] :
                  op \in {u \in UnspentIn(h) : Out(h, u).addr = a}}, KeyLess)

-----------------------------------------------------------------------------
\* An RPC parameter: an address string, an object with an "addresses"
\* array, or anything else.
Params == {[kind |-> "str", addrs |-> <<a>>] : a \in Addrs \cup {Invalid}}
          \cup {[kind |-> "obj", addrs |-> s] :
                   s \in UNION {[1 .. n -> Addrs \cup {Invalid}] : n \in 0 .. 2}}
          \cup {[kind |-> "other", addrs |-> <<>>]}

\* A thrown JSONRPCError.
Error == [ok |-> FALSE]

\* getAddressesFromParams with getIndexKey: the addresses in the order
\* given, duplicates kept, or an error for a non-string, non-object
\* parameter or any address that does not decode.
GetAddressesFromParams(p) ==
    IF p.kind = "other" \/ \E i \in DOMAIN p.addrs : p.addrs[i] = Invalid THEN Error
    ELSE [ok |-> TRUE, addrs |-> p.addrs]

\* The entries of every address of the list, appended in list order.
IndexOfAll(h, addrs, start, end) ==
    FlattenSeq([i \in 1 .. Len(addrs) |-> GetAddressIndex(h, addrs[i], start, end)])

RECURSIVE SumAmounts(_)
SumAmounts(s) == IF s = <<>> THEN 0 ELSE Head(s).amount + SumAmounts(Tail(s))

\* getaddressdeltas with "start" and "end" (se.given when both are
\* numbers) and chainInfo: the help text thrown for a parameter that is
\* not an object, the range checks, the index read, then the chain-range
\* check (only with chainInfo and a range).
GetAddressDeltas(h, p, se, chainInfo) ==
    LET start == IF se.given THEN se.start ELSE 0
        end   == IF se.given THEN se.end ELSE 0
        a     == GetAddressesFromParams(p)
    IN  IF p.kind # "obj" THEN Error
        ELSE IF se.given /\ (start <= 0 \/ end <= 0) THEN Error
        ELSE IF se.given /\ end < start THEN Error
        ELSE IF ~a.ok THEN Error
        ELSE IF chainInfo /\ start > 0 /\ end > 0 /\ (start > Tip(h) \/ end > Tip(h)) THEN Error
        ELSE [ok |-> TRUE, deltas |-> IndexOfAll(h, a.addrs, start, end)]

\* getaddressbalance: balance sums every delta, received the positive ones.
GetAddressBalance(h, p) ==
    LET a == GetAddressesFromParams(p) IN
    IF ~a.ok THEN Error
    ELSE LET all == IndexOfAll(h, a.addrs, 0, 0) IN
         [ok       |-> TRUE,
          balance  |-> SumAmounts(all),
          received |-> SumAmounts(SelectSeq(all, LAMBDA e : e.amount > 0))]

\* Insertion into a sequence sorted by height, after the equal heights
\* (one outcome std::sort may give; only the heights' order is specified).
RECURSIVE InsertByHeight(_, _)
InsertByHeight(x, s) ==
    IF s = <<>> \/ x.height < Head(s).height THEN <<x>> \o s
    ELSE <<Head(s)>> \o InsertByHeight(x, Tail(s))

RECURSIVE SortByHeight(_)
SortByHeight(s) == IF s = <<>> THEN s ELSE InsertByHeight(Last(s), SortByHeight(Front(s)))

\* getaddressutxos: the unspent outputs of every address of the list,
\* appended in list order, then sorted by height.
GetAddressUtxos(h, p) ==
    LET a == GetAddressesFromParams(p) IN
    IF ~a.ok THEN Error
    ELSE [ok |-> TRUE,
          utxos |-> SortByHeight(FlattenSeq([i \in 1 .. Len(a.addrs) |-> GetAddressUnspent(h, a.addrs[i])]))]

\* Variant: the single-address branch pushes every entry's txid.
GetAddressTxidsNoDedup(h, p, se) ==
    LET a     == GetAddressesFromParams(p)
        start == IF se.given THEN se.start ELSE 0
        end   == IF se.given THEN se.end ELSE 0
        all   == IF a.ok THEN IndexOfAll(h, a.addrs, start, end) ELSE <<>>
        pairs == {<<all[i].height, all[i].tx>> : i \in DOMAIN all}
        PairLess(x, y) == x[1] < y[1] \/ (x[1] = y[1] /\ x[2] < y[2])
    IN  IF ~a.ok THEN Error
        ELSE IF Len(a.addrs) > 1 THEN [ok |-> TRUE, txids |-> [i \in 1 .. Cardinality(pairs) |-> SortedBy(pairs, PairLess)[i][2]]]
        ELSE [ok |-> TRUE, txids |-> [i \in DOMAIN all |-> all[i].tx]]

\* getaddresstxids: start and end are used, unchecked, when both are
\* positive numbers. With several addresses the (height, txid) pairs go
\* through a std::set and come out in that order (txids compare as their
\* hex strings, an order the position of a transaction stands for here);
\* with one address a txid is pushed when its pair is first inserted.
GetAddressTxids(h, p, se) ==
    LET a     == GetAddressesFromParams(p)
        start == IF se.given THEN se.start ELSE 0
        end   == IF se.given THEN se.end ELSE 0
        all   == IF a.ok THEN IndexOfAll(h, a.addrs, start, end) ELSE <<>>
        pairs == {<<all[i].height, all[i].tx>> : i \in DOMAIN all}
        PairLess(x, y) == x[1] < y[1] \/ (x[1] = y[1] /\ x[2] < y[2])
        firsts == SelectSeq([i \in DOMAIN all |-> i],
                     LAMBDA i : \A j \in 1 .. i - 1 : <<all[j].height, all[j].tx>> # <<all[i].height, all[i].tx>>)
    IN  IF ~a.ok THEN Error
        ELSE IF Len(a.addrs) > 1 THEN [ok |-> TRUE, txids |-> [i \in 1 .. Cardinality(pairs) |-> SortedBy(pairs, PairLess)[i][2]]]
        ELSE [ok |-> TRUE, txids |-> [i \in DOMAIN firsts |-> all[firsts[i]].tx]]

-----------------------------------------------------------------------------
\* The start/end arguments tried: absent, in and out of the chain, zero,
\* negative and reversed.
Ranges == {[given |-> FALSE, start |-> 0, end |-> 0]}
          \cup [given : {TRUE}, start : -1 .. MaxTx + 1, end : -1 .. MaxTx + 1]

\* getaddresstxids lists every transaction once and in the order of its
\* height, for one address or several, with or without a range: also a
\* transaction that both spends from and pays to the address, which has
\* two entries in the index.
TxidsOnceInHeightOrder ==
    \A h \in Histories, p \in Params, se \in Ranges :
        LET r == GetAddressTxids(h, p, se) IN
        r.ok =>
            \A i, j \in DOMAIN r.txids :
                i < j => r.txids[i] # r.txids[j] /\ h[r.txids[i]].height <= h[r.txids[j]].height

=============================================================================
