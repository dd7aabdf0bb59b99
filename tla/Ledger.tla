-------------------------------- MODULE Ledger --------------------------------
(***************************************************************************)
(* The queries of internal/store over the transactions: address summaries, *)
(* address histories, resolved inputs, and the paginated list.  Each is an *)
(* operator over the tables of TxStore, that is, one statement.  Amounts   *)
(* are whole numbers; the float64 arithmetic of the code is exact on the   *)
(* sums of the instances.                                                  *)
(***************************************************************************)
EXTENDS TxStore, SequencesExt

CONSTANTS
    Addr,       \* the addresses
    NoAddr,     \* the address of an output that pays to none
    OutputsOf,  \* OutputsOf[t]: the sequence of outputs of t, [addr, amount]
    InputsOf,   \* InputsOf[t]: the outputs t spends, <<tx, vout>>; {} for a coinbase
    BlockTime,  \* BlockTime[b]: the time of block b
    PoolTime,   \* PoolTime[t]: the time of the mempool entry of t
    TxOrder     \* TxOrder[t]: the rank of the txid of t

Amount(o) == OutputsOf[o[1]][o[2]].amount
Owner(o) == OutputsOf[o[1]][o[2]].addr

Coins == UNION {{<<t, v>> : v \in DOMAIN OutputsOf[t]} : t \in Tx}

TotalValue(C) == MapThenSumSet(Amount, C)
ValueOut(t) == TotalValue({o \in Coins : o[1] = t})
ValueIn(t) == TotalValue(InputsOf[t])

(* No amount is negative, blocks and transactions are finite, and txids are *)
(* ordered.  Every chain is a valid ledger: an input spends an output       *)
(* created on the chain, not above it, and no output is spent twice.        *)
ASSUME LedgerAssumption ==
    /\ \A t \in Tx : /\ OutputsOf[t] \in Seq([addr : Addr \cup {NoAddr}, amount : Nat])
                     /\ InputsOf[t] \subseteq Coins /\ IsFiniteSet(InputsOf[t])
    /\ \A b \in Block : IsFiniteSet(TxsOf[b])
    /\ BlockTime \in [Block -> Nat] /\ PoolTime \in [Tx -> Nat] /\ TxOrder \in [Tx -> Nat]
    /\ \A s, t \in Tx : TxOrder[s] = TxOrder[t] => s = t
    /\ \A b \in Block, g, h \in Heights :
          /\ Ancestor[b][g] # NoBlock
          /\ Ancestor[b][h] # NoBlock
          => \A s \in TxsOf[Ancestor[b][g]], t \in TxsOf[Ancestor[b][h]] :
                s # t => InputsOf[s] \cap InputsOf[t] = {}
    /\ \A b \in Block : \A t \in TxsOf[b] : \A o \in InputsOf[t] :
          \E h \in 0..Height[b] : o[1] \in TxsOf[Ancestor[b][h]]

-----------------------------------------------------------------------------
(* AddressSummary *)

Stored == {o \in Coins : o[1] \in outs}

(* tx_inputs JOIN tx_outputs: one element for each input, so an output that *)
(* two stored transactions spend counts twice.                              *)
Spends(a) == {i \in txs \X Stored : i[2] \in InputsOf[i[1]] /\ Owner(i[2]) = a}

Received(a) == TotalValue({o \in Stored : Owner(o) = a})

(* A slip: inputs are joined on the transaction and not on the output.      *)
SentByTx(a) ==
    LET AmountOf(i) == Amount(i[2])
    IN  MapThenSumSet(AmountOf, {i \in txs \X Stored :
            Owner(i[2]) = a /\ \E o \in InputsOf[i[1]] : o[1] = i[2][1]})

Sent(a) ==
    LET AmountOf(i) == Amount(i[2]) IN MapThenSumSet(AmountOf, Spends(a))

Involved(a) == {o[1] : o \in {c \in Stored : Owner(c) = a}} \cup {i[1] : i \in Spends(a)}

TxCount(a) == Cardinality(Involved(a))

-----------------------------------------------------------------------------
(* Inputs and the fee of TxDetail *)

(* InputsFor: an input is resolved when the joined row has an address or an *)
(* amount; one without a row counts as 0.                                   *)
Resolved(o) == o \in Stored /\ (Owner(o) # NoAddr \/ Amount(o) > 0)

(* totalIn > tx.TotalOut only, so that a coinstake has no negative fee.     *)
Fee(resolvedAll, totalIn, t) ==
    IF resolvedAll /\ totalIn > ValueOut(t) THEN totalIn - ValueOut(t) ELSE 0

-----------------------------------------------------------------------------
(* The paginated list *)

RowTime(t) == IF t \in Mined THEN BlockTime[blocks[txHeight[t]]] ELSE PoolTime[t]

NewerThan(s, t) ==
    RowTime(s) > RowTime(t) \/ (RowTime(s) = RowTime(t) /\ TxOrder[s] > TxOrder[t])

(* ORDER BY pending first, time DESC, txid DESC                             *)
Before(s, t) ==
    IF s \in Mined <=> t \in Mined THEN NewerThan(s, t) ELSE s \notin Mined

(* Of a set of rows, the one that has i - 1 others before it.               *)
RowAt(S, Less(_, _), i) ==
    CHOOSE t \in S : Cardinality({s \in S : Less(s, t)}) = i - 1

InOrder(S, Less(_, _)) == [i \in 1..Cardinality(S) |-> RowAt(S, Less, i)]

ListedRows == InOrder(txs, Before)
AddressRows(a) == InOrder(Involved(a) \cap txs, NewerThan)

(* A slip: OFFSET counts from one.                                          *)
PageLate(rows, page, per) ==
    SubSeq(rows, (page - 1) * per + 2,
           IF page * per + 1 < Len(rows) THEN page * per + 1 ELSE Len(rows))

Page(rows, page, per) ==
    SubSeq(rows, (page - 1) * per + 1, IF page * per < Len(rows) THEN page * per ELSE Len(rows))

(* Slips: the last, partial page is not counted, or one is always added.    *)
TotalPagesFloor(count, per) == IF count \div per < 1 THEN 1 ELSE count \div per

TotalPagesOver(count, per) == count \div per + 1

TotalPages(count, per) ==
    IF (count + per - 1) \div per < 1 THEN 1 ELSE (count + per - 1) \div per

(* All pages, one after the other.                                          *)
Pages(rows, count, per) ==
    FlattenSeq([p \in 1..TotalPages(count, per) |-> Page(rows, p, per)])
=============================================================================
