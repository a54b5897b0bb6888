------------------------------ MODULE SpRules ------------------------------
(***************************************************************************)
(* The arithmetic of the execution budget (SP) of one player, as           *)
(* modules/economy_sp/service.py computes it.  A wallet has a paid and a   *)
(* bonus bucket; the account row also stores their total, "balance".       *)
(***************************************************************************)
EXTENDS Integers

Bucket == {"paid", "bonus"}
Column == Bucket \cup {"balance"}

\* An account row (SPAccount: three integer columns, each CHECKed >= 0) and
\* the two bucket deltas of a ledger entry.
Row == [Column -> Nat]
Deltas == [Bucket -> Int]
NoDelta == [b \in Bucket |-> 0]

Funds(row) == row["paid"] + row["bonus"]
NetDelta(d) == d["paid"] + d["bonus"]

\* The row whose buckets are given; its balance column is their sum.
RowOf(buckets) ==
    [c \in Column |-> IF c = "balance" THEN buckets["paid"] + buckets["bonus"]
                                       ELSE buckets[c]]

\* The row of a first-time player: the sign-up grant is all bonus.
FreshRow(grant) ==
    [c \in Column |-> IF c = "paid" THEN 0 ELSE grant]

\* _normalize_account_balance: a row with two empty buckets and a nonzero
\* balance predates the split of the balance, and becomes all bonus; otherwise
\* the balance is recomputed.
Legacy(row) == Funds(row) = 0 /\ row["balance"] # 0
Normalize(row) ==
    IF Legacy(row) THEN [row EXCEPT !["bonus"] = row["balance"]]
                   ELSE [row EXCEPT !["balance"] = Funds(row)]

\* The deltas of a turn: bonus first, then paid.
TurnDebit(row, cost) ==
    LET spent == IF row["bonus"] < cost THEN row["bonus"] ELSE cost
    IN  [b \in Bucket |-> IF b = "bonus" THEN -spent ELSE spent - cost]

\* The deltas that undo those of an entry.
Reversal(d) == [b \in Bucket |-> -d[b]]

\* One amount in one bucket, as purchases and adjustments are.
InBucket(bucket, amount) == [NoDelta EXCEPT ![bucket] = amount]

\* What _apply_bucket_deltas accepts (everything else raises before a write)
\* and the row it writes.
Accepts(row, d) ==
    /\ NetDelta(d) # 0
    /\ \A b \in Bucket : row[b] + d[b] >= 0
Credited(row, d) == RowOf([b \in Bucket |-> row[b] + d[b]])
=============================================================================
