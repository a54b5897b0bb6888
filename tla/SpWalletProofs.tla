--------------------------- MODULE SpWalletProofs ---------------------------
(***************************************************************************)
(* Theorems about SpWallet, for any number of turns and transactions and   *)
(* any amounts.                                                            *)
(***************************************************************************)
EXTENDS SpWallet, FiniteSetTheorems, TLAPS

(* The arithmetic of a wallet. *)

\* Normalising a row gives a row whose balance is the sum of its buckets; it
\* never touches the paid bucket, and nothing of a row that was sound.
LEMMA NormalizeFacts ==
    ASSUME NEW r \in Row
    PROVE  /\ Normalize(r) \in Row
           /\ Normalize(r)["paid"] = r["paid"]
           /\ Normalize(r)["balance"] = Funds(Normalize(r))
           /\ r["balance"] = Funds(r) => Normalize(r) = r
<1>1. /\ r["paid"] \in Nat /\ r["bonus"] \in Nat /\ r["balance"] \in Nat
      /\ r = [c \in Column |-> r[c]]
  BY DEF Row, Column, Bucket
<1>2. CASE Legacy(r)
  BY <1>1, <1>2 DEF Normalize, Legacy, Funds, Row, Column, Bucket
<1>3. CASE ~Legacy(r)
  BY <1>1, <1>3 DEF Normalize, Legacy, Funds, Row, Column, Bucket
<1>4. QED
  BY <1>2, <1>3

\* What Credited writes for accepted deltas is a row that differs by these deltas.
LEMMA CreditedFacts ==
    ASSUME NEW r \in Row, NEW d \in Deltas,
           \A b \in Bucket : r[b] + d[b] >= 0
    PROVE  /\ Credited(r, d) \in Row
           /\ \A b \in Bucket : Credited(r, d)[b] = r[b] + d[b]
           /\ Credited(r, d)["balance"] = Funds(Credited(r, d))
<1>1. /\ \A b \in Bucket : r[b] \in Nat /\ d[b] \in Int
  BY DEF Row, Deltas, Column
<1>2. r["paid"] + d["paid"] \in Nat /\ r["bonus"] + d["bonus"] \in Nat
  BY <1>1 DEF Bucket
<1>3. QED
  BY <1>1, <1>2 DEF Credited, RowOf, Funds, Row, Column, Bucket

\* The zero deltas are deltas, and change nothing of a sound row.
LEMMA NoDeltaFacts ==
    /\ NoDelta \in Deltas
    /\ \A r \in Row : r["balance"] = Funds(r) => Credited(r, NoDelta) = r
<1>1. NoDelta \in Deltas
  BY DEF NoDelta, Deltas, Bucket
<1>2. ASSUME NEW r \in Row, r["balance"] = Funds(r)
      PROVE  Credited(r, NoDelta) = r
  <2>1. \A c \in Column : r[c] \in Nat
    BY DEF Row
  <2>2. \A c \in Column : Credited(r, NoDelta)[c] = r[c]
    BY <1>2, <2>1 DEF Credited, RowOf, NoDelta, Funds, Column, Bucket
  <2>3. QED
    BY <2>2 DEF Credited, RowOf, Row
<1>3. QED
  BY <1>1, <1>2

\* The deltas of a turn are deltas.
LEMMA DebitType ==
    ASSUME NEW r \in Row, NEW cost \in Nat
    PROVE  TurnDebit(r, cost) \in Deltas
  BY DEF TurnDebit, Deltas, Row, Column, Bucket

\* The row of a first-time player is a row, and a sound one.
LEMMA FreshRowFacts ==
    ASSUME NEW grant \in Nat
    PROVE  /\ FreshRow(grant) \in Row
           /\ FreshRow(grant)["paid"] = 0
           /\ FreshRow(grant)["bonus"] = grant
           /\ FreshRow(grant)["balance"] = Funds(FreshRow(grant))
  BY DEF FreshRow, Row, Funds, Column, Bucket
----------------------------------------------------------------------------
(* Types *)

\* The deltas an operation asks for are deltas, whatever row it loaded.
LEMMA WantedType ==
    ASSUME WalletConstants, TypeOK, NEW o \in Op, NEW r \in Row
    PROVE  Wanted(o, r) \in Deltas
<1> USE WalletConstants
<1>1. CASE o.kind = "turn_cost"
  BY <1>1, DebitType DEF Wanted
<1>2. CASE o.kind = "turn_refund"
  <2>1. TurnCost \in Int /\ Reversal(NoDelta) \in Deltas
    BY DEF Reversal, Deltas, NoDelta, Bucket
  <2>2. \A d \in Deltas : Reversal(d) \in Deltas
    BY DEF Reversal, Deltas
  <2>3. \A e \in ledger : e.change \in Deltas
    BY DEF TypeOK, Entry
  <2>4. InBucket("bonus", TurnCost) \in Deltas
    BY <2>1 DEF InBucket, NoDelta, Deltas, Bucket
  <2>5. RefundDelta(o.turn) \in Deltas
    BY <2>2, <2>3, <2>4 DEF RefundDelta, Debits
  <2>6. QED
    BY <1>2, <2>5 DEF Wanted
<1>3. CASE o.kind = "paid_purchase_grant"
  <2>0. o \in [kind : {"paid_purchase_grant"}, amount : Purchases]
    BY <1>3 DEF Op
  <2>1. o.amount \in Purchases
    BY <2>0
  <2>2. \A p \in Purchases : p \in Int
    BY DEF WalletConstants
  <2>3. QED
    BY <1>3, <2>1, <2>2 DEF Wanted, InBucket, NoDelta, Deltas, Bucket
<1>4. CASE o.kind = "admin_adjustment"
  <2>1. o.change[1] \in Bucket /\ o.change[2] \in Int
    BY <1>4 DEF Op, WalletConstants
  <2>2. QED
    BY <1>4, <2>1 DEF Wanted, InBucket, NoDelta, Deltas, Bucket
<1>5. CASE o.kind = "wallet"
  BY <1>5, NoDeltaFacts DEF Wanted
<1>6. QED
  BY <1>1, <1>2, <1>3, <1>4, <1>5 DEF Op

\* What Apply computes is a row whose balance is the sum of its buckets, and it
\* differs from the normalised row by exactly the deltas it books.
LEMMA ApplyFacts ==
    ASSUME WalletConstants, TypeOK, NEW t \in Tx, Apply(t)
    PROVE  /\ delta'[t] \in Deltas
           /\ draft'[t] \in Row
           /\ draft'[t] = Credited(Normalize(view[t]), delta'[t])
           /\ draft'[t]["balance"] = Funds(draft'[t])
           /\ \A b \in Bucket : draft'[t][b] = Normalize(view[t])[b] + delta'[t][b]
<1> DEFINE loaded == Normalize(view[t])
           wanted == Wanted(op[t], loaded)
           new == IF op[t].kind = "wallet" THEN loaded ELSE Credited(loaded, wanted)
<1>1. loaded \in Row /\ loaded["balance"] = Funds(loaded)
  BY NormalizeFacts DEF TypeOK
<1>2. wanted \in Deltas
  BY <1>1, WantedType DEF TypeOK
<1>3. draft'[t] = new /\ delta'[t] = wanted
  BY DEF Apply, TypeOK
<1>4. \A b \in Bucket : loaded[b] + wanted[b] >= 0
  <2>1. CASE op[t].kind = "wallet"
    BY <1>1, <2>1 DEF Wanted, NoDelta, Row, Column
  <2>2. CASE op[t].kind # "wallet"
    BY <2>2 DEF Apply, Refused, Accepts
  <2>3. QED
    BY <2>1, <2>2
<1>5. new = Credited(loaded, wanted)
  <2>1. CASE op[t].kind = "wallet"
    <3>1. wanted = NoDelta
      BY <2>1 DEF Wanted
    <3>2. QED
      BY <1>1, <2>1, <3>1, NoDeltaFacts
  <2>2. QED
    BY <2>1
<1>6. QED
  BY <1>1, <1>2, <1>3, <1>4, <1>5, CreditedFacts

\* A row with some of its columns replaced is a row.
LEMMA StoredType ==
    ASSUME TypeOK, NEW t \in Tx
    PROVE  Stored(t) \in Row
  BY DEF TypeOK, Stored, Row

\* The ledger rows a transaction inserts are ledger entries.
LEMMA InsertedType ==
    ASSUME WalletConstants, TypeOK, NEW t \in Tx
    PROVE  Inserted(t) \subseteq Entry
<1>1. InBucket("bonus", InitialBonus) \in Deltas
  BY WalletConstants DEF InBucket, NoDelta, Deltas, Bucket
<1>2. Signup(t) \in Entry
  BY <1>1 DEF Signup, Entry, Reason
<1>3. op[t].kind # "wallet" => EntryOf(t) \in Entry
  BY DEF EntryOf, Entry, Reason, TypeOK, Op
<1>4. QED
  BY <1>2, <1>3 DEF Inserted

\* The initial state is well typed.
LEMMA InitType == WalletConstants /\ Init => TypeOK
<1> SUFFICES ASSUME WalletConstants, Init PROVE TypeOK
  OBVIOUS
<1>1. FreshRow(0) \in Row /\ NoDelta \in Deltas
  BY FreshRowFacts, NoDeltaFacts
<1>2. QED
  BY <1>1 DEF Init, TypeOK, Op, Entry

\* Every step keeps every variable in its type; in particular no interleaving
\* makes a column of the account negative.
LEMMA NextType ==
    ASSUME WalletConstants, TypeOK, [Next]_vars
    PROVE  TypeOK'
<1> USE WalletConstants
<1>1. ASSUME NEW t \in Tx, NEW o \in Op, Begin(t, o) PROVE TypeOK'
  BY <1>1 DEF TypeOK, Begin, wallet
<1>2. ASSUME NEW t \in Tx, LoadAccount(t) PROVE TypeOK'
  BY <1>2 DEF TypeOK, LoadAccount, wallet
<1>3. ASSUME NEW t \in Tx, CreateAccount(t) PROVE TypeOK'
  <2>1. FreshRow(InitialBonus) \in Row
    BY FreshRowFacts DEF WalletConstants
  <2>2. QED
    BY <1>3, <2>1 DEF TypeOK, CreateAccount, wallet
<1>4. ASSUME NEW t \in Tx, LoseInsertRace(t) PROVE TypeOK'
  BY <1>4 DEF TypeOK, LoseInsertRace, wallet
<1>5. ASSUME NEW t \in Tx, Apply(t) PROVE TypeOK'
  <2>1. delta'[t] \in Deltas /\ draft'[t] \in Row
    BY <1>5, ApplyFacts
  <2>2. /\ draft' = [draft EXCEPT ![t] = draft'[t]]
        /\ delta' = [delta EXCEPT ![t] = delta'[t]]
    BY <1>5 DEF Apply, TypeOK
  <2>3. /\ draft' \in [Tx -> Row]
        /\ delta' \in [Tx -> Deltas]
    BY <2>1, <2>2 DEF TypeOK
  <2>4. lock' \in Tx \cup {None} /\ pc' = [pc EXCEPT ![t] = "commit"]
    BY <1>5 DEF Apply, TypeOK
  <2>5. UNCHANGED <<wallet, op, view, created, status>>
    BY <1>5 DEF Apply
  <2>6. QED
    BY <2>3, <2>4, <2>5 DEF TypeOK, wallet
<1>6. ASSUME NEW t \in Tx, RollBack(t) PROVE TypeOK'
  BY <1>6 DEF TypeOK, RollBack, wallet, local
<1>7. ASSUME NEW t \in Tx, Commit(t) PROVE TypeOK'
  <2>1. row' \in Row /\ ledger' \subseteq Entry
    BY <1>7, StoredType, InsertedType DEF Commit, TypeOK
  <2>2. booked' \in Deltas
    BY <1>7 DEF Commit, TypeOK, Deltas, WalletConstants
  <2>3. status' \in [Turns -> {"new", "charged", "kept", "refunded"}]
    BY <1>7 DEF Commit, TypeOK, Op
  <2>4. lost' \subseteq Column
    BY <1>7 DEF Commit, TypeOK, Dirty
  <2>5. /\ exists' = TRUE
        /\ pc' = [pc EXCEPT ![t] = "done"]
        /\ lock' \in Tx \cup {None}
        /\ UNCHANGED local
    BY <1>7 DEF Commit, TypeOK
  <2>6. QED
    BY <2>1, <2>2, <2>3, <2>4, <2>5 DEF TypeOK, local
<1>8. ASSUME NEW k \in Turns, Keep(k) PROVE TypeOK'
  BY <1>8 DEF TypeOK, Keep, wallet, local
<1>9. CASE UNCHANGED vars
  BY <1>9 DEF TypeOK, vars, wallet, local
<1>10. QED
  BY <1>1, <1>2, <1>3, <1>4, <1>5, <1>6, <1>7, <1>8, <1>9
     DEF Next, Finished, Refuse, Abort

\* TypeOK holds in every reachable state: the code's CHECK constraints on the
\* account can never fail.
THEOREM WalletTypeOK == Spec => []TypeOK
<1>1. Init => TypeOK
  BY InitType, WalletConstants
<1>2. TypeOK /\ [Next]_vars => TypeOK'
  BY NextType, WalletConstants
<1>3. QED
  BY <1>1, <1>2, PTL DEF Spec
----------------------------------------------------------------------------
(* The account against the ledger *)

\* What is known of a transaction on its way: one that inserted the account row
\* holds it, nobody else sees the row, and it works on a fresh copy; any other one
\* works on a committed row, whose balance is sound while nothing has been lost;
\* before the commit its draft differs from its copy by the deltas it books.
TxInv(t) ==
    /\ created[t] /\ Open(t) => lock = t /\ ~exists
    /\ pc[t] \in {"idle", "load", "insert"} => ~created[t]
    /\ pc[t] \in {"apply", "commit"} =>
         /\ ~created[t] => exists
         /\ created[t] => view[t] = FreshRow(InitialBonus)
         /\ lost = {} => view[t]["balance"] = Funds(view[t])
    /\ pc[t] = "commit" =>
         /\ draft[t]["balance"] = Funds(draft[t])
         /\ \A b \in Bucket : draft[t][b] = Normalize(view[t])[b] + delta[t][b]

BookInv ==
    /\ TypeOK
    /\ \A t \in Tx : TxInv(t)
    /\ ~exists => booked = NoDelta /\ lost = {}
    /\ BooksBalance

\* The bookkeeping invariant holds initially.
LEMMA InitBook == WalletConstants /\ Init => BookInv
<1> SUFFICES ASSUME WalletConstants, Init PROVE BookInv
  OBVIOUS
<1>1. TypeOK
  BY InitType
<1>2. \A t \in Tx : TxInv(t)
  BY DEF Init, TxInv, Open
<1>3. QED
  BY <1>1, <1>2 DEF Init, BookInv, BooksBalance

\* A sound account gives a sound copy.
LEMMA SoundCopy ==
    ASSUME BookInv, exists, lost = {}
    PROVE  row["balance"] = Funds(row)
  BY DEF BookInv, BooksBalance, TypeOK, RowOf, Funds, Column, Bucket, Deltas

\* The commit of a transaction keeps the account and the ledger together, column
\* by column, where it overwrites only values it had loaded.
LEMMA CommitBalances ==
    ASSUME WalletConstants, BookInv, NEW t \in Tx, Commit(t)
    PROVE  BooksBalance'
<1>1. /\ view[t] \in Row /\ draft[t] \in Row /\ delta[t] \in Deltas /\ row \in Row
      /\ booked \in Deltas /\ InitialBonus \in Nat
  BY DEF BookInv, TypeOK, WalletConstants
<1>2. /\ \A c \in Column : view[t][c] \in Nat /\ draft[t][c] \in Nat /\ row[c] \in Nat
      /\ \A b \in Bucket : delta[t][b] \in Int /\ booked[b] \in Int
  BY <1>1 DEF Row, Deltas
<1>3. pc[t] = "commit"
  BY DEF Commit
<1>4. /\ draft[t]["balance"] = Funds(draft[t])
      /\ \A b \in Bucket : draft[t][b] = Normalize(view[t])[b] + delta[t][b]
  BY <1>3 DEF BookInv, TxInv
<1>5. /\ Normalize(view[t])["paid"] = view[t]["paid"]
      /\ view[t]["balance"] = Funds(view[t]) => Normalize(view[t]) = view[t]
  BY <1>1, NormalizeFacts
<1>6. CASE created[t]
  <2>1. view[t] = FreshRow(InitialBonus) /\ ~exists
    BY <1>3, <1>6 DEF BookInv, TxInv, Open
  <2>2. booked = NoDelta /\ lost = {}
    BY <2>1 DEF BookInv
  <2>3. Normalize(view[t]) = view[t]
    BY <1>1, <1>5, <2>1, FreshRowFacts
  <2>4. /\ draft[t]["paid"] = delta[t]["paid"]
        /\ draft[t]["bonus"] = InitialBonus + delta[t]["bonus"]
    BY <1>1, <1>2, <1>4, <2>1, <2>3, FreshRowFacts DEF Bucket
  <2>5. row' = draft[t]
    BY <1>6 DEF Commit, Stored
  <2>6. /\ booked'["paid"] = delta[t]["paid"]
        /\ booked'["bonus"] = delta[t]["bonus"] + InitialBonus
    BY <1>2, <1>6, <2>2 DEF Commit, NoDelta, Bucket
  <2>7. \A c \in Column : draft[t][c] = RowOf(booked')[c]
    BY <1>2, <1>4, <2>4, <2>6 DEF RowOf, Funds, Column, Bucket
  <2>8. draft[t] = RowOf(booked')
    BY <1>1, <2>7 DEF RowOf, Row
  <2>9. QED
    BY <2>4, <2>5, <2>6, <2>8 DEF BooksBalance
<1>7. CASE ~created[t]
  <2>1. exists
    BY <1>3, <1>7 DEF BookInv, TxInv
  <2>2. /\ row' = [c \in Column |-> IF c \in Dirty(t) THEN draft[t][c] ELSE row[c]]
        /\ lost' = lost \cup {c \in Dirty(t) : row[c] # view[t][c]}
        /\ booked' = [b \in Bucket |-> booked[b] + delta[t][b]]
    BY <1>2, <1>7 DEF Commit, Stored
  <2>3. ASSUME "paid" \notin lost'
        PROVE  row'["paid"] = booked'["paid"]
    <3>1. row["paid"] = booked["paid"]
      BY <2>1, <2>2, <2>3 DEF BookInv, BooksBalance
    <3>2. "paid" \in Dirty(t) => row["paid"] = view[t]["paid"]
      BY <2>2, <2>3
    <3>3. "paid" \notin Dirty(t) => draft[t]["paid"] = view[t]["paid"]
      BY DEF Dirty, Column, Bucket
    <3>4. draft[t]["paid"] = view[t]["paid"] + delta[t]["paid"]
      BY <1>4, <1>5 DEF Bucket
    <3>5. row'["paid"] = row["paid"] + delta[t]["paid"]
      BY <1>2, <2>2, <3>2, <3>3, <3>4 DEF Column, Bucket
    <3>6. QED
      BY <2>2, <3>1, <3>5 DEF Bucket
  <2>4. ASSUME lost' = {}
        PROVE  row' = RowOf(booked')
    <3>1. lost = {} /\ \A c \in Dirty(t) : row[c] = view[t][c]
      BY <2>2, <2>4
    <3>2. row = RowOf(booked)
      BY <2>1, <3>1 DEF BookInv, BooksBalance
    <3>3. /\ view[t]["balance"] = Funds(view[t])
          /\ \A b \in Bucket : draft[t][b] = view[t][b] + delta[t][b]
      BY <1>3, <1>4, <1>5, <3>1 DEF BookInv, TxInv
    <3>4. \A b \in Bucket : row'[b] = row[b] + delta[t][b]
      <4>1. ASSUME NEW b \in Bucket PROVE row'[b] = row[b] + delta[t][b]
        <5>1. b \in Column
          BY DEF Column
        <5>2. CASE b \in Dirty(t)
          BY <1>2, <2>2, <3>1, <3>3, <5>1, <5>2
        <5>3. CASE b \notin Dirty(t)
          <6>1. draft[t][b] = view[t][b]
            BY <5>1, <5>3 DEF Dirty
          <6>2. delta[t][b] = 0
            BY <1>2, <3>3, <5>1, <6>1
          <6>3. QED
            BY <1>2, <2>2, <5>1, <5>3, <6>2
        <5>4. QED
          BY <5>2, <5>3
      <4>2. QED
        BY <4>1
    <3>5. draft[t]["balance"]
            = view[t]["balance"] + delta[t]["paid"] + delta[t]["bonus"]
      BY <1>2, <1>4, <3>3 DEF Funds, Bucket, Column
    <3>6. row'["balance"] = row["balance"] + delta[t]["paid"] + delta[t]["bonus"]
      <4>1. CASE "balance" \in Dirty(t)
        BY <1>2, <2>2, <3>1, <3>5, <4>1 DEF Column
      <4>2. CASE "balance" \notin Dirty(t)
        <5>1. draft[t]["balance"] = view[t]["balance"]
          BY <4>2 DEF Dirty, Column
        <5>2. delta[t]["paid"] + delta[t]["bonus"] = 0
          BY <1>2, <3>5, <5>1 DEF Column, Bucket
        <5>3. QED
          BY <1>2, <2>2, <4>2, <5>2 DEF Column, Bucket
      <4>3. QED
        BY <4>1, <4>2
    <3>7. \A c \in Column : row'[c] = RowOf(booked')[c]
      BY <1>2, <2>2, <3>2, <3>4, <3>6 DEF RowOf, Column, Bucket
    <3>8. QED
      BY <2>2, <3>7 DEF RowOf
  <2>5. QED
    BY <2>3, <2>4 DEF BooksBalance
<1>8. QED
  BY <1>6, <1>7

\* Steps that leave the account, the ledger and the history alone.
LEMMA KeepsBooks ==
    ASSUME BookInv, UNCHANGED wallet
    PROVE  (~exists => booked = NoDelta /\ lost = {})' /\ BooksBalance'
  BY DEF BookInv, BooksBalance, wallet, RowOf

\* Every step keeps the bookkeeping invariant.
LEMMA NextBook ==
    ASSUME WalletConstants, BookInv, [Next]_vars
    PROVE  BookInv'
<1> USE WalletConstants
<1>1. TypeOK /\ TypeOK'
  BY NextType DEF BookInv
<1>2. ASSUME NEW t \in Tx, NEW o \in Op, Begin(t, o) PROVE BookInv'
  <2>1. \A u \in Tx : TxInv(u)'
    BY <1>1, <1>2 DEF Begin, BookInv, TxInv, TypeOK, Open, wallet
  <2>2. QED
    BY <1>1, <1>2, <2>1, KeepsBooks DEF Begin, BookInv
<1>3. ASSUME NEW t \in Tx, LoadAccount(t) PROVE BookInv'
  <2>1. exists /\ lost = {} => row["balance"] = Funds(row)
    BY SoundCopy, <1>3 DEF BookInv
  <2>2. \A u \in Tx : TxInv(u)'
    BY <1>1, <1>3, <2>1 DEF LoadAccount, BookInv, TxInv, TypeOK, Open, wallet, Funds
  <2>3. QED
    BY <1>1, <1>3, <2>2, KeepsBooks DEF LoadAccount, BookInv
<1>4. ASSUME NEW t \in Tx, CreateAccount(t) PROVE BookInv'
  <2>1. FreshRow(InitialBonus)["balance"] = Funds(FreshRow(InitialBonus))
    BY FreshRowFacts DEF WalletConstants
  <2>2. \A u \in Tx : u # t => lock # u
    BY <1>4 DEF CreateAccount, WalletConstants
  <2>3. \A u \in Tx : TxInv(u)'
    BY <1>1, <1>4, <2>1, <2>2
       DEF CreateAccount, BookInv, TxInv, TypeOK, Open, wallet, Funds
  <2>4. QED
    BY <1>1, <1>4, <2>3, KeepsBooks DEF CreateAccount, BookInv
<1>5. ASSUME NEW t \in Tx, LoseInsertRace(t) PROVE BookInv'
  <2>1. lost = {} => row["balance"] = Funds(row)
    BY SoundCopy, <1>5 DEF LoseInsertRace, BookInv
  <2>2. \A u \in Tx : TxInv(u)'
    BY <1>1, <1>5, <2>1 DEF LoseInsertRace, BookInv, TxInv, TypeOK, Open, wallet, Funds
  <2>3. QED
    BY <1>1, <1>5, <2>2, KeepsBooks DEF LoseInsertRace, BookInv
<1>6. ASSUME NEW t \in Tx, Apply(t) PROVE BookInv'
  <2>1. /\ draft'[t]["balance"] = Funds(draft'[t])
        /\ \A b \in Bucket : draft'[t][b] = Normalize(view[t])[b] + delta'[t][b]
    BY <1>1, <1>6, ApplyFacts
  <2>2. /\ UNCHANGED <<wallet, op, view, created, status>>
        /\ pc[t] = "apply" /\ pc' = [pc EXCEPT ![t] = "commit"]
        /\ lock' = lock \/ (lock \in {None, t} /\ lock' = t)
        /\ \A u \in Tx : u # t => draft'[u] = draft[u] /\ delta'[u] = delta[u]
    BY <1>1, <1>6 DEF Apply, TypeOK
  <2>3. ASSUME NEW u \in Tx PROVE TxInv(u)'
    <3>1. CASE u = t
      <4>1. /\ TxInv(t) /\ pc'[t] = "commit"
            /\ view'[t] = view[t] /\ created'[t] = created[t] /\ exists' = exists
            /\ lost' = lost
        BY <1>1, <2>2 DEF BookInv, TypeOK, wallet
      <4>2. created[t] => lock' = t /\ ~exists'
        BY <2>2, <4>1 DEF TxInv, Open
      <4>3. (pc[t] = "apply") /\ Normalize(view'[t]) = Normalize(view[t])
        BY <2>2, <4>1
      <4>4. QED
        BY <2>1, <3>1, <4>1, <4>2, <4>3 DEF TxInv, Open, Funds
    <3>2. CASE u # t
      <4>1. /\ TxInv(u) /\ pc'[u] = pc[u] /\ view'[u] = view[u]
            /\ created'[u] = created[u] /\ exists' = exists /\ lost' = lost
            /\ draft'[u] = draft[u] /\ delta'[u] = delta[u]
        BY <1>1, <2>2, <3>2 DEF BookInv, TypeOK, wallet
      <4>2. lock = u => lock' = u
        BY <2>2, <3>2 DEF WalletConstants
      <4>3. QED
        BY <4>1, <4>2 DEF TxInv, Open, Funds, Normalize, Legacy
    <3>3. QED
      BY <3>1, <3>2
  <2>4. QED
    BY <1>1, <2>2, <2>3, KeepsBooks DEF BookInv
<1>7. ASSUME NEW t \in Tx, RollBack(t) PROVE BookInv'
  <2>1. \A u \in Tx : TxInv(u)'
    BY <1>1, <1>7 DEF RollBack, BookInv, TxInv, TypeOK, Open, wallet, local
  <2>2. QED
    BY <1>1, <1>7, <2>1, KeepsBooks DEF RollBack, BookInv
<1>8. ASSUME NEW t \in Tx, Commit(t) PROVE BookInv'
  <2>1. /\ pc[t] = "commit" /\ exists' /\ UNCHANGED local
        /\ pc' = [pc EXCEPT ![t] = "done"]
        /\ lock' = IF lock = t THEN None ELSE lock
        /\ lost' = {} => lost = {}
    BY <1>8 DEF Commit
  <2>2. \A u \in Tx : created[u] /\ Open(u) => u = t
    BY <2>1 DEF BookInv, TxInv, Open
  <2>3. ASSUME NEW u \in Tx PROVE TxInv(u)'
    BY <1>1, <2>1, <2>2
       DEF BookInv, TxInv, TypeOK, Open, local, Funds, Normalize, Legacy
  <2>4. BooksBalance'
    BY <1>8, CommitBalances
  <2>5. QED
    BY <1>1, <2>1, <2>3, <2>4 DEF BookInv
<1>9. ASSUME NEW k \in Turns, Keep(k) PROVE BookInv'
  <2>1. \A u \in Tx : TxInv(u)'
    BY <1>1, <1>9 DEF Keep, BookInv, TxInv, TypeOK, Open, wallet, local
  <2>2. QED
    BY <1>1, <1>9, <2>1, KeepsBooks DEF Keep, BookInv
<1>10. CASE UNCHANGED vars
  <2>1. \A u \in Tx : TxInv(u)'
    BY <1>1, <1>10 DEF vars, BookInv, TxInv, TypeOK, Open, wallet, local
  <2>2. QED
    BY <1>1, <1>10, <2>1, KeepsBooks DEF vars, BookInv
<1>11. QED
  BY <1>2, <1>3, <1>4, <1>5, <1>6, <1>7, <1>8, <1>9, <1>10
     DEF Next, Finished, Refuse, Abort

\* The account and the ledger agree, in every interleaving, unless a commit has
\* overwritten a value its transaction had not loaded.
THEOREM WalletBooksBalance == Spec => []BooksBalance
<1>1. Init => BookInv
  BY InitBook, WalletConstants
<1>2. BookInv /\ [Next]_vars => BookInv'
  BY NextBook, WalletConstants
<1>3. BookInv => BooksBalance
  BY DEF BookInv
<1>4. QED
  BY <1>1, <1>2, <1>3, PTL DEF Spec
----------------------------------------------------------------------------
(* The sign-up grant *)

Signups == {e \in ledger : e.reason = "bonus_grant_signup"}

\* The grant is there with the account, and only then.
GrantInv ==
    IF exists /\ InitialBonus # 0 THEN \E e : Signups = {e} ELSE Signups = {}

\* Only the transaction that has inserted the account adds a grant, as it commits.
LEMMA GrantStep ==
    ASSUME WalletConstants, BookInv, GrantInv, [Next]_vars
    PROVE  GrantInv'
<1>1. ASSUME UNCHANGED <<exists, ledger>> PROVE GrantInv'
  BY <1>1 DEF GrantInv, Signups
<1>2. ASSUME NEW t \in Tx, Commit(t) PROVE GrantInv'
  <2>1. /\ TxInv(t) /\ pc[t] = "commit" /\ op[t] \in Op
        /\ exists' /\ ledger' = ledger \cup Inserted(t)
    BY <1>2 DEF Commit, BookInv, TypeOK
  <2>2. EntryOf(t).reason # "bonus_grant_signup"
    BY <2>1 DEF EntryOf, Op
  <2>3. Signup(t).reason = "bonus_grant_signup"
    BY DEF Signup
  <2>4. Signups' = Signups \cup {e \in {Signup(t)} : created[t] /\ InitialBonus # 0}
    BY <2>1, <2>2, <2>3 DEF Signups, Inserted
  <2>5. CASE created[t]
    <3>1. ~exists
      BY <2>1, <2>5 DEF TxInv, Open
    <3>2. Signups = {}
      BY <3>1 DEF GrantInv
    <3>3. QED
      BY <2>1, <2>4, <2>5, <3>2 DEF GrantInv
  <2>6. CASE ~created[t]
    <3>1. exists
      BY <2>1, <2>6 DEF TxInv
    <3>2. QED
      BY <2>1, <2>4, <2>6, <3>1 DEF GrantInv
  <2>7. QED
    BY <2>5, <2>6
<1>3. (\E t \in Tx : Commit(t)) \/ UNCHANGED <<exists, ledger>>
  BY DEF Next, Begin, LoadAccount, CreateAccount, LoseInsertRace, Apply, Refuse, Abort,
         RollBack, Keep, Finished, vars, wallet
<1>4. QED
  BY <1>1, <1>2, <1>3

\* The sign-up grant is booked once, with the account, whoever wins the race to create
\* it and however the others end.
THEOREM WalletSignupOnce == Spec => []SignupOnce
<1>1. Init => BookInv /\ GrantInv
  BY InitBook, WalletConstants DEF Init, GrantInv, Signups
<1>2. BookInv /\ GrantInv /\ [Next]_vars => (BookInv /\ GrantInv)'
  BY NextBook, GrantStep, WalletConstants
<1>3. GrantInv => SignupOnce
  <2>1. SUFFICES ASSUME GrantInv PROVE SignupOnce
    OBVIOUS
  <2>2. CASE exists /\ InitialBonus # 0
    <3>1. PICK e : Signups = {e}
      BY <2>1, <2>2 DEF GrantInv
    <3>2. Cardinality(Signups) = 1
      BY <3>1, FS_Singleton
    <3>3. QED
      BY <2>2, <3>2 DEF SignupOnce, Signups
  <2>3. CASE ~(exists /\ InitialBonus # 0)
    <3>1. Cardinality(Signups) = 0
      BY <2>1, <2>3, FS_EmptySet DEF GrantInv
    <3>2. QED
      BY <2>3, <3>1 DEF SignupOnce, Signups
  <2>4. QED
    BY <2>2, <2>3
<1>4. QED
  BY <1>1, <1>2, <1>3, PTL DEF Spec
----------------------------------------------------------------------------
(* The charge of a turn *)

Refunds(k) == {e \in ledger : e.reason = "turn_refund" /\ e.turn = k}

Charging(t, k) == Open(t) /\ op[t].kind = "turn_cost" /\ op[t].turn = k
Refunding(t, k) == Open(t) /\ op[t].kind = "turn_refund" /\ op[t].turn = k

\* What a transaction about a turn finds, and will book.
TurnTx(t, k) ==
    /\ Charging(t, k) =>
         /\ status[k] = "new"
         /\ pc[t] = "commit" => NetDelta(delta[t]) = -TurnCost
    /\ Refunding(t, k) =>
         /\ status[k] = "charged"
         /\ pc[t] = "commit" => delta[t] = RefundDelta(k)

\* No two transactions charge, and no two refund the same turn.
Exclusive(t, u) ==
    \A k, j \in Turns : /\ Charging(t, k) /\ Charging(u, j) => t = u
                        /\ Refunding(t, k) /\ Refunding(u, k) => t = u

Charged(k) == \E d : Debits(k) = {d} /\ NetDelta(d.change) = -TurnCost
Refunded(k) ==
    \E e : Refunds(k) = {e} /\ \A d \in Debits(k) : e.change = Reversal(d.change)

Booking(k) ==
    /\ IF status[k] = "new" THEN Debits(k) = {} ELSE Charged(k)
    /\ IF status[k] = "refunded" THEN Refunded(k) ELSE Refunds(k) = {}

TurnInv ==
    /\ \A t \in Tx, k \in Turns : TurnTx(t, k)
    /\ \A t, u \in Tx : Exclusive(t, u)
    /\ \A k \in Turns : Booking(k)

\* A turn's debit is of the full cost, however it is split.
LEMMA DebitIsCost ==
    ASSUME WalletConstants, NEW r \in Row
    PROVE  NetDelta(TurnDebit(r, TurnCost)) = -TurnCost
<1>1. r["bonus"] \in Nat /\ TurnCost \in Nat
  BY DEF Row, Column, Bucket, WalletConstants
<1>2. QED
  BY <1>1 DEF NetDelta, TurnDebit, Bucket

\* Steps that leave the ledger and what became of the turns leave the bookings.
LEMMA SameBooking ==
    ASSUME TurnInv, UNCHANGED <<ledger, status>>
    PROVE  /\ \A k \in Turns : Booking(k)'
           /\ \A k : RefundDelta(k)' = RefundDelta(k)
BY DEF TurnInv, Booking, Charged, Refunded, Debits, Refunds, RefundDelta

\* A commit adds at most one debit or refund, that of its own turn.
LEMMA CommitAdds ==
    ASSUME WalletConstants, TypeOK, NEW t \in Tx, Commit(t), NEW k
    PROVE  /\ Debits(k)' = IF op[t].kind = "turn_cost" /\ op[t].turn = k
                           THEN Debits(k) \cup {EntryOf(t)} ELSE Debits(k)
           /\ Refunds(k)' = IF op[t].kind = "turn_refund" /\ op[t].turn = k
                            THEN Refunds(k) \cup {EntryOf(t)} ELSE Refunds(k)
<1>1. ledger' = ledger \cup Inserted(t) /\ op[t] \in Op
  BY DEF Commit, TypeOK
<1>2. Signup(t).reason \notin {"turn_cost", "turn_refund"}
  BY DEF Signup
<1>3. EntryOf(t).reason = op[t].kind
  BY DEF EntryOf
<1>4. op[t].kind \in {"turn_cost", "turn_refund"} => EntryOf(t).turn = op[t].turn
  BY DEF EntryOf
<1>5. QED
  BY <1>1, <1>2, <1>3, <1>4 DEF Debits, Refunds, Inserted

\* A step that books nothing keeps what is known, if the transaction it moves keeps it.
LEMMA QuietTurn ==
    ASSUME TypeOK, TurnInv, UNCHANGED <<ledger, status>>, NEW t \in Tx,
           \A k \in Turns : TurnTx(t, k)',
           \A u \in Tx \ {t} : /\ pc'[u] = pc[u] /\ op'[u] = op[u] /\ delta'[u] = delta[u]
                               /\ Exclusive(t, u)' /\ Exclusive(u, t)'
    PROVE  TurnInv'
<1>1. \A u \in Tx \ {t} : \A k \in Turns : TurnTx(u, k)'
  BY SameBooking DEF TurnInv, TurnTx, Charging, Refunding, Open, NetDelta
<1>2. \A u, w \in Tx \ {t} : Exclusive(u, w)'
  BY DEF TurnInv, Exclusive, Charging, Refunding, Open
<1>3. Exclusive(t, t)'
  BY DEF Exclusive
<1>4. QED
  BY <1>1, <1>2, <1>3, SameBooking DEF TurnInv

\* The commit of a charge or a refund changes what became of its own turn only.
LEMMA CommitTurn ==
    ASSUME WalletConstants, TypeOK, TurnInv, NEW t \in Tx, Commit(t)
    PROVE  TurnInv'
<1>1. /\ pc[t] = "commit" /\ pc' = [pc EXCEPT ![t] = "done"] /\ UNCHANGED local
      /\ op[t] \in Op /\ pc \in [Tx -> {"idle", "load", "insert", "apply", "commit", "done"}]
      /\ status \in [Turns -> {"new", "charged", "kept", "refunded"}]
      /\ status' = CASE op[t].kind = "turn_cost"   -> [status EXCEPT ![op[t].turn] = "charged"]
                     [] op[t].kind = "turn_refund" -> [status EXCEPT ![op[t].turn] = "refunded"]
                     [] OTHER                      -> status
  BY DEF Commit, TypeOK
<1>2. op[t].kind \in {"turn_cost", "turn_refund"} => op[t].turn \in Turns
  BY <1>1 DEF Op
<1>3. Open(t) /\ ~Open(t)' /\ \A u \in Tx \ {t} : (Open(u)' <=> Open(u)) /\ pc'[u] = pc[u]
  BY <1>1 DEF Open
<1>4. \A u \in Tx, k \in Turns : /\ Charging(u, k)' => Charging(u, k) /\ u # t
                                 /\ Refunding(u, k)' => Refunding(u, k) /\ u # t
  BY <1>1, <1>3 DEF Charging, Refunding, local
<1>5. \A u, w \in Tx : Exclusive(u, w)'
  BY <1>4 DEF TurnInv, Exclusive
\* The turns that are not its own.
<1>6. ASSUME NEW k \in Turns, ~Charging(t, k), ~Refunding(t, k)
      PROVE  Booking(k)' /\ \A u \in Tx : TurnTx(u, k)'
  <2>1. ~(op[t].kind \in {"turn_cost", "turn_refund"} /\ op[t].turn = k)
    BY <1>3, <1>6 DEF Charging, Refunding
  <2>2. status'[k] = status[k]
    BY <1>1, <1>2, <2>1
  <2>3. Debits(k)' = Debits(k) /\ Refunds(k)' = Refunds(k)
    BY <2>1, CommitAdds
  <2>4. Booking(k)
    BY DEF TurnInv
  <2>5. Booking(k)'
    BY <2>2, <2>3, <2>4 DEF Booking, Charged, Refunded
  <2>6. RefundDelta(k)' = RefundDelta(k)
    BY <2>3 DEF RefundDelta
  <2>7. ASSUME NEW u \in Tx PROVE TurnTx(u, k)'
    <3>1. TurnTx(u, k)
      BY DEF TurnInv
    <3>2. u # t => pc'[u] = pc[u]
      BY <1>3
    <3>3. delta' = delta
      BY <1>1 DEF local
    <3>4. QED
      BY <1>4, <2>2, <2>6, <3>1, <3>2, <3>3 DEF TurnTx, NetDelta
  <2>8. QED
    BY <2>5, <2>7
\* Its own turn.
<1>7. ASSUME NEW k \in Turns, Charging(t, k)
      PROVE  Booking(k)' /\ \A u \in Tx : TurnTx(u, k)'
  <2>1. TurnTx(t, k) /\ op[t].kind = "turn_cost" /\ op[t].turn = k
    BY <1>7 DEF TurnInv, Charging
  <2>2. status[k] = "new" /\ NetDelta(delta[t]) = -TurnCost
    BY <1>1, <1>7, <2>1 DEF TurnTx
  <2>3. Debits(k) = {} /\ Refunds(k) = {}
    BY <2>2 DEF TurnInv, Booking
  <2>4. EntryOf(t).change = delta[t]
    BY DEF EntryOf
  <2>5. Debits(k)' = {EntryOf(t)} /\ Refunds(k)' = {}
    BY <2>1, <2>3, CommitAdds
  <2>6. status'[k] = "charged"
    BY <1>1, <2>1
  <2>7. PICK d : d = EntryOf(t)
    OBVIOUS
  <2>8. Charged(k)'
    BY <2>2, <2>4, <2>5, <2>7 DEF Charged
  <2>9. Booking(k)'
    BY <2>5, <2>6, <2>8 DEF Booking
  <2>10. \A u \in Tx \ {t} : ~Charging(u, k) /\ ~Refunding(u, k)
    BY <1>7, <2>2 DEF TurnInv, Exclusive, TurnTx
  <2>11. \A u \in Tx : TurnTx(u, k)'
    BY <1>4, <2>10 DEF TurnTx
  <2>12. QED
    BY <2>9, <2>11
<1>8. ASSUME NEW k \in Turns, Refunding(t, k)
      PROVE  Booking(k)' /\ \A u \in Tx : TurnTx(u, k)'
  <2>1. TurnTx(t, k) /\ op[t].kind = "turn_refund" /\ op[t].turn = k
    BY <1>8 DEF TurnInv, Refunding
  <2>2. status[k] = "charged" /\ delta[t] = RefundDelta(k)
    BY <1>1, <1>8, <2>1 DEF TurnTx
  <2>3. Charged(k) /\ Refunds(k) = {}
    BY <2>2 DEF TurnInv, Booking
  <2>4. PICK d : Debits(k) = {d} /\ NetDelta(d.change) = -TurnCost
    BY <2>3 DEF Charged
  <2>5. EntryOf(t).change = Reversal(d.change)
    BY <2>2, <2>4 DEF EntryOf, RefundDelta
  <2>6. PICK e : e = EntryOf(t)
    OBVIOUS
  <2>7. Debits(k)' = {d} /\ Refunds(k)' = {e}
    BY <2>1, <2>3, <2>4, <2>6, CommitAdds
  <2>8. status'[k] = "refunded"
    BY <1>1, <2>1
  <2>9. Charged(k)' /\ Refunded(k)'
    BY <2>4, <2>5, <2>6, <2>7 DEF Charged, Refunded
  <2>10. Booking(k)'
    BY <2>8, <2>9 DEF Booking
  <2>11. \A u \in Tx \ {t} : ~Charging(u, k) /\ ~Refunding(u, k)
    BY <1>8, <2>2 DEF TurnInv, Exclusive, TurnTx
  <2>12. \A u \in Tx : TurnTx(u, k)'
    BY <1>4, <2>11 DEF TurnTx
  <2>13. QED
    BY <2>10, <2>12
<1>9. QED
  BY <1>5, <1>6, <1>7, <1>8 DEF TurnInv

LEMMA TurnStep ==
    ASSUME WalletConstants, TypeOK, TurnInv, [Next]_vars
    PROVE  TurnInv'
<1>. USE WalletConstants
<1>1. /\ pc \in [Tx -> {"idle", "load", "insert", "apply", "commit", "done"}]
      /\ op \in [Tx -> Op] /\ delta \in [Tx -> Deltas] /\ view \in [Tx -> Row]
      /\ status \in [Turns -> {"new", "charged", "kept", "refunded"}]
  BY DEF TypeOK
<1>2. ASSUME NEW t \in Tx, NEW o \in Op, Begin(t, o) PROVE TurnInv'
  <2>1. /\ pc[t] = "idle" /\ pc' = [pc EXCEPT ![t] = "load"] /\ op' = [op EXCEPT ![t] = o]
        /\ MayBegin(o) /\ UNCHANGED <<ledger, status, delta>>
    BY <1>2 DEF Begin, wallet
  <2>2. \A u \in Tx \ {t} : pc'[u] = pc[u] /\ op'[u] = op[u] /\ delta'[u] = delta[u]
    BY <1>1, <2>1
  <2>3. pc'[t] = "load" /\ op'[t] = o /\ ~Open(t)
    BY <1>1, <2>1 DEF Open
  <2>4. ASSUME NEW k \in Turns PROVE TurnTx(t, k)'
    BY <2>1, <2>3 DEF TurnTx, Charging, Refunding, MayBegin
  <2>5. ASSUME NEW u \in Tx \ {t} PROVE Exclusive(t, u)' /\ Exclusive(u, t)'
    <3>1. o.kind = "turn_cost" => ~(Open(u) /\ op[u].kind = "turn_cost")
      BY <2>1 DEF MayBegin, DebitOpen
    <3>2. o.kind = "turn_refund" =>
              ~(Open(u) /\ op[u].kind = "turn_refund" /\ op[u].turn = o.turn)
      BY <2>1 DEF MayBegin, Pending
    <3>3. QED
      BY <2>2, <2>3, <3>1, <3>2 DEF Exclusive, Charging, Refunding, Open
  <2>6. QED
    BY <2>1, <2>2, <2>4, <2>5, QuietTurn
\* A transaction moves on, or ends, without a booking.
<1>3. ASSUME NEW t \in Tx, UNCHANGED <<ledger, status, op>>,
             Open(t) \/ ~Open(t)',
             \A u \in Tx \ {t} : pc'[u] = pc[u] /\ delta'[u] = delta[u],
             \A k \in Turns : TurnTx(t, k)'
      PROVE  TurnInv'
  <2>1. \A u \in Tx \ {t} : Exclusive(t, u)' /\ Exclusive(u, t)'
    BY <1>3 DEF TurnInv, Exclusive, Charging, Refunding, Open
  <2>2. QED
    BY <1>3, <2>1, QuietTurn
<1>4. ASSUME NEW t \in Tx, LoadAccount(t) \/ CreateAccount(t) \/ LoseInsertRace(t)
      PROVE  TurnInv'
  <2>1. /\ pc[t] \in {"load", "insert"} /\ UNCHANGED <<ledger, status, op, delta>>
        /\ pc' = [pc EXCEPT ![t] = "apply"] \/ pc' = [pc EXCEPT ![t] = "insert"]
    BY <1>4 DEF LoadAccount, CreateAccount, LoseInsertRace, wallet
  <2>2. Open(t) /\ Open(t)' /\ pc'[t] # "commit" /\ \A u \in Tx \ {t} : pc'[u] = pc[u]
    BY <1>1, <2>1 DEF Open
  <2>3. \A k \in Turns : TurnTx(t, k)'
    BY <2>1, <2>2 DEF TurnInv, TurnTx, Charging, Refunding
  <2>4. QED
    BY <1>3, <2>1, <2>2, <2>3
<1>5. ASSUME NEW t \in Tx, Apply(t) PROVE TurnInv'
  <2>1. /\ pc[t] = "apply" /\ pc' = [pc EXCEPT ![t] = "commit"]
        /\ delta' = [delta EXCEPT ![t] = Wanted(op[t], Normalize(view[t]))]
        /\ UNCHANGED <<ledger, status, op>>
    BY <1>5 DEF Apply, wallet
  <2>2. /\ Open(t) /\ Open(t)' /\ pc'[t] = "commit"
        /\ delta'[t] = Wanted(op[t], Normalize(view[t]))
        /\ \A u \in Tx \ {t} : pc'[u] = pc[u] /\ delta'[u] = delta[u]
    BY <1>1, <2>1 DEF Open
  <2>3. ASSUME NEW k \in Turns PROVE TurnTx(t, k)'
    <3>1. TurnTx(t, k)
      BY DEF TurnInv
    <3>2. Normalize(view[t]) \in Row
      BY <1>1, NormalizeFacts
    <3>3. Charging(t, k) => NetDelta(delta'[t]) = -TurnCost
      BY <2>2, <3>2, DebitIsCost DEF Charging, Wanted
    <3>4. Refunding(t, k) => delta'[t] = RefundDelta(k)
      BY <2>2 DEF Refunding, Wanted
    <3>5. RefundDelta(k)' = RefundDelta(k)
      BY <2>1, SameBooking
    <3>6. QED
      BY <2>1, <2>2, <3>1, <3>3, <3>4, <3>5 DEF TurnTx, Charging, Refunding, NetDelta
  <2>4. QED
    BY <1>3, <2>1, <2>2, <2>3
<1>6. ASSUME NEW t \in Tx, RollBack(t) PROVE TurnInv'
  <2>1. ~Open(t)' /\ \A u \in Tx \ {t} : pc'[u] = pc[u] /\ delta'[u] = delta[u]
    BY <1>1, <1>6 DEF RollBack, Open, local
  <2>2. UNCHANGED <<ledger, status, op>>
    BY <1>6 DEF RollBack, wallet, local
  <2>3. \A k \in Turns : TurnTx(t, k)'
    BY <2>1 DEF TurnTx, Charging, Refunding
  <2>4. QED
    BY <1>3, <2>1, <2>2, <2>3
<1>7. ASSUME NEW k \in Turns, Keep(k) PROVE TurnInv'
  <2>1. /\ status[k] = "charged" /\ status' = [status EXCEPT ![k] = "kept"]
        /\ UNCHANGED <<ledger, pc, op, delta>> /\ ~Pending(k, "turn_refund")
    BY <1>7 DEF Keep, wallet, local
  <2>2. \A t \in Tx : ~Charging(t, k) /\ ~Refunding(t, k)
    BY <2>1 DEF TurnInv, TurnTx, Charging, Refunding, Pending
  <2>3. \A j : Debits(j)' = Debits(j) /\ Refunds(j)' = Refunds(j)
               /\ RefundDelta(j)' = RefundDelta(j)
    BY <2>1 DEF Debits, Refunds, RefundDelta
  <2>4. status'[k] = "kept" /\ \A j \in Turns \ {k} : status'[j] = status[j]
    BY <1>1, <2>1
  <2>5. ASSUME NEW j \in Turns PROVE Booking(j)'
    <3>1. Booking(j)
      BY DEF TurnInv
    <3>2. QED
      BY <2>1, <2>3, <2>4, <3>1 DEF Booking, Charged, Refunded
  <2>6. ASSUME NEW t \in Tx, NEW j \in Turns PROVE TurnTx(t, j)'
    <3>1. TurnTx(t, j)
      BY DEF TurnInv
    <3>2. QED
      BY <2>1, <2>2, <2>3, <2>4, <3>1 DEF TurnTx, Charging, Refunding, Open, NetDelta
  <2>7. \A t, u \in Tx : Exclusive(t, u)'
    BY <2>1 DEF TurnInv, Exclusive, Charging, Refunding, Open
  <2>8. QED
    BY <2>5, <2>6, <2>7 DEF TurnInv
<1>8. CASE UNCHANGED vars
  <2>1. UNCHANGED <<ledger, status, pc, op, delta>>
    BY <1>8 DEF vars, wallet, local
  <2>2. \A t \in Tx, k \in Turns : TurnTx(t, k)'
    BY <2>1, SameBooking DEF TurnInv, TurnTx, Charging, Refunding, Open, NetDelta
  <2>3. \A t, u \in Tx : Exclusive(t, u)'
    BY <2>1 DEF TurnInv, Exclusive, Charging, Refunding, Open
  <2>4. QED
    BY <2>1, <2>2, <2>3, SameBooking DEF TurnInv
<1>9. QED
  BY <1>2, <1>4, <1>5, <1>6, <1>7, <1>8, CommitTurn DEF Next, Finished, Refuse, Abort

\* The ledger alone tells what became of a turn's charge, and a refund gives the same
\* amounts back to the same buckets.
THEOREM WalletTurnsBooked == Spec => []TurnsBooked
<1>1. Init => TypeOK /\ TurnInv
  <2>1. SUFFICES ASSUME Init PROVE TurnInv
    BY InitType, WalletConstants
  <2>2. \A t \in Tx : ~Open(t)
    BY <2>1 DEF Init, Open
  <2>3. QED
    BY <2>1, <2>2 DEF Init, TurnInv, TurnTx, Exclusive, Charging, Refunding, Booking, Debits, Refunds
<1>2. TypeOK /\ TurnInv /\ [Next]_vars => (TypeOK /\ TurnInv)'
  BY NextType, TurnStep, WalletConstants
<1>3. TypeOK /\ TurnInv => TurnsBooked
  <2>1. SUFFICES ASSUME TypeOK, TurnInv, NEW k \in Turns PROVE TurnBooked(k)
    BY DEF TurnsBooked
  <2>2. Booking(k)
    BY <2>1 DEF TurnInv
  <2>3. Cardinality(Debits(k)) = IF status[k] = "new" THEN 0 ELSE 1
    BY <2>2, FS_EmptySet, FS_Singleton DEF Booking, Charged
  <2>4. Cardinality(Refunds(k)) = IF status[k] = "refunded" THEN 1 ELSE 0
    BY <2>2, FS_EmptySet, FS_Singleton DEF Booking, Refunded
  <2>5. \A d \in Debits(k) : NetDelta(d.change) = -TurnCost
    BY <2>2 DEF Booking, Charged
  <2>6. \A d \in Debits(k), r \in Refunds(k) : r.change = Reversal(d.change)
    BY <2>2 DEF Booking, Refunded
  <2>7. QED
    BY <2>3, <2>4, <2>5, <2>6 DEF TurnBooked, Refunds
<1>4. QED
  BY <1>1, <1>2, <1>3, PTL DEF Spec
=============================================================================
