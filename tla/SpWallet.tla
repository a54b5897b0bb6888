------------------------------ MODULE SpWallet ------------------------------
(***************************************************************************)
(* One player's SP account and ledger under concurrent database            *)
(* transactions at READ COMMITTED.                                         *)
(*                                                                         *)
(* A transaction loads the account row once (the ORM keeps that copy),     *)
(* computes the new buckets from the copy, flushes an UPDATE that sets to  *)
(* absolute values the columns that changed, which takes the row lock,     *)
(* inserts its ledger entry and commits.  No row is locked between the     *)
(* load and the flush and no version is compared.  Debits alone exclude    *)
(* each other: POST /turns runs them on the event loop without an await    *)
(* between the load and the commit.  Purchases, adjustments and wallet     *)
(* reads run in the server's thread pool, refunds in the turn workers.     *)
(***************************************************************************)
EXTENDS SpRules, FiniteSets

CONSTANTS
    Turns,          \* turn identifiers (planned_turn_id)
    Tx,             \* transactions, each used once
    None,           \* no transaction, no turn
    InitialBonus,   \* sp_initial_bonus_balance
    TurnCost,       \* free_text_turn_sp_cost
    Purchases,      \* amounts a player may buy
    Adjustments     \* <<bucket, amount>> pairs an operator may post

ASSUME WalletConstants ==
    /\ None \notin Tx \cup Turns
    /\ InitialBonus \in Nat
    /\ TurnCost \in Nat \ {0}
    /\ Purchases \subseteq Nat \ {0}
    /\ Adjustments \subseteq Bucket \X Int

VARIABLES
    exists,     \* the account row is committed
    row,        \* its committed columns (meaningful when it exists)
    ledger,     \* committed ledger entries
    lock,       \* the transaction whose uncommitted write holds the row
    pc,         \* where each transaction is
    op,         \* what it does
    view,       \* the row it loaded
    draft,      \* the row it computed
    delta,      \* the deltas of the ledger entry it inserted
    created,    \* it inserted the account row itself
    status,     \* what became of each turn's charge
    booked,     \* history: sum of the committed ledger entries, per bucket
    lost        \* history: columns where a commit overwrote a value it had not loaded

wallet == <<exists, row, ledger, booked, lost>>
local == <<op, view, draft, delta, created>>
vars == <<wallet, lock, pc, local, status>>

Reason == {"bonus_grant_signup", "turn_cost", "turn_refund",
           "paid_purchase_grant", "admin_adjustment"}
Op == [kind : {"wallet"}]
      \cup [kind : {"turn_cost", "turn_refund"}, turn : Turns]
      \cup [kind : {"paid_purchase_grant"}, amount : Purchases]
      \cup [kind : {"admin_adjustment"}, change : Adjustments]
Entry == [tx : Tx, reason : Reason, turn : Turns \cup {None}, change : Deltas]

Open(t) == pc[t] \notin {"idle", "done"}
Pending(k, kind) == \E t \in Tx : Open(t) /\ op[t].kind = kind /\ op[t].turn = k
DebitOpen == \E t \in Tx : Open(t) /\ op[t].kind = "turn_cost"
----------------------------------------------------------------------------
Init ==
    /\ exists = FALSE
    /\ row = FreshRow(0)
    /\ ledger = {}
    /\ lock = None
    /\ pc = [t \in Tx |-> "idle"]
    /\ op = [t \in Tx |-> [kind |-> "wallet"]]
    /\ view = [t \in Tx |-> FreshRow(0)]
    /\ draft = [t \in Tx |-> FreshRow(0)]
    /\ delta = [t \in Tx |-> NoDelta]
    /\ created = [t \in Tx |-> FALSE]
    /\ status = [k \in Turns |-> "new"]
    /\ booked = NoDelta
    /\ lost = {}

\* A request reaches its first use of the account.  A turn is debited by the
\* request that plans it, one at a time; it is refunded by its own worker, one
\* attempt at a time, as long as its job has not ended.
MayBegin(o) ==
    CASE o.kind = "turn_cost"   -> status[o.turn] = "new" /\ ~DebitOpen
      [] o.kind = "turn_refund" -> /\ status[o.turn] = "charged"
                                   /\ ~Pending(o.turn, "turn_refund")
      [] OTHER                  -> TRUE

Begin(t, o) ==
    /\ pc[t] = "idle"
    /\ MayBegin(o)
    /\ pc' = [pc EXCEPT ![t] = "load"]
    /\ op' = [op EXCEPT ![t] = o]
    /\ UNCHANGED <<wallet, lock, view, draft, delta, created, status>>

\* The SELECT of _ensure_account.
LoadAccount(t) ==
    /\ pc[t] = "load"
    /\ IF exists
       THEN /\ view' = [view EXCEPT ![t] = row]
            /\ pc' = [pc EXCEPT ![t] = "apply"]
       ELSE /\ pc' = [pc EXCEPT ![t] = "insert"]
            /\ UNCHANGED view
    /\ UNCHANGED <<wallet, lock, op, draft, delta, created, status>>

\* The INSERT in the savepoint succeeds; it waits for a concurrent INSERT of the
\* same key to commit or roll back.  The sign-up entry joins the transaction.
CreateAccount(t) ==
    /\ pc[t] = "insert"
    /\ ~exists
    /\ lock = None
    /\ lock' = t
    /\ created' = [created EXCEPT ![t] = TRUE]
    /\ view' = [view EXCEPT ![t] = FreshRow(InitialBonus)]
    /\ pc' = [pc EXCEPT ![t] = "apply"]
    /\ UNCHANGED <<wallet, op, draft, delta, status>>

\* Fault: the loser of the race books the sign-up grant as well.
LoseInsertRaceGrants(t) ==
    /\ pc[t] = "insert"
    /\ exists
    /\ view' = [view EXCEPT ![t] = row]
    /\ created' = [created EXCEPT ![t] = TRUE]
    /\ pc' = [pc EXCEPT ![t] = "apply"]
    /\ UNCHANGED <<wallet, lock, op, draft, delta, status>>

\* The INSERT meets a committed row: the savepoint rolls back and the row is read.
LoseInsertRace(t) ==
    /\ pc[t] = "insert"
    /\ exists
    /\ view' = [view EXCEPT ![t] = row]
    /\ pc' = [pc EXCEPT ![t] = "apply"]
    /\ UNCHANGED <<wallet, lock, op, draft, delta, created, status>>

\* The deltas the operation asks for, from the loaded row.  A refund looks its
\* turn's debit up in the ledger and reverses it bucket by bucket, or gives the
\* cost as bonus when there is none.
Debits(k) == {e \in ledger : e.reason = "turn_cost" /\ e.turn = k}
RefundAsBonus(k) == InBucket("bonus", TurnCost)   \* Fault: forgets the buckets.
RefundDelta(k) ==
    IF Debits(k) # {} THEN Reversal((CHOOSE e \in Debits(k) : TRUE).change)
                      ELSE InBucket("bonus", TurnCost)

Wanted(o, loaded) ==
    CASE o.kind = "turn_cost"           -> TurnDebit(loaded, TurnCost)
      [] o.kind = "turn_refund"         -> RefundDelta(o.turn)
      [] o.kind = "paid_purchase_grant" -> InBucket("paid", o.amount)
      [] o.kind = "admin_adjustment"    -> InBucket(o.change[1], o.change[2])
      [] OTHER                          -> NoDelta

\* The operation is refused before anything is written (409 or 422).
Refused(o, loaded) ==
    \/ o.kind = "turn_cost" /\ Funds(loaded) < TurnCost
    \/ o.kind # "wallet" /\ ~Accepts(loaded, Wanted(o, loaded))

\* Columns the ORM puts in the UPDATE: those whose value changed since the load.
Dirty(t) == {c \in Column : draft[t][c] # view[t][c]}

\* The computation and the flush; a wallet read only normalises the row.  The
\* UPDATE waits for the row lock, and is not sent when no column changed.
Apply(t) ==
    LET loaded == Normalize(view[t])
        wanted == Wanted(op[t], loaded)
        new == IF op[t].kind = "wallet" THEN loaded ELSE Credited(loaded, wanted)
    IN  /\ pc[t] = "apply"
        /\ ~Refused(op[t], loaded)
        /\ IF new = view[t] THEN UNCHANGED lock
                            ELSE lock \in {None, t} /\ lock' = t
        /\ draft' = [draft EXCEPT ![t] = new]
        /\ delta' = [delta EXCEPT ![t] = wanted]
        /\ pc' = [pc EXCEPT ![t] = "commit"]
        /\ UNCHANGED <<wallet, op, view, created, status>>

\* The transaction ends without a trace: its row version, its entries and its
\* lock go.
RollBack(t) ==
    /\ pc' = [pc EXCEPT ![t] = "done"]
    /\ lock' = IF lock = t THEN None ELSE lock
    /\ UNCHANGED <<wallet, local, status>>

\* The request answers 409 or 422 and its session closes uncommitted.
Refuse(t) ==
    /\ pc[t] = "apply"
    /\ Refused(op[t], Normalize(view[t]))
    /\ RollBack(t)

\* Anything else in the transaction fails, or the server stops.
Abort(t) == Open(t) /\ RollBack(t)

Signup(t) ==
    [tx |-> t, reason |-> "bonus_grant_signup", turn |-> None,
     change |-> InBucket("bonus", InitialBonus)]
EntryOf(t) ==
    [tx |-> t, reason |-> op[t].kind, change |-> delta[t],
     turn |-> IF op[t].kind \in {"turn_cost", "turn_refund"} THEN op[t].turn ELSE None]

\* The ledger entries the transaction inserted: the sign-up grant when it created
\* the account (and the grant is not zero), and the operation's own.
Inserted(t) ==
    {e \in {Signup(t)} : created[t] /\ InitialBonus # 0}
    \cup {e \in {EntryOf(t)} : op[t].kind # "wallet"}

WholeRow(t) == draft[t]    \* Fault: the UPDATE sets every column.

\* The row once the columns in the UPDATE have their new values.
Stored(t) ==
    IF created[t] THEN draft[t]
    ELSE [c \in Column |-> IF c \in Dirty(t) THEN draft[t][c] ELSE row[c]]

Commit(t) ==
    /\ pc[t] = "commit"
    /\ pc' = [pc EXCEPT ![t] = "done"]
    /\ exists' = TRUE
    /\ row' = Stored(t)
    /\ ledger' = ledger \cup Inserted(t)
    /\ lock' = IF lock = t THEN None ELSE lock
    /\ status' =
         CASE op[t].kind = "turn_cost"   -> [status EXCEPT ![op[t].turn] = "charged"]
           [] op[t].kind = "turn_refund" -> [status EXCEPT ![op[t].turn] = "refunded"]
           [] OTHER                      -> status
    /\ booked' = [b \in Bucket |-> booked[b] + delta[t][b]
                    + (IF created[t] /\ b = "bonus" THEN InitialBonus ELSE 0)]
    /\ lost' = IF created[t] THEN lost
               ELSE lost \cup {c \in Dirty(t) : row[c] # view[t][c]}
    /\ UNCHANGED local

\* The turn's job ends without a refund: it succeeded, or failed technically.
Keep(k) ==
    /\ status[k] = "charged"
    /\ ~Pending(k, "turn_refund")
    /\ status' = [status EXCEPT ![k] = "kept"]
    /\ UNCHANGED <<wallet, lock, pc, local>>

Finished == (\A t \in Tx : pc[t] = "done") /\ UNCHANGED vars

Next ==
    \/ \E t \in Tx :
         \/ \E o \in Op : Begin(t, o)
         \/ LoadAccount(t) \/ CreateAccount(t) \/ LoseInsertRace(t)
         \/ Apply(t) \/ Refuse(t) \/ Abort(t) \/ Commit(t)
    \/ \E k \in Turns : Keep(k)
    \/ Finished

Spec == Init /\ [][Next]_vars
----------------------------------------------------------------------------
(* Properties *)

TypeOK ==
    /\ exists \in BOOLEAN
    /\ row \in Row
    /\ ledger \subseteq Entry
    /\ lock \in Tx \cup {None}
    /\ pc \in [Tx -> {"idle", "load", "insert", "apply", "commit", "done"}]
    /\ op \in [Tx -> Op]
    /\ view \in [Tx -> Row]
    /\ draft \in [Tx -> Row]
    /\ delta \in [Tx -> Deltas]
    /\ created \in [Tx -> BOOLEAN]
    /\ status \in [Turns -> {"new", "charged", "kept", "refunded"}]
    /\ booked \in Deltas
    /\ lost \subseteq Column

\* The sign-up grant is booked once, with the account, whoever wins the race to
\* create it and however the losers and the aborted creators end
\* (_ensure_account's savepoint).
SignupOnce ==
    Cardinality({e \in ledger : e.reason = "bonus_grant_signup"})
      = IF exists /\ InitialBonus # 0 THEN 1 ELSE 0

\* The ledger alone tells what became of a turn's charge: a charged turn has one
\* debit of the full cost, a refunded one has also the entry that gives the same
\* amounts back to the same buckets, whatever the wallet held in between
\* (refund_turn_cost).
TurnBooked(k) ==
    LET debits == Debits(k)
        refunds == {e \in ledger : e.reason = "turn_refund" /\ e.turn = k}
    IN  /\ Cardinality(debits) = IF status[k] = "new" THEN 0 ELSE 1
        /\ Cardinality(refunds) = IF status[k] = "refunded" THEN 1 ELSE 0
        /\ \A d \in debits : NetDelta(d.change) = -TurnCost
        /\ \A d \in debits, r \in refunds : r.change = Reversal(d.change)
TurnsBooked == \A k \in Turns : TurnBooked(k)

\* The account agrees with the ledger unless a commit overwrote a value it had
\* not loaded.  The paid bucket agrees as long as no such overwrite hit that
\* column, because an UPDATE sets only the columns that changed; the bonus
\* bucket needs the balance column intact as well, which _normalize_account_balance
\* turns into bonus when both buckets are empty.
BooksBalance ==
    exists =>
      /\ "paid" \notin lost => row["paid"] = booked["paid"]
      /\ lost = {} => row = RowOf(booked)
=============================================================================
