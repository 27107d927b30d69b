----------------------------- MODULE OrderStore -----------------------------
(***************************************************************************)
(* The SQLite tables the purchase flow shares, and the methods of class    *)
(* Database that change them (database.py).  The bot, the mini app and the *)
(* web panel each hold a Database object of their own on the same file; a  *)
(* Database object is an "instance" here.  A method runs under the lock of *)
(* its instance (_get_conn), so methods of one instance never overlap, and *)
(* a method made of one statement is atomic for everybody.  A method that  *)
(* SELECTs and then UPDATEs is not atomic across instances: sqlite3 opens  *)
(* the transaction at the first data-changing statement, so another        *)
(* instance may write between the two.                                     *)
(***************************************************************************)
EXTENDS Integers, FiniteSets

CONSTANTS
    Users, NoUser,          \* telegram users, and "no user" (NULL)
    OrderIds, NoOrder,      \* ids the orders table can hand out, and NULL
    Configs, Stock,         \* ids of the bank rows of the one bank product,
                            \* and those already there at the start
    StartCredit,            \* wallet of every user at the start
    Instances,              \* Database objects open on the file
    Handlers, Nobody,       \* running requests, and "no request"
    Price,                  \* price of one unit of every product
    CodePercent, CodeValue, \* percent and fixed_amount of the one discount
                            \* code; the percentage goes first
    CodeActive,             \* it is active and has not expired
    MaxUses,                \* max_uses of the discount code, 0 for no limit
    MaxQty                  \* bound: largest quantity of an order

ASSUME StoreAssumption ==
    /\ NoUser \notin Users
    /\ OrderIds \subseteq Nat /\ IsFiniteSet(OrderIds) /\ NoOrder \notin OrderIds
    /\ Configs \subseteq Nat /\ IsFiniteSet(Configs) /\ Stock \subseteq Configs
    /\ StartCredit \in Nat
    /\ IsFiniteSet(Handlers) /\ Nobody \notin Handlers
    /\ Price \in Nat /\ CodePercent \in Nat /\ CodeValue \in Nat
    /\ CodeActive \in BOOLEAN
    /\ MaxUses \in Nat /\ MaxQty \in Nat \ {0}

Kinds == {"bank", "auto", "custom"}

Requests == [user : Users, kind : Kinds, qty : 1..MaxQty, code : BOOLEAN]
OrderRow == [user : Users, kind : Kinds, qty : 1..MaxQty, code : BOOLEAN,
             paid : Nat]

VARIABLES
    status,     \* orders.status, "none" for an id not yet handed out
    order,      \* the columns of an order that never change
    cfg,        \* configs.is_used; a row is absent, free, used or deleted
    owner,      \* configs.assigned_user_id
    cfgOrder,   \* configs.order_id
    rows,       \* orders that have a row in custom_configs
    credit,     \* users.referral_credit, the wallet
    usedCount,  \* discount_codes.used_count
    lock        \* the request that holds the lock of an instance in the
                \* middle of a method of several statements

tables == <<status, order, cfg, owner, cfgOrder, rows, credit, usedCount>>

NoRow == [user |-> NoUser, kind |-> "bank", qty |-> 1, code |-> FALSE,
          paid |-> 0]

StoreTypeOK ==
    /\ status \in [OrderIds -> {"none", "pending", "approved", "rejected"}]
    /\ order \in [OrderIds -> OrderRow \cup {NoRow}]
    /\ \A o \in OrderIds : status[o] # "none" => order[o] \in OrderRow
    /\ cfg \in [Configs -> {"absent", "free", "used", "deleted"}]
    /\ owner \in [Configs -> Users \cup {NoUser}]
    /\ cfgOrder \in [Configs -> OrderIds \cup {NoOrder}]
    /\ rows \in SUBSET OrderIds
    /\ credit \in [Users -> Nat]
    /\ usedCount \in Nat
    /\ lock \in [Instances -> Handlers \cup {Nobody}]

StoreInit ==
    /\ status = [o \in OrderIds |-> "none"]
    /\ order = [o \in OrderIds |-> NoRow]
    /\ cfg = [c \in Configs |-> IF c \in Stock THEN "free" ELSE "absent"]
    /\ owner = [c \in Configs |-> NoUser]
    /\ cfgOrder = [c \in Configs |-> NoOrder]
    /\ rows = {}
    /\ credit = [u \in Users |-> StartCredit]
    /\ usedCount = 0
    /\ lock = [i \in Instances |-> Nobody]

-----------------------------------------------------------------------------
(* Prices: base_price, the discount of the code and final_price.  A        *)
(* discount never exceeds the price; no amount goes below zero.            *)

Floor0(x) == IF x < 0 THEN 0 ELSE x
Lesser(a, b) == IF a < b THEN a ELSE b

BasePrice(r) == Price * r.qty
CodeAmount(p) == IF CodePercent > 0 THEN (p * CodePercent) \div 100
                 ELSE CodeValue
Discount(r) == IF r.code THEN Lesser(CodeAmount(BasePrice(r)), BasePrice(r))
               ELSE 0
AfterCode(r) == Floor0(BasePrice(r) - Discount(r))
FinalPrice(row) == Floor0(BasePrice(row) - row.paid - Discount(row))

(* Mutant: one use too many.                                                *)
UsesLeftAtCap == MaxUses = 0 \/ usedCount <= MaxUses

(* The discount code can still be used (is_discount_code_valid).           *)
UsesLeft == MaxUses = 0 \/ usedCount < MaxUses
CodeValid == CodeActive /\ UsesLeft

-----------------------------------------------------------------------------
(* Bank of configs.                                                        *)

Free == {c \in Configs : cfg[c] = "free"}

(* SELECT ... WHERE is_used = 0 ORDER BY id LIMIT n                         *)
Lowest(n) == {c \in Free : Cardinality({d \in Free : d < c}) < n}

(* UPDATE configs SET is_used = 1 ... WHERE id = ?, for each selected row.  *)
(* The statement does not look at is_used again, and matches nothing when   *)
(* the row has been deleted meanwhile.                                      *)
MarkUsed(S, u) ==
    LET hit == {c \in S : cfg[c] # "deleted"} IN
    /\ cfg' = [c \in Configs |-> IF c \in hit THEN "used" ELSE cfg[c]]
    /\ owner' = [c \in Configs |-> IF c \in hit THEN u ELSE owner[c]]

AddConfig(c) ==
    /\ cfg[c] = "absent"
    /\ cfg' = [cfg EXCEPT ![c] = "free"]

DeleteConfig(c) ==
    /\ cfg[c] = "free"
    /\ cfg' = [cfg EXCEPT ![c] = "deleted"]

-----------------------------------------------------------------------------
(* Orders, wallet and discount code.                                        *)

Fresh(o) ==
    /\ status[o] = "none"
    /\ \A p \in OrderIds : status[p] = "none" => o <= p

(* Mutant: create_order does not store wallet_used.                         *)
InsertOrderUnpaid(o, r, w) ==
    /\ Fresh(o)
    /\ status' = [status EXCEPT ![o] = "pending"]
    /\ order' = [order EXCEPT ![o] =
                    [user |-> r.user, kind |-> r.kind, qty |-> r.qty,
                     code |-> r.code, paid |-> 0]]

InsertOrder(o, r, w) ==
    /\ Fresh(o)
    /\ status' = [status EXCEPT ![o] = "pending"]
    /\ order' = [order EXCEPT ![o] =
                    [user |-> r.user, kind |-> r.kind, qty |-> r.qty,
                     code |-> r.code, paid |-> w]]

(* approve_order, approve_order_auto, approve_custom_config_order and the   *)
(* first statement of reject_order: UPDATE ... WHERE id = ?, whatever the   *)
(* status was.                                                              *)
SetStatus(o, s) == status' = [status EXCEPT ![o] = s]

(* The second statement of approve_order.                                   *)
LinkConfigs(o, S) ==
    cfgOrder' = [c \in Configs |->
                    IF c \in S /\ cfg[c] # "deleted" THEN o ELSE cfgOrder[c]]

(* Mutant: the wallet is not kept above zero.                               *)
AddCreditUnclamped(u, delta) ==
    credit' = [credit EXCEPT ![u] = @ + delta]

(* UPDATE ... SET referral_credit = MAX(referral_credit + delta, 0)         *)
AddCredit(u, delta) ==
    credit' = [credit EXCEPT ![u] = Floor0(@ + delta)]

IncrementUsage == usedCount' = usedCount + 1
DecrementUsage == usedCount' = Floor0(usedCount - 1)
=============================================================================
