--------------------------- MODULE OrderHandlers ---------------------------
(***************************************************************************)
(* The life of an order across the three processes: a buyer's request in   *)
(* the bot (cb_buy_start, custom_config_receive_volume) or in the mini app *)
(* (api_create_order and the custom config endpoint), the verdict of an    *)
(* admin in the bot or in the web panel, the callback of a payment gateway *)
(* in the mini app, and the buyer who cancels.  A request is a handler     *)
(* with a program counter; it is interleaved with the others at every      *)
(* database call.  In the mini app the calls are made on the event loop    *)
(* itself, so its requests only interleave where they await a VPN panel.   *)
(*                                                                         *)
(* An interrupted request stops for good: the process died, or SQLite      *)
(* answered "database is locked" and the exception ended the handler.      *)
(***************************************************************************)
EXTENDS OrderStore

CONSTANTS
    InstOf,         \* the instance a handler belongs to: bot, mini or web
    Looped,         \* instances that call the database on the event loop
    Offered,        \* kinds of product on sale
    OnceNamed,      \* orders whose VPN panel takes a name once; the others
                    \* are made on Hiddify, where every user gets a new UUID
    Deltas,         \* changes an admin makes to a wallet
    MaxCredit,      \* bound: wallets an admin adjusts stay below
    MaxFailures     \* bound: requests that are interrupted

ASSUME HandlersAssumption ==
    /\ InstOf \in [Handlers -> Instances]
    /\ Offered \subseteq Kinds /\ OnceNamed \subseteq OrderIds
    /\ Deltas \subseteq Int /\ MaxCredit \in Nat /\ MaxFailures \in Nat

VARIABLES
    fsmOrder,   \* order_id in the bot conversation of a user
    fsmCode,    \* the conversation carries a discount code
    pc,         \* where a handler is
    role,       \* what it is: a purchase, a review or a cancellation
    req,        \* the purchase it was asked for
    paid,       \* wallet_used
    cur,        \* the order it works on
    sel         \* the rows take_unused_configs selected

(* History variables: they record what happened and guide no handler.       *)
VARIABLES
    granted,    \* credit a user was given, net of what an admin took back
    forfeited,  \* credit in the hands of a request that was interrupted
    burnt,      \* uses of the code in the hands of such a request
    stranded,   \* configs in the hands of such a request
    halted,     \* orders a request was interrupted on, and where it was
    failures,   \* interruptions so far
    refunded,   \* orders whose wallet part was given back
    made,       \* how many times an order was built on a VPN panel
    unlisted,   \* built orders not all of whose configs could be listed
    taken,      \* orders an instance marked a config used for
    handed,     \* orders a config was handed over for
    buyer       \* the last order a config was marked used for

fsm == <<fsmOrder, fsmCode>>
locals == <<pc, role, req, paid, cur, sel>>
history == <<granted, forfeited, burnt, stranded, halted, failures,
             refunded, made, unlisted, taken, handed, buyer>>
vars == <<tables, lock, fsm, locals, history>>

Labels == {"idle", "wallet", "deduct", "code", "create", "fsm", "take",
           "mark", "prov", "list", "approve", "record", "reject",
           "refund", "uncode", "again", "clear"}
Roles == {"none", "buy", "review", "cancel"}
NoReq == [user |-> NoUser, kind |-> "bank", qty |-> 1, code |-> FALSE]

TypeOK ==
    /\ StoreTypeOK
    /\ fsmOrder \in [Users -> OrderIds \cup {NoOrder}]
    /\ fsmCode \in [Users -> BOOLEAN]
    /\ pc \in [Handlers -> Labels]
    /\ role \in [Handlers -> Roles]
    /\ req \in [Handlers -> Requests \cup {NoReq}]
    /\ paid \in [Handlers -> Nat]
    /\ cur \in [Handlers -> OrderIds \cup {NoOrder}]
    /\ sel \in [Handlers -> SUBSET Configs]
    /\ granted \in [Users -> Int]
    /\ forfeited \in [Users -> Nat]
    /\ burnt \in Nat
    /\ stranded \in SUBSET Configs
    /\ halted \in SUBSET (OrderIds \X Labels)
    /\ failures \in 0..MaxFailures
    /\ refunded \in SUBSET OrderIds
    /\ made \in [OrderIds -> Nat]
    /\ unlisted \in SUBSET OrderIds
    /\ taken \in [Instances -> [Configs -> SUBSET OrderIds]]
    /\ handed \in [Configs -> SUBSET OrderIds]
    /\ buyer \in [Configs -> OrderIds \cup {NoOrder}]

Init ==
    /\ StoreInit
    /\ fsmOrder = [u \in Users |-> NoOrder]
    /\ fsmCode = [u \in Users |-> FALSE]
    /\ pc = [h \in Handlers |-> "idle"]
    /\ role = [h \in Handlers |-> "none"]
    /\ req = [h \in Handlers |-> NoReq]
    /\ paid = [h \in Handlers |-> 0]
    /\ cur = [h \in Handlers |-> NoOrder]
    /\ sel = [h \in Handlers |-> {}]
    /\ granted = credit
    /\ forfeited = [u \in Users |-> 0]
    /\ burnt = 0
    /\ stranded = {}
    /\ halted = {}
    /\ failures = 0
    /\ refunded = {}
    /\ made = [o \in OrderIds |-> 0]
    /\ unlisted = {}
    /\ taken = [i \in Instances |-> [c \in Configs |-> {}]]
    /\ handed = [c \in Configs |-> {}]
    /\ buyer = [c \in Configs |-> NoOrder]

-----------------------------------------------------------------------------
(* Scheduling.                                                              *)

(* The handler occupies the event loop of its process.                      *)
OnLoop(h) == InstOf[h] \in Looped /\ pc[h] \notin {"idle", "prov"}

(* No other request occupies the loop the handler runs on.                  *)
LoopFree(h) ==
    \A g \in Handlers \ {h} : InstOf[g] = InstOf[h] => ~OnLoop(g)

(* The handler can make its next call: _get_conn waits for the lock.        *)
Ready(h) == LoopFree(h) /\ lock[InstOf[h]] = Nobody

(* The admin endpoints that make one call only.                             *)
SomeLockFree == \E i \in Instances : lock[i] = Nobody

(* The handler goes on with its next call, or ends.                         *)
Continue(h, l) ==
    /\ pc' = [pc EXCEPT ![h] = l]
    /\ IF l = "idle"
       THEN /\ role' = [role EXCEPT ![h] = "none"]
            /\ req' = [req EXCEPT ![h] = NoReq]
            /\ paid' = [paid EXCEPT ![h] = 0]
            /\ cur' = [cur EXCEPT ![h] = NoOrder]
            /\ sel' = [sel EXCEPT ![h] = {}]
       ELSE UNCHANGED <<role, req, paid, cur, sel>>

(* The order a handler works on is paid in full by wallet and code.         *)
Covered(o) == FinalPrice(order[o]) = 0

IsBuyer(h) == role[h] = "buy"
KindOf(h) == order[cur[h]].kind
InBot(h) == InstOf[h] = "bot"
InMini(h) == InstOf[h] = "mini"

(* A fully covered purchase is fulfilled at once.  For a custom config the  *)
(* bot approves first and builds afterwards, the mini app the other way.    *)
Fulfil(h, k) ==
    CASE k = "bank" -> "take"
      [] k = "auto" -> "prov"
      [] k = "custom" -> IF InBot(h) THEN "approve" ELSE "prov"

AfterPaying(h) == IF req[h].code THEN "code" ELSE "create"
AfterWallet(h, w) == IF w > 0 THEN "deduct" ELSE AfterPaying(h)

(* reject_order refunds the wallet, then gives the use of the code back.    *)
(* The custom config endpoint of the mini app then refunds once more.       *)

(* Mutant: the mini app repeats the refund for every kind of product.       *)
AfterUncodeAlways(h) ==
    IF IsBuyer(h) /\ InMini(h) /\ order[cur[h]].paid > 0
    THEN "again"
    ELSE IF role[h] = "cancel" THEN "clear" ELSE "idle"

AfterUncode(h) ==
    IF IsBuyer(h) /\ InMini(h) /\ KindOf(h) = "custom" /\ order[cur[h]].paid > 0
    THEN "again"
    ELSE IF role[h] = "cancel" THEN "clear" ELSE "idle"
AfterRefund(h) == IF order[cur[h]].code THEN "uncode" ELSE AfterUncode(h)

(* Mutant: the wallet is not refunded.                                      *)
AfterRejectOnly(h) == AfterRefund(h)
AfterReject(h) == IF order[cur[h]].paid > 0 THEN "refund" ELSE AfterRefund(h)

-----------------------------------------------------------------------------
(* Purchase.                                                                *)

(* The stock check, and the code the purchase carries: in the bot the one   *)
(* of the conversation, validated earlier; in the mini app one that is      *)
(* validated here.                                                          *)
StartBuy(h, u, k, q, c) ==
    /\ pc[h] = "idle" /\ Ready(h)
    /\ InBot(h) \/ InMini(h)
    /\ k = "bank" => q <= Cardinality(Free)
    /\ k = "custom" => q = 1 /\ ~c
    /\ k # "custom" /\ InBot(h) => c = fsmCode[u]
    /\ c /\ InMini(h) => CodeValid
    /\ pc' = [pc EXCEPT ![h] = "wallet"]
    /\ role' = [role EXCEPT ![h] = "buy"]
    /\ req' = [req EXCEPT ![h] =
                  [user |-> u, kind |-> k, qty |-> q, code |-> c]]
    /\ UNCHANGED <<tables, lock, fsm, paid, cur, sel, history>>

(* get_wallet_credit; the amount is worked out from what was read.          *)
ReadWallet(h) ==
    /\ pc[h] = "wallet" /\ Ready(h)
    /\ LET w == Lesser(credit[req[h].user], AfterCode(req[h])) IN
          /\ paid' = [paid EXCEPT ![h] = w]
          /\ pc' = [pc EXCEPT ![h] = AfterWallet(h, w)]
    /\ UNCHANGED <<tables, lock, fsm, role, req, cur, sel, history>>

Deduct(h) ==
    /\ pc[h] = "deduct" /\ Ready(h)
    /\ AddCredit(req[h].user, - paid[h])
    /\ Continue(h, AfterPaying(h))
    /\ UNCHANGED <<status, order, cfg, owner, cfgOrder, rows, usedCount>>
    /\ UNCHANGED <<lock, fsm, history>>

UseCode(h) ==
    /\ pc[h] = "code" /\ Ready(h)
    /\ IncrementUsage
    /\ Continue(h, "create")
    /\ UNCHANGED <<status, order, cfg, owner, cfgOrder, rows, credit>>
    /\ UNCHANGED <<lock, fsm, history>>

(* create_order, create_custom_config_order.  An order with money still to  *)
(* pay waits for a receipt or a gateway.                                    *)
CreateOrder(h, o) ==
    LET row == [user |-> req[h].user, kind |-> req[h].kind,
                qty |-> req[h].qty, code |-> req[h].code, paid |-> paid[h]]
        next == IF InBot(h) THEN "fsm"
                ELSE IF FinalPrice(row) = 0 THEN Fulfil(h, req[h].kind)
                ELSE "idle"
    IN
    /\ pc[h] = "create" /\ Ready(h)
    /\ InsertOrder(o, req[h], paid[h])
    /\ IF next = "idle"
       THEN Continue(h, "idle")
       ELSE /\ pc' = [pc EXCEPT ![h] = next]
            /\ cur' = [cur EXCEPT ![h] = o]
            /\ UNCHANGED <<role, req, paid, sel>>
    /\ UNCHANGED <<cfg, owner, cfgOrder, rows, credit, usedCount>>
    /\ UNCHANGED <<lock, fsm, history>>

(* The bot stores the order in the conversation, or clears a conversation   *)
(* that has nothing left to ask.                                            *)
RememberOrder(h) ==
    LET o == cur[h]
        u == order[o].user
    IN
    /\ pc[h] = "fsm" /\ LoopFree(h)
    /\ fsmOrder' = [fsmOrder EXCEPT ![u] = IF Covered(o) THEN NoOrder ELSE o]
    /\ fsmCode' = [fsmCode EXCEPT ![u] =
                      IF KindOf(h) = "custom" /\ ~Covered(o) THEN @ ELSE FALSE]
    /\ Continue(h, IF Covered(o) THEN Fulfil(h, KindOf(h)) ELSE "idle")
    /\ UNCHANGED <<tables, lock, history>>

-----------------------------------------------------------------------------
(* Fulfilment, of a covered purchase or of a reviewed order.                *)

(* Mutant: the lock is released between the SELECT and the UPDATEs.         *)
SelectUnlocked(h) ==
    LET found == Lowest(order[cur[h]].qty) IN
    /\ pc[h] = "take" /\ Ready(h)
    /\ IF Cardinality(found) < order[cur[h]].qty
       THEN Continue(h, IF IsBuyer(h) THEN "reject" ELSE "idle")
       ELSE /\ pc' = [pc EXCEPT ![h] = "mark"]
            /\ sel' = [sel EXCEPT ![h] = found]
            /\ UNCHANGED <<role, req, paid, cur>>
    /\ UNCHANGED <<tables, lock, fsm, history>>

(* The SELECT of take_unused_configs.  With too few rows the method returns *)
(* None: a purchase is rejected, a review leaves the order pending.         *)
SelectConfigs(h) ==
    LET found == Lowest(order[cur[h]].qty) IN
    /\ pc[h] = "take" /\ Ready(h)
    /\ IF Cardinality(found) < order[cur[h]].qty
       THEN /\ Continue(h, IF IsBuyer(h) THEN "reject" ELSE "idle")
            /\ UNCHANGED lock
       ELSE /\ pc' = [pc EXCEPT ![h] = "mark"]
            /\ sel' = [sel EXCEPT ![h] = found]
            /\ lock' = [lock EXCEPT ![InstOf[h]] = h]
            /\ UNCHANGED <<role, req, paid, cur>>
    /\ UNCHANGED <<tables, fsm, history>>

(* Mutant: the lock is never released.                                      *)
HoldLock(h) == UNCHANGED lock
ReleaseLock(h) == lock' = [lock EXCEPT ![InstOf[h]] = Nobody]

(* Its UPDATEs and the commit.                                              *)
MarkConfigs(h) ==
    /\ pc[h] = "mark" /\ LoopFree(h)
    /\ MarkUsed(sel[h], order[cur[h]].user)
    /\ ReleaseLock(h)
    /\ taken' = [taken EXCEPT ![InstOf[h]] =
                    [c \in Configs |-> IF c \in sel[h] THEN @[c] \cup {cur[h]}
                                       ELSE @[c]]]
    /\ buyer' = [c \in Configs |-> IF c \in sel[h] THEN cur[h] ELSE buyer[c]]
    /\ Continue(h, "approve")
    /\ UNCHANGED <<status, order, cfgOrder, rows, credit, usedCount, fsm>>
    /\ UNCHANGED <<granted, forfeited, burnt, stranded, halted, failures,
                   refunded, made, unlisted, handed>>

(* A custom config has the name the buyer chose.  Marzban, Marzneshin,      *)
(* PasarGuard and 3x-ui refuse a name they have; Hiddify refuses none.      *)
PanelAccepts(h) ==
    KindOf(h) = "custom" /\ cur[h] \in OnceNamed => made[cur[h]] = 0

(* Mutant: nobody passes the user on.                                       *)
ListsNobody(h) == FALSE

(* Automatic provisioning lists what it built to the user, except in the    *)
(* web panel, which does not pass the user on.                              *)
ListsBuilt(h) == KindOf(h) = "auto" /\ (InBot(h) \/ InMini(h))

(* Mutant: a custom config is recorded, and its order not approved.         *)
AfterBuildingUnapproved(h) ==
    IF ListsBuilt(h) THEN "list"
    ELSE IF KindOf(h) = "custom" THEN "record"
    ELSE "approve"

AfterBuilding(h) ==
    IF ListsBuilt(h) THEN "list"
    ELSE IF KindOf(h) = "custom" /\ InBot(h) /\ IsBuyer(h) THEN "record"
    ELSE "approve"

(* The VPN panel built the accounts, all of them.                           *)
Provisioned(h) ==
    /\ pc[h] = "prov" /\ LoopFree(h)
    /\ PanelAccepts(h)
    /\ made' = [made EXCEPT ![cur[h]] = @ + 1]
    /\ Continue(h, AfterBuilding(h))
    /\ UNCHANGED <<tables, lock, fsm>>
    /\ UNCHANGED <<granted, forfeited, burnt, stranded, halted, failures,
                   refunded, unlisted, taken, handed, buyer>>

(* add_custom_config for each of them; an exception is passed over, and the *)
(* order approved all the same.                                             *)
ListConfigs(h) ==
    /\ pc[h] = "list" /\ Ready(h)
    /\ \/ /\ rows' = rows \cup {cur[h]}
          /\ UNCHANGED unlisted
       \/ /\ unlisted' = unlisted \cup {cur[h]}
          /\ UNCHANGED rows
    /\ Continue(h, "approve")
    /\ UNCHANGED <<status, order, cfg, owner, cfgOrder, credit, usedCount>>
    /\ UNCHANGED <<lock, fsm, granted, forfeited, burnt, stranded, halted,
                   failures, refunded, made, taken, handed, buyer>>

(* Mutant: a failed review rejects the order.                               *)
AlwaysReject(h) == "reject"
AfterFailure(h) == IF IsBuyer(h) THEN "reject" ELSE "idle"

(* The panel refused or could not be reached; accounts it made before that  *)
(* stay on it, and nothing here refers to them.                             *)
NotProvisioned(h) ==
    /\ pc[h] = "prov" /\ LoopFree(h)
    /\ Continue(h, AfterFailure(h))
    /\ UNCHANGED <<tables, lock, fsm, history>>

(* Mutant: an order that is not pending any more is left alone, and the     *)
(* configs taken for it are forgotten.                                      *)
ApproveIfPending(h) ==
    LET o == cur[h]
        ok == status[o] = "pending"
    IN
    /\ pc[h] = "approve" /\ Ready(h)
    /\ SetStatus(o, IF ok THEN "approved" ELSE status[o])
    /\ LinkConfigs(o, IF ok THEN sel[h] ELSE {})
    /\ handed' = [c \in Configs |->
                     IF ok /\ c \in sel[h] THEN handed[c] \cup {o} ELSE handed[c]]
    /\ Continue(h, IF KindOf(h) # "custom" THEN "idle"
                   ELSE IF InBot(h) /\ IsBuyer(h) THEN "prov" ELSE "record")
    /\ UNCHANGED <<order, cfg, owner, rows, credit, usedCount, lock, fsm>>
    /\ UNCHANGED <<granted, forfeited, burnt, stranded, halted, failures,
                   refunded, made, unlisted, taken, buyer>>

(* approve_order and its variants, whatever the status has become.          *)
Approve(h) ==
    LET o == cur[h] IN
    /\ pc[h] = "approve" /\ Ready(h)
    /\ SetStatus(o, "approved")
    /\ LinkConfigs(o, sel[h])
    /\ handed' = [c \in Configs |-> IF c \in sel[h] THEN handed[c] \cup {o}
                                    ELSE handed[c]]
    /\ Continue(h, IF KindOf(h) # "custom" THEN "idle"
                   ELSE IF InBot(h) /\ IsBuyer(h) THEN "prov" ELSE "record")
    /\ UNCHANGED <<order, cfg, owner, rows, credit, usedCount, lock, fsm>>
    /\ UNCHANGED <<granted, forfeited, burnt, stranded, halted, failures,
                   refunded, made, unlisted, taken, buyer>>

(* add_custom_config                                                        *)
RecordConfig(h) ==
    /\ pc[h] = "record" /\ Ready(h)
    /\ rows' = rows \cup {cur[h]}
    /\ Continue(h, "idle")
    /\ UNCHANGED <<status, order, cfg, owner, cfgOrder, credit, usedCount>>
    /\ UNCHANGED <<lock, fsm, history>>

-----------------------------------------------------------------------------
(* reject_order: three transactions, each of them unconditional.            *)

Reject(h) ==
    /\ pc[h] = "reject" /\ Ready(h)
    /\ SetStatus(cur[h], "rejected")
    /\ Continue(h, AfterReject(h))
    /\ UNCHANGED <<order, cfg, owner, cfgOrder, rows, credit, usedCount>>
    /\ UNCHANGED <<lock, fsm, history>>

Refund(h) ==
    LET o == cur[h] IN
    /\ pc[h] = "refund" /\ Ready(h)
    /\ AddCredit(order[o].user, order[o].paid)
    /\ refunded' = refunded \cup {o}
    /\ Continue(h, AfterRefund(h))
    /\ UNCHANGED <<status, order, cfg, owner, cfgOrder, rows, usedCount>>
    /\ UNCHANGED <<lock, fsm, granted, forfeited, burnt, stranded, halted,
                   failures, made, unlisted, taken, handed, buyer>>

ReturnCode(h) ==
    /\ pc[h] = "uncode" /\ Ready(h)
    /\ DecrementUsage
    /\ Continue(h, AfterUncode(h))
    /\ UNCHANGED <<status, order, cfg, owner, cfgOrder, rows, credit>>
    /\ UNCHANGED <<lock, fsm, history>>

(* The handler of the mini app repeats the refund reject_order just made.   *)
RefundAgain(h) ==
    LET o == cur[h] IN
    /\ pc[h] = "again" /\ Ready(h)
    /\ AddCredit(order[o].user, order[o].paid)
    /\ Continue(h, "idle")
    /\ UNCHANGED <<status, order, cfg, owner, cfgOrder, rows, usedCount>>
    /\ UNCHANGED <<lock, fsm, history>>

(* cb_cancel_flow ends by clearing the conversation.                        *)
ClearFlow(h) ==
    LET u == order[cur[h]].user IN
    /\ pc[h] = "clear" /\ LoopFree(h)
    /\ fsmOrder' = [fsmOrder EXCEPT ![u] = NoOrder]
    /\ fsmCode' = [fsmCode EXCEPT ![u] = FALSE]
    /\ Continue(h, "idle")
    /\ UNCHANGED <<tables, lock, history>>

-----------------------------------------------------------------------------
(* Reviews: each one looks at the status once, and acts later.              *)

StartOn(h, o, r, l) ==
    /\ pc[h] = "idle" /\ Ready(h)
    /\ status[o] = "pending"
    /\ pc' = [pc EXCEPT ![h] = l]
    /\ role' = [role EXCEPT ![h] = r]
    /\ cur' = [cur EXCEPT ![h] = o]
    /\ UNCHANGED <<tables, lock, fsm, req, paid, sel, history>>

(* cb_order_approve in the bot, api_approve_order in the web panel, and in  *)
(* the mini app the callback of a gateway, for an order with money to pay   *)
(* (it leaves a custom config alone).                                       *)
StartApprove(h, o) ==
    /\ InMini(h) => order[o].kind # "custom" /\ ~Covered(o)
    /\ StartOn(h, o, "review", IF order[o].kind = "bank" THEN "take" ELSE "prov")

(* cb_order_reject, api_reject_order                                        *)
StartReject(h, o) ==
    /\ ~InMini(h)
    /\ StartOn(h, o, "review", "reject")

(* cb_cancel_flow, when the order of the conversation is still pending      *)
StartCancel(h, u) ==
    /\ InBot(h)
    /\ fsmOrder[u] # NoOrder
    /\ StartOn(h, fsmOrder[u], "cancel", "reject")

(* cb_cancel_flow otherwise, and receive_receipt: the conversation ends.    *)
EndConversation(u) ==
    /\ fsmOrder[u] # NoOrder \/ fsmCode[u]
    /\ fsmOrder' = [fsmOrder EXCEPT ![u] = NoOrder]
    /\ fsmCode' = [fsmCode EXCEPT ![u] = FALSE]
    /\ UNCHANGED <<tables, lock, locals, history>>

(* process_discount_code                                                    *)
EnterCode(u) ==
    /\ CodeValid /\ ~fsmCode[u] /\ SomeLockFree
    /\ fsmCode' = [fsmCode EXCEPT ![u] = TRUE]
    /\ UNCHANGED <<tables, lock, fsmOrder, locals, history>>

-----------------------------------------------------------------------------
(* The admin's one-call endpoints.                                          *)

(* api_adjust_wallet; granted follows what the wallet really gained.        *)
AdjustWallet(u, d) ==
    /\ SomeLockFree
    /\ credit[u] + d <= MaxCredit
    /\ AddCredit(u, d)
    /\ granted' = [granted EXCEPT ![u] = @ + credit'[u] - credit[u]]
    /\ UNCHANGED <<status, order, cfg, owner, cfgOrder, rows, usedCount>>
    /\ UNCHANGED <<lock, fsm, locals>>
    /\ UNCHANGED <<forfeited, burnt, stranded, halted, failures, refunded,
                   made, unlisted, taken, handed, buyer>>

ManageStock(i, c) ==
    /\ lock[i] = Nobody
    /\ AddConfig(c) \/ DeleteConfig(c)
    /\ UNCHANGED <<status, order, owner, cfgOrder, rows, credit, usedCount>>
    /\ UNCHANGED <<lock, fsm, locals, history>>

-----------------------------------------------------------------------------
(* An exception or a crash ends the handler; the open transaction is rolled *)
(* back and the lock is released.  What the handler had taken out of the    *)
(* tables and not put back is recorded.                                     *)
Interrupt(h) ==
    LET o == cur[h]
        purse == IF pc[h] \in {"code", "create"} THEN paid[h]
                 ELSE IF pc[h] = "refund" THEN order[o].paid ELSE 0
        user == IF pc[h] \in {"code", "create"} THEN req[h].user
                ELSE order[o].user
        use == \/ pc[h] = "create" /\ req[h].code
               \/ pc[h] \in {"refund", "uncode"} /\ order[o].code
    IN
    /\ pc[h] # "idle"
    /\ failures < MaxFailures
    /\ failures' = failures + 1
    /\ forfeited' = IF purse > 0 THEN [forfeited EXCEPT ![user] = @ + purse]
                    ELSE forfeited
    /\ burnt' = IF use THEN burnt + 1 ELSE burnt
    /\ stranded' = IF pc[h] = "approve" THEN stranded \cup sel[h] ELSE stranded
    /\ halted' = IF o = NoOrder THEN halted ELSE halted \cup {<<o, pc[h]>>}
    /\ lock' = IF lock[InstOf[h]] = h THEN [lock EXCEPT ![InstOf[h]] = Nobody]
               ELSE lock
    /\ Continue(h, "idle")
    /\ UNCHANGED <<tables, fsm, granted, refunded, made, unlisted, taken,
                   handed, buyer>>

-----------------------------------------------------------------------------

Step(h) ==
    \/ ReadWallet(h) \/ Deduct(h) \/ UseCode(h)
    \/ \E o \in OrderIds : CreateOrder(h, o)
    \/ RememberOrder(h)
    \/ SelectConfigs(h) \/ MarkConfigs(h)
    \/ Provisioned(h) \/ NotProvisioned(h) \/ ListConfigs(h)
    \/ Approve(h) \/ RecordConfig(h)
    \/ Reject(h) \/ Refund(h) \/ ReturnCode(h) \/ RefundAgain(h)
    \/ ClearFlow(h)

(* A purchase is only started when an order id is left for it.              *)
IdsLeft ==
    Cardinality({h \in Handlers : pc[h] \in {"wallet", "deduct", "code", "create"}})
        < Cardinality({o \in OrderIds : status[o] = "none"})

Start(h) ==
    \/ \E u \in Users, k \in Offered, q \in 1..MaxQty, c \in BOOLEAN :
          IdsLeft /\ StartBuy(h, u, k, q, c)
    \/ \E o \in OrderIds : StartApprove(h, o) \/ StartReject(h, o)
    \/ \E u \in Users : StartCancel(h, u)

Environment ==
    \/ \E u \in Users : EndConversation(u) \/ EnterCode(u)
    \/ \E u \in Users, d \in Deltas : AdjustWallet(u, d)
    \/ \E i \in Instances, c \in Configs : ManageStock(i, c)

Next ==
    \/ \E h \in Handlers : Step(h) \/ Start(h) \/ Interrupt(h)
    \/ Environment

Spec == Init /\ [][Next]_vars

(* A request that can go on again and again does: the event loop takes its  *)
(* tasks in turn, the lock and the thread pool starve nobody, and a call to *)
(* a panel ends (it has a timeout).                                         *)
Fairness == \A h \in Handlers : SF_vars(Step(h))
FairSpec == Spec /\ Fairness
=============================================================================
