-------------------------- MODULE OrderProperties --------------------------
(***************************************************************************)
(* What the purchase flow promises, over OrderHandlers.                     *)
(***************************************************************************)
EXTENDS OrderHandlers, Functions

-----------------------------------------------------------------------------
(* Money and codes: nothing a buyer gave is lost but to an interruption.    *)

Live(o) == status[o] \in {"pending", "approved"}

(* Credit of u that an order stands for.                                    *)
Spent(o, u) == IF Live(o) /\ order[o].user = u THEN order[o].paid ELSE 0

(* Credit that left the wallet of u and is not part of an order: a purchase *)
(* before its INSERT, or a rejection before its refund.                     *)
InFlight(h, u) ==
    CASE pc[h] \in {"code", "create"} /\ req[h].user = u -> paid[h]
      [] pc[h] = "refund" /\ order[cur[h]].user = u -> order[cur[h]].paid
      [] OTHER -> 0

Accounted(u) ==
    credit[u] + forfeited[u]
    + SumFunction([o \in OrderIds |-> Spent(o, u)])
    + SumFunction([h \in Handlers |-> InFlight(h, u)])

(* However requests, verdicts, cancellations and adjustments interleave, a  *)
(* user's credit is in the wallet, in a live order or in the hands of a     *)
(* running request: only an interrupted request loses it.                   *)
NoMoneyLost == \A u \in Users : Accounted(u) >= granted[u]

(* Where the event loop keeps requests apart the books are exact: the shop  *)
(* gives nothing away either.                                               *)
ExactLedger == \A u \in Users : Accounted(u) = granted[u]

(* Where it does not, there are three ways of giving credit away: a wallet  *)
(* that holds less than the purchase read in it is clamped at zero; a       *)
(* verdict comes after the order was rejected; a custom config of the mini  *)
(* app is refunded once more.                                               *)
Overtaken(h) == pc[h] = "deduct" /\ credit[req[h].user] < paid[h]
Overruled(h) == pc[h] \in {"approve", "reject"} /\ status[cur[h]] = "rejected"
Repeated(h) == pc[h] = "again" /\ KindOf(h) = "custom" /\ InMini(h)

(* No step of any process makes more of a user's credit but these three: a  *)
(* refund is given once, by the request whose verdict took the order out of *)
(* the books, and what an admin adjusts is what the wallet gains.           *)
GiftsAreKnown ==
    [][\A u \in Users :
          (Accounted(u) - granted[u])' > Accounted(u) - granted[u] =>
              \E h \in Handlers : /\ pc'[h] # pc[h]
                                  /\ Overtaken(h) \/ Overruled(h) \/ Repeated(h)]_vars

(* Uses of the code in the hands of a request, and in a live order.         *)
CarriesUse(h) ==
    \/ pc[h] = "create" /\ req[h].code
    \/ pc[h] \in {"refund", "uncode"} /\ order[cur[h]].code
HoldsUse(o) == Live(o) /\ order[o].code

CodesInFlight == Cardinality({h \in Handlers : CarriesUse(h)})
LiveCodes == Cardinality({o \in OrderIds : HoldsUse(o)})

(* A rejected or cancelled order gives its use of the discount code back:   *)
(* used_count never exceeds the orders that really hold a use.              *)
NoCodeUseLost == usedCount <= LiveCodes + CodesInFlight + burnt

(* Neither credit nor uses of a code are lost.                              *)
NothingLost == NoMoneyLost /\ NoCodeUseLost

(* A rejected order paid from the wallet has been refunded, is about to be, *)
(* or its rejection was interrupted.                                        *)
RejectedRefunded ==
    \A o \in OrderIds :
        status[o] = "rejected" /\ order[o].paid > 0 =>
            \/ o \in refunded \/ <<o, "refund">> \in halted
            \/ \E h \in Handlers : pc[h] = "refund" /\ cur[h] = o

-----------------------------------------------------------------------------
(* The bank of configs.                                                     *)

(* One Database object never sells a config to two orders: the lock is held *)
(* from the SELECT of take_unused_configs to its commit, so a second sale   *)
(* needs a second process.                                                  *)
OneInstanceNeverDoubleSells ==
    \A i \in Instances, c \in Configs :
        \A o, p \in taken[i][c] : o = p

(* A used config was handed over with an order, is about to be, or was in   *)
(* the hands of an interrupted request: stock is not consumed for nothing.  *)
NoStrandedConfig ==
    \A c \in Configs : cfg[c] = "used" =>
        \/ handed[c] # {} \/ c \in stranded
        \/ \E h \in Handlers : pc[h] = "approve" /\ c \in sel[h]

(* With one Database object, every config handed over for an order is what  *)
(* get_order_configs lists for it, and belongs to its buyer.                *)
HandedIsListed ==
    \A c \in Configs, o \in OrderIds : o \in handed[c] =>
        cfg[c] = "used" /\ owner[c] = order[o].user /\ cfgOrder[c] = o

(* "A unique config for every user": no config is handed over for two       *)
(* orders.                                                                  *)
ConfigUnique == \A c \in Configs : \A o, p \in handed[c] : o = p

-----------------------------------------------------------------------------
(* Verdicts.                                                                *)

(* An order that was reviewed is not reviewed again.                        *)
DecidedOnce ==
    [][\A o \in OrderIds :
          status[o] \in {"approved", "rejected"} => status'[o] = status[o]]_vars

(* The discount code is used at most max_uses times.                        *)
CodeCap == MaxUses > 0 => LiveCodes <= MaxUses

(* An approved order that is made on a VPN panel was made there, is being   *)
(* made (the bot approves a covered custom config before it builds it, and  *)
(* rejects it when that fails), or its request was interrupted.             *)
ApprovedIsBuilt ==
    \A o \in OrderIds :
        status[o] = "approved" /\ order[o].kind # "bank" =>
            \/ made[o] > 0
            \/ \E h \in Handlers : /\ cur[h] = o /\ IsBuyer(h)
                                  /\ pc[h] \in {"prov", "reject"}
            \/ \E l \in {"prov", "reject"} : <<o, l>> \in halted

(* An order on a panel that takes a name once is built once.  Where the     *)
(* panel does not mind (Hiddify), a second account is made only for a       *)
(* request that began before the verdict of another was written, or after   *)
(* one that built it was interrupted before its verdict.                    *)
VerdictDue(o) ==
    \/ status[o] # "pending"
    \/ \E g \in Handlers : pc[g] \in {"list", "approve"} /\ cur[g] = o
    \/ \E l \in {"list", "approve"} : <<o, l>> \in halted
MadeAgain(o) == made'[o] > made[o] /\ made[o] > 0

(* What is approved was built, and what is built twice is a new name, or an *)
(* order whose verdict was already on its way: on a panel that takes a name *)
(* once a custom config is never built again.                               *)
BuildsAreKnown ==
    /\ []ApprovedIsBuilt
    /\ [][\A o \in OrderIds :
             MadeAgain(o) =>
                 /\ VerdictDue(o)
                 /\ order[o].kind = "custom" => o \notin OnceNamed]_vars

(* Where the buyer is passed on, a config made automatically is listed to   *)
(* its buyer (custom_configs) by the time its order is approved, unless the *)
(* listing itself failed and the error was passed over.                     *)
BuiltIsListed ==
    \A o \in OrderIds :
        status[o] = "approved" /\ order[o].kind = "auto" =>
            o \in rows \/ o \in unlisted

(* What a buyer got, from the bank or from a panel, is in the lists he is   *)
(* shown, where requests are kept apart.                                    *)
DeliveredIsListed == HandedIsListed /\ BuiltIsListed

-----------------------------------------------------------------------------
(* With one Database object the two-statement sale implements the atomic    *)
(* one: Lock, SELECT, UPDATE and commit look like a single Sell.            *)
Sale == INSTANCE AtomicSale WITH free <- Free, buyer <- buyer

SaleIsAtomic == Sale!Spec
SoldForGood == Sale!SoldForGood

-----------------------------------------------------------------------------
(* Progress, for FairSpec.                                                  *)

(* Every request ends: no lock, loop or refund chain holds one for ever.    *)
RequestsEnd == \A h \in Handlers : pc[h] # "idle" ~> pc[h] = "idle"

=============================================================================
