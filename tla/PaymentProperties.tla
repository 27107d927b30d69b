------------------------- MODULE PaymentProperties -------------------------
(***************************************************************************)
(* What paying through a gateway promises, over Payments.                   *)
(***************************************************************************)
EXTENDS Payments

Paid(i) == remote[i] \in {"paid", "verified"}
PaidFor(r) == {i \in Invoices : info[i].ref = r /\ Paid(i)}
WorksOn(h, r) == ref[h] = r /\ pc[h] \in {"final", "set", "credit", "panel", "approve"}

(* The wallet is credited for a top-up at most once for every invoice that  *)
(* was paid and every approval an admin gave: neither the webhook and the   *)
(* check button together, nor a repeated callback, nor a return page that   *)
(* races the webhook puts in money nobody paid.                             *)
CreditsAreBacked ==
    \A r \in Refs : KindOf[r] = "topup" =>
        credits[r] <= Cardinality(PaidFor(r)) + verdicts[r]

(* Nothing is delivered that was neither paid for nor approved by an admin. *)
NothingForFree ==
    \A r \in Refs : builds[r] > 0 => PaidFor(r) # {} \/ verdicts[r] > 0

(* An invoice of AbanGateway or Plisio is taken for newly paid once, by one *)
(* of the requests that look at it, and only when it is paid.               *)
GrantedOnce ==
    \A i \in Invoices : info[i].gw \in {"aban", "plisio"} =>
        grants[i] = 0 \/ (grants[i] = 1 /\ Paid(i))

(* An approved top-up is in the wallet, is on its way there, or its         *)
(* approval was interrupted after the status was written.                   *)
ApprovedIsCredited ==
    \A r \in Refs : KindOf[r] = "topup" /\ status[r] = "approved" =>
        \/ credits[r] > 0 \/ <<r, "credit">> \in halted
        \/ \E h \in Handlers : ref[h] = r /\ pc[h] = "credit"

(* An approved top-up is credited, and nothing is given for free.           *)
GivesWhatIsDue == ApprovedIsCredited /\ NothingForFree

(* Callbacks of Plisio come late and in any order: an invoice that is       *)
(* completed never becomes open, failed or expired again.                   *)
CompletedStays ==
    [][\A i \in Invoices :
          info[i].gw = "plisio" /\ row[i] = "completed" =>
              row'[i] \in {"completed", "deleted"}]_vars

(* 'already_delivered': the payment was delivered, so there is nothing to   *)
(* do; or the request that found it paid is still at work.                  *)
AlreadyDelivered ==
    \A r \in told : status[r] # "pending" \/ \E h \in Handlers : WorksOn(h, r)

(* A paid top-up is settled in the end if the buyer keeps asking and the    *)
(* gateway keeps answering, except when an admin deleted the invoice or a   *)
(* verification was used up by a request that did not live to hear of it.   *)
PaidIsSettled ==
    \A i \in Invoices, r \in {q \in Refs : KindOf[q] = "topup"} :
        Paid(i) /\ info[i].ref = r /\ info[i].gw # "own" ~>
            \/ status[r] # "pending"
            \/ row[i] = "deleted" \/ i \in lost
            \/ <<r, "final">> \in halted \/ <<r, "set">> \in halted
=============================================================================
