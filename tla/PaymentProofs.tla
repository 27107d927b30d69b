---------------------------- MODULE PaymentProofs ----------------------------
(***************************************************************************)
(* For every set of requests, invoices and gateways: an invoice of         *)
(* AbanGateway or Plisio is taken for newly paid once, a completed Plisio  *)
(* invoice is never reopened, approved top-ups are credited and nothing is *)
(* given for free.                                                         *)
(***************************************************************************)
EXTENDS PaymentProperties, FiniteSetTheorems, TLAPS

(* What is used of the types.                                               *)
Shape ==
    /\ info \in [Invoices -> [gw : Gateways, ref : Refs] \cup {NoInfo}]
    /\ row \in [Invoices -> RowStatus]
    /\ remote \in [Invoices -> {"none", "open", "paid", "verified", "expired"}]
    /\ grants \in [Invoices -> Nat]
    /\ pc \in [Handlers -> Labels]
    /\ role \in [Handlers -> {"none", "create", "hook", "check", "return", "review"}]
    /\ item \in [Handlers -> Invoices \cup {NoInvoice}]
    /\ seen \in [Handlers -> RowStatus]
    /\ answer \in [Handlers -> {"none", "open", "paid", "expired", "ok",
                                "already", "error"}]

(* An id the gateways have not handed out is unknown everywhere; one that   *)
(* is being created is known to its creator only.                           *)
UnknownInv ==
    \A i \in Invoices :
        info[i] = NoInfo =>
            row[i] = "absent" /\ remote[i] = "none" /\ grants[i] = 0
CreatingInv ==
    \A h \in Handlers : pc[h] = "creating" =>
        /\ item[h] \in Invoices /\ info[item[h]] # NoInfo
        /\ row[item[h]] = "absent" /\ remote[item[h]] = "none"
        /\ grants[item[h]] = 0
        /\ \A g \in Handlers : pc[g] = "creating" /\ item[g] = item[h] => g = h

(* A request without work holds no answer.                                  *)
IdleInv == \A h \in Handlers : pc[h] = "idle" => answer[h] = "none"

(* Who waits for an answer waits for one about an invoice that exists, and  *)
(* never about one of Plisio; who verifies was told that it is paid.        *)
WaitingInv ==
    \A h \in Handlers : pc[h] \in {"ask", "verify"} =>
        /\ item[h] \in Invoices
        /\ row[item[h]] # "absent" /\ seen[h] # "absent"
        /\ info[item[h]].gw # "plisio"
        /\ role[h] = "return" <=> info[item[h]].gw = "own"
        /\ role[h] = "return" => pc[h] = "ask"
        /\ answer[h] = "paid" \/ pc[h] = "verify" => Paid(item[h])
        /\ pc[h] = "ask" => answer[h] \notin {"ok", "already"}

(* A callback "completed" was sent for a paid invoice.                      *)
NoticeInv ==
    \A i \in Invoices : <<i, "completed">> \in notices => Paid(i)

(* The one verification that succeeds is in the hands of one request, until *)
(* it counts.                                                               *)
Holds(h, i) == pc[h] = "verify" /\ item[h] = i /\ answer[h] = "ok"
VerifyInv ==
    \A h \in Handlers, i \in Invoices : Holds(h, i) =>
        /\ remote[i] = "verified" /\ grants[i] = 0
        /\ \A g \in Handlers : Holds(g, i) => g = h

GrantInv ==
    \A i \in Invoices :
        /\ info[i].gw = "aban" /\ grants[i] # 0 =>
              grants[i] = 1 /\ remote[i] = "verified"
        /\ info[i].gw = "plisio" /\ grants[i] # 0 =>
              grants[i] = 1 /\ Paid(i) /\ row[i] \in {"completed", "deleted"}

IInv == Shape /\ UnknownInv /\ IdleInv /\ CreatingInv /\ WaitingInv /\ NoticeInv
        /\ VerifyInv /\ GrantInv

Silent == Labels \ {"creating", "ask", "verify"}

(* The row of an invoice gets a new status, except a row that is not there. *)
Rewrites == row' = row \/ \E i \in Invoices, s \in RowStatus \ {"absent"} :
                             info[i].gw # "plisio" /\ SetRow(i, s)

-----------------------------------------------------------------------------

LEMMA InitInv == Init => IInv
  BY PaymentsAssumption
  DEF Init, IInv, Shape, UnknownInv, IdleInv, CreatingInv, WaitingInv, NoticeInv,
      VerifyInv, GrantInv, Holds, NoInfo, RowStatus, Labels

LEMMA RowKept ==
  ASSUME Shape, Rewrites
  PROVE  /\ row' \in [Invoices -> RowStatus]
         /\ \A i \in Invoices : row[i] = "absent" <=> row'[i] = "absent"
         /\ \A i \in Invoices : info[i].gw = "plisio" => row'[i] = row[i]
  BY DEF Shape, Rewrites, SetRow, RowStatus

(* A request that stops waiting, or takes a step that is not one of those   *)
(* the invariant speaks of, disturbs nothing.                               *)
LEMMA Leaving ==
  ASSUME IInv, NEW h \in Handlers, NEW l \in Silent, Goto(h, l), Rewrites,
         UNCHANGED <<info, remote, notices, grants>>
  PROVE  IInv'
<1>1. /\ pc' = [pc EXCEPT ![h] = l]
      /\ \A g \in Handlers \ {h} :
            pc'[g] = pc[g] /\ role'[g] = role[g] /\ item'[g] = item[g]
            /\ answer'[g] = answer[g] /\ seen'[g] = seen[g]
      /\ role' \in [Handlers -> {"none", "create", "hook", "check", "return", "review"}]
      /\ item' \in [Handlers -> Invoices \cup {NoInvoice}]
      /\ seen' \in [Handlers -> RowStatus]
      /\ answer' \in [Handlers -> {"none", "open", "paid", "expired", "ok",
                                   "already", "error"}]
  BY DEF Goto, IInv, Shape, RowStatus
<1>2. pc'[h] \notin {"creating", "ask", "verify"}
  BY <1>1 DEF Silent, IInv, Shape
<1>3. /\ row' \in [Invoices -> RowStatus]
      /\ \A i \in Invoices : row[i] = "absent" <=> row'[i] = "absent"
      /\ \A i \in Invoices : info[i].gw = "plisio" => row'[i] = row[i]
  BY RowKept DEF IInv
<1>4. Shape'
  BY <1>1, <1>3 DEF IInv, Shape, Silent
<1>5. UnknownInv'
  BY <1>3 DEF IInv, UnknownInv
<1>6. CreatingInv'
  BY <1>1, <1>2, <1>3 DEF IInv, CreatingInv
<1>7. WaitingInv'
  BY <1>1, <1>2, <1>3 DEF IInv, WaitingInv, Paid
<1>8. NoticeInv' /\ GrantInv'
  BY <1>3 DEF IInv, NoticeInv, GrantInv, Paid
<1>9. VerifyInv'
  BY <1>1, <1>2 DEF IInv, VerifyInv, Holds
<1>10. IdleInv'
  BY <1>1 DEF IInv, IdleInv, Goto, Shape
<1> QED  BY <1>4, <1>5, <1>6, <1>7, <1>8, <1>9, <1>10 DEF IInv

(* A request takes up an invoice whose row is there.                        *)
LEMMA Taking ==
  ASSUME IInv, NEW h \in Handlers, NEW i \in Invoices,
         NEW r \in {"hook", "check", "return"}, NEW l \in {"ask", "final"},
         pc[h] = "idle", row[i] # "absent",
         l = "ask" => info[i].gw # "plisio" /\ (r = "return" <=> info[i].gw = "own"),
         Begin(h, r, i, l), Rewrites, UNCHANGED <<info, remote, notices, grants>>
  PROVE  IInv'
<1>1. /\ pc' = [pc EXCEPT ![h] = l] /\ role' = [role EXCEPT ![h] = r]
      /\ item' = [item EXCEPT ![h] = i] /\ answer' = answer
      /\ seen' = [seen EXCEPT ![h] = row[i]]
  BY DEF Begin
<1>2. /\ row' \in [Invoices -> RowStatus]
      /\ \A j \in Invoices : row[j] = "absent" <=> row'[j] = "absent"
      /\ \A j \in Invoices : info[j].gw = "plisio" => row'[j] = row[j]
  BY RowKept DEF IInv
<1>3. Shape'
  BY <1>1, <1>2 DEF IInv, Shape, Labels
<1>4. UnknownInv'
  BY <1>2 DEF IInv, UnknownInv
<1>5. CreatingInv'
  BY <1>1, <1>2 DEF IInv, CreatingInv, Shape
<1>6. WaitingInv'
  BY <1>1, <1>2 DEF IInv, WaitingInv, Paid, Shape, IdleInv
<1>7. NoticeInv' /\ GrantInv'
  BY <1>2 DEF IInv, NoticeInv, GrantInv, Paid
<1>8. VerifyInv'
  BY <1>1 DEF IInv, VerifyInv, Holds, Shape
<1>9. IdleInv'
  BY <1>1 DEF IInv, IdleInv, Shape
<1> QED  BY <1>3, <1>4, <1>5, <1>6, <1>7, <1>8, <1>9 DEF IInv

-----------------------------------------------------------------------------
(* Invoices.                                                                *)

LEMMA StartInvoiceInv ==
  ASSUME IInv, NEW h \in Handlers, NEW g \in Gateways, NEW r \in Refs,
         NEW i \in Invoices, StartInvoice(h, g, r, i)
  PROVE  IInv'
<1> USE DEF StartInvoice
<1>1. Shape'
  BY DEF IInv, Shape, Labels, history
<1>2. UnknownInv' /\ IdleInv' /\ NoticeInv'
  BY DEF IInv, Shape, UnknownInv, IdleInv, NoticeInv, Paid, history
<1>3. CreatingInv'
  BY PaymentsAssumption
  DEF IInv, Shape, UnknownInv, CreatingInv, NoInfo, history
<1>4. WaitingInv' /\ VerifyInv'
  BY DEF IInv, Shape, UnknownInv, WaitingInv, VerifyInv, Holds, Paid, history
<1>5. GrantInv'
  BY DEF IInv, Shape, UnknownInv, GrantInv, Paid, history
<1> QED  BY <1>1, <1>2, <1>3, <1>4, <1>5 DEF IInv

LEMMA InvoiceCreatedInv ==
  ASSUME IInv, NEW h \in Handlers, InvoiceCreated(h)
  PROVE  IInv'
<1> DEFINE i == item[h]
<1>1. /\ pc[h] = "creating" /\ i \in Invoices /\ info[i] # NoInfo
      /\ row[i] = "absent" /\ remote[i] = "none" /\ grants[i] = 0
      /\ \A g \in Handlers : pc[g] = "creating" /\ item[g] = i => g = h
  BY DEF IInv, CreatingInv, InvoiceCreated, At
<1>2. /\ remote' = [remote EXCEPT ![i] = "open"]
      /\ row' = [row EXCEPT ![i] = "open"]
      /\ Goto(h, "idle") /\ UNCHANGED <<info, notices, grants>>
  BY DEF InvoiceCreated, history
<1>3. /\ pc' = [pc EXCEPT ![h] = "idle"]
      /\ item' = [item EXCEPT ![h] = NoInvoice]
      /\ role' = [role EXCEPT ![h] = "none"]
      /\ answer' = [answer EXCEPT ![h] = "none"]
      /\ seen' = [seen EXCEPT ![h] = "absent"]
  BY <1>2 DEF Goto
<1>4. Shape' /\ IdleInv'
  BY <1>1, <1>2, <1>3 DEF IInv, Shape, IdleInv, Labels, RowStatus
<1>5. UnknownInv' /\ CreatingInv'
  BY <1>1, <1>2, <1>3 DEF IInv, Shape, UnknownInv, CreatingInv
<1>6. WaitingInv' /\ VerifyInv'
  BY <1>1, <1>2, <1>3 DEF IInv, Shape, WaitingInv, VerifyInv, Holds, Paid
<1>7. NoticeInv' /\ GrantInv'
  BY <1>1, <1>2 DEF IInv, Shape, NoticeInv, GrantInv, Paid
<1> QED  BY <1>4, <1>5, <1>6, <1>7 DEF IInv

(* The buyer, the gateway and the clock.                                    *)
LEMMA OutsideInv ==
  ASSUME IInv, Environment
  PROVE  IInv'
<1>1. PICK i \in Invoices : Announce(i) \/ Pay(i) \/ RunOut(i) \/ ExpireRow(i)
                            \/ DeleteRow(i)
  BY DEF Environment
<1>2. UNCHANGED <<pc, role, item, seen, answer, info, grants>>
  BY <1>1 DEF Announce, Pay, RunOut, ExpireRow, DeleteRow, locals, history
<1>3. CASE Announce(i) \/ Pay(i) \/ RunOut(i)
  <2>1. row' = row
    BY <1>3 DEF Announce, Pay, RunOut
  <2>2. /\ remote[i] = "open"
        /\ remote' \in {remote, [remote EXCEPT ![i] = "paid"],
                        [remote EXCEPT ![i] = "expired"]}
        /\ \A j \in Invoices : <<j, "completed">> \in notices' =>
              <<j, "completed">> \in notices \/ (j = i /\ remote'[i] = "paid")
    BY <1>3 DEF Announce, Pay, RunOut, Callbacks, IInv, Shape
  <2>3. Shape' /\ UnknownInv' /\ IdleInv' /\ CreatingInv'
    BY <1>2, <2>1, <2>2 DEF IInv, Shape, UnknownInv, IdleInv, CreatingInv
  <2>4. WaitingInv' /\ NoticeInv'
    BY <1>2, <2>1, <2>2 DEF IInv, Shape, WaitingInv, NoticeInv, Paid
  <2>5. VerifyInv' /\ GrantInv'
    BY <1>2, <2>1, <2>2 DEF IInv, Shape, VerifyInv, Holds, GrantInv, Paid
  <2> QED  BY <2>3, <2>4, <2>5 DEF IInv
<1>4. CASE ExpireRow(i) \/ DeleteRow(i)
  <2>1. /\ UNCHANGED <<remote, notices>>
        /\ row' \in {[row EXCEPT ![i] = "expired"], [row EXCEPT ![i] = "deleted"]}
        /\ row[i] # "absent"
        /\ row[i] \in {"completed", "deleted"} => row'[i] = "deleted"
    BY <1>4 DEF ExpireRow, DeleteRow, IInv, Shape
  <2>2. Shape' /\ UnknownInv' /\ IdleInv' /\ CreatingInv'
    BY <1>2, <2>1 DEF IInv, Shape, UnknownInv, IdleInv, CreatingInv, RowStatus
  <2>3. WaitingInv' /\ NoticeInv'
    BY <1>2, <2>1 DEF IInv, Shape, WaitingInv, NoticeInv, Paid
  <2>4. VerifyInv' /\ GrantInv'
    BY <1>2, <2>1 DEF IInv, Shape, VerifyInv, Holds, GrantInv, Paid
  <2> QED  BY <2>2, <2>3, <2>4 DEF IInv
<1> QED  BY <1>1, <1>3, <1>4

-----------------------------------------------------------------------------
(* Requests.                                                                *)

LEMMA DeliveryInv ==
  ASSUME IInv, NEW h \in Handlers,
         \/ InvoiceRefused(h) \/ Finalize(h) \/ TopupApproved(h)
         \/ TopupCredited(h) \/ PanelBuilt(h) \/ PanelFailed(h)
         \/ OrderApproved(h) \/ Rejected(h) \/ Interrupt(h)
  PROVE  IInv'
<1>1. UNCHANGED <<info, row, remote, notices, grants>>
  BY DEF InvoiceRefused, Finalize, TopupApproved, TopupCredited, PanelBuilt,
         PanelFailed, OrderApproved, Rejected, Interrupt, tables, history
<1>2. \E l \in {"idle", "set", "panel", "approve", "credit"} : Goto(h, l)
  <2>1. CASE Finalize(h)
    BY <2>1 DEF Finalize, Deliver
  <2> QED
    BY <2>1 DEF InvoiceRefused, TopupApproved, TopupCredited, PanelBuilt,
         PanelFailed, OrderApproved, Rejected, Interrupt
<1>3. {"idle", "set", "panel", "approve", "credit"} \subseteq Silent
  BY DEF Silent, Labels
<1> QED  BY <1>1, <1>2, <1>3, Leaving DEF Rewrites

LEMMA ReviewInv ==
  ASSUME IInv, NEW h \in Handlers, NEW r \in Refs,
         StartApprove(h, r) \/ StartReject(h, r)
  PROVE  IInv'
<1>1. /\ pc[h] = "idle"
      /\ pc' \in {[pc EXCEPT ![h] = "final"], [pc EXCEPT ![h] = "reject"]}
      /\ role' = [role EXCEPT ![h] = "review"]
      /\ UNCHANGED <<info, row, remote, notices, grants, item, seen, answer>>
  BY DEF StartApprove, StartReject, StartReview, tables
<1>2. Shape' /\ UnknownInv' /\ IdleInv' /\ NoticeInv'
  BY <1>1 DEF IInv, Shape, UnknownInv, IdleInv, NoticeInv, Paid, Labels
<1>3. CreatingInv' /\ WaitingInv'
  BY <1>1 DEF IInv, Shape, CreatingInv, WaitingInv, Paid
<1>4. VerifyInv' /\ GrantInv'
  BY <1>1 DEF IInv, Shape, VerifyInv, Holds, GrantInv, Paid
<1> QED  BY <1>2, <1>3, <1>4 DEF IInv

(* An answer that grants nothing.                                           *)
LEMMA AnswerInv ==
  ASSUME IInv, NEW h \in Handlers, GatewayAnswers(h) \/ AnswerLost(h)
  PROVE  IInv'
<1> DEFINE a == answer'[h]
<1>1. /\ pc[h] \in {"ask", "verify"} /\ answer' = [answer EXCEPT ![h] = a]
      /\ a \in {"none", "open", "paid", "expired", "error"}
      /\ a = "paid" => Paid(item[h])
      /\ UNCHANGED <<info, row, remote, notices, grants, pc, role, item, seen>>
  <2>1. CASE GatewayAnswers(h)
    <3>1. pc[h] = "ask" /\ item[h] \in Invoices
      BY <2>1 DEF GatewayAnswers, IInv, WaitingInv
    <3>2. remote[item[h]] \in {"none", "open", "paid", "verified", "expired"}
      BY <3>1 DEF IInv, Shape
    <3> QED  BY <2>1, <3>1, <3>2 DEF GatewayAnswers, Paid, IInv, Shape, tables, history
  <2>2. CASE AnswerLost(h)
    BY <2>2 DEF AnswerLost, IInv, Shape, tables
  <2> QED  BY <2>1, <2>2
<1>2. Shape' /\ UnknownInv' /\ IdleInv' /\ NoticeInv' /\ CreatingInv'
  BY <1>1 DEF IInv, Shape, UnknownInv, IdleInv, NoticeInv, CreatingInv, Paid
<1>3. WaitingInv' /\ GrantInv'
  BY <1>1 DEF IInv, Shape, WaitingInv, GrantInv, Paid
<1>4. VerifyInv'
  BY <1>1 DEF IInv, Shape, VerifyInv, Holds
<1> QED  BY <1>2, <1>3, <1>4 DEF IInv

(* The gateway verifies: only the first time the answer is "ok", and        *)
(* nothing was granted before.                                              *)
LEMMA GatewayVerifiesInv ==
  ASSUME IInv, NEW h \in Handlers, GatewayVerifies(h) \/ VerifiedUnheard(h)
  PROVE  IInv'
<1> DEFINE i == item[h]
           a == answer'[h]
<1>1. /\ pc[h] = "verify" /\ i \in Invoices /\ row[i] # "absent"
      /\ info[i].gw \notin {"plisio", "own"} /\ Paid(i)
  BY DEF GatewayVerifies, VerifiedUnheard, IInv, WaitingInv
<1>2. /\ answer' = [answer EXCEPT ![h] = a]
      /\ a \in {"ok", "already", "error"}
      /\ a = "ok" => remote[i] = "paid"
      /\ remote' = [remote EXCEPT ![i] = "verified"]
      /\ UNCHANGED <<info, row, notices, grants, pc, role, item, seen>>
  BY DEF GatewayVerifies, VerifiedUnheard, history, IInv, Shape
<1>3. a = "ok" => grants[i] = 0 /\ \A g \in Handlers : ~Holds(g, i)
  <2>1. info[i].gw = "aban"
    <3>1. info[i] \in [gw : Gateways, ref : Refs]
      BY <1>1 DEF IInv, Shape, UnknownInv
    <3>2. info[i].gw \in Gateways
      BY <3>1
    <3> QED  BY <1>1, <3>2, PaymentsAssumption
  <2> QED  BY <1>1, <1>2, <2>1 DEF IInv, GrantInv, VerifyInv
<1>4. Shape' /\ UnknownInv' /\ IdleInv'
  BY <1>1, <1>2 DEF IInv, Shape, UnknownInv, IdleInv
<1>5. NoticeInv' /\ CreatingInv'
  BY <1>1, <1>2 DEF IInv, Shape, NoticeInv, CreatingInv, Paid
<1>6. WaitingInv' /\ GrantInv'
  BY <1>1, <1>2 DEF IInv, Shape, WaitingInv, GrantInv, Paid
<1>7. VerifyInv'
  <2> SUFFICES ASSUME NEW g \in Handlers, NEW j \in Invoices, Holds(g, j)'
               PROVE  /\ remote'[j] = "verified" /\ grants'[j] = 0
                      /\ \A f \in Handlers : Holds(f, j)' => f = g
    BY DEF VerifyInv
  <2>1. \A f \in Handlers : Holds(f, j)' => Holds(f, j) \/ (f = h /\ j = i /\ a = "ok")
    BY <1>1, <1>2 DEF Holds, IInv, Shape
  <2>2. ~Holds(h, j)' \/ (j = i /\ a = "ok")
    BY <1>1, <1>2 DEF Holds, IInv, Shape
  <2> QED  BY <1>1, <1>2, <1>3, <2>1, <2>2 DEF IInv, VerifyInv, Shape
<1> QED  BY <1>4, <1>5, <1>6, <1>7 DEF IInv

LEMMA AskedInv ==
  ASSUME IInv, NEW h \in Handlers, Asked(h)
  PROVE  IInv'
<1> DEFINE i == item[h]
<1>1. /\ pc[h] = "ask" /\ role[h] # "return" /\ i \in Invoices
      /\ row[i] # "absent" /\ info[i].gw \notin {"plisio", "own"}
      /\ answer[h] = "paid" => Paid(i)
      /\ answer[h] \in {"open", "paid", "expired", "error"}
      /\ UNCHANGED <<info, remote, notices, grants>>
  <2>1. answer[h] \in {"open", "paid", "expired", "error"}
    BY DEF Asked, At, IInv, WaitingInv, Shape
  <2> QED  BY <2>1 DEF Asked, At, IInv, WaitingInv, history
<1>2. CASE answer[h] # "paid"
  <2>1. /\ Goto(h, "idle")
        /\ row' = row \/ \E s \in {seen[h], "open", "expired"} : SetRow(i, s)
    BY <1>1, <1>2 DEF Asked
  <2>2. Rewrites
    <3>1. {seen[h], "open", "expired"} \subseteq RowStatus \ {"absent"}
      BY <1>1 DEF IInv, Shape, WaitingInv, RowStatus
    <3> QED  BY <1>1, <2>1, <3>1 DEF Rewrites
  <2> QED  BY <1>1, <2>1, <2>2, Leaving DEF Silent, Labels
<1>3. CASE answer[h] = "paid"
  <2>1. /\ pc' = [pc EXCEPT ![h] = "verify"]
        /\ answer' = [answer EXCEPT ![h] = "none"]
        /\ UNCHANGED <<row, role, item, seen>>
    BY <1>3 DEF Asked
  <2>2. Shape' /\ UnknownInv' /\ IdleInv' /\ NoticeInv' /\ CreatingInv'
    BY <1>1, <2>1 DEF IInv, Shape, UnknownInv, IdleInv, NoticeInv, CreatingInv,
                      Paid, Labels
  <2>3. WaitingInv' /\ GrantInv' /\ VerifyInv'
    BY <1>1, <1>3, <2>1 DEF IInv, Shape, WaitingInv, GrantInv, VerifyInv, Holds,
                            Paid
  <2> QED  BY <2>2, <2>3 DEF IInv
<1> QED  BY <1>2, <1>3

(* The request that holds the successful verification takes the invoice for *)
(* newly paid, and holds it no longer.                                      *)
LEMMA VerifiedInv ==
  ASSUME IInv, NEW h \in Handlers, Verified(h)
  PROVE  IInv'
<1> DEFINE i == item[h]
<1>1. /\ pc[h] = "verify" /\ i \in Invoices
      /\ row[i] # "absent" /\ info[i].gw \notin {"plisio", "own"}
      /\ row' = row \/ SetRow(i, "completed")
      /\ UNCHANGED <<info, remote, notices>>
  BY DEF Verified, At, IInv, WaitingInv
<1>2. Rewrites
  BY <1>1 DEF Rewrites, RowStatus
<1>3. CASE ~CountsAsNew(h)
  BY <1>1, <1>2, <1>3, Leaving DEF Verified, Silent, Labels
<1>4. CASE CountsAsNew(h)
  <2>1. /\ Holds(h, i) /\ Goto(h, "final")
        /\ grants' = [grants EXCEPT ![i] = @ + 1]
    BY <1>1, <1>4 DEF CountsAsNew, Holds, Verified, Grant
  <2>2. /\ pc' = [pc EXCEPT ![h] = "final"]
        /\ UNCHANGED <<role, item, seen, answer>>
    BY <2>1 DEF Goto
  <2>3. /\ remote[i] = "verified" /\ grants[i] = 0
        /\ \A g \in Handlers : Holds(g, i) => g = h
    BY <1>1, <2>1 DEF IInv, VerifyInv
  <2>4. /\ row' \in [Invoices -> RowStatus]
        /\ \A j \in Invoices : row[j] = "absent" <=> row'[j] = "absent"
        /\ \A j \in Invoices : info[j].gw = "plisio" => row'[j] = row[j]
    BY <1>2, RowKept DEF IInv
  <2>5. Shape' /\ IdleInv' /\ NoticeInv'
    <3>1. grants' \in [Invoices -> Nat]
      BY <1>1, <2>1 DEF IInv, Shape
    <3>2. pc' \in [Handlers -> Labels]
      BY <2>2 DEF IInv, Shape, Labels
    <3>3. Shape'
      BY <1>1, <2>2, <2>4, <3>1, <3>2 DEF IInv, Shape
    <3>4. IdleInv'
      BY <2>2 DEF IInv, Shape, IdleInv
    <3>5. NoticeInv'
      BY <1>1 DEF IInv, NoticeInv, Paid
    <3> QED  BY <3>3, <3>4, <3>5
  <2>6. UnknownInv' /\ CreatingInv'
    BY <1>1, <2>1, <2>2, <2>4 DEF IInv, Shape, UnknownInv, CreatingInv
  <2>7. WaitingInv' /\ GrantInv'
    BY <1>1, <2>1, <2>2, <2>3, <2>4 DEF IInv, Shape, WaitingInv, GrantInv, Paid
  <2>8. VerifyInv'
    BY <1>1, <2>1, <2>2, <2>3 DEF IInv, Shape, VerifyInv, Holds
  <2> QED  BY <2>5, <2>6, <2>7, <2>8 DEF IInv
<1> QED  BY <1>3, <1>4

LEMMA ReturnedInv ==
  ASSUME IInv, NEW h \in Handlers, Returned(h)
  PROVE  IInv'
<1> DEFINE i == item[h]
<1>1. /\ pc[h] = "ask" /\ i \in Invoices /\ info[i].gw = "own"
  BY DEF Returned, At, IInv, WaitingInv
<1>2. /\ row' = row \/ SetRow(i, "failed") \/ SetRow(i, "completed")
      /\ Goto(h, "idle") \/ Goto(h, "final")
      /\ UNCHANGED <<info, remote, notices, grants>>
  BY <1>1 DEF Returned, Grant
<1>3. Rewrites
  <2>1. {"failed", "completed"} \subseteq RowStatus \ {"absent"}
    BY DEF RowStatus
  <2> QED  BY <1>1, <1>2, <2>1 DEF Rewrites
<1>4. "idle" \in Silent /\ "final" \in Silent
  BY DEF Silent, Labels
<1>5. CASE Goto(h, "idle")
  BY <1>2, <1>3, <1>4, <1>5, Leaving
<1>6. CASE Goto(h, "final")
  BY <1>2, <1>3, <1>4, <1>6, Leaving
<1> QED  BY <1>2, <1>5, <1>6

(* A step that leaves every request alone.                                  *)
LEMMA RowOnly ==
  ASSUME IInv, Rewrites, UNCHANGED locals,
         UNCHANGED <<info, remote, notices, grants>>
  PROVE  IInv'
<1>1. /\ row' \in [Invoices -> RowStatus]
      /\ \A j \in Invoices : row[j] = "absent" <=> row'[j] = "absent"
      /\ \A j \in Invoices : info[j].gw = "plisio" => row'[j] = row[j]
  BY RowKept DEF IInv
<1>2. Shape' /\ UnknownInv' /\ IdleInv' /\ CreatingInv'
  BY <1>1 DEF IInv, Shape, UnknownInv, IdleInv, CreatingInv, locals
<1>3. WaitingInv' /\ NoticeInv'
  BY <1>1 DEF IInv, WaitingInv, NoticeInv, Paid, locals
<1>4. VerifyInv' /\ GrantInv'
  BY <1>1 DEF IInv, VerifyInv, Holds, GrantInv, Paid, locals
<1> QED  BY <1>2, <1>3, <1>4 DEF IInv

(* The webhook of AbanGateway and the check button.                         *)
LEMMA TryVerifyInv ==
  ASSUME IInv, NEW h \in Handlers, NEW i \in Invoices,
         AbanHook(h, i) \/ CheckButton(h, i)
  PROVE  IInv'
<1>1. PICK r \in {"hook", "check"} : TryVerify(h, r, i)
  BY DEF AbanHook, CheckButton
<1>2. /\ pc[h] = "idle" /\ row[i] # "absent" /\ info[i].gw = "aban"
  BY DEF AbanHook, CheckButton, Free
<1>3. UNCHANGED <<info, row, remote, notices, grants>>
  BY <1>1 DEF TryVerify, tables
<1>4. Rewrites
  BY <1>3 DEF Rewrites
<1>5. CASE Asks(i)
  <2>1. Begin(h, r, i, "ask")
    BY <1>1, <1>5 DEF TryVerify
  <2> QED  BY <1>2, <1>3, <1>4, <2>1, Taking
<1>6. CASE ~Asks(i)
  <2>1. UNCHANGED locals
    BY <1>1, <1>6 DEF TryVerify
  <2> QED  BY <1>3, <1>4, <2>1, RowOnly
<1> QED  BY <1>5, <1>6

(* The webhook and the return page of the admin's own gateway.              *)
LEMMA OwnInv ==
  ASSUME IInv, NEW h \in Handlers, NEW i \in Invoices,
         \/ ReturnPage(h, i)
         \/ \E s \in {"open", "completed", "failed"} : OwnHook(h, i, s)
  PROVE  IInv'
<1>1. /\ pc[h] = "idle" /\ row[i] # "absent" /\ info[i].gw = "own"
      /\ UNCHANGED <<info, remote, notices, grants>>
  BY DEF ReturnPage, OwnHook, Complete, Grant, Free, history
<1>2. \E s \in {"open", "completed", "failed"} : row' = row \/ SetRow(i, s)
  BY DEF ReturnPage, OwnHook, Complete
<1>3. Rewrites
  <2>1. {"open", "completed", "failed"} \subseteq RowStatus \ {"absent"}
    BY DEF RowStatus
  <2> QED  BY <1>1, <1>2, <2>1 DEF Rewrites
<1>4. \/ Begin(h, "return", i, "ask") \/ Begin(h, "hook", i, "final")
      \/ UNCHANGED locals
  BY DEF ReturnPage, OwnHook, Complete
<1>5. CASE Begin(h, "return", i, "ask")
  BY <1>1, <1>3, <1>5, Taking
<1>6. CASE Begin(h, "hook", i, "final")
  BY <1>1, <1>3, <1>6, Taking
<1>7. CASE UNCHANGED locals
  BY <1>1, <1>3, <1>7, RowOnly
<1> QED  BY <1>4, <1>5, <1>6, <1>7

(* A completed Plisio invoice is not looked at again, so that the grant     *)
(* that comes with the completion is the first.                             *)
LEMMA PlisioHookInv ==
  ASSUME IInv, NEW h \in Handlers, NEW i \in Invoices,
         NEW s \in {"open", "completed", "failed"}, PlisioHook(h, i, s)
  PROVE  IInv'
<1>1. /\ pc[h] = "idle" /\ row[i] \notin {"absent", "deleted", "completed"}
      /\ info[i].gw = "plisio" /\ grants[i] = 0
      /\ row' = [row EXCEPT ![i] = s]
      /\ s = "completed" => Paid(i)
      /\ UNCHANGED <<info, remote, notices>>
  BY DEF PlisioHook, Free, StillOpen, SetRow, Complete, Completes, IInv,
         NoticeInv, GrantInv
<1>2. s \in RowStatus \ {"absent"}
  BY DEF RowStatus
<1>3. CASE s # "completed"
  <2>1. UNCHANGED <<pc, role, item, seen, answer, grants>>
    BY <1>3 DEF PlisioHook, Completes, locals
  <2>2. Shape' /\ UnknownInv' /\ IdleInv' /\ CreatingInv'
    BY <1>1, <1>2, <2>1 DEF IInv, Shape, UnknownInv, IdleInv, CreatingInv
  <2>3. WaitingInv' /\ NoticeInv'
    BY <1>1, <1>2, <2>1 DEF IInv, Shape, WaitingInv, NoticeInv, Paid
  <2>4. VerifyInv' /\ GrantInv'
    BY <1>1, <1>2, <2>1 DEF IInv, Shape, VerifyInv, Holds, GrantInv, Paid
  <2> QED  BY <2>2, <2>3, <2>4 DEF IInv
<1>4. CASE s = "completed"
  <2>1. /\ pc' = [pc EXCEPT ![h] = "final"] /\ role' = [role EXCEPT ![h] = "hook"]
        /\ item' = [item EXCEPT ![h] = i] /\ seen' = [seen EXCEPT ![h] = row[i]]
        /\ answer' = answer /\ grants' = [grants EXCEPT ![i] = @ + 1]
    BY <1>1, <1>4 DEF PlisioHook, Completes, Complete, Begin, Grant
  <2>2. Shape' /\ UnknownInv' /\ IdleInv'
    BY <1>1, <1>2, <2>1 DEF IInv, Shape, UnknownInv, IdleInv, Labels
  <2>3. CreatingInv' /\ WaitingInv' /\ NoticeInv'
    BY <1>1, <1>2, <2>1 DEF IInv, Shape, CreatingInv, WaitingInv, NoticeInv, Paid
  <2>4. GrantInv'
    BY <1>1, <1>4, <2>1 DEF IInv, Shape, GrantInv, Paid
  <2>5. VerifyInv'
    <3>1. \A g \in Handlers : ~Holds(g, i)
      BY <1>1 DEF IInv, WaitingInv, VerifyInv, Holds
    <3> QED  BY <1>1, <2>1, <3>1 DEF IInv, Shape, VerifyInv, Holds
  <2> QED  BY <2>2, <2>3, <2>4, <2>5 DEF IInv
<1> QED  BY <1>3, <1>4

-----------------------------------------------------------------------------
(* The theorems.                                                            *)

LEMMA NextInv ==
  ASSUME IInv, [Next]_vars
  PROVE  IInv'
<1>1. ASSUME NEW h \in Handlers, Step(h)
      PROVE  IInv'
  BY <1>1, InvoiceCreatedInv, DeliveryInv, AnswerInv, AskedInv,
     GatewayVerifiesInv, VerifiedInv, ReturnedInv DEF Step
<1>2. ASSUME NEW h \in Handlers, Start(h)
      PROVE  IInv'
  BY <1>2, StartInvoiceInv, TryVerifyInv, OwnInv, PlisioHookInv, ReviewInv
  DEF Start
<1>3. ASSUME NEW h \in Handlers,
             AnswerLost(h) \/ VerifiedUnheard(h) \/ Interrupt(h)
      PROVE  IInv'
  BY <1>3, AnswerInv, GatewayVerifiesInv, DeliveryInv
<1>4. CASE Environment
  BY <1>4, OutsideInv
<1>5. CASE UNCHANGED vars
  BY <1>5, RowOnly DEF vars, tables, history, Rewrites
<1> QED  BY <1>1, <1>2, <1>3, <1>4, <1>5 DEF Next

LEMMA AlwaysInv == Spec => []IInv
<1>1. IInv /\ [Next]_vars => IInv'
  BY NextInv
<1> QED  BY InitInv, <1>1, PTL DEF Spec

(* An invoice of AbanGateway or Plisio is taken for newly paid once, and    *)
(* only when it is paid: the webhook and the check button cannot both get   *)
(* the one verification that succeeds, and a callback of Plisio that is     *)
(* repeated finds the row completed.                                        *)
THEOREM OnceGranted == Spec => []GrantedOnce
<1>1. IInv => GrantedOnce
  BY DEF IInv, GrantInv, GrantedOnce, Paid
<1> QED  BY AlwaysInv, <1>1, PTL

(* No step reopens a completed Plisio invoice: only its own webhook writes  *)
(* its row, requests that waited for an answer belong to other gateways.    *)
THEOREM NeverReopened == Spec => CompletedStays
<1> DEFINE Stays == \A i \in Invoices :
                       info[i].gw = "plisio" /\ row[i] = "completed" =>
                           row'[i] \in {"completed", "deleted"}
<1>1. ASSUME IInv, Next PROVE Stays
  <2> SUFFICES ASSUME NEW j \in Invoices, info[j].gw = "plisio",
                      row[j] = "completed"
               PROVE  row'[j] \in {"completed", "deleted"}
    OBVIOUS
  <2>1. CASE row' = row
    BY <2>1
  <2>2. CASE Environment
    BY <1>1, <2>2 DEF Environment, Announce, Pay, RunOut, ExpireRow, DeleteRow, IInv, Shape
  <2>3. ASSUME NEW h \in Handlers, InvoiceCreated(h) PROVE row'[j] = row[j]
    BY <1>1, <2>3 DEF InvoiceCreated, At, IInv, Shape, CreatingInv
  <2>4. ASSUME NEW h \in Handlers, Asked(h) \/ Verified(h) \/ Returned(h)
        PROVE  row'[j] = row[j]
    <3>1. item[h] # j
      BY <1>1, <2>4 DEF Asked, Verified, Returned, At, IInv, WaitingInv
    <3>2. \/ row' = row
          \/ \E x \in RowStatus : SetRow(item[h], x)
      <4>1. {"open", "completed", "failed", "expired"} \subseteq RowStatus
        BY DEF RowStatus
      <4>2. seen[h] \in RowStatus
        BY <1>1 DEF IInv, Shape
      <4>3. CASE Asked(h)
        <5>1. answer[h] \in {"open", "paid", "expired", "error"}
          BY <1>1, <4>3 DEF Asked, At, IInv, WaitingInv, Shape
        <5> QED  BY <4>1, <4>2, <4>3, <5>1 DEF Asked
      <4>4. CASE Verified(h)
        BY <4>1, <4>4 DEF Verified
      <4>5. CASE Returned(h)
        BY <4>1, <4>5 DEF Returned
      <4> QED  BY <2>4, <4>3, <4>4, <4>5
    <3> QED  BY <1>1, <3>1, <3>2 DEF SetRow, IInv, Shape
  <2>5. ASSUME NEW h \in Handlers, NEW i \in Invoices,
               \/ ReturnPage(h, i)
               \/ \E s \in {"open", "completed", "failed"} :
                     PlisioHook(h, i, s) \/ OwnHook(h, i, s)
        PROVE  row'[j] = row[j]
    <3>1. i # j
      BY <1>1, <2>5 DEF ReturnPage, PlisioHook, OwnHook, StillOpen
    <3>2. row' = row \/ \E x \in RowStatus : SetRow(i, x)
      BY <2>5 DEF ReturnPage, PlisioHook, OwnHook, Complete, RowStatus
    <3> QED  BY <1>1, <3>1, <3>2 DEF SetRow, IInv, Shape
  <2>6. ASSUME NEW h \in Handlers,
               \/ InvoiceRefused(h) \/ Finalize(h) \/ TopupApproved(h)
               \/ TopupCredited(h) \/ PanelBuilt(h) \/ PanelFailed(h)
               \/ OrderApproved(h) \/ Rejected(h) \/ Interrupt(h)
               \/ GatewayAnswers(h) \/ AnswerLost(h)
               \/ GatewayVerifies(h) \/ VerifiedUnheard(h)
        PROVE  row' = row
    BY <2>6 DEF InvoiceRefused, Finalize, TopupApproved, TopupCredited,
         PanelBuilt, PanelFailed, OrderApproved, Rejected, Interrupt,
         GatewayAnswers, AnswerLost, GatewayVerifies, VerifiedUnheard, tables
  <2>7. ASSUME NEW h \in Handlers, NEW i \in Invoices,
               AbanHook(h, i) \/ CheckButton(h, i)
        PROVE  row' = row
    BY <2>7 DEF AbanHook, CheckButton, TryVerify, tables
  <2>8. ASSUME NEW h \in Handlers, NEW r \in Refs,
               \/ StartApprove(h, r) \/ StartReject(h, r)
               \/ \E g \in Gateways, i \in Invoices : StartInvoice(h, g, r, i)
        PROVE  row' = row
    BY <2>8 DEF StartApprove, StartReject, StartReview, StartInvoice, tables
  <2> QED
    BY <1>1, <2>1, <2>2, <2>3, <2>4, <2>5, <2>6, <2>7, <2>8 DEF Next, Step, Start
<1>2. ASSUME IInv, [Next]_vars PROVE [Stays]_vars
  BY <1>1, <1>2
<1>3. Spec => [][Stays]_vars
  BY <1>2, AlwaysInv, PTL DEF Spec
<1> QED  BY <1>3 DEF CompletedStays

-----------------------------------------------------------------------------
(***************************************************************************)
(* Approved top-ups are credited, and nothing is given for free.  A request*)
(* that settles something was paid for it or told to by an admin: Owed is  *)
(* never taken back, since a paid invoice stays paid and keeps what it is  *)
(* for.                                                                    *)
(***************************************************************************)
Owed(r) == PaidFor(r) # {} \/ verdicts[r] > 0
Settling == {"final", "set", "credit", "panel", "approve"}

DueShape ==
    /\ status \in [Refs -> {"pending", "approved", "rejected"}]
    /\ ref \in [Handlers -> Refs \cup {NoRef}]
    /\ credits \in [Refs -> Nat] /\ builds \in [Refs -> Nat]
    /\ verdicts \in [Refs -> Nat]

WorkOf(h) ==
    /\ pc[h] \in Settling => ref[h] \in Refs /\ Owed(ref[h])
    /\ pc[h] \in {"ask", "verify"} => ref[h] = info[item[h]].ref
    /\ pc[h] \in {"set", "credit"} => KindOf[ref[h]] = "topup"
    /\ pc[h] \in {"panel", "approve"} => KindOf[ref[h]] # "topup"
WorkInv == \A h \in Handlers : WorkOf(h)

DueInv == DueShape /\ WorkInv /\ ApprovedIsCredited /\ NothingForFree

(* What is owed stays owed.                                                 *)
Kept ==
    /\ \A i \in Invoices : Paid(i) => Paid(i)'
    /\ \A i \in Invoices : info[i] # NoInfo => info'[i] = info[i]
    /\ \A r \in Refs : verdicts'[r] >= verdicts[r]

LEMMA KeptByAll ==
  ASSUME IInv, DueShape, Next
  PROVE  Kept
<1>0. \A r \in Refs : verdicts[r] \in Nat /\ verdicts[r] >= verdicts[r]
  BY DEF DueShape
<1>1. CASE UNCHANGED <<info, remote, verdicts>>
  BY <1>0, <1>1 DEF Kept, Paid
<1>2. ASSUME NEW h \in Handlers, InvoiceCreated(h)
      PROVE  Kept
  <2>1. /\ item[h] \in Invoices /\ remote[item[h]] = "none"
        /\ remote' = [remote EXCEPT ![item[h]] = "open"]
        /\ UNCHANGED <<info, verdicts>>
    BY <1>2 DEF InvoiceCreated, At, IInv, CreatingInv, history
  <2> QED  BY <1>0, <2>1 DEF Kept, Paid, IInv, Shape
<1>3. ASSUME NEW h \in Handlers, GatewayVerifies(h) \/ VerifiedUnheard(h)
      PROVE  Kept
  <2>1. /\ remote' = [remote EXCEPT ![item[h]] = "verified"]
        /\ UNCHANGED <<info, verdicts>>
    BY <1>3 DEF GatewayVerifies, VerifiedUnheard, history
  <2> QED  BY <1>0, <2>1 DEF Kept, Paid, IInv, Shape
<1>4. ASSUME NEW i \in Invoices, Pay(i) \/ RunOut(i)
      PROVE  Kept
  <2>1. /\ remote[i] = "open" /\ UNCHANGED <<info, verdicts>>
        /\ \E x \in {"paid", "expired"} : remote' = [remote EXCEPT ![i] = x]
    BY <1>4 DEF Pay, RunOut, history
  <2> QED  BY <1>0, <2>1 DEF Kept, Paid, IInv, Shape
<1>5. ASSUME NEW h \in Handlers, NEW g \in Gateways, NEW r \in Refs,
             NEW i \in Invoices, StartInvoice(h, g, r, i)
      PROVE  Kept
  <2>1. /\ info[i] = NoInfo /\ info' = [info EXCEPT ![i] = [gw |-> g, ref |-> r]]
        /\ UNCHANGED <<remote, verdicts>>
    BY <1>5 DEF StartInvoice, history
  <2> QED  BY <1>0, <2>1 DEF Kept, Paid, IInv, Shape
<1>6. ASSUME NEW h \in Handlers, NEW r \in Refs, StartApprove(h, r)
      PROVE  Kept
  <2>1. /\ UNCHANGED <<info, remote>>
        /\ verdicts' = [verdicts EXCEPT ![r] = @ + 1]
    BY <1>6 DEF StartApprove, StartReview, tables
  <2> QED  BY <1>0, <2>1 DEF Kept, Paid, DueShape
<1>7. ASSUME NEW h \in Handlers,
             \/ InvoiceRefused(h) \/ Finalize(h) \/ TopupApproved(h)
             \/ TopupCredited(h) \/ PanelBuilt(h) \/ PanelFailed(h)
             \/ OrderApproved(h) \/ Rejected(h) \/ Interrupt(h)
             \/ GatewayAnswers(h) \/ AnswerLost(h) \/ Asked(h) \/ Verified(h)
             \/ Returned(h) \/ \E r \in Refs : StartReject(h, r)
      PROVE  UNCHANGED <<info, remote, verdicts>>
  BY <1>7 DEF InvoiceRefused, Finalize, TopupApproved, TopupCredited, PanelBuilt,
     PanelFailed, OrderApproved, Rejected, Interrupt, GatewayAnswers, AnswerLost,
     Asked, Verified, Returned, StartReject, StartReview, tables, history
<1>8. ASSUME NEW h \in Handlers, NEW i \in Invoices,
             \/ AbanHook(h, i) \/ CheckButton(h, i) \/ ReturnPage(h, i)
             \/ \E s \in {"open", "completed", "failed"} :
                   PlisioHook(h, i, s) \/ OwnHook(h, i, s)
      PROVE  UNCHANGED <<info, remote, verdicts>>
  BY <1>8 DEF AbanHook, CheckButton, ReturnPage, PlisioHook, OwnHook, TryVerify,
     tables, history
<1>9. ASSUME NEW i \in Invoices, Announce(i) \/ ExpireRow(i) \/ DeleteRow(i)
      PROVE  UNCHANGED <<info, remote, verdicts>>
  BY <1>9 DEF Announce, ExpireRow, DeleteRow, history
<1> QED
  BY <1>1, <1>2, <1>3, <1>4, <1>5, <1>6, <1>7, <1>8, <1>9
  DEF Next, Step, Start, Environment

LEMMA OwedStays ==
  ASSUME DueShape, DueShape', Kept, NEW r \in Refs, Owed(r)
  PROVE  Owed(r)'
<1>1. CASE verdicts[r] > 0
  BY <1>1 DEF Kept, Owed, DueShape
<1>2. CASE PaidFor(r) # {}
  <2>1. PICK i \in Invoices : info[i].ref = r /\ Paid(i)
    BY <1>2 DEF PaidFor
  <2>2. info[i] # NoInfo
    BY <2>1, PaymentsAssumption DEF NoInfo
  <2>3. i \in PaidFor(r)'
    BY <2>1, <2>2 DEF Kept, PaidFor
  <2> QED  BY <2>3 DEF Owed
<1> QED  BY <1>1, <1>2 DEF Owed

(* Who has read the row of an invoice knows whom it is for.                 *)
LEMMA ForWhom ==
  ASSUME IInv, NEW i \in Invoices, row[i] # "absent"
  PROVE  info[i] # NoInfo /\ info[i].ref \in Refs
<1>1. info[i] # NoInfo
  BY DEF IInv, UnknownInv
<1>2. info[i] \in [gw : Gateways, ref : Refs]
  BY <1>1 DEF IInv, Shape
<1> QED  BY <1>1, <1>2

(* A request that stands still has the same claim.                          *)
LEMMA WorkStays ==
  ASSUME IInv, DueInv, DueShape', Kept, NEW g \in Handlers,
         pc'[g] = pc[g] /\ ref'[g] = ref[g] /\ item'[g] = item[g]
  PROVE  WorkOf(g)'
<1>1. pc'[g] = pc[g] /\ ref'[g] = ref[g] /\ item'[g] = item[g] /\ WorkOf(g)
  BY DEF DueInv, WorkInv
<1>2. CASE pc[g] \in Settling
  <2>1. PICK r \in Refs : r = ref[g] /\ Owed(r)
    BY <1>1, <1>2 DEF WorkOf
  <2>2. Owed(r)'
    BY <2>1, OwedStays DEF DueInv
  <2> QED  BY <1>1, <1>2, <2>1, <2>2 DEF WorkOf, Owed, PaidFor, Settling
<1>3. CASE pc[g] \in {"ask", "verify"}
  <2>1. info'[item[g]] = info[item[g]]
    BY <1>3, ForWhom DEF IInv, WaitingInv, Kept
  <2> QED  BY <1>1, <1>3, <2>1 DEF WorkOf, Settling
<1>4. CASE pc[g] \notin Settling /\ pc[g] \notin {"ask", "verify"}
  BY <1>1, <1>4 DEF WorkOf, Settling
<1> QED  BY <1>2, <1>3, <1>4

(* Where a request goes when it is done, or goes on with what it has.       *)
LEMMA WorkByGoto ==
  ASSUME IInv, DueInv, DueShape', Kept, NEW h \in Handlers, NEW l \in Labels,
         Goto(h, l),
         l \notin {"ask", "verify"},
         l \in Settling => ref[h] \in Refs /\ Owed(ref[h]),
         l \in {"set", "credit"} => KindOf[ref[h]] = "topup",
         l \in {"panel", "approve"} => KindOf[ref[h]] # "topup"
  PROVE  WorkInv'
<1>1. /\ pc'[h] = l
      /\ \A g \in Handlers \ {h} :
            pc'[g] = pc[g] /\ ref'[g] = ref[g] /\ item'[g] = item[g]
  BY DEF Goto, IInv, Shape, DueInv, DueShape
<1>2. WorkOf(h)'
  <2>1. CASE l \in Settling
    <3>1. ref'[h] = ref[h]
      BY <2>1 DEF Goto, Settling
    <3>2. PICK r \in Refs : r = ref[h] /\ Owed(r)
      BY <2>1
    <3>3. Owed(r)'
      BY <3>2, OwedStays DEF DueInv
    <3> QED  BY <1>1, <3>1, <3>2, <3>3 DEF WorkOf, Owed, PaidFor
  <2>2. CASE l \notin Settling
    BY <1>1, <2>2 DEF WorkOf, Settling
  <2> QED  BY <2>1, <2>2
<1>3. ASSUME NEW g \in Handlers \ {h} PROVE WorkOf(g)'
  BY <1>1, <1>3, WorkStays
<1> QED  BY <1>2, <1>3 DEF WorkInv

(* A request takes up an invoice, which is paid if it is to be settled.     *)
LEMMA WorkByBegin ==
  ASSUME IInv, DueInv, DueShape', Kept, NEW h \in Handlers, NEW r,
         NEW i \in Invoices, row[i] # "absent", NEW l \in {"ask", "final"},
         Begin(h, r, i, l), l = "final" => Paid(i)
  PROVE  WorkInv'
<1>1. /\ pc'[h] = l /\ ref'[h] = info[i].ref /\ item'[h] = i
      /\ \A g \in Handlers \ {h} :
            pc'[g] = pc[g] /\ ref'[g] = ref[g] /\ item'[g] = item[g]
  BY DEF Begin, IInv, Shape, DueInv, DueShape
<1>2. info[i].ref \in Refs /\ info'[i] = info[i]
  BY ForWhom DEF Kept
<1>3. WorkOf(h)'
  <2>1. CASE l = "final"
    <3>1. i \in PaidFor(info[i].ref)'
      BY <1>2, <2>1 DEF PaidFor, Kept
    <3> QED  BY <1>1, <1>2, <2>1, <3>1 DEF WorkOf, Owed, PaidFor
  <2>2. CASE l = "ask"
    BY <1>1, <1>2, <2>2 DEF WorkOf, Settling
  <2> QED  BY <2>1, <2>2
<1>4. ASSUME NEW g \in Handlers \ {h} PROVE WorkOf(g)'
  BY <1>1, <1>4, WorkStays
<1> QED  BY <1>3, <1>4 DEF WorkInv

LEMMA WorkByStep ==
  ASSUME IInv, DueInv, DueShape', Kept, NEW h \in Handlers, Step(h) \/ Interrupt(h)
  PROVE  WorkInv'
<1> USE DEF Labels
<1>1. CASE Goto(h, "idle")
  BY <1>1, WorkByGoto DEF Settling
<1>2. CASE Finalize(h)
  <2>1. pc[h] = "final" /\ ref[h] \in Refs /\ Owed(ref[h])
    BY <1>2 DEF Finalize, At, DueInv, WorkInv, WorkOf, Settling
  <2>2. PICK l \in {"idle", "set", "panel", "approve"} :
           /\ Goto(h, l) /\ (l = "set" => KindOf[ref[h]] = "topup")
           /\ l \in {"panel", "approve"} => KindOf[ref[h]] # "topup"
    <3>1. Deliver(ref[h], role[h]) \in {"idle", "set", "panel", "approve"}
      BY DEF Deliver
    <3>2. /\ Deliver(ref[h], role[h]) = "set" => KindOf[ref[h]] = "topup"
          /\ Deliver(ref[h], role[h]) \in {"panel", "approve"} =>
                KindOf[ref[h]] # "topup"
      BY DEF Deliver
    <3> QED  BY <1>1, <1>2, <3>1, <3>2 DEF Finalize
  <2> QED  BY <2>1, <2>2, WorkByGoto
<1>3. CASE TopupApproved(h)
  BY <1>3, WorkByGoto DEF TopupApproved, At, DueInv, WorkInv, WorkOf, Settling
<1>4. CASE PanelBuilt(h)
  BY <1>4, WorkByGoto DEF PanelBuilt, At, DueInv, WorkInv, WorkOf, Settling
<1>5. CASE GatewayAnswers(h) \/ GatewayVerifies(h)
  <2>1. UNCHANGED <<pc, ref, item>>
    BY <1>5 DEF GatewayAnswers, GatewayVerifies
  <2> QED  BY <2>1, WorkStays DEF WorkInv
<1>6. CASE pc[h] \in {"ask", "verify"} /\ Paid(item[h]) /\ Goto(h, "final")
  <2>1. /\ item[h] \in Invoices /\ row[item[h]] # "absent"
        /\ ref[h] = info[item[h]].ref
    BY <1>6 DEF IInv, WaitingInv, DueInv, WorkInv, WorkOf
  <2>2. ref[h] \in Refs /\ Owed(ref[h])
    BY <1>6, <2>1, ForWhom DEF Owed, PaidFor
  <2> QED  BY <1>6, <2>2, WorkByGoto DEF Settling
<1>7. CASE Asked(h) /\ ~Goto(h, "idle")
  <2>1. /\ pc[h] = "ask" /\ pc' = [pc EXCEPT ![h] = "verify"]
        /\ UNCHANGED <<ref, item, info>>
    <3>1. answer[h] \in {"open", "paid", "expired", "error"}
      BY <1>7 DEF Asked, At, IInv, WaitingInv, Shape
    <3> QED  BY <1>7, <3>1 DEF Asked, At
  <2>2. /\ pc'[h] = "verify"
        /\ \A g \in Handlers \ {h} : pc'[g] = pc[g]
    BY <2>1 DEF IInv, Shape
  <2>3. WorkOf(h)'
    BY <2>1, <2>2 DEF DueInv, WorkInv, WorkOf, Settling
  <2>4. ASSUME NEW g \in Handlers \ {h} PROVE WorkOf(g)'
    BY <2>1, <2>2, <2>4, WorkStays
  <2> QED  BY <2>3, <2>4 DEF WorkInv
<1>8. CASE Verified(h) /\ ~Goto(h, "idle")
  <2>1. pc[h] = "verify" /\ Goto(h, "final")
    BY <1>8 DEF Verified, At
  <2> QED  BY <1>6, <2>1 DEF IInv, WaitingInv
<1>9. CASE Returned(h) /\ ~Goto(h, "idle")
  <2>1. pc[h] = "ask" /\ Goto(h, "final") /\ answer[h] = "paid"
    BY <1>9 DEF Returned, At
  <2> QED  BY <1>6, <2>1 DEF IInv, WaitingInv
<1> QED
  BY <1>1, <1>2, <1>3, <1>4, <1>5, <1>7, <1>8, <1>9
  DEF Step, InvoiceCreated, InvoiceRefused, TopupCredited, PanelFailed,
      OrderApproved, Rejected, Interrupt

LEMMA WorkByStart ==
  ASSUME IInv, DueInv, DueShape', Kept, NEW h \in Handlers, Start(h)
  PROVE  WorkInv'
<1>1. CASE UNCHANGED locals
  BY <1>1, WorkStays DEF locals, WorkInv
<1>2. ASSUME NEW i \in Invoices, AbanHook(h, i) \/ CheckButton(h, i) \/ ReturnPage(h, i)
      PROVE  WorkInv'
  <2>1. row[i] # "absent"
    BY <1>2 DEF AbanHook, CheckButton, ReturnPage, Free
  <2>2. UNCHANGED locals \/ \E r \in {"hook", "check", "return"} : Begin(h, r, i, "ask")
    BY <1>2 DEF AbanHook, CheckButton, ReturnPage, TryVerify
  <2> QED  BY <1>1, <2>1, <2>2, WorkByBegin
<1>3. ASSUME NEW i \in Invoices, NEW s \in {"open", "completed", "failed"},
             PlisioHook(h, i, s) \/ OwnHook(h, i, s)
      PROVE  WorkInv'
  <2>1. row[i] # "absent" /\ (s = "completed" => Paid(i))
    BY <1>3 DEF PlisioHook, OwnHook, Free, IInv, NoticeInv
  <2>2. UNCHANGED locals \/ (s = "completed" /\ Begin(h, "hook", i, "final"))
    BY <1>3 DEF PlisioHook, OwnHook, Complete, Completes
  <2> QED  BY <1>1, <2>1, <2>2, WorkByBegin
<1>4. ASSUME NEW r \in Refs, StartApprove(h, r) \/ StartReject(h, r)
      PROVE  WorkInv'
  <2>1. /\ ref' = [ref EXCEPT ![h] = r] /\ item' = item
        /\ \/ pc' = [pc EXCEPT ![h] = "reject"]
           \/ /\ pc' = [pc EXCEPT ![h] = "final"]
              /\ verdicts' = [verdicts EXCEPT ![r] = @ + 1]
    BY <1>4 DEF StartApprove, StartReject, StartReview
  <2>2. /\ ref'[h] = r
        /\ \A g \in Handlers \ {h} : pc'[g] = pc[g] /\ ref'[g] = ref[g] /\ item'[g] = item[g]
        /\ pc'[h] = "reject" \/ (pc'[h] = "final" /\ verdicts'[r] > 0)
    BY <2>1 DEF IInv, Shape, DueInv, DueShape
  <2>3. WorkOf(h)'
    BY <2>2 DEF WorkOf, Owed, Settling
  <2>4. ASSUME NEW g \in Handlers \ {h} PROVE WorkOf(g)'
    BY <2>2, <2>4, WorkStays
  <2> QED  BY <2>3, <2>4 DEF WorkInv
<1>5. ASSUME NEW g \in Gateways, NEW r \in Refs, NEW i \in Invoices, StartInvoice(h, g, r, i)
      PROVE  WorkInv'
  <2>1. /\ pc'[h] = "creating"
        /\ \A f \in Handlers \ {h} : pc'[f] = pc[f] /\ ref'[f] = ref[f] /\ item'[f] = item[f]
    BY <1>5 DEF StartInvoice, IInv, Shape, DueInv, DueShape
  <2>2. WorkOf(h)'
    BY <2>1 DEF WorkOf, Settling
  <2>3. ASSUME NEW f \in Handlers \ {h} PROVE WorkOf(f)'
    BY <2>1, <2>3, WorkStays
  <2> QED  BY <2>2, <2>3 DEF WorkInv
<1> QED  BY <1>2, <1>3, <1>4, <1>5 DEF Start

(* What a step writes: the status and the two counts, and what it notes of  *)
(* an interruption.                                                         *)
LEMMA Writes ==
  ASSUME IInv, DueInv, Next
  PROVE  \/ UNCHANGED <<status, credits, builds>> /\ halted \subseteq halted'
         \/ \E h \in Handlers : \/ TopupApproved(h) \/ TopupCredited(h)
                                \/ PanelBuilt(h) \/ OrderApproved(h) \/ Rejected(h)
<1>1. ASSUME NEW h \in Handlers,
             \/ InvoiceCreated(h) \/ InvoiceRefused(h) \/ GatewayAnswers(h)
             \/ Asked(h) \/ GatewayVerifies(h) \/ Verified(h) \/ Returned(h)
             \/ Finalize(h) \/ PanelFailed(h) \/ AnswerLost(h)
             \/ VerifiedUnheard(h) \/ Interrupt(h) \/ Start(h)
      PROVE  UNCHANGED <<status, credits, builds>> /\ halted \subseteq halted'
  BY <1>1 DEF InvoiceCreated, InvoiceRefused, GatewayAnswers, Asked,
     GatewayVerifies, Verified, Returned, Finalize, PanelFailed, AnswerLost,
     VerifiedUnheard, Interrupt, Start, StartInvoice, AbanHook, CheckButton,
     ReturnPage, PlisioHook, OwnHook, TryVerify, StartApprove, StartReject,
     StartReview, tables, history
<1>2. CASE Environment
  BY <1>2 DEF Environment, Announce, Pay, RunOut, ExpireRow, DeleteRow, history
<1> QED  BY <1>1, <1>2 DEF Next, Step

LEMMA VerdictsStay ==
  ASSUME DueShape, Next
  PROVE  verdicts' \in [Refs -> Nat]
<1>1. ASSUME NEW h \in Handlers,
             Step(h) \/ AnswerLost(h) \/ VerifiedUnheard(h) \/ Interrupt(h)
      PROVE  verdicts' = verdicts
  BY <1>1 DEF Step, InvoiceCreated, InvoiceRefused, GatewayAnswers, Asked,
     GatewayVerifies, Verified, Returned, Finalize, TopupApproved,
     TopupCredited, PanelBuilt, PanelFailed, OrderApproved, Rejected,
     AnswerLost, VerifiedUnheard, Interrupt, history
<1>2. ASSUME NEW h \in Handlers, Start(h)
      PROVE  \/ verdicts' = verdicts
             \/ \E r \in Refs : verdicts' = [verdicts EXCEPT ![r] = @ + 1]
  BY <1>2 DEF Start, StartInvoice, AbanHook, CheckButton, ReturnPage,
     PlisioHook, OwnHook, TryVerify, StartApprove, StartReject, history
<1>3. CASE Environment
  BY <1>3 DEF Environment, Announce, Pay, RunOut, ExpireRow, DeleteRow, history,
     DueShape
<1> QED  BY <1>1, <1>2, <1>3 DEF Next, DueShape

LEMMA RefsStay ==
  ASSUME IInv, DueShape, Next
  PROVE  ref' \in [Handlers -> Refs \cup {NoRef}]
<1> DEFINE Takes(h, r) == ref' = [ref EXCEPT ![h] = r]
<1>1. ASSUME NEW h \in Handlers, NEW i \in Invoices,
             \/ AbanHook(h, i) \/ CheckButton(h, i) \/ ReturnPage(h, i)
             \/ \E s \in {"open", "completed", "failed"} :
                   PlisioHook(h, i, s) \/ OwnHook(h, i, s)
      PROVE  ref' = ref \/ \E r \in Refs : Takes(h, r)
  <2>1. row[i] # "absent"
    BY <1>1 DEF AbanHook, CheckButton, ReturnPage, PlisioHook, OwnHook, Free
  <2>2. ref' = ref \/ Takes(h, info[i].ref)
    BY <1>1 DEF AbanHook, CheckButton, ReturnPage, TryVerify, PlisioHook,
       OwnHook, Complete, Begin, locals
  <2> QED  BY <2>1, <2>2, ForWhom
<1>2. ASSUME NEW h \in Handlers, Asked(h) \/ Verified(h) \/ Returned(h)
      PROVE  ref' = ref \/ Takes(h, NoRef)
  <2>1. CASE Asked(h)
    <3>1. answer[h] \in {"open", "paid", "expired", "error"}
      BY <2>1 DEF Asked, At, IInv, WaitingInv, Shape
    <3> QED  BY <2>1, <3>1 DEF Asked, Goto
  <2>2. CASE Verified(h) \/ Returned(h)
    BY <2>2 DEF Verified, Returned, Goto
  <2> QED  BY <1>2, <2>1, <2>2
<1>3. ASSUME NEW h \in Handlers,
             \/ InvoiceCreated(h) \/ InvoiceRefused(h) \/ GatewayAnswers(h)
             \/ GatewayVerifies(h) \/ Finalize(h) \/ TopupApproved(h)
             \/ TopupCredited(h) \/ PanelBuilt(h) \/ PanelFailed(h)
             \/ OrderApproved(h) \/ Rejected(h) \/ Interrupt(h)
             \/ AnswerLost(h) \/ VerifiedUnheard(h)
      PROVE  ref' = ref \/ Takes(h, NoRef)
  BY <1>3 DEF InvoiceCreated, InvoiceRefused, GatewayAnswers, GatewayVerifies,
     Finalize, TopupApproved, TopupCredited, PanelBuilt, PanelFailed,
     OrderApproved, Rejected, Interrupt, AnswerLost, VerifiedUnheard, Goto
<1>4. ASSUME NEW h \in Handlers, NEW r \in Refs,
             \/ StartApprove(h, r) \/ StartReject(h, r)
             \/ \E g \in Gateways, i \in Invoices : StartInvoice(h, g, r, i)
      PROVE  Takes(h, r)
  BY <1>4 DEF StartApprove, StartReject, StartReview, StartInvoice
<1>5. ref' = ref \/ \E h \in Handlers, r \in Refs \cup {NoRef} : Takes(h, r)
  <2> HIDE DEF Takes
  <2>1. CASE \E h \in Handlers : Start(h)
    BY <1>1, <1>4, <2>1 DEF Start
  <2>2. CASE \E h \in Handlers :
                Step(h) \/ AnswerLost(h) \/ VerifiedUnheard(h) \/ Interrupt(h)
    BY <1>2, <1>3, <2>2 DEF Step
  <2>3. CASE Environment
    BY <2>3 DEF Environment, Announce, Pay, RunOut, ExpireRow, DeleteRow, locals
  <2> QED  BY <2>1, <2>2, <2>3 DEF Next
<1> QED  BY <1>5 DEF DueShape

LEMMA DueShapeStep ==
  ASSUME IInv, DueInv, Next
  PROVE  DueShape'
<1>1. CASE UNCHANGED <<status, credits, builds>>
  BY <1>1, VerdictsStay, RefsStay DEF DueInv, DueShape
<1>2. ASSUME NEW h \in Handlers,
             \/ TopupApproved(h) \/ TopupCredited(h) \/ PanelBuilt(h)
             \/ OrderApproved(h) \/ Rejected(h)
      PROVE  DueShape'
  <2>1. /\ \/ status' = status
           \/ status' = [status EXCEPT ![ref[h]] = "approved"]
           \/ status' = [status EXCEPT ![ref[h]] = "rejected"]
        /\ credits' = credits \/ credits' = [credits EXCEPT ![ref[h]] = @ + 1]
        /\ builds' = builds \/ builds' = [builds EXCEPT ![ref[h]] = @ + 1]
    BY <1>2 DEF TopupApproved, TopupCredited, PanelBuilt, OrderApproved,
       Rejected, AddCredit, tables, history
  <2>2. /\ status' \in [Refs -> {"pending", "approved", "rejected"}]
        /\ credits' \in [Refs -> Nat] /\ builds' \in [Refs -> Nat]
    BY <2>1 DEF DueInv, DueShape
  <2> QED  BY <2>2, VerdictsStay, RefsStay DEF DueInv, DueShape
<1> QED  BY <1>1, <1>2, Writes

LEMMA WorkStep ==
  ASSUME IInv, DueInv, DueShape', Kept, Next
  PROVE  WorkInv'
<1>1. ASSUME NEW h \in Handlers, AnswerLost(h) \/ VerifiedUnheard(h)
      PROVE  WorkInv'
  <2>1. UNCHANGED <<pc, ref, item>>
    BY <1>1 DEF AnswerLost, VerifiedUnheard
  <2> QED  BY <2>1, WorkStays DEF WorkInv
<1>2. CASE Environment
  <2>1. UNCHANGED <<pc, ref, item>>
    BY <1>2 DEF Environment, Announce, Pay, RunOut, ExpireRow, DeleteRow, locals
  <2> QED  BY <2>1, WorkStays DEF WorkInv
<1> QED  BY <1>1, <1>2, WorkByStep, WorkByStart DEF Next

(* What is delivered was owed when its request began to deliver it.         *)
LEMMA NothingStep ==
  ASSUME IInv, DueInv, DueShape', Kept, Next
  PROVE  NothingForFree'
<1> SUFFICES ASSUME NEW r \in Refs, builds'[r] > 0
             PROVE  Owed(r)'
  BY DEF NothingForFree, Owed, PaidFor, Paid
<1>1. CASE builds[r] > 0
  <2>1. Owed(r)
    BY <1>1 DEF DueInv, NothingForFree, Owed
  <2> QED  BY <2>1, OwedStays DEF DueInv
<1>2. CASE ~(builds[r] > 0)
  <2>1. PICK h \in Handlers : \/ TopupApproved(h) \/ TopupCredited(h)
                              \/ PanelBuilt(h) \/ OrderApproved(h) \/ Rejected(h)
    BY <1>2, Writes
  <2>2. PanelBuilt(h) \/ OrderApproved(h)
    BY <1>2, <2>1 DEF TopupApproved, TopupCredited, Rejected, history
  <2>3. /\ pc[h] \in {"panel", "approve"}
        /\ builds' = builds \/ builds' = [builds EXCEPT ![ref[h]] = @ + 1]
    BY <2>2 DEF PanelBuilt, OrderApproved, At
  <2>4. ref[h] = r
    BY <1>2, <2>3 DEF DueInv, DueShape
  <2>5. Owed(r)
    BY <2>3, <2>4 DEF DueInv, WorkInv, WorkOf, Settling
  <2> QED  BY <2>5, OwedStays DEF DueInv
<1> QED  BY <1>1, <1>2

(* A request that is about to put money into the wallet does so, or is      *)
(* interrupted; nobody else moves it.                                       *)
LEMMA CreditStays ==
  ASSUME IInv, DueInv, Next, NEW g \in Handlers, pc[g] = "credit",
         ~TopupCredited(g), ~Interrupt(g)
  PROVE  pc'[g] = "credit" /\ ref'[g] = ref[g]
<1> DEFINE Still == pc'[g] = pc[g] /\ ref'[g] = ref[g]
<1>1. pc' = pc /\ ref' = ref => Still
  OBVIOUS
<1>2. ASSUME NEW h \in Handlers, h # g, NEW l, Goto(h, l)
      PROVE  Still
  BY <1>2 DEF Goto, IInv, Shape, DueInv, DueShape
<1>3. ASSUME NEW h \in Handlers, h # g, NEW i, NEW r, NEW l, Begin(h, r, i, l)
      PROVE  Still
  BY <1>3 DEF Begin, IInv, Shape, DueInv, DueShape
<1> HIDE DEF Still
<1>4. ASSUME NEW h \in Handlers, Step(h)
      PROVE  Still
  <2>1. pc[h] # "credit" \/ TopupCredited(h)
    <3>1. ASSUME InvoiceCreated(h) \/ InvoiceRefused(h) \/ Finalize(h)
                 \/ TopupApproved(h) \/ PanelBuilt(h) \/ PanelFailed(h)
                 \/ OrderApproved(h) \/ Rejected(h)
          PROVE  pc[h] # "credit"
      BY <3>1 DEF InvoiceCreated, InvoiceRefused, Finalize, TopupApproved,
         PanelBuilt, PanelFailed, OrderApproved, Rejected, At
    <3>2. ASSUME GatewayAnswers(h) \/ GatewayVerifies(h)
          PROVE  pc[h] # "credit"
      BY <3>2 DEF GatewayAnswers, GatewayVerifies
    <3>3. ASSUME Asked(h) \/ Verified(h) \/ Returned(h)
          PROVE  pc[h] # "credit"
      BY <3>3 DEF Asked, Verified, Returned, At
    <3> QED  BY <1>4, <3>1, <3>2, <3>3 DEF Step
  <2>2. h # g
    BY <2>1
  <2>3. CASE Asked(h)
    <3>1. answer[h] \in {"open", "paid", "expired", "error"}
      BY <2>3 DEF Asked, At, IInv, WaitingInv, Shape
    <3>2. Goto(h, "idle") \/ (pc' = [pc EXCEPT ![h] = "verify"] /\ ref' = ref)
      BY <2>3, <3>1 DEF Asked
    <3>3. CASE pc' = [pc EXCEPT ![h] = "verify"] /\ ref' = ref
      BY <2>2, <3>3 DEF Still, IInv, Shape
    <3> QED  BY <1>2, <2>2, <3>2, <3>3
  <2>4. CASE \/ InvoiceCreated(h) \/ InvoiceRefused(h) \/ Verified(h)
             \/ Returned(h) \/ TopupApproved(h) \/ TopupCredited(h)
             \/ PanelBuilt(h) \/ PanelFailed(h) \/ OrderApproved(h) \/ Rejected(h)
    <3>1. \E l \in Labels : Goto(h, l)
      BY <2>4 DEF InvoiceCreated, InvoiceRefused, Verified, Returned,
         TopupApproved, TopupCredited, PanelBuilt, PanelFailed, OrderApproved,
         Rejected, Labels
    <3> QED  BY <1>2, <2>2, <3>1
  <2>5. CASE Finalize(h)
    <3>1. Goto(h, Deliver(ref[h], role[h])) \/ Goto(h, "idle")
      BY <2>5 DEF Finalize
    <3> QED  BY <1>2, <2>2, <3>1
  <2>6. CASE GatewayAnswers(h) \/ GatewayVerifies(h)
    <3>1. pc' = pc /\ ref' = ref
      BY <2>6 DEF GatewayAnswers, GatewayVerifies
    <3> QED  BY <1>1, <3>1
  <2> QED  BY <1>4, <2>3, <2>4, <2>5, <2>6 DEF Step
<1>5. ASSUME NEW h \in Handlers, Interrupt(h)
      PROVE  Still
  <2>1. h # g /\ Goto(h, "idle")
    BY <1>5 DEF Interrupt
  <2> QED  BY <1>2, <2>1
<1>6. ASSUME NEW h \in Handlers, NEW i \in Invoices,
             \/ AbanHook(h, i) \/ CheckButton(h, i) \/ ReturnPage(h, i)
             \/ \E s \in {"open", "completed", "failed"} :
                   PlisioHook(h, i, s) \/ OwnHook(h, i, s)
      PROVE  Still
  <2>1. h # g
    BY <1>6 DEF AbanHook, CheckButton, ReturnPage, PlisioHook, OwnHook, Free
  <2>2. \/ pc' = pc /\ ref' = ref
        \/ \E r \in {"hook", "check", "return"}, l \in {"ask", "final"} :
              Begin(h, r, i, l)
    BY <1>6 DEF AbanHook, CheckButton, ReturnPage, TryVerify, PlisioHook,
       OwnHook, Complete, locals
  <2> QED  BY <1>1, <1>3, <2>1, <2>2
<1>7. ASSUME NEW h \in Handlers, NEW r \in Refs,
             \/ StartApprove(h, r) \/ StartReject(h, r)
             \/ \E k \in Gateways, i \in Invoices : StartInvoice(h, k, r, i)
      PROVE  Still
  <2>1. /\ pc[h] = "idle" /\ ref' = [ref EXCEPT ![h] = r]
        /\ \E l \in Labels : pc' = [pc EXCEPT ![h] = l]
    BY <1>7 DEF StartApprove, StartReject, StartReview, StartInvoice, Labels
  <2> QED  BY <2>1 DEF Still, IInv, Shape, DueInv, DueShape
<1>8. CASE \/ Environment
           \/ \E h \in Handlers : AnswerLost(h) \/ VerifiedUnheard(h)
  <2>1. pc' = pc /\ ref' = ref
    BY <1>8 DEF Environment, Announce, Pay, RunOut, ExpireRow, DeleteRow,
       AnswerLost, VerifiedUnheard, locals
  <2> QED  BY <1>1, <2>1
<1> QED  BY <1>4, <1>5, <1>6, <1>7, <1>8 DEF Next, Start, Still

(* Only approve_topup makes a top-up approved; the wallet and the notes of  *)
(* interruptions are never taken back.                                      *)
LEMMA WrittenBy ==
  ASSUME IInv, DueInv, Next, NEW r \in Refs
  PROVE  /\ credits'[r] >= credits[r] /\ halted \subseteq halted'
         /\ KindOf[r] = "topup" /\ status'[r] = "approved" =>
               \/ status[r] = "approved"
               \/ \E h \in Handlers : TopupApproved(h) /\ ref[h] = r
<1> USE DEF DueInv, DueShape
<1>1. CASE UNCHANGED <<status, credits, builds>> /\ halted \subseteq halted'
  BY <1>1
<1>2. ASSUME NEW h \in Handlers, TopupCredited(h)
      PROVE  /\ credits'[r] >= credits[r]
             /\ status' = status /\ halted' = halted
  BY <1>2 DEF TopupCredited, AddCredit, tables
<1>3. ASSUME NEW h \in Handlers,
             TopupApproved(h) \/ PanelBuilt(h) \/ OrderApproved(h) \/ Rejected(h)
      PROVE  credits' = credits /\ halted' = halted
  BY <1>3 DEF TopupApproved, PanelBuilt, OrderApproved, Rejected, history
<1>4. ASSUME NEW h \in Handlers, TopupApproved(h), ref[h] # r
      PROVE  status'[r] = status[r]
  BY <1>4 DEF TopupApproved
<1>5. ASSUME NEW h \in Handlers, PanelBuilt(h)
      PROVE  status'[r] = status[r]
  BY <1>5 DEF PanelBuilt, tables
<1>6. ASSUME NEW h \in Handlers, OrderApproved(h), KindOf[r] = "topup"
      PROVE  status'[r] = status[r]
  <2>1. ref[h] # r
    BY <1>6 DEF OrderApproved, At, WorkInv, WorkOf
  <2> QED  BY <1>6, <2>1 DEF OrderApproved
<1>7. ASSUME NEW h \in Handlers, Rejected(h), status'[r] = "approved"
      PROVE  status[r] = "approved"
  BY <1>7 DEF Rejected
<1>8. credits[r] >= credits[r]
  OBVIOUS
<1> QED  BY <1>1, <1>2, <1>3, <1>4, <1>5, <1>6, <1>7, <1>8, Writes

(* A request on its way to the wallet arrives, or was seen to stop.         *)
LEMMA CreditedStep ==
  ASSUME IInv, DueInv, DueShape', Next
  PROVE  ApprovedIsCredited'
<1> SUFFICES ASSUME NEW r \in Refs, KindOf[r] = "topup", status'[r] = "approved"
             PROVE  \/ credits'[r] > 0 \/ <<r, "credit">> \in halted'
                    \/ \E h \in Handlers : ref'[h] = r /\ pc'[h] = "credit"
  BY DEF ApprovedIsCredited
<1>1. ASSUME NEW h \in Handlers, TopupApproved(h), ref[h] = r
      PROVE  ref'[h] = r /\ pc'[h] = "credit"
  BY <1>1 DEF TopupApproved, Goto, IInv, Shape, Labels
<1>2. ASSUME NEW h \in Handlers, TopupCredited(h), ref[h] = r
      PROVE  credits'[r] > 0
  BY <1>2 DEF TopupCredited, AddCredit, DueInv, DueShape
<1>3. CASE \/ \E h \in Handlers : TopupApproved(h) /\ ref[h] = r
           \/ \E h \in Handlers : TopupCredited(h) /\ ref[h] = r
  BY <1>1, <1>2, <1>3
<1>4. CASE ~(\/ \E h \in Handlers : TopupApproved(h) /\ ref[h] = r
             \/ \E h \in Handlers : TopupCredited(h) /\ ref[h] = r)
  <2>1. status[r] = "approved"
    BY <1>4, WrittenBy
  <2>2. \/ credits[r] > 0 \/ <<r, "credit">> \in halted
        \/ \E h \in Handlers : ref[h] = r /\ pc[h] = "credit"
    BY <2>1 DEF DueInv, ApprovedIsCredited
  <2>3. credits[r] > 0 => credits'[r] > 0
    BY WrittenBy DEF DueInv, DueShape
  <2>4. halted \subseteq halted'
    BY WrittenBy
  <2>5. ASSUME NEW h \in Handlers, ref[h] = r, pc[h] = "credit"
        PROVE  \/ ref'[h] = r /\ pc'[h] = "credit"
               \/ <<r, "credit">> \in halted'
    <3>1. Interrupt(h) => <<r, "credit">> \in halted'
      BY <2>5 DEF Interrupt
    <3> QED  BY <1>4, <2>5, <3>1, CreditStays
  <2> QED  BY <2>2, <2>3, <2>4, <2>5
<1> QED  BY <1>3, <1>4

(* GivesWhatIsDue holds at first and is kept by every step: what is owed    *)
(* stays owed, and a request has its work from an invoice that is paid or   *)
(* from an admin.                                                           *)
LEMMA DueInit == Init => DueInv
  BY DEF Init, DueInv, DueShape, WorkInv, WorkOf, Settling, ApprovedIsCredited,
     NothingForFree

LEMMA DueNext ==
  ASSUME IInv, DueInv, [Next]_vars
  PROVE  DueInv'
<1>1. CASE Next
  <2>1. DueShape' /\ Kept
    BY <1>1, DueShapeStep, KeptByAll DEF DueInv
  <2> QED  BY <1>1, <2>1, WorkStep, NothingStep, CreditedStep DEF DueInv
<1>2. CASE UNCHANGED vars
  BY <1>2 DEF vars, tables, locals, history, DueInv, DueShape, WorkInv, WorkOf,
     Owed, PaidFor, Paid, ApprovedIsCredited, NothingForFree
<1> QED  BY <1>1, <1>2

(* For any number of top-ups, orders, invoices and requests: an approved    *)
(* top-up is in the wallet, on its way there, or was seen to be interrupted *)
(* on its way; and nothing is delivered without a payment or an approval.   *)
THEOREM GivenAsDue == Spec => []GivesWhatIsDue
<1>1. Spec => []DueInv
  BY AlwaysInv, DueInit, DueNext, PTL DEF Spec
<1>2. DueInv => GivesWhatIsDue
  BY DEF DueInv, GivesWhatIsDue
<1> QED  BY <1>1, <1>2, PTL

-----------------------------------------------------------------------------
(***************************************************************************)
(* No top-up is credited oftener than it was paid and approved.  While it  *)
(* waits, nothing was credited, and the requests that are about to approve *)
(* it are as many as the approvals an admin gave and the paid invoices     *)
(* they were granted, each invoice to one of them.  Once it is settled,    *)
(* requests only leave.                                                    *)
(***************************************************************************)
Busy == {"final", "set", "credit"}
Serving(h) == pc[h] \in Busy /\ role[h] # "review"

(* One request at a time runs on the event loop of a process.               *)
OneOnLoop ==
    \A g, h \in Handlers :
        OnLoop(g) /\ OnLoop(h) /\ InstOf[g] = InstOf[h] => g = h

(* A request of the gateways carries the invoice that was paid; requests    *)
(* about the admin's own gateways run in the mini app.                      *)
ServesPaid(h) ==
    /\ Serving(h) =>
          /\ item[h] \in PaidFor(ref[h]) /\ info[item[h]] # NoInfo
          /\ info[item[h]].gw # "own" => grants[item[h]] # 0
          /\ info[item[h]].gw = "own" => InstOf[h] = "mini"
    /\ pc[h] \in {"ask", "verify"} =>
          /\ role[h] \in {"hook", "check", "return"}
          /\ role[h] = "return" => InstOf[h] = "mini"
ServingInv == \A h \in Handlers : ServesPaid(h)
OnePerInvoice ==
    \A g, h \in Handlers : Serving(g) /\ Serving(h) /\ item[g] = item[h] => g = h

Reviews(r) == {h \in Handlers : pc[h] \in Busy /\ role[h] = "review" /\ ref[h] = r}
Serves(r) == {h \in Handlers : Serving(h) /\ ref[h] = r}
Crediting(r) == {h \in Handlers : ref[h] = r /\ pc[h] \in {"set", "credit"}}

ReviewsInv == \A r \in Refs : Cardinality(Reviews(r)) <= verdicts[r]
PendingInv ==
    \A r \in Refs : status[r] = "pending" =>
        credits[r] = 0 /\ \A h \in Handlers : ref[h] = r => pc[h] # "credit"
Backed(r) == credits[r] + Cardinality(Crediting(r)) <= Cardinality(PaidFor(r)) + verdicts[r]
SettledInv == \A r \in Refs : KindOf[r] = "topup" /\ status[r] # "pending" => Backed(r)

CreditInv == /\ OneOnLoop /\ ServingInv /\ OnePerInvoice
             /\ ReviewsInv /\ PendingInv /\ SettledInv

(* How requests move.  One of them leaves, or waits; or a gateway's paid    *)
(* invoice was given to it; or an admin approves; or it goes on to approve  *)
(* a top-up that is pending.                                                *)
Stands(g) == /\ pc'[g] = pc[g] /\ role'[g] = role[g]
             /\ ref'[g] = ref[g] /\ item'[g] = item[g]
Leaves(h) ==
    /\ pc'[h] \notin Busy /\ UNCHANGED <<grants, verdicts>>
    /\ pc'[h] \in {"ask", "verify"} =>
          /\ role'[h] \in {"hook", "check", "return"}
          /\ role'[h] = "return" => InstOf[h] = "mini"
Serve(h, i) ==
    /\ pc[h] \notin Busy /\ pc'[h] = "final" /\ item'[h] = i
    /\ role'[h] \in {"hook", "check", "return"} /\ ref'[h] = info[i].ref
    /\ Paid(i) /\ row[i] # "absent" /\ UNCHANGED verdicts
    /\ info[i].gw = "own" => InstOf[h] = "mini" /\ UNCHANGED grants
    /\ info[i].gw # "own" =>
          grants[i] = 0 /\ grants' = [grants EXCEPT ![i] = @ + 1]
Review(h, r) ==
    /\ pc[h] \notin Busy /\ pc'[h] = "final" /\ role'[h] = "review" /\ ref'[h] = r
    /\ verdicts' = [verdicts EXCEPT ![r] = @ + 1] /\ UNCHANGED grants
Advances(h) ==
    /\ role'[h] = role[h] /\ ref'[h] = ref[h] /\ item'[h] = item[h]
    /\ UNCHANGED <<grants, verdicts>>
    /\ \/ pc[h] = "final" /\ pc'[h] = "set" /\ status[ref[h]] = "pending"
       \/ pc[h] = "set" /\ pc'[h] = "credit" /\ TopupApproved(h)
Move(h) ==
    /\ \A g \in Handlers \ {h} : Stands(g)
    /\ OnLoop(h)' => LoopFree(h)
    /\ \/ Leaves(h) \/ Advances(h)
       \/ \E i \in Invoices : Serve(h, i)
       \/ \E r \in Refs : Review(h, r)

LEMMA GotoMoves ==
  ASSUME IInv, DueShape, NEW h \in Handlers, NEW l \in Labels, Goto(h, l),
         l = "idle" \/ (UsesLoop(h) => LoopFree(h))
  PROVE  /\ \A g \in Handlers \ {h} : Stands(g)
         /\ OnLoop(h)' => LoopFree(h)
         /\ pc'[h] = l
         /\ l # "idle" => role'[h] = role[h] /\ ref'[h] = ref[h] /\ item'[h] = item[h]
<1>1. /\ pc' = [pc EXCEPT ![h] = l]
      /\ \A g \in Handlers \ {h} : Stands(g)
      /\ l # "idle" => role' = role /\ ref' = ref /\ item' = item
  BY DEF Goto, Stands, IInv, Shape, DueShape
<1>2. pc'[h] = l
  BY <1>1 DEF IInv, Shape
<1>3. OnLoop(h)' => LoopFree(h)
  <2>1. CASE l = "idle"
    BY <1>2, <2>1 DEF OnLoop, Awaiting
  <2>2. CASE l # "idle"
    BY <1>1, <2>2 DEF OnLoop, UsesLoop
  <2> QED  BY <2>1, <2>2
<1> QED  BY <1>1, <1>2, <1>3

(* A request stops, or goes to the panel and the approval of an order.      *)
LEMMA LeavingMoves ==
  ASSUME IInv, DueShape, NEW h \in Handlers, NEW l \in {"idle", "panel", "approve"},
         Goto(h, l), l = "idle" \/ (UsesLoop(h) => LoopFree(h)),
         UNCHANGED <<grants, verdicts>>
  PROVE  Move(h)
<1>1. l \in Labels
  BY DEF Labels
<1>2. /\ \A g \in Handlers \ {h} : Stands(g)
      /\ OnLoop(h)' => LoopFree(h)
      /\ pc'[h] = l
  BY <1>1, GotoMoves
<1>3. Leaves(h)
  BY <1>2 DEF Leaves, Busy
<1> QED  BY <1>2, <1>3 DEF Move

LEMMA StepMoves ==
  ASSUME IInv, DueInv, ServingInv, NEW h \in Handlers,
         \/ InvoiceCreated(h) \/ InvoiceRefused(h) \/ Finalize(h)
         \/ TopupApproved(h) \/ TopupCredited(h) \/ PanelBuilt(h)
         \/ PanelFailed(h) \/ OrderApproved(h) \/ Rejected(h) \/ Interrupt(h)
  PROVE  Move(h)
<1>0. DueShape /\ UNCHANGED <<grants, verdicts>>
  BY DEF DueInv, InvoiceCreated, InvoiceRefused, Finalize, TopupApproved,
     TopupCredited, PanelBuilt, PanelFailed, OrderApproved, Rejected, Interrupt,
     history, tables
<1>1. CASE Goto(h, "idle")
  BY <1>0, <1>1, LeavingMoves
<1>2. CASE Finalize(h) /\ ~Goto(h, "idle")
  <2> DEFINE l == Deliver(ref[h], role[h])
  <2>1. /\ pc[h] = "final" /\ Goto(h, l) /\ (UsesLoop(h) => LoopFree(h))
    BY <1>2 DEF Finalize, At
  <2>2. l \in {"idle", "set", "panel", "approve"} /\ (l = "set" => status[ref[h]] = "pending")
    BY DEF Deliver, Open
  <2> HIDE DEF l
  <2>3. CASE l = "set"
    <3>1. l \in Labels
      BY <2>3 DEF Labels
    <3>2. /\ \A g \in Handlers \ {h} : Stands(g)
          /\ OnLoop(h)' => LoopFree(h)
          /\ pc'[h] = "set"
          /\ role'[h] = role[h] /\ ref'[h] = ref[h] /\ item'[h] = item[h]
      BY <1>0, <2>1, <2>3, <3>1, GotoMoves
    <3>3. Advances(h)
      BY <1>0, <2>1, <2>2, <2>3, <3>2 DEF Advances
    <3> QED  BY <3>2, <3>3 DEF Move
  <2>4. CASE l # "set"
    BY <1>0, <2>1, <2>2, <2>4, LeavingMoves
  <2> QED  BY <2>3, <2>4
<1>3. CASE TopupApproved(h)
  <2>1. pc[h] = "set" /\ Goto(h, "credit") /\ (UsesLoop(h) => LoopFree(h))
    BY <1>3 DEF TopupApproved, At
  <2>2. "credit" \in Labels
    BY DEF Labels
  <2>3. /\ \A g \in Handlers \ {h} : Stands(g)
        /\ OnLoop(h)' => LoopFree(h)
        /\ pc'[h] = "credit"
        /\ role'[h] = role[h] /\ ref'[h] = ref[h] /\ item'[h] = item[h]
    BY <1>0, <2>1, <2>2, GotoMoves
  <2>4. Advances(h)
    BY <1>0, <1>3, <2>1, <2>3 DEF Advances
  <2> QED  BY <2>3, <2>4 DEF Move
<1>4. CASE PanelBuilt(h)
  <2>1. Goto(h, "approve") /\ (UsesLoop(h) => LoopFree(h))
    BY <1>4 DEF PanelBuilt, At
  <2> QED  BY <1>0, <2>1, LeavingMoves
<1> QED
  BY <1>1, <1>2, <1>3, <1>4
  DEF InvoiceCreated, InvoiceRefused, TopupCredited, PanelFailed, OrderApproved,
      Rejected, Interrupt

(* What the gateway answered is acted upon.                                 *)
LEMMA AnsweredMoves ==
  ASSUME IInv, DueInv, ServingInv, NEW h \in Handlers,
         Asked(h) \/ Verified(h) \/ Returned(h)
  PROVE  Move(h)
<1> DEFINE i == item[h]
<1>1. /\ pc[h] \in {"ask", "verify"} /\ i \in Invoices /\ row[i] # "absent"
      /\ ref[h] = info[i].ref /\ DueShape
      /\ role[h] \in {"hook", "check", "return"}
      /\ role[h] = "return" => InstOf[h] = "mini"
      /\ UsesLoop(h) => LoopFree(h)
      /\ UNCHANGED verdicts
  BY DEF Asked, Verified, Returned, At, IInv, WaitingInv, DueInv, WorkInv, WorkOf,
     ServingInv, ServesPaid, history
<1>2. CASE Goto(h, "idle") /\ UNCHANGED grants
  BY <1>1, <1>2, LeavingMoves
<1>3. CASE Asked(h) /\ ~Goto(h, "idle")
  <2>1. /\ pc' = [pc EXCEPT ![h] = "verify"]
        /\ UNCHANGED <<role, ref, item, grants>>
    <3>1. answer[h] \in {"open", "paid", "expired", "error"}
      BY <1>3 DEF Asked, At, IInv, WaitingInv, Shape
    <3> QED  BY <1>3, <3>1 DEF Asked, history
  <2>2. /\ pc'[h] = "verify" /\ \A g \in Handlers \ {h} : Stands(g)
    BY <2>1 DEF Stands, IInv, Shape
  <2>3. Leaves(h) /\ ~OnLoop(h)'
    BY <1>1, <2>1, <2>2 DEF Leaves, Busy, OnLoop, Awaiting
  <2> QED  BY <2>2, <2>3 DEF Move
<1>4. CASE /\ Goto(h, "final") /\ Paid(i)
           /\ info[i].gw = "own" => InstOf[h] = "mini" /\ UNCHANGED grants
           /\ info[i].gw # "own" =>
                 grants[i] = 0 /\ grants' = [grants EXCEPT ![i] = @ + 1]
  <2>1. "final" \in Labels
    BY DEF Labels
  <2>2. /\ \A g \in Handlers \ {h} : Stands(g)
        /\ OnLoop(h)' => LoopFree(h)
        /\ pc'[h] = "final"
        /\ role'[h] = role[h] /\ ref'[h] = ref[h] /\ item'[h] = item[h]
    BY <1>1, <1>4, <2>1, GotoMoves
  <2>3. Serve(h, i)
    BY <1>1, <1>4, <2>2 DEF Serve, Busy
  <2> QED  BY <1>1, <2>2, <2>3 DEF Move
<1>5. CASE Verified(h)
  <2>1. CASE CountsAsNew(h)
    <3>1. Goto(h, "final") /\ Grant(i) /\ Holds(h, i) /\ info[i].gw # "own" /\ Paid(i)
      BY <1>5, <2>1 DEF Verified, At, CountsAsNew, Holds, IInv, WaitingInv
    <3>2. grants[i] = 0
      BY <1>1, <3>1 DEF IInv, VerifyInv
    <3> QED  BY <1>4, <3>1, <3>2 DEF Grant
  <2>2. CASE ~CountsAsNew(h)
    BY <1>2, <1>5, <2>2 DEF Verified
  <2> QED  BY <2>1, <2>2
<1>6. CASE Returned(h)
  <2>1. info[i].gw = "own" /\ InstOf[h] = "mini" /\ (answer[h] = "paid" => Paid(i))
    BY <1>1, <1>6 DEF Returned, At, IInv, WaitingInv
  <2>2. UNCHANGED grants /\ (Goto(h, "idle") \/ (answer[h] = "paid" /\ Goto(h, "final")))
    BY <1>6, <2>1 DEF Returned, Grant
  <2> QED  BY <1>2, <1>4, <2>1, <2>2
<1>7. CASE Asked(h) /\ Goto(h, "idle")
  BY <1>2, <1>7 DEF Asked, history
<1> QED  BY <1>3, <1>5, <1>6, <1>7

LEMMA BeginMoves ==
  ASSUME IInv, DueShape, NEW h \in Handlers, NEW i \in Invoices,
         NEW r \in {"hook", "check", "return"}, NEW l \in {"ask", "final"},
         pc[h] = "idle", row[i] # "absent", LoopFree(h), Begin(h, r, i, l),
         UNCHANGED verdicts,
         r = "return" => InstOf[h] = "mini",
         l = "ask" => UNCHANGED grants,
         l = "final" => /\ Paid(i)
                        /\ info[i].gw = "own" => InstOf[h] = "mini" /\ UNCHANGED grants
                        /\ info[i].gw # "own" =>
                              grants[i] = 0 /\ grants' = [grants EXCEPT ![i] = @ + 1]
  PROVE  Move(h)
<1>1. /\ pc'[h] = l /\ role'[h] = r /\ item'[h] = i /\ ref'[h] = info[i].ref
      /\ \A g \in Handlers \ {h} : Stands(g)
  BY DEF Begin, Stands, IInv, Shape, DueShape
<1>2. CASE l = "ask"
  <2>1. Leaves(h)
    BY <1>1, <1>2 DEF Leaves, Busy
  <2> QED  BY <1>1, <2>1 DEF Move
<1>3. CASE l = "final"
  <2>1. Serve(h, i)
    BY <1>1, <1>3 DEF Serve, Busy
  <2> QED  BY <1>1, <2>1 DEF Move
<1> QED  BY <1>2, <1>3

LEMMA StartMoves ==
  ASSUME IInv, DueInv, ServingInv, NEW h \in Handlers, Start(h)
  PROVE  UNCHANGED <<pc, role, ref, item, grants, verdicts>> \/ Move(h)
<1>0. DueShape
  BY DEF DueInv
<1>1. ASSUME NEW i \in Invoices, AbanHook(h, i) \/ CheckButton(h, i) \/ ReturnPage(h, i)
      PROVE  UNCHANGED <<pc, role, ref, item, grants, verdicts>> \/ Move(h)
  <2>1. /\ pc[h] = "idle" /\ row[i] # "absent" /\ LoopFree(h)
        /\ UNCHANGED <<grants, verdicts>>
        /\ ReturnPage(h, i) => InstOf[h] = "mini"
    BY <1>1 DEF AbanHook, CheckButton, ReturnPage, Free, TryVerify, history
  <2>2. \/ UNCHANGED <<pc, role, ref, item>>
        \/ \E r \in {"hook", "check"} : Begin(h, r, i, "ask")
        \/ ReturnPage(h, i) /\ Begin(h, "return", i, "ask")
    BY <1>1 DEF AbanHook, CheckButton, ReturnPage, TryVerify, locals
  <2> QED  BY <1>0, <2>1, <2>2, BeginMoves
<1>2. ASSUME NEW i \in Invoices, NEW s \in {"open", "completed", "failed"},
             PlisioHook(h, i, s) \/ OwnHook(h, i, s)
      PROVE  UNCHANGED <<pc, role, ref, item, grants, verdicts>> \/ Move(h)
  <2>1. /\ pc[h] = "idle" /\ row[i] \notin {"absent", "deleted"} /\ LoopFree(h)
        /\ InstOf[h] = "mini" /\ UNCHANGED verdicts
    BY <1>2 DEF PlisioHook, OwnHook, Free, history
  <2>2. CASE s # "completed"
    BY <1>2, <2>2 DEF PlisioHook, OwnHook, Completes, locals
  <2>3. CASE s = "completed"
    <3>1. Paid(i) /\ Begin(h, "hook", i, "final") /\ Grant(i) /\ row[i] # "completed"
      BY <1>2, <2>3 DEF PlisioHook, OwnHook, Completes, Complete, StillOpen, IInv,
         NoticeInv
    <3>2. /\ info[i].gw = "own" => UNCHANGED grants
          /\ info[i].gw # "own" =>
                grants[i] = 0 /\ grants' = [grants EXCEPT ![i] = @ + 1]
      <4>1. info[i].gw # "own" => info[i].gw = "plisio"
        BY <1>2 DEF PlisioHook, OwnHook
      <4> QED  BY <2>1, <3>1, <4>1 DEF Grant, IInv, GrantInv
    <3> QED  BY <1>0, <2>1, <3>1, <3>2, BeginMoves
  <2> QED  BY <2>2, <2>3
<1>3. ASSUME NEW r \in Refs, StartApprove(h, r) \/ StartReject(h, r)
      PROVE  Move(h)
  <2>1. /\ pc[h] = "idle" /\ UNCHANGED <<item, grants>>
        /\ role' = [role EXCEPT ![h] = "review"] /\ ref' = [ref EXCEPT ![h] = r]
        /\ \/ pc' = [pc EXCEPT ![h] = "reject"] /\ UNCHANGED verdicts
           \/ /\ pc' = [pc EXCEPT ![h] = "final"]
              /\ verdicts' = [verdicts EXCEPT ![r] = @ + 1]
    BY <1>3 DEF StartApprove, StartReject, StartReview
  <2>2. /\ role'[h] = "review" /\ ref'[h] = r
        /\ \/ pc'[h] = "reject" /\ UNCHANGED verdicts
           \/ /\ pc'[h] = "final"
              /\ verdicts' = [verdicts EXCEPT ![r] = @ + 1]
        /\ \A g \in Handlers \ {h} : Stands(g)
    BY <1>0, <2>1 DEF Stands, IInv, Shape, DueShape
  <2>3. ~OnLoop(h)'
    BY <2>2 DEF OnLoop, UsesLoop
  <2>4. Leaves(h) \/ Review(h, r)
    BY <2>1, <2>2 DEF Leaves, Review, Busy
  <2> QED  BY <2>2, <2>3, <2>4 DEF Move
<1>4. ASSUME NEW g \in Gateways, NEW r \in Refs, NEW i \in Invoices, StartInvoice(h, g, r, i)
      PROVE  Move(h)
  <2>1. /\ pc'[h] = "creating" /\ UNCHANGED <<grants, verdicts>>
        /\ \A f \in Handlers \ {h} : Stands(f)
    BY <1>0, <1>4 DEF StartInvoice, Stands, IInv, Shape, DueShape, history
  <2>2. Leaves(h) /\ ~OnLoop(h)'
    BY <2>1 DEF Leaves, Busy, OnLoop, Awaiting
  <2> QED  BY <2>1, <2>2 DEF Move
<1> QED  BY <1>1, <1>2, <1>3, <1>4 DEF Start

LEMMA Moves ==
  ASSUME IInv, DueInv, ServingInv, Next
  PROVE  \/ UNCHANGED <<pc, role, ref, item, grants, verdicts>>
         \/ \E h \in Handlers : Move(h)
<1>1. ASSUME NEW h \in Handlers,
             \/ GatewayAnswers(h) \/ GatewayVerifies(h) \/ AnswerLost(h)
             \/ VerifiedUnheard(h)
      PROVE  UNCHANGED <<pc, role, ref, item, grants, verdicts>>
  BY <1>1 DEF GatewayAnswers, GatewayVerifies, AnswerLost, VerifiedUnheard, history
<1>2. CASE Environment
  BY <1>2 DEF Environment, Announce, Pay, RunOut, ExpireRow, DeleteRow, locals, history
<1> QED  BY <1>1, <1>2, StepMoves, AnsweredMoves, StartMoves DEF Next, Step

LEMMA LoopStep ==
  ASSUME OneOnLoop,
         \/ UNCHANGED <<pc, role, ref, item, grants, verdicts>>
         \/ \E h \in Handlers : Move(h)
  PROVE  OneOnLoop'
<1>1. CASE UNCHANGED <<pc, role, ref, item, grants, verdicts>>
  BY <1>1 DEF OneOnLoop, OnLoop, UsesLoop
<1>2. ASSUME NEW h \in Handlers, Move(h)
      PROVE  OneOnLoop'
  <2>1. \A g \in Handlers \ {h} : OnLoop(g)' <=> OnLoop(g)
    BY <1>2 DEF Move, Stands, OnLoop, UsesLoop
  <2>2. OnLoop(h)' => \A g \in Handlers \ {h} : InstOf[g] = InstOf[h] => ~OnLoop(g)
    BY <1>2 DEF Move, LoopFree
  <2> QED  BY <2>1, <2>2 DEF OneOnLoop
<1> QED  BY <1>1, <1>2

(* What a request was given, it keeps.                                      *)
LEMMA StandsPaid ==
  ASSUME IInv, Kept, NEW g \in Handlers, ServesPaid(g), pc[g] \in Busy, pc'[g] \in Busy,
         role'[g] = role[g], ref'[g] = ref[g], item'[g] = item[g],
         \A i \in Invoices : grants[i] # 0 => grants'[i] # 0
  PROVE  ServesPaid(g)'
<1>1. CASE role[g] = "review"
  BY <1>1 DEF ServesPaid, Serving, Busy
<1>2. CASE role[g] # "review"
  <2> DEFINE i == item[g]
  <2>1. /\ i \in PaidFor(ref[g]) /\ info[i] # NoInfo
        /\ info[i].gw # "own" => grants[i] # 0
        /\ info[i].gw = "own" => InstOf[g] = "mini"
    BY <1>2 DEF ServesPaid, Serving
  <2>2. i \in Invoices /\ info'[i] = info[i] /\ Paid(i)' /\ info[i].ref = ref[g]
    BY <2>1 DEF PaidFor, Kept
  <2>3. i \in PaidFor(ref[g])'
    BY <2>2 DEF PaidFor
  <2> QED  BY <2>1, <2>2, <2>3 DEF ServesPaid, Busy, PaidFor
<1> QED  BY <1>1, <1>2

LEMMA WaitsPaid ==
  ASSUME NEW g \in Handlers, pc'[g] \notin Busy,
         pc'[g] \in {"ask", "verify"} =>
            /\ role'[g] \in {"hook", "check", "return"}
            /\ role'[g] = "return" => InstOf[g] = "mini"
  PROVE  ServesPaid(g)'
  BY DEF ServesPaid, Serving

LEMMA ServingStep ==
  ASSUME IInv, Kept, ServingInv,
         \/ UNCHANGED <<pc, role, ref, item, grants, verdicts>>
         \/ \E h \in Handlers : Move(h)
  PROVE  ServingInv'
<1>1. ASSUME NEW g \in Handlers, Stands(g), \A i \in Invoices : grants[i] # 0 => grants'[i] # 0
      PROVE  ServesPaid(g)'
  <2>1. ServesPaid(g) /\ pc'[g] = pc[g] /\ role'[g] = role[g]
        /\ ref'[g] = ref[g] /\ item'[g] = item[g]
    BY <1>1 DEF ServingInv, Stands
  <2>2. CASE pc[g] \in Busy
    BY <1>1, <2>1, <2>2, StandsPaid
  <2>3. CASE pc[g] \notin Busy
    BY <2>1, <2>3, WaitsPaid DEF ServesPaid
  <2> QED  BY <2>2, <2>3
<1>2. CASE UNCHANGED <<pc, role, ref, item, grants, verdicts>>
  BY <1>1, <1>2 DEF Stands, ServingInv
<1>3. ASSUME NEW h \in Handlers, Move(h)
      PROVE  ServingInv'
  <2>1. \A i \in Invoices : grants[i] # 0 => grants'[i] # 0
    <3>1. grants' = grants \/ \E i \in Invoices : grants' = [grants EXCEPT ![i] = @ + 1]
      BY <1>3 DEF Move, Leaves, Serve, Review, Advances
    <3> QED  BY <3>1 DEF IInv, Shape
  <2>2. ServesPaid(h)'
    <3>1. CASE Leaves(h)
      BY <3>1, WaitsPaid DEF Leaves
    <3>2. CASE Advances(h)
      <4>1. pc[h] \in Busy /\ pc'[h] \in Busy
        BY <3>2 DEF Advances, Busy
      <4> QED  BY <2>1, <3>2, <4>1, StandsPaid DEF Advances, ServingInv
    <3>3. ASSUME NEW i \in Invoices, Serve(h, i)
          PROVE  ServesPaid(h)'
      <4>1. info'[i] = info[i] /\ Paid(i)' /\ info'[i] # NoInfo
        BY <3>3, ForWhom DEF Serve, Kept
      <4>2. /\ pc'[h] = "final" /\ item'[h] = i /\ ref'[h] = info[i].ref
            /\ info[i].gw = "own" => InstOf[h] = "mini"
        BY <3>3 DEF Serve
      <4>3. info[i].gw # "own" => grants'[i] # 0
        BY <3>3 DEF Serve, IInv, Shape
      <4>4. i \in PaidFor(info[i].ref)'
        BY <4>1 DEF PaidFor
      <4> QED  BY <4>1, <4>2, <4>3, <4>4 DEF ServesPaid, PaidFor
    <3>4. ASSUME NEW r \in Refs, Review(h, r)
          PROVE  ServesPaid(h)'
      BY <3>4 DEF Review, ServesPaid, Serving
    <3> QED  BY <1>3, <3>1, <3>2, <3>3, <3>4 DEF Move
  <2> QED  BY <1>1, <1>3, <2>1, <2>2 DEF Move, ServingInv
<1> QED  BY <1>2, <1>3

(* The request that is given an invoice is the only one: the others were    *)
(* granted theirs, or would be on the loop it runs on.                      *)
LEMMA PerInvoiceStep ==
  ASSUME OneOnLoop, ServingInv, OnePerInvoice,
         \/ UNCHANGED <<pc, role, ref, item, grants, verdicts>>
         \/ \E h \in Handlers : Move(h)
  PROVE  OnePerInvoice'
<1>1. CASE UNCHANGED <<pc, role, ref, item, grants, verdicts>>
  BY <1>1 DEF OnePerInvoice, Serving
<1>2. ASSUME NEW h \in Handlers, Move(h)
      PROVE  OnePerInvoice'
  <2>1. \A g \in Handlers \ {h} : Serving(g)' => Serving(g) /\ item'[g] = item[g]
    BY <1>2 DEF Move, Stands, Serving
  <2>2. ASSUME NEW g \in Handlers \ {h}, Serving(g)', Serving(h)', item'[g] = item'[h]
        PROVE  FALSE
    <3>1. Serving(g) /\ item'[g] = item[g] /\ ServesPaid(g)
      BY <2>1, <2>2 DEF ServingInv
    <3>2. CASE Leaves(h)
      BY <2>2, <3>2 DEF Leaves, Serving
    <3>3. CASE Advances(h)
      <4>1. Serving(h) /\ item'[h] = item[h]
        BY <2>2, <3>3 DEF Advances, Serving, Busy
      <4> QED  BY <2>2, <3>1, <4>1 DEF OnePerInvoice
    <3>4. ASSUME NEW i \in Invoices, Serve(h, i)
          PROVE  FALSE
      <4>1. item[g] = i
        BY <2>2, <3>1, <3>4 DEF Serve
      <4>2. info[i].gw = "own" /\ InstOf[g] = "mini" /\ InstOf[h] = "mini"
        BY <3>1, <3>4, <4>1 DEF ServesPaid, Serve
      <4>3. OnLoop(g)
        BY <3>1 DEF Serving, OnLoop, UsesLoop, Busy, Awaiting
      <4>4. OnLoop(h)'
        BY <2>2, <3>4 DEF Serving, OnLoop, UsesLoop, Busy, Awaiting
      <4> QED  BY <1>2, <4>2, <4>3, <4>4 DEF Move, LoopFree
    <3>5. ASSUME NEW r \in Refs, Review(h, r)
          PROVE  FALSE
      BY <2>2, <3>5 DEF Review, Serving
    <3> QED  BY <1>2, <3>2, <3>3, <3>4, <3>5 DEF Move
  <2>3. ASSUME NEW f \in Handlers \ {h}, NEW g \in Handlers \ {h},
               Serving(f)', Serving(g)', item'[f] = item'[g]
        PROVE  f = g
    BY <2>1, <2>3 DEF OnePerInvoice
  <2> QED  BY <2>2, <2>3 DEF OnePerInvoice
<1> QED  BY <1>1, <1>2

(***************************************************************************)
(* Counting.                                                               *)
(***************************************************************************)
LEMMA CountsAreNumbers ==
  ASSUME NEW r
  PROVE  /\ IsFiniteSet(Reviews(r)) /\ Cardinality(Reviews(r)) \in Nat
         /\ IsFiniteSet(Serves(r)) /\ Cardinality(Serves(r)) \in Nat
         /\ IsFiniteSet(Crediting(r)) /\ Cardinality(Crediting(r)) \in Nat
         /\ IsFiniteSet(PaidFor(r)) /\ Cardinality(PaidFor(r)) \in Nat
<1>1. /\ Reviews(r) \in SUBSET Handlers /\ Serves(r) \in SUBSET Handlers
      /\ Crediting(r) \in SUBSET Handlers /\ PaidFor(r) \in SUBSET Invoices
  BY DEF Reviews, Serves, Crediting, PaidFor
<1> QED  BY <1>1, PaymentsAssumption, FS_Subset, FS_CardinalityType

LEMMA ReviewsStep ==
  ASSUME DueShape, ReviewsInv,
         \/ UNCHANGED <<pc, role, ref, item, grants, verdicts>>
         \/ \E h \in Handlers : Move(h)
  PROVE  ReviewsInv'
<1> SUFFICES ASSUME NEW r \in Refs
             PROVE  Cardinality(Reviews(r)') <= verdicts'[r]
  BY DEF ReviewsInv
<1>1. /\ IsFiniteSet(Reviews(r)) /\ Cardinality(Reviews(r)) \in Nat
      /\ verdicts[r] \in Nat /\ Cardinality(Reviews(r)) <= verdicts[r]
  BY CountsAreNumbers DEF ReviewsInv, DueShape
<1>2. CASE Reviews(r)' \subseteq Reviews(r) /\ verdicts'[r] = verdicts[r]
  <2>1. Cardinality(Reviews(r)') <= Cardinality(Reviews(r)) /\ Cardinality(Reviews(r)') \in Nat
    BY <1>1, <1>2, FS_Subset, FS_CardinalityType
  <2> QED  BY <1>1, <1>2, <2>1
<1>3. ASSUME NEW h \in Handlers, Reviews(r)' \subseteq Reviews(r) \cup {h},
             verdicts'[r] = verdicts[r] + 1
      PROVE  Cardinality(Reviews(r)') <= verdicts'[r]
  <2>1. /\ IsFiniteSet(Reviews(r) \cup {h})
        /\ Cardinality(Reviews(r) \cup {h}) <= Cardinality(Reviews(r)) + 1
        /\ Cardinality(Reviews(r) \cup {h}) \in Nat
    <3>1. /\ IsFiniteSet(Reviews(r) \cup {h})
          /\ Cardinality(Reviews(r) \cup {h}) =
                IF h \in Reviews(r) THEN Cardinality(Reviews(r)) ELSE Cardinality(Reviews(r)) + 1
      BY <1>1, FS_AddElement
    <3> QED  BY <1>1, <3>1
  <2>2. Cardinality(Reviews(r)') <= Cardinality(Reviews(r) \cup {h})
        /\ Cardinality(Reviews(r)') \in Nat
    BY <1>3, <2>1, FS_Subset, FS_CardinalityType
  <2> QED  BY <1>1, <1>3, <2>1, <2>2
<1>4. CASE UNCHANGED <<pc, role, ref, item, grants, verdicts>>
  BY <1>2, <1>4 DEF Reviews
<1>5. ASSUME NEW h \in Handlers, Move(h)
      PROVE  \/ Reviews(r)' \subseteq Reviews(r) /\ verdicts'[r] = verdicts[r]
             \/ Reviews(r)' \subseteq Reviews(r) \cup {h} /\ verdicts'[r] = verdicts[r] + 1
  <2>1. Reviews(r)' \subseteq Reviews(r) \cup {h}
    BY <1>5 DEF Move, Stands, Reviews
  <2>2. CASE Leaves(h) \/ Advances(h) \/ \E i \in Invoices : Serve(h, i)
    <3>1. h \in Reviews(r)' => h \in Reviews(r)
      BY <2>2 DEF Leaves, Advances, Serve, Reviews, Busy
    <3>2. verdicts' = verdicts
      BY <2>2 DEF Leaves, Advances, Serve
    <3> QED  BY <2>1, <3>1, <3>2
  <2>3. ASSUME NEW q \in Refs, Review(h, q)
        PROVE  \/ Reviews(r)' \subseteq Reviews(r) /\ verdicts'[r] = verdicts[r]
               \/ Reviews(r)' \subseteq Reviews(r) \cup {h} /\ verdicts'[r] = verdicts[r] + 1
    <3>1. CASE q = r
      BY <2>1, <2>3, <3>1 DEF Review, DueShape
    <3>2. CASE q # r
      <4>1. h \notin Reviews(r)' /\ verdicts'[r] = verdicts[r]
        BY <2>3, <3>2 DEF Review, Reviews, DueShape
      <4> QED  BY <2>1, <4>1
    <3> QED  BY <3>1, <3>2
  <2> QED  BY <1>5, <2>2, <2>3 DEF Move
<1> QED  BY <1>2, <1>3, <1>4, <1>5

(* The status is written by the requests that settle; it does not become    *)
(* pending again.                                                           *)
LEMMA NeverPendingAgain ==
  ASSUME IInv, DueInv, Next, NEW r \in Refs, status'[r] = "pending"
  PROVE  status[r] = "pending"
<1>1. ASSUME NEW h \in Handlers,
             \/ TopupApproved(h) \/ TopupCredited(h) \/ PanelBuilt(h)
             \/ OrderApproved(h) \/ Rejected(h)
      PROVE  status[r] = "pending"
  <2>1. \/ status' = status
        \/ status' = [status EXCEPT ![ref[h]] = "approved"]
        \/ status' = [status EXCEPT ![ref[h]] = "rejected"]
    BY <1>1 DEF TopupApproved, TopupCredited, PanelBuilt, OrderApproved, Rejected, tables
  <2> QED  BY <2>1 DEF DueInv, DueShape
<1> QED  BY <1>1, Writes

LEMMA CreditsBy ==
  ASSUME IInv, DueInv, Next, NEW r \in Refs
  PROVE  \/ credits'[r] = credits[r]
         \/ /\ credits'[r] = credits[r] + 1 /\ status' = status
            /\ \E h \in Handlers : TopupCredited(h) /\ ref[h] = r
<1>1. ASSUME NEW h \in Handlers,
             TopupApproved(h) \/ PanelBuilt(h) \/ OrderApproved(h) \/ Rejected(h)
      PROVE  credits' = credits
  BY <1>1 DEF TopupApproved, PanelBuilt, OrderApproved, Rejected, history
<1>2. ASSUME NEW h \in Handlers, TopupCredited(h)
      PROVE  \/ credits'[r] = credits[r]
             \/ credits'[r] = credits[r] + 1 /\ status' = status /\ ref[h] = r
  BY <1>2 DEF TopupCredited, AddCredit, DueInv, DueShape, tables
<1> QED  BY <1>1, <1>2, Writes

LEMMA PendingStep ==
  ASSUME IInv, DueInv, PendingInv, Next,
         \/ UNCHANGED <<pc, role, ref, item, grants, verdicts>>
         \/ \E h \in Handlers : Move(h)
  PROVE  PendingInv'
<1> SUFFICES ASSUME NEW r \in Refs, status'[r] = "pending"
             PROVE  credits'[r] = 0 /\ \A g \in Handlers : ref'[g] = r => pc'[g] # "credit"
  BY DEF PendingInv
<1>1. status[r] = "pending"
  BY NeverPendingAgain
<1>2. credits[r] = 0 /\ \A g \in Handlers : ref[g] = r => pc[g] # "credit"
  BY <1>1 DEF PendingInv
<1>3. credits'[r] = 0
  BY <1>2, CreditsBy DEF TopupCredited, At
<1>4. CASE UNCHANGED <<pc, role, ref, item, grants, verdicts>>
  BY <1>2, <1>3, <1>4
<1>5. ASSUME NEW h \in Handlers, Move(h)
      PROVE  \A g \in Handlers : ref'[g] = r => pc'[g] # "credit"
  <2>1. \A g \in Handlers \ {h} : ref'[g] = r => pc'[g] # "credit"
    BY <1>2, <1>5 DEF Move, Stands
  <2>2. ASSUME ref'[h] = r, pc'[h] = "credit"
        PROVE  FALSE
    <3>1. Advances(h)
      BY <1>5, <2>2 DEF Move, Leaves, Serve, Review, Busy
    <3>2. TopupApproved(h) /\ ref[h] = r
      BY <2>2, <3>1 DEF Advances
    <3> QED  BY <3>2 DEF TopupApproved, DueInv, DueShape
  <2> QED  BY <2>1, <2>2
<1> QED  BY <1>3, <1>4, <1>5

(* The requests of a gateway are as few as the paid invoices they carry.    *)
LEMMA ServesAreFew ==
  ASSUME ServingInv, OnePerInvoice, NEW r
  PROVE  Cardinality(Serves(r)) <= Cardinality(PaidFor(r))
<1> DEFINE f == [h \in Serves(r) |-> item[h]]
<1>1. \A h \in Serves(r) : item[h] \in PaidFor(r)
  BY DEF Serves, ServingInv, ServesPaid
<1>2. \A g, h \in Serves(r) : item[g] = item[h] => g = h
  BY DEF Serves, OnePerInvoice
<1>3. f \in Injection(Serves(r), PaidFor(r))
  BY <1>1, <1>2 DEF Injection, IsInjective
<1> QED  BY <1>3, CountsAreNumbers, FS_Injection

(* While a top-up waits, what may be put in for it is backed already.       *)
LEMMA PendingIsBacked ==
  ASSUME DueShape, CreditInv, NEW r \in Refs, status[r] = "pending"
  PROVE  Backed(r)
<1>1. Crediting(r) \subseteq Reviews(r) \cup Serves(r)
  BY DEF Crediting, Reviews, Serves, Serving, Busy
<1>2. /\ IsFiniteSet(Reviews(r) \cup Serves(r))
      /\ Cardinality(Reviews(r) \cup Serves(r)) \in Nat
      /\ Cardinality(Reviews(r) \cup Serves(r)) <=
            Cardinality(Reviews(r)) + Cardinality(Serves(r))
  <2>1. IsFiniteSet(Reviews(r) \cap Serves(r)) /\ Cardinality(Reviews(r) \cap Serves(r)) \in Nat
    BY CountsAreNumbers, FS_Subset, FS_CardinalityType
  <2>2. /\ IsFiniteSet(Reviews(r) \cup Serves(r))
        /\ Cardinality(Reviews(r) \cup Serves(r)) =
              Cardinality(Reviews(r)) + Cardinality(Serves(r))
              - Cardinality(Reviews(r) \cap Serves(r))
    BY CountsAreNumbers, FS_Union
  <2> QED  BY <2>1, <2>2, CountsAreNumbers, FS_CardinalityType
<1>3. Cardinality(Crediting(r)) <= Cardinality(Reviews(r) \cup Serves(r))
  BY <1>1, <1>2, FS_Subset
<1>4. Cardinality(Reviews(r)) <= verdicts[r] /\ verdicts[r] \in Nat
  BY DEF CreditInv, ReviewsInv, DueShape
<1>5. Cardinality(Serves(r)) <= Cardinality(PaidFor(r))
  BY ServesAreFew DEF CreditInv
<1>6. credits[r] = 0
  BY DEF CreditInv, PendingInv
<1> QED  BY <1>2, <1>3, <1>4, <1>5, <1>6, CountsAreNumbers DEF Backed

LEMMA BackedForAll ==
  ASSUME DueShape, CreditInv, NEW r \in Refs, KindOf[r] = "topup"
  PROVE  Backed(r)
  BY PendingIsBacked DEF CreditInv, SettledInv

(* A top-up that is no longer pending after a step: no request has joined   *)
(* those that put it into the wallet, and one has left if it was put there. *)
LEMMA NobodyJoins ==
  ASSUME IInv, DueInv, Next, NEW r \in Refs, KindOf[r] = "topup", status'[r] # "pending",
         \/ UNCHANGED <<pc, role, ref, item, grants, verdicts>>
         \/ \E h \in Handlers : Move(h)
  PROVE  Crediting(r)' \subseteq Crediting(r)
<1>1. CASE UNCHANGED <<pc, role, ref, item, grants, verdicts>>
  BY <1>1 DEF Crediting
<1>2. ASSUME NEW h \in Handlers, Move(h)
      PROVE  Crediting(r)' \subseteq Crediting(r)
  <2>1. \A g \in Handlers \ {h} : g \in Crediting(r)' => g \in Crediting(r)
    BY <1>2 DEF Move, Stands, Crediting
  <2>2. ASSUME h \in Crediting(r)', h \notin Crediting(r)
        PROVE  FALSE
    <3>1. Advances(h)
      BY <1>2, <2>2 DEF Move, Leaves, Serve, Review, Busy, Crediting
    <3>2. pc[h] = "final" /\ pc'[h] = "set" /\ status[r] = "pending" /\ ref[h] = r
      BY <2>2, <3>1 DEF Advances, Crediting
    <3>3. status'[r] = status[r]
      <4>1. ASSUME NEW g \in Handlers,
                   TopupApproved(g) \/ OrderApproved(g) \/ Rejected(g)
            PROVE  g # h /\ pc[g] \in {"set", "approve", "reject"}
                   /\ pc'[g] \in {"credit", "idle"}
        <5>1. pc[g] \in {"set", "approve", "reject"}
          BY <4>1 DEF TopupApproved, OrderApproved, Rejected, At
        <5>2. pc'[g] \in {"credit", "idle"}
          BY <4>1 DEF TopupApproved, OrderApproved, Rejected, Goto, IInv, Shape
        <5> QED  BY <3>2, <5>1, <5>2
      <4>2. ASSUME NEW g \in Handlers,
                   TopupApproved(g) \/ OrderApproved(g) \/ Rejected(g)
            PROVE  FALSE
        <5>1. g \in Handlers \ {h} /\ pc'[g] # pc[g]
          BY <4>1, <4>2
        <5> QED  BY <1>2, <5>1 DEF Move, Stands
      <4>3. ASSUME NEW g \in Handlers, TopupCredited(g) \/ PanelBuilt(g)
            PROVE  status' = status
        BY <4>3 DEF TopupCredited, PanelBuilt, tables
      <4> QED  BY <4>2, <4>3, Writes
    <3> QED  BY <3>2, <3>3
  <2> QED  BY <2>1, <2>2 DEF Crediting
<1> QED  BY <1>1, <1>2

LEMMA PaidForGrows ==
  ASSUME Kept, NEW r \in Refs
  PROVE  PaidFor(r) \subseteq PaidFor(r)'
<1>1. ASSUME NEW i \in PaidFor(r)
      PROVE  i \in PaidFor(r)'
  <2>1. i \in Invoices /\ info[i].ref = r /\ Paid(i)
    BY DEF PaidFor
  <2>2. info[i] # NoInfo
    BY <2>1, PaymentsAssumption DEF NoInfo
  <2> QED  BY <2>1, <2>2 DEF PaidFor, Kept
<1> QED  BY <1>1

LEMMA SettledStep ==
  ASSUME IInv, DueInv, DueShape', Kept, CreditInv, Next,
         \/ UNCHANGED <<pc, role, ref, item, grants, verdicts>>
         \/ \E h \in Handlers : Move(h)
  PROVE  SettledInv'
<1> SUFFICES ASSUME NEW r \in Refs, KindOf[r] = "topup", status'[r] # "pending"
             PROVE  Backed(r)'
  BY DEF SettledInv
<1>1. Backed(r) /\ DueShape
  BY BackedForAll DEF DueInv
<1>2. Crediting(r)' \subseteq Crediting(r)
  BY NobodyJoins
<1>3. /\ Cardinality(Crediting(r)) \in Nat /\ IsFiniteSet(Crediting(r))
      /\ Cardinality(PaidFor(r)) \in Nat
      /\ credits[r] \in Nat /\ verdicts[r] \in Nat /\ verdicts'[r] \in Nat
      /\ verdicts'[r] >= verdicts[r]
  BY <1>1, CountsAreNumbers DEF DueShape, Kept
<1>4. Cardinality(PaidFor(r)) <= Cardinality(PaidFor(r)') /\ Cardinality(PaidFor(r)') \in Nat
  <2>1. PaidFor(r)' \in SUBSET Invoices
    BY DEF PaidFor
  <2>2. IsFiniteSet(PaidFor(r)') /\ Cardinality(PaidFor(r)') \in Nat
    BY <2>1, PaymentsAssumption, FS_Subset, FS_CardinalityType
  <2> QED  BY <2>2, PaidForGrows, FS_Subset
<1>5. Cardinality(Crediting(r)') <= Cardinality(Crediting(r)) /\ Cardinality(Crediting(r)') \in Nat
  BY <1>2, <1>3, FS_Subset, FS_CardinalityType
<1>6. CASE credits'[r] = credits[r]
  BY <1>1, <1>3, <1>4, <1>5, <1>6 DEF Backed
<1>7. ASSUME NEW h \in Handlers, TopupCredited(h), ref[h] = r, credits'[r] = credits[r] + 1
      PROVE  Backed(r)'
  <2>1. h \in Crediting(r)
    BY <1>7 DEF TopupCredited, At, Crediting
  <2>2. pc'[h] = "idle"
    BY <1>7 DEF TopupCredited, Goto, IInv, Shape
  <2>3. Crediting(r)' \subseteq Crediting(r) \ {h}
    BY <1>2, <2>2 DEF Crediting
  <2>4. /\ IsFiniteSet(Crediting(r) \ {h})
        /\ Cardinality(Crediting(r) \ {h}) = Cardinality(Crediting(r)) - 1
    BY <1>3, <2>1, FS_RemoveElement
  <2>5. Cardinality(Crediting(r)') <= Cardinality(Crediting(r)) - 1
    BY <2>3, <2>4, FS_Subset
  <2> QED  BY <1>1, <1>3, <1>4, <1>5, <1>7, <2>5 DEF Backed
<1> QED  BY <1>6, <1>7, CreditsBy

LEMMA CreditInit == Init => CreditInv
<1> SUFFICES ASSUME Init PROVE CreditInv
  OBVIOUS
<1>1. /\ pc = [h \in Handlers |-> "idle"] /\ status = [r \in Refs |-> "pending"]
      /\ credits = [r \in Refs |-> 0] /\ verdicts = [r \in Refs |-> 0]
  BY DEF Init
<1>2. OneOnLoop /\ ServingInv /\ OnePerInvoice
  BY <1>1 DEF OneOnLoop, OnLoop, Awaiting, ServingInv, ServesPaid, OnePerInvoice, Serving, Busy
<1>3. \A r : Reviews(r) = {}
  BY <1>1 DEF Reviews, Busy
<1>4. ReviewsInv
  BY <1>1, <1>3, FS_EmptySet DEF ReviewsInv
<1>5. PendingInv /\ SettledInv
  BY <1>1 DEF PendingInv, SettledInv
<1> QED  BY <1>2, <1>4, <1>5 DEF CreditInv

LEMMA CreditNext ==
  ASSUME IInv, DueInv, CreditInv, [Next]_vars
  PROVE  CreditInv'
<1>1. CASE Next
  <2>1. DueShape' /\ Kept /\ DueShape
    BY <1>1, DueShapeStep, KeptByAll DEF DueInv
  <2>2. \/ UNCHANGED <<pc, role, ref, item, grants, verdicts>>
        \/ \E h \in Handlers : Move(h)
    BY <1>1, Moves DEF CreditInv
  <2>3. OneOnLoop' /\ ServingInv'
    BY <2>1, <2>2, LoopStep, ServingStep DEF CreditInv
  <2>4. OnePerInvoice'
    BY <2>2, PerInvoiceStep DEF CreditInv
  <2>5. ReviewsInv'
    BY <2>1, <2>2, ReviewsStep DEF CreditInv
  <2>6. PendingInv'
    BY <1>1, <2>2, PendingStep DEF CreditInv
  <2>7. SettledInv'
    BY <1>1, <2>1, <2>2, SettledStep
  <2> QED  BY <2>3, <2>4, <2>5, <2>6, <2>7 DEF CreditInv
<1>2. CASE UNCHANGED vars
  <2>1. UNCHANGED <<pc, role, ref, item, grants, verdicts, status, credits, info, remote>>
    BY <1>2 DEF vars, tables, locals, history
  <2>2. OneOnLoop' /\ ServingInv' /\ OnePerInvoice'
    BY <2>1 DEF CreditInv, OneOnLoop, OnLoop, UsesLoop, ServingInv, ServesPaid, Serving,
       OnePerInvoice, PaidFor, Paid
  <2>3. \A r \in Refs : /\ Reviews(r)' = Reviews(r) /\ Crediting(r)' = Crediting(r)
                        /\ PaidFor(r)' = PaidFor(r)
    BY <2>1 DEF Reviews, Crediting, PaidFor, Paid
  <2>4. ReviewsInv' /\ PendingInv' /\ SettledInv'
    BY <2>1, <2>3 DEF CreditInv, ReviewsInv, PendingInv, SettledInv, Backed
  <2> QED  BY <2>2, <2>4 DEF CreditInv
<1> QED  BY <1>1, <1>2

(* For any number of invoices, gateways, requests and approvals: a top-up   *)
(* is put into the wallet at most once for every invoice that was paid and  *)
(* every approval an admin gave.                                            *)
THEOREM NoCreditUnbacked == Spec => []CreditsAreBacked
<1>1. Spec => []CreditInv
  BY AlwaysInv, DueInit, DueNext, CreditInit, CreditNext, PTL DEF Spec
<1>2. DueInv /\ CreditInv => CreditsAreBacked
  <2> SUFFICES ASSUME DueInv, CreditInv, NEW r \in Refs, KindOf[r] = "topup"
               PROVE  credits[r] <= Cardinality(PaidFor(r)) + verdicts[r]
    BY DEF CreditsAreBacked
  <2>1. Backed(r) /\ DueShape
    BY BackedForAll DEF DueInv
  <2> QED  BY <2>1, CountsAreNumbers DEF Backed, DueShape
<1>3. Spec => []DueInv
  BY AlwaysInv, DueInit, DueNext, PTL DEF Spec
<1> QED  BY <1>1, <1>2, <1>3, PTL

=============================================================================
