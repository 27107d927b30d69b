------------------------------ MODULE Payments ------------------------------
(***************************************************************************)
(* Paying a wallet top-up or an order through a gateway: AbanGateway (the  *)
(* status is asked for and verified once, from a webhook or from the check *)
(* button of the bot), Plisio (signed callbacks) and the gateways an admin *)
(* defines (webhook and return page).  Webhooks and the return page run in *)
(* the mini app, whose database calls occupy its event loop; so do those   *)
(* of the check button in the bot.  Reviews run in worker threads.  Every  *)
(* action is one transaction or one answer of a gateway.                   *)
(***************************************************************************)
EXTENDS Integers, FiniteSets

CONSTANTS
    Refs,           \* top-ups and orders that wait for their money
    KindOf,         \* what each one is
    Invoices,       \* ids the gateways can hand out
    NoInvoice, NoRef,
    Gateways,       \* gateways in use: "aban", "plisio", "own"
    VerifyEnabled,  \* the admin's own gateway has a verify request
    Handlers, InstOf,
    MaxVerdicts,    \* bound: approvals an admin starts for each of them
    MaxFailures     \* bound: interruptions and lost answers

Kinds == {"topup", "bank", "auto", "custom"}

ASSUME PaymentsAssumption ==
    /\ KindOf \in [Refs -> Kinds]
    /\ NoInvoice \notin Invoices /\ NoRef \notin Refs
    /\ Gateways \subseteq {"aban", "plisio", "own"}
    /\ VerifyEnabled \in BOOLEAN
    /\ InstOf \in [Handlers -> {"bot", "mini", "web"}]
    /\ MaxVerdicts \in Nat /\ MaxFailures \in Nat
    /\ IsFiniteSet(Handlers) /\ IsFiniteSet(Invoices)

VARIABLES
    status,     \* wallet_topups.status, orders.status
    info,       \* gateway and kind/ref_id of an invoice
    row,        \* the status column of its row
    remote,     \* the invoice at the gateway
    notices     \* callbacks the gateway sends, each any number of times

VARIABLES
    pc, role,   \* where a request is and what it is
    item, ref,  \* its invoice, and what that pays for
    seen,       \* status of the row when the request read it
    answer      \* what the gateway answered

(* History variables. *)
VARIABLES
    credits,    \* how often a top-up was put into the wallet
    builds,     \* how often an order was delivered
    verdicts,   \* approvals an admin gave
    grants,     \* how often an invoice of AbanGateway or Plisio was taken
                \* for newly paid
    told,       \* orders somebody was told to be delivered already
    halted,     \* what interrupted requests had to settle, and where
    lost,       \* invoices whose verification succeeded unheard
    failures

tables == <<status, info, row, remote, notices>>
locals == <<pc, role, item, ref, seen, answer>>
history == <<credits, builds, verdicts, grants, told, halted, lost, failures>>
vars == <<tables, locals, history>>

(* The code never tells a row that is new from one that is pending: "open". *)
RowStatus == {"absent", "open", "completed", "failed", "expired", "deleted"}
Labels == {"idle", "creating", "ask", "verify", "final",
           "set", "credit", "panel", "approve", "reject"}
Awaiting == {"idle", "creating", "ask", "verify", "panel"}
NoInfo == [gw |-> "none", ref |-> NoRef]

TypeOK ==
    /\ status \in [Refs -> {"pending", "approved", "rejected"}]
    /\ info \in [Invoices -> [gw : Gateways, ref : Refs] \cup {NoInfo}]
    /\ row \in [Invoices -> RowStatus]
    /\ remote \in [Invoices -> {"none", "open", "paid", "verified", "expired"}]
    /\ notices \subseteq (Invoices \X {"any", "open", "completed", "failed"})
    /\ pc \in [Handlers -> Labels]
    /\ role \in [Handlers -> {"none", "create", "hook", "check", "return", "review"}]
    /\ item \in [Handlers -> Invoices \cup {NoInvoice}]
    /\ ref \in [Handlers -> Refs \cup {NoRef}]
    /\ seen \in [Handlers -> RowStatus]
    /\ answer \in [Handlers -> {"none", "open", "paid", "expired", "ok",
                                "already", "error"}]
    /\ credits \in [Refs -> Nat] /\ builds \in [Refs -> Nat]
    /\ verdicts \in [Refs -> Nat] /\ grants \in [Invoices -> Nat]
    /\ told \subseteq Refs /\ lost \subseteq Invoices
    /\ halted \subseteq (Refs \X Labels)
    /\ failures \in 0..MaxFailures

Init ==
    /\ status = [r \in Refs |-> "pending"]
    /\ info = [i \in Invoices |-> NoInfo]
    /\ row = [i \in Invoices |-> "absent"]
    /\ remote = [i \in Invoices |-> "none"]
    /\ notices = {}
    /\ pc = [h \in Handlers |-> "idle"]
    /\ role = [h \in Handlers |-> "none"]
    /\ item = [h \in Handlers |-> NoInvoice]
    /\ ref = [h \in Handlers |-> NoRef]
    /\ seen = [h \in Handlers |-> "absent"]
    /\ answer = [h \in Handlers |-> "none"]
    /\ credits = [r \in Refs |-> 0] /\ builds = [r \in Refs |-> 0]
    /\ verdicts = [r \in Refs |-> 0] /\ grants = [i \in Invoices |-> 0]
    /\ told = {} /\ halted = {} /\ lost = {}
    /\ failures = 0

-----------------------------------------------------------------------------
(* Scheduling and small steps.                                              *)

UsesLoop(h) == role[h] # "review"
OnLoop(h) == UsesLoop(h) /\ pc[h] \notin Awaiting
LoopFree(h) ==
    \A g \in Handlers \ {h} : InstOf[g] = InstOf[h] => ~OnLoop(g)

(* The request can make its next call.                                      *)
At(h, l) == pc[h] = l /\ (UsesLoop(h) => LoopFree(h))

Goto(h, l) ==
    /\ pc' = [pc EXCEPT ![h] = l]
    /\ IF l = "idle"
       THEN /\ role' = [role EXCEPT ![h] = "none"]
            /\ item' = [item EXCEPT ![h] = NoInvoice]
            /\ ref' = [ref EXCEPT ![h] = NoRef]
            /\ seen' = [seen EXCEPT ![h] = "absent"]
            /\ answer' = [answer EXCEPT ![h] = "none"]
       ELSE UNCHANGED <<role, item, ref, seen, answer>>

(* A request takes up invoice i, whose row it has just read.                *)
Begin(h, r, i, l) ==
    /\ pc' = [pc EXCEPT ![h] = l]
    /\ role' = [role EXCEPT ![h] = r]
    /\ item' = [item EXCEPT ![h] = i]
    /\ ref' = [ref EXCEPT ![h] = info[i].ref]
    /\ seen' = [seen EXCEPT ![h] = row[i]]
    /\ UNCHANGED answer

(* UPDATE ... SET status = s WHERE the invoice is i                         *)
SetRow(i, s) ==
    row' = IF row[i] \in {"absent", "deleted"} THEN row
           ELSE [row EXCEPT ![i] = s]

Grant(i) ==
    grants' = IF info[i].gw = "own" THEN grants ELSE [grants EXCEPT ![i] = @ + 1]

-----------------------------------------------------------------------------
(* Invoices.                                                                *)

(* No open invoice of this gateway yet: create_invoice_for asks for one.    *)
StartInvoice(h, g, r, i) ==
    /\ pc[h] = "idle" /\ InstOf[h] \in {"bot", "mini"} /\ LoopFree(h)
    /\ status[r] = "pending"
    /\ info[i] = NoInfo
    /\ \A j \in Invoices :
          info[j] = [gw |-> g, ref |-> r] => row[j] # "open"
    /\ info' = [info EXCEPT ![i] = [gw |-> g, ref |-> r]]
    /\ pc' = [pc EXCEPT ![h] = "creating"]
    /\ role' = [role EXCEPT ![h] = "create"]
    /\ item' = [item EXCEPT ![h] = i]
    /\ ref' = [ref EXCEPT ![h] = r]
    /\ UNCHANGED <<status, row, remote, notices, seen, answer, history>>

(* The gateway made the invoice; its row is inserted.                       *)
InvoiceCreated(h) ==
    LET i == item[h] IN
    /\ At(h, "creating")
    /\ remote' = [remote EXCEPT ![i] = "open"]
    /\ row' = [row EXCEPT ![i] = "open"]
    /\ Goto(h, "idle")
    /\ UNCHANGED <<status, info, notices, history>>

InvoiceRefused(h) ==
    /\ At(h, "creating")
    /\ Goto(h, "idle")
    /\ UNCHANGED <<tables, history>>

(* The gateway calls back: when it sees a payment that is not yet certain,  *)
(* when the buyer has paid, when the time to pay runs out.                  *)
Callbacks(i, s) == {<<i, IF info[i].gw = "aban" THEN "any" ELSE s>>}

Announce(i) ==
    /\ remote[i] = "open"
    /\ notices' = notices \cup Callbacks(i, "open")
    /\ UNCHANGED <<status, info, row, remote, locals, history>>

Pay(i) ==
    /\ remote[i] = "open"
    /\ remote' = [remote EXCEPT ![i] = "paid"]
    /\ notices' = notices \cup Callbacks(i, "completed")
    /\ UNCHANGED <<status, info, row, locals, history>>

RunOut(i) ==
    /\ remote[i] = "open"
    /\ remote' = [remote EXCEPT ![i] = "expired"]
    /\ notices' = notices \cup Callbacks(i, "failed")
    /\ UNCHANGED <<status, info, row, locals, history>>

(* expire_stale_..._invoices, when an admin lists the invoices              *)
ExpireRow(i) ==
    /\ row[i] = "open" /\ info[i].gw # "own"
    /\ row' = [row EXCEPT ![i] = "expired"]
    /\ UNCHANGED <<status, info, remote, notices, locals, history>>

(* cancel_and_delete_..._invoice; the gateway is not told.                  *)
DeleteRow(i) ==
    /\ row[i] \notin {"absent", "deleted"} /\ info[i].gw # "own"
    /\ row' = [row EXCEPT ![i] = "deleted"]
    /\ UNCHANGED <<status, info, remote, notices, locals, history>>

-----------------------------------------------------------------------------
(* AbanGateway: try_verify_and_finalize.                                    *)

(* Mutant: an invoice that expired here is not asked for any more.          *)
AsksOpen(i) == row[i] = "open"

(* A row that is completed counts as delivered; otherwise the gateway is    *)
(* asked.                                                                   *)
Asks(i) == row[i] # "completed"

(* The answer 'already_delivered'.                                          *)
Tell(r) == told' = IF KindOf[r] = "topup" THEN told ELSE told \cup {r}

TryVerify(h, r, i) ==
    /\ IF Asks(i) THEN Begin(h, r, i, "ask") /\ UNCHANGED told
       ELSE Tell(info[i].ref) /\ UNCHANGED locals
    /\ UNCHANGED <<tables, credits, builds, verdicts, grants, halted, lost,
                   failures>>

Free(h, inst, i) ==
    /\ pc[h] = "idle" /\ InstOf[h] = inst /\ LoopFree(h)
    /\ row[i] \notin {"absent", "deleted"}

(* The webhook, whatever its body says.                                     *)
AbanHook(h, i) ==
    /\ Free(h, "mini", i)
    /\ <<i, "any">> \in notices /\ info[i].gw = "aban"
    /\ TryVerify(h, "hook", i)

(* cb_check_abangateway of the buyer, cb_check_abangateway_invoice          *)
CheckButton(h, i) ==
    /\ Free(h, "bot", i)
    /\ info[i].gw = "aban"
    /\ TryVerify(h, "check", i)

(* The gateway answers get_invoice; a verified invoice still is paid.  The  *)
(* answer travels back while the other requests go on.                      *)
GatewayAnswers(h) ==
    /\ pc[h] = "ask" /\ answer[h] = "none"
    /\ answer' = [answer EXCEPT ![h] =
                     IF remote[item[h]] = "verified" THEN "paid" ELSE remote[item[h]]]
    /\ UNCHANGED <<tables, pc, role, item, ref, seen, history>>

AnswerLost(h) ==
    /\ pc[h] \in {"ask", "verify"} /\ answer[h] = "none"
    /\ failures < MaxFailures
    /\ failures' = failures + 1
    /\ answer' = [answer EXCEPT ![h] = "error"]
    /\ UNCHANGED <<tables, pc, role, item, ref, seen>>
    /\ UNCHANGED <<credits, builds, verdicts, grants, told, halted, lost>>

(* An unpaid invoice gets back the status its row had before the await, a   *)
(* partly paid one is open.                                                 *)
Asked(h) ==
    LET i == item[h] IN
    /\ role[h] # "return"
    /\ At(h, "ask") /\ answer[h] # "none"
    /\ CASE answer[h] = "paid" ->
              /\ pc' = [pc EXCEPT ![h] = "verify"]
              /\ answer' = [answer EXCEPT ![h] = "none"]
              /\ UNCHANGED <<row, role, item, ref, seen>>
         [] answer[h] = "open" ->
              /\ SetRow(i, seen[h]) \/ SetRow(i, "open")
              /\ Goto(h, "idle")
         [] answer[h] = "expired" -> SetRow(i, "expired") /\ Goto(h, "idle")
         [] answer[h] = "error" -> UNCHANGED row /\ Goto(h, "idle")
    /\ UNCHANGED <<status, info, remote, notices, history>>

(* verify succeeds once, and says so the next time.                         *)
GatewayVerifies(h) ==
    LET i == item[h] IN
    /\ pc[h] = "verify" /\ answer[h] = "none"
    /\ answer' = [answer EXCEPT ![h] =
                     IF remote[i] = "paid" THEN "ok" ELSE "already"]
    /\ remote' = [remote EXCEPT ![i] = "verified"]
    /\ UNCHANGED <<status, info, row, notices, pc, role, item, ref, seen, history>>

(* ... and the answer is lost on its way (a time-out).                      *)
VerifiedUnheard(h) ==
    LET i == item[h] IN
    /\ pc[h] = "verify" /\ answer[h] = "none"
    /\ failures < MaxFailures
    /\ failures' = failures + 1
    /\ lost' = IF remote[i] = "paid" THEN lost \cup {i} ELSE lost
    /\ remote' = [remote EXCEPT ![i] = "verified"]
    /\ answer' = [answer EXCEPT ![h] = "error"]
    /\ UNCHANGED <<status, info, row, notices, pc, role, item, ref, seen>>
    /\ UNCHANGED <<credits, builds, verdicts, grants, told, halted>>

(* Mutant: a verification that was consumed before counts again.            *)
CountsAnyAnswer(h) == answer[h] \in {"ok", "already"}
CountsAsNew(h) == answer[h] = "ok"

Verified(h) ==
    LET i == item[h] IN
    /\ At(h, "verify") /\ answer[h] # "none"
    /\ IF answer[h] = "error" THEN UNCHANGED row ELSE SetRow(i, "completed")
    /\ IF CountsAsNew(h)
       THEN Grant(i) /\ Goto(h, "final") /\ UNCHANGED told
       ELSE /\ IF answer[h] = "already" THEN Tell(ref[h]) ELSE UNCHANGED told
            /\ Goto(h, "idle") /\ UNCHANGED grants
    /\ UNCHANGED <<status, info, remote, notices>>
    /\ UNCHANGED <<credits, builds, verdicts, halted, lost, failures>>

-----------------------------------------------------------------------------
(* Callbacks that carry a status.                                           *)

(* Records the completion and goes on to deliver.                           *)
Complete(h, r, i) ==
    /\ SetRow(i, "completed")
    /\ Grant(i)
    /\ Begin(h, r, i, "final")

Completes(s) == s = "completed"

(* Mutant: the row is not looked at.                                        *)
StillOpenAny(i) == TRUE
StillOpen(i) == row[i] # "completed"

(* api_plisio_webhook: nothing happens to a completed invoice.              *)
PlisioHook(h, i, s) ==
    /\ Free(h, "mini", i)
    /\ <<i, s>> \in notices /\ info[i].gw = "plisio"
    /\ StillOpen(i)
    /\ IF Completes(s) THEN Complete(h, "hook", i)
       ELSE SetRow(i, s) /\ UNCHANGED <<locals, grants>>
    /\ UNCHANGED <<status, info, remote, notices>>
    /\ UNCHANGED <<credits, builds, verdicts, told, halted, lost, failures>>

(* api_custom_gateway_webhook: a refusal or a callback without a verdict is *)
(* written over whatever the row says.                                      *)
OwnHook(h, i, s) ==
    /\ Free(h, "mini", i)
    /\ <<i, s>> \in notices /\ info[i].gw = "own"
    /\ IF ~Completes(s) THEN SetRow(i, s) /\ UNCHANGED <<locals, grants>>
       ELSE row[i] # "completed" /\ Complete(h, "hook", i)
    /\ UNCHANGED <<status, info, remote, notices>>
    /\ UNCHANGED <<credits, builds, verdicts, told, halted, lost, failures>>

(* The return page: with a verify request the gateway is asked, without one *)
(* the row decides.                                                         *)
ReturnPage(h, i) ==
    /\ Free(h, "mini", i)
    /\ info[i].gw = "own"
    /\ IF VerifyEnabled THEN Begin(h, "return", i, "ask") /\ UNCHANGED row
       ELSE row[i] # "completed" /\ SetRow(i, "failed") /\ UNCHANGED locals
    /\ UNCHANGED <<status, info, remote, notices, history>>

(* The answer is acted upon with the row read before the await: a completed *)
(* row may be completed again, or become failed.                            *)
Returned(h) ==
    LET i == item[h] IN
    /\ role[h] = "return"
    /\ At(h, "ask") /\ answer[h] # "none"
    /\ CASE answer[h] # "paid" ->
              SetRow(i, "failed") /\ Goto(h, "idle") /\ UNCHANGED grants
         [] answer[h] = "paid" /\ seen[h] = "completed" ->
              Goto(h, "idle") /\ UNCHANGED <<row, grants>>
         [] answer[h] = "paid" /\ seen[h] # "completed" ->
              SetRow(i, "completed") /\ Grant(i) /\ Goto(h, "final")
    /\ UNCHANGED <<status, info, remote, notices>>
    /\ UNCHANGED <<credits, builds, verdicts, told, halted, lost, failures>>

-----------------------------------------------------------------------------
(* Delivery: finalize_paid_topup, finalize_paid_order and their copies in   *)
(* the webhooks.                                                            *)

(* Mutant: approve_topup does not look at the status.                       *)
OpenAny(r) == TRUE
Open(r) == status[r] = "pending"

(* What comes after a look at the status.  A webhook leaves a custom config *)
(* to the check button; everybody else builds it.                           *)
Deliver(r, who) ==
    CASE ~Open(r) -> "idle"
      [] Open(r) /\ KindOf[r] = "topup" -> "set"
      [] Open(r) /\ KindOf[r] = "auto" -> "panel"
      [] Open(r) /\ KindOf[r] = "bank" -> "approve"
      [] OTHER ->
            IF who \in {"hook", "return"} THEN "idle" ELSE "panel"

(* get_topup or get_order; configs of the bank may have run out.            *)
Finalize(h) ==
    LET next == Deliver(ref[h], role[h]) IN
    /\ At(h, "final")
    /\ Goto(h, next) \/ (next = "approve" /\ Goto(h, "idle"))
    /\ UNCHANGED <<tables, history>>

(* The second and third transaction of approve_topup.                       *)
TopupApproved(h) ==
    /\ At(h, "set")
    /\ status' = [status EXCEPT ![ref[h]] = "approved"]
    /\ Goto(h, "credit")
    /\ UNCHANGED <<info, row, remote, notices, history>>

(* Mutant: approve_topup forgets the amount.                                *)
CreditNothing(r) == UNCHANGED credits
AddCredit(r) == credits' = [credits EXCEPT ![r] = @ + 1]

TopupCredited(h) ==
    /\ At(h, "credit")
    /\ AddCredit(ref[h])
    /\ Goto(h, "idle")
    /\ UNCHANGED <<tables, builds, verdicts, grants, told, halted, lost, failures>>

PanelBuilt(h) ==
    LET r == ref[h] IN
    /\ At(h, "panel")
    /\ KindOf[r] = "custom" => builds[r] = 0
    /\ builds' = [builds EXCEPT ![r] = @ + 1]
    /\ Goto(h, "approve")
    /\ UNCHANGED <<tables, credits, verdicts, grants, told, halted, lost, failures>>

PanelFailed(h) ==
    /\ At(h, "panel")
    /\ Goto(h, "idle")
    /\ UNCHANGED <<tables, history>>

(* approve_order and its variants; configs of the bank go out here.         *)
OrderApproved(h) ==
    LET r == ref[h] IN
    /\ At(h, "approve")
    /\ status' = [status EXCEPT ![r] = "approved"]
    /\ builds' = IF KindOf[r] = "bank" THEN [builds EXCEPT ![r] = @ + 1] ELSE builds
    /\ Goto(h, "idle")
    /\ UNCHANGED <<info, row, remote, notices>>
    /\ UNCHANGED <<credits, verdicts, grants, told, halted, lost, failures>>

-----------------------------------------------------------------------------
(* An admin approves or rejects by hand, in the bot or in the web panel.    *)

StartReview(h, r, l) ==
    /\ pc[h] = "idle" /\ InstOf[h] \in {"bot", "web"}
    /\ status[r] = "pending"
    /\ pc' = [pc EXCEPT ![h] = l]
    /\ role' = [role EXCEPT ![h] = "review"]
    /\ ref' = [ref EXCEPT ![h] = r]
    /\ UNCHANGED <<tables, item, seen, answer>>
    /\ UNCHANGED <<credits, builds, grants, told, halted, lost, failures>>

StartApprove(h, r) ==
    /\ verdicts[r] < MaxVerdicts
    /\ StartReview(h, r, "final")
    /\ verdicts' = [verdicts EXCEPT ![r] = @ + 1]

StartReject(h, r) == StartReview(h, r, "reject") /\ UNCHANGED verdicts

(* reject_topup and reject_order write whatever the status has become.      *)
Rejected(h) ==
    /\ At(h, "reject")
    /\ status' = [status EXCEPT ![ref[h]] = "rejected"]
    /\ Goto(h, "idle")
    /\ UNCHANGED <<info, row, remote, notices, history>>

(* A crash or an exception ends the request.                                *)
Interrupt(h) ==
    /\ pc[h] # "idle"
    /\ failures < MaxFailures
    /\ failures' = failures + 1
    /\ halted' = IF pc[h] \in {"final", "set", "credit"}
                 THEN halted \cup {<<ref[h], pc[h]>>} ELSE halted
    /\ lost' = IF pc[h] = "verify" /\ answer[h] = "ok"
               THEN lost \cup {item[h]} ELSE lost
    /\ Goto(h, "idle")
    /\ UNCHANGED <<tables, credits, builds, verdicts, grants, told>>

-----------------------------------------------------------------------------
(* What goes on by itself once a request was started.                       *)
Step(h) ==
    \/ InvoiceCreated(h) \/ InvoiceRefused(h)
    \/ GatewayAnswers(h) \/ Asked(h)
    \/ GatewayVerifies(h) \/ Verified(h) \/ Returned(h)
    \/ Finalize(h) \/ TopupApproved(h) \/ TopupCredited(h)
    \/ PanelBuilt(h) \/ PanelFailed(h) \/ OrderApproved(h)
    \/ Rejected(h)

Start(h) ==
    \/ \E g \in Gateways, r \in Refs, i \in Invoices : StartInvoice(h, g, r, i)
    \/ \E i \in Invoices :
          \/ AbanHook(h, i) \/ CheckButton(h, i) \/ ReturnPage(h, i)
          \/ \E s \in {"open", "completed", "failed"} :
                PlisioHook(h, i, s) \/ OwnHook(h, i, s)
    \/ \E r \in Refs : StartApprove(h, r) \/ StartReject(h, r)

Environment ==
    \E i \in Invoices : Announce(i) \/ Pay(i) \/ RunOut(i) \/ ExpireRow(i) \/ DeleteRow(i)

Next ==
    \/ \E h \in Handlers :
          \/ Step(h) \/ Start(h)
          \/ AnswerLost(h) \/ VerifiedUnheard(h) \/ Interrupt(h)
    \/ Environment

Spec == Init /\ [][Next]_vars

(* A running request goes on; the buyer keeps pressing the check button and *)
(* Plisio repeats a callback until it was heard.                            *)
Fairness ==
    /\ \A h \in Handlers : SF_vars(Step(h))
    /\ \A i \in Invoices :
          /\ SF_vars(\E h \in Handlers : Asks(i) /\ CheckButton(h, i))
          /\ SF_vars(\E h \in Handlers : PlisioHook(h, i, "completed"))

FairSpec == Spec /\ Fairness
=============================================================================
