--------------------------- MODULE ResellerRequests ---------------------------
(***************************************************************************)
(* Applications for a reseller bot.  An applicant fills in a dialog, an    *)
(* administrator quotes a price, the applicant sends a receipt, the        *)
(* payment is approved, and the applicant hands in the token of a bot: the *)
(* bot is registered, the credit granted and the request completed.  The   *)
(* bot, the mini app and the web panel review the same table; each handler *)
(* reads the row in one transaction and writes its status in another that  *)
(* does not look at it.  Handlers of one chat may overlap as well, and any *)
(* handler may be cut short between two of its steps.                      *)
(***************************************************************************)
EXTENDS Naturals, FiniteSets, Sequences

CONSTANTS Applicants,   \* users who apply
          BotTokens,    \* tokens they may hand in
          Clerks,       \* handlers that run at the same time
          MaxRequests,  \* bound: rows of reseller_requests
          MaxCalls      \* bound: handlers started

ASSUME RequestsAssumption ==
    /\ IsFiniteSet(Clerks)
    /\ {MaxRequests, MaxCalls} \subseteq Nat

VARIABLES requests,     \* reseller_requests: id -> row
          flow,         \* the applicants' dialog in the store of the bot
          clerk,        \* what a running handler is about to do
          sold,         \* rows of reseller_bots, with the request they serve
          calls         \* handlers started, for the bound

requestVars == <<requests, flow, clerk, sold, calls>>

Opened == {"pending_review", "awaiting_payment", "awaiting_payment_review",
           "awaiting_bot_info"}
Statuses == Opened \cup {"rejected", "payment_rejected", "cancelled", "completed"}
Request == [user : Applicants, status : Statuses, receipt : BOOLEAN,
            granted : 0..MaxCalls]

NoFlow == [step |-> "none", req |-> 0, token |-> "none"]
Free == [does |-> "idle", user |-> "none", req |-> 0, token |-> "none",
         to |-> "none", then |-> "idle"]

RequestsTypeOK ==
    /\ requests \in Seq(Request) /\ Len(requests) <= MaxRequests
    /\ flow \in [Applicants -> [step : {"none", "volume", "text", "token", "owner"},
                                req : 0..MaxRequests,
                                token : BotTokens \cup {"none"}]]
    /\ \A c \in Clerks : clerk[c].req \in 0..Len(requests)
    /\ sold \subseteq [token : BotTokens, req : 1..MaxRequests]
    /\ calls \in 0..MaxCalls

Ids == DOMAIN requests
OpenOf(u) == {r \in Ids : requests[r].user = u /\ requests[r].status \in Opened}
Newest(S) == CHOOSE r \in S : \A q \in S : q <= r
IsReseller(u) == \E r \in Ids : requests[r].user = u /\ requests[r].granted > 0

Begins(c, work) ==
    /\ clerk[c].does = "idle" /\ calls < MaxCalls
    /\ calls' = calls + 1
    /\ clerk' = [clerk EXCEPT ![c] = work]
GoesOn(c, to) == /\ clerk' = [clerk EXCEPT ![c].does = to]
                 /\ calls' = calls
Ends(c) == clerk' = [clerk EXCEPT ![c] = Free] /\ calls' = calls

(***************************************************************************)
(* The reviews.  from: the statuses under which the handler goes on; to:   *)
(* the status it writes; then: what it does to the applicant's dialog.     *)
(***************************************************************************)
Pending == {"pending_review"}
InReview == {"awaiting_payment_review"}
Verdict(from, to, then) == [from |-> from, to |-> to, then |-> then]

(* The price is asked for in a dialog, and the request read again.         *)
BotQuotes == {Verdict(Pending, "awaiting_payment", "idle")}
(* The reason is asked for in a dialog; the request is not read again.     *)
BotRejects == {Verdict(Pending, "rejected", "idle"),
               Verdict(InReview, "payment_rejected", "idle")}
BotApproves == {Verdict(InReview, "awaiting_bot_info", "state")}
BotCancels == {Verdict(Opened, "cancelled", "dismiss")}
UserCancels == {Verdict({"awaiting_payment"}, "cancelled", "idle")}

(* Mutant: a payment is approved at every open stage. *)
AppApprovesAny == {Verdict(Opened, "awaiting_bot_info", "both")}

(* The mini app and the panel reject at every open stage, and write state  *)
(* and data of the applicant's dialog together.                            *)
AppReviews == {Verdict(Pending, "awaiting_payment", "idle"),
               Verdict(InReview, "awaiting_bot_info", "both"),
               Verdict(Opened, "rejected", "idle"),
               Verdict(Opened, "payment_rejected", "idle"),
               Verdict(Opened, "cancelled", "dismiss")}
PanelReviews == {Verdict(Pending, "awaiting_payment", "idle"),
                 Verdict(InReview, "awaiting_bot_info", "both"),
                 Verdict(Opened, "rejected", "idle"),
                 Verdict(Opened, "payment_rejected", "idle"),
                 Verdict(Opened, "cancelled", "dismiss")}

Verdicts == UNION {BotQuotes, BotRejects, BotApproves, BotCancels, UserCancels,
                   AppReviews, PanelReviews}

Look(c, r, v) ==
    /\ requests[r].status \in v.from
    /\ Begins(c, [Free EXCEPT !.does = "decide", !.user = requests[r].user,
                              !.req = r, !.to = v.to,
                              !.then = IF /\ v.then = "dismiss"
                                          /\ requests[r].status # "awaiting_bot_info"
                                       THEN "idle" ELSE v.then])
    /\ UNCHANGED <<requests, flow, sold>>

(* set_reseller_request_status looks at nothing but the id.                *)
Decide(c) ==
    /\ clerk[c].does = "decide"
    /\ requests' = [requests EXCEPT ![clerk[c].req].status = clerk[c].to]
    /\ IF clerk[c].then = "idle" THEN Ends(c) ELSE GoesOn(c, clerk[c].then)
    /\ UNCHANGED <<flow, sold>>

(* The approving handler leads the applicant on: in the bot the state,     *)
(* then the data; the web front ends write both over what there was.       *)
SetState(c) ==
    /\ clerk[c].does = "state"
    /\ flow' = [flow EXCEPT ![clerk[c].user].step = "token"]
    /\ GoesOn(c, "data")
    /\ UNCHANGED <<requests, sold>>

UpdateData(c) ==
    /\ clerk[c].does = "data"
    /\ flow' = [flow EXCEPT ![clerk[c].user].req = clerk[c].req]
    /\ Ends(c)
    /\ UNCHANGED <<requests, sold>>

SetStateAndData(c) ==
    /\ clerk[c].does = "both"
    /\ flow' = [flow EXCEPT ![clerk[c].user] =
                  [step |-> "token", req |-> clerk[c].req, token |-> "none"]]
    /\ Ends(c)
    /\ UNCHANGED <<requests, sold>>

ClearFlow(c) ==
    /\ clerk[c].does \in {"dismiss", "clear"}
    /\ flow' = [flow EXCEPT ![clerk[c].user] = NoFlow]
    /\ Ends(c)
    /\ UNCHANGED <<requests, sold>>

(***************************************************************************)
(* The applicant.                                                          *)
(***************************************************************************)
Apply(u) ==
    /\ OpenOf(u) = {} /\ ~IsReseller(u) /\ Len(requests) < MaxRequests
    /\ flow' = [flow EXCEPT ![u].step = "volume"]
    /\ UNCHANGED <<requests, clerk, sold, calls>>

GiveVolume(u) ==
    /\ flow[u].step = "volume"
    /\ flow' = [flow EXCEPT ![u].step = "text"]
    /\ UNCHANGED <<requests, clerk, sold, calls>>

(* The handler of the text has read the dialog; then it clears it.         *)
GiveText(c, u) ==
    /\ flow[u].step = "text"
    /\ Begins(c, [Free EXCEPT !.does = "submit", !.user = u])
    /\ UNCHANGED <<requests, flow, sold>>

SubmitClears(c) ==
    /\ clerk[c].does = "submit"
    /\ flow' = [flow EXCEPT ![clerk[c].user] = NoFlow]
    /\ GoesOn(c, "create")
    /\ UNCHANGED <<requests, sold>>

CreateRequest(c) ==
    /\ clerk[c].does = "create" /\ Len(requests) < MaxRequests
    /\ requests' = Append(requests, [user |-> clerk[c].user,
                                     status |-> "pending_review",
                                     receipt |-> FALSE, granted |-> 0])
    /\ Ends(c)
    /\ UNCHANGED <<flow, sold>>

(* A photo outside every dialog is the receipt of the newest open request. *)
SendReceipt(c, u) ==
    /\ flow[u].step = "none" /\ OpenOf(u) # {}
    /\ requests[Newest(OpenOf(u))].status = "awaiting_payment"
    /\ Begins(c, [Free EXCEPT !.does = "receipt", !.user = u,
                              !.req = Newest(OpenOf(u))])
    /\ UNCHANGED <<requests, flow, sold>>

StoreReceipt(c) ==
    /\ clerk[c].does = "receipt"
    /\ requests' = [requests EXCEPT ![clerk[c].req].status = "awaiting_payment_review",
                                    ![clerk[c].req].receipt = TRUE]
    /\ Ends(c)
    /\ UNCHANGED <<flow, sold>>

(* The token is tried at Telegram and must not be registered.              *)
GiveToken(c, u, t) ==
    /\ flow[u].step = "token"
    /\ Begins(c, [Free EXCEPT !.does = "token", !.user = u, !.token = t])
    /\ UNCHANGED <<requests, flow, sold>>

TakeToken(c) ==
    /\ clerk[c].does = "token"
    /\ flow' = IF clerk[c].token \in {s.token : s \in sold} THEN flow
               ELSE [flow EXCEPT ![clerk[c].user].step = "owner",
                                 ![clerk[c].user].token = clerk[c].token]
    /\ Ends(c)
    /\ UNCHANGED <<requests, sold>>

GiveOwner(c, u) ==
    /\ flow[u].step = "owner"
    /\ Begins(c, LET good == /\ flow[u].req \in Ids
                             /\ requests[flow[u].req].status = "awaiting_bot_info"
                 IN  [Free EXCEPT !.does = IF good THEN "register" ELSE "clear",
                                  !.user = u, !.req = flow[u].req,
                                  !.token = flow[u].token])
    /\ UNCHANGED <<requests, flow, sold>>

(* bot_token is UNIQUE: a second registration raises and ends the handler. *)
RegisterBot(c) ==
    /\ clerk[c].does = "register"
    /\ IF clerk[c].token \in {s.token : s \in sold}
       THEN Ends(c) /\ UNCHANGED sold
       ELSE /\ sold' = sold \cup {[token |-> clerk[c].token, req |-> clerk[c].req]}
            /\ GoesOn(c, "grant")
    /\ UNCHANGED <<requests, flow>>

(* After the bot has been started: the role and the credit of the request. *)
GrantCredit(c) ==
    /\ clerk[c].does = "grant"
    /\ requests' = [requests EXCEPT ![clerk[c].req].granted = @ + 1]
    /\ GoesOn(c, "complete")
    /\ UNCHANGED <<flow, sold>>

CompleteRequest(c) ==
    /\ clerk[c].does = "complete"
    /\ requests' = [requests EXCEPT ![clerk[c].req].status = "completed"]
    /\ GoesOn(c, "clear")
    /\ UNCHANGED <<flow, sold>>

(* /start, and every other menu button that begins anew.                   *)
LeaveFlow(u) ==
    /\ flow[u] # NoFlow
    /\ flow' = [flow EXCEPT ![u] = NoFlow]
    /\ UNCHANGED <<requests, clerk, sold, calls>>

CutShort(c) ==
    /\ clerk[c].does # "idle"
    /\ Ends(c)
    /\ UNCHANGED <<requests, flow, sold>>

RequestsInit ==
    /\ requests = <<>> /\ sold = {} /\ calls = 0
    /\ flow = [u \in Applicants |-> NoFlow]
    /\ clerk = [c \in Clerks |-> Free]

Handles(c) ==
    \/ Decide(c) \/ SetState(c) \/ UpdateData(c) \/ SetStateAndData(c)
    \/ ClearFlow(c) \/ SubmitClears(c) \/ CreateRequest(c) \/ StoreReceipt(c)
    \/ TakeToken(c) \/ RegisterBot(c) \/ GrantCredit(c) \/ CompleteRequest(c)
    \/ CutShort(c)

RequestsNext ==
    \/ \E u \in Applicants : Apply(u) \/ GiveVolume(u) \/ LeaveFlow(u)
    \/ \E c \in Clerks :
         \/ Handles(c)
         \/ \E r \in Ids, v \in Verdicts : Look(c, r, v)
         \/ \E u \in Applicants :
              \/ GiveText(c, u) \/ SendReceipt(c, u) \/ GiveOwner(c, u)
              \/ \E t \in BotTokens : GiveToken(c, u, t)

RequestsSpec == RequestsInit /\ [][RequestsNext]_requestVars

BotsOf(r) == {s \in sold : s.req = r}

(***************************************************************************)
(* Credit is never granted for nothing: whatever handlers of the three     *)
(* front ends overlap or are cut short, each grant of a request has a bot  *)
(* of its own registered for it and a receipt that was sent, and a request *)
(* is completed only once it has been granted (handlers_user.py:2208-2240, *)
(* the registration, the credit and the status in that order).             *)
(***************************************************************************)
GrantsAreBacked ==
    \A r \in Ids :
      /\ requests[r].granted <= Cardinality(BotsOf(r))
      /\ requests[r].granted > 0 => requests[r].receipt
      /\ requests[r].status = "completed" => requests[r].granted > 0
===============================================================================
