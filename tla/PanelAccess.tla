------------------------------ MODULE PanelAccess -----------------------------
(***************************************************************************)
(* Accounts of the web panel of one reseller: the setup link the main bot  *)
(* hands out, the accounts made behind it, sign-in and the push messages   *)
(* of the notifier.  The bot process switches the panel on and off; every  *)
(* request of the panel is a thread of another process.                    *)
(***************************************************************************)
EXTENDS Naturals, FiniteSets, Functions

CONSTANTS Requests,      \* threads of the panel that serve a request
          MaxAccounts,   \* bound: accounts ever created (AUTOINCREMENT)
          MaxLinks       \* bound: setup links handed out

ASSUME AccessAssumption == MaxAccounts \in Nat /\ MaxLinks \in Nat

VARIABLES panel,      \* web_panel_enabled, web_panel_setup_token and links so far
          accounts,   \* web_admins: id -> role, is_active
          lastId,     \* ids given so far
          sessions,   \* accounts some browser holds a signed cookie of
          request,    \* what each thread is serving
          founders,   \* ghost: accounts made by a setup link
          pushTo      \* accounts with a subscription

accessVars == <<panel, accounts, lastId, sessions, request, founders, pushTo>>

WebRoles == {"owner", "admin", "support"}
NoRequest == [pc |-> "idle", kind |-> "setup", link |-> 0, by |-> 0, target |-> 0, late |-> FALSE]
Deeds == {"create", "demote", "switch", "delete"}
Account == [role : WebRoles, active : BOOLEAN]
Served == [pc : {"idle", "count", "create", "consume", "deed"},
           kind : Deeds \cup {"setup"}, link : 0..MaxLinks,
           by : 0..MaxAccounts, target : 0..MaxAccounts, late : BOOLEAN]
Owners == {a \in DOMAIN accounts : accounts[a].role = "owner"}

AccessTypeOK ==
    /\ panel \in [on : BOOLEAN, token : 0..MaxLinks, links : 0..MaxLinks]
    /\ lastId \in 0..MaxAccounts /\ DOMAIN accounts \subseteq 1..lastId
    /\ accounts \in [DOMAIN accounts -> Account]
    /\ sessions \subseteq 1..lastId /\ pushTo \subseteq 1..lastId
    /\ request \in [Requests -> Served]
    /\ founders \subseteq [account : 1..MaxAccounts, late : BOOLEAN]

AccessInit ==
    /\ panel = [on |-> FALSE, token |-> 0, links |-> 0]
    /\ accounts = [a \in {} |-> 0] /\ lastId = 0 /\ sessions = {}
    /\ request = [r \in Requests |-> NoRequest]
    /\ founders = {} /\ pushTo = {}

KeepAccounts == UNCHANGED <<accounts, lastId, founders>>

(***************************************************************************)
(* The main bot.  Every link has a token of its own.                       *)
(***************************************************************************)
NewLink == panel.links < MaxLinks

enable_reseller_web_panel ==
    /\ ~panel.on /\ NewLink
    /\ panel' = [on |-> TRUE, token |-> panel.links + 1, links |-> panel.links + 1]
    /\ UNCHANGED <<sessions, request, pushTo>> /\ KeepAccounts

(* A new link may be asked for a panel that is switched off.               *)
regenerate_reseller_web_panel_token ==
    /\ NewLink
    /\ panel' = [panel EXCEPT !.token = panel.links + 1, !.links = @ + 1]
    /\ UNCHANGED <<sessions, request, pushTo>> /\ KeepAccounts

disable_reseller_web_panel ==
    /\ panel' = [panel EXCEPT !.on = FALSE, !.token = 0]
    /\ UNCHANGED <<sessions, request, pushTo>> /\ KeepAccounts

(***************************************************************************)
(* api_setup_submit: look at the row of the bot, count the accounts in the *)
(* reseller's own database, create the owner, spend the token.             *)
(***************************************************************************)
OpensLink(r, link) ==
    /\ request[r].pc = "idle" /\ link \in 1..panel.links
    /\ panel.on /\ panel.token = link
    /\ request' = [request EXCEPT ![r] =
         [NoRequest EXCEPT !.pc = "count", !.link = link, !.late = (Owners # {})]]
    /\ UNCHANGED <<panel, sessions, pushTo>> /\ KeepAccounts

CountsAccounts(r) ==
    /\ request[r].pc = "count"
    /\ request' = [request EXCEPT ![r] =
         IF DOMAIN accounts = {} THEN [@ EXCEPT !.pc = "create"] ELSE NoRequest]
    /\ UNCHANGED <<panel, sessions, pushTo>> /\ KeepAccounts

create_web_admin(role) ==
    /\ lastId < MaxAccounts
    /\ lastId' = lastId + 1
    /\ accounts' = [a \in DOMAIN accounts \cup {lastId'} |->
                      IF a = lastId' THEN [role |-> role, active |-> TRUE] ELSE accounts[a]]

CreatesOwner(r) ==
    /\ request[r].pc = "create"
    /\ create_web_admin("owner")
    /\ founders' = founders \cup {[account |-> lastId', late |-> request[r].late]}
    /\ request' = [request EXCEPT ![r].pc = "consume", ![r].by = lastId']
    /\ UNCHANGED <<panel, sessions, pushTo>>

(* The token that is spent is the one the row has by now; the browser gets *)
(* its cookie with the answer.                                             *)
SpendsLink(r) ==
    /\ request[r].pc = "consume"
    /\ panel' = [panel EXCEPT !.token = 0]
    /\ sessions' = sessions \cup {request[r].by}
    /\ request' = [request EXCEPT ![r] = NoRequest]
    /\ KeepAccounts /\ UNCHANGED pushTo

(***************************************************************************)
(* api_login, and get_current_admin: the tenant and the row are read anew  *)
(* with each request, the deed follows in another thread.                  *)
(***************************************************************************)
Entitled(a) == panel.on /\ a \in DOMAIN accounts /\ accounts[a].active

SignsIn(a) ==
    /\ Entitled(a) /\ a \notin sessions
    /\ sessions' = sessions \cup {a}
    /\ UNCHANGED <<panel, request, pushTo>> /\ KeepAccounts

LogsOut(a) ==
    /\ a \in sessions
    /\ sessions' = sessions \ {a}
    /\ UNCHANGED <<panel, request, pushTo>> /\ KeepAccounts

(* require_owner.                                                          *)
OwnerAsks(r, a, deed, target) ==
    /\ request[r].pc = "idle" /\ a \in sessions /\ Entitled(a)
    /\ accounts[a].role = "owner"
    /\ target \in 1..lastId
    /\ request' = [request EXCEPT ![r] =
         [NoRequest EXCEPT !.pc = "deed", !.kind = deed, !.by = a, !.target = target]]
    /\ UNCHANGED <<panel, sessions, pushTo>> /\ KeepAccounts

(* Mutant: an owner's account is one like others. *)
MayBeChangedAny(t) == t \in DOMAIN accounts

(* set_web_admin_role, set_web_admin_active, delete_web_admin: an owner's  *)
(* account is left as it is.  A new account may be an owner's.             *)
MayBeChanged(t) == t \in DOMAIN accounts /\ accounts[t].role # "owner"

ChangesAccount(kind, t) ==
    \/ kind = "demote" /\ accounts' = [accounts EXCEPT ![t].role = "support"]
    \/ kind = "switch" /\ accounts' = [accounts EXCEPT ![t].active = ~@]
    \/ kind = "delete" /\ accounts' = Restrict(accounts, DOMAIN accounts \ {t})

DoesDeed(r) ==
    /\ request[r].pc = "deed"
    /\ IF request[r].kind = "create"
       THEN \E role \in WebRoles : create_web_admin(role)
       ELSE /\ IF MayBeChanged(request[r].target)
               THEN ChangesAccount(request[r].kind, request[r].target)
               ELSE UNCHANGED accounts
            /\ UNCHANGED lastId
    /\ request' = [request EXCEPT ![r] = NoRequest]
    /\ UNCHANGED <<panel, sessions, founders, pushTo>>

(***************************************************************************)
(* Push messages: a subscription outlives the account, and its recipients  *)
(* are joined with the accounts when a message is sent.                    *)
(***************************************************************************)
Subscribes(a) ==
    /\ a \in sessions /\ Entitled(a)
    /\ pushTo' = pushTo \cup {a}
    /\ UNCHANGED <<panel, sessions, request>> /\ KeepAccounts

(* api_push_unsubscribe, and an endpoint the push service says is gone.    *)
Unsubscribes(a) ==
    /\ a \in pushTo
    /\ pushTo' = pushTo \ {a}
    /\ UNCHANGED <<panel, sessions, request>> /\ KeepAccounts

AccessNext ==
    \/ enable_reseller_web_panel \/ regenerate_reseller_web_panel_token
    \/ disable_reseller_web_panel
    \/ \E r \in Requests :
          \/ \E link \in 1..MaxLinks : OpensLink(r, link)
          \/ CountsAccounts(r) \/ CreatesOwner(r) \/ SpendsLink(r) \/ DoesDeed(r)
          \/ \E a, t \in 1..MaxAccounts, deed \in Deeds : OwnerAsks(r, a, deed, t)
    \/ \E a \in 1..MaxAccounts : SignsIn(a) \/ LogsOut(a) \/ Subscribes(a) \/ Unsubscribes(a)

AccessSpec == AccessInit /\ [][AccessNext]_accessVars

(***************************************************************************)
(* The panel of a reseller never loses its owner: the account made behind  *)
(* a setup link stays an active owner's, whatever owners do to each other, *)
(* and no link that is opened once there is an owner makes another one     *)
(* (database.py:1291-1343, admin_panel/server.py:477-504).                 *)
(***************************************************************************)
FoundersStay ==
    \A f \in founders : /\ f.account \in Owners /\ accounts[f.account].active
                        /\ ~f.late
===============================================================================
