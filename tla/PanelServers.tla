----------------------------- MODULE PanelServers -----------------------------
(***************************************************************************)
(* The VPN panels and the credit of a reseller.  Administrators connect    *)
(* panels (panel_servers), switch them and delete them; a reseller turns   *)
(* credit into configs on a panel, by the dialog of the bot, in the mini   *)
(* app, or when a customer of his bot buys a product that is provisioned   *)
(* automatically.  A config is built on the panel first, then the credit   *)
(* is charged, then the config is listed in custom_configs; each is a call *)
(* of its own and the panel is awaited.                                    *)
(***************************************************************************)
EXTENDS Integers, FiniteSets

CONSTANTS Workers,      \* handlers that run at the same time
          MaxServers,   \* bound: rows of panel_servers ever inserted
          MaxJobs,      \* bound: handlers started
          MaxCredit,    \* bound: credit an administrator gives, in gigabytes
          MaxOrders     \* bound: changes an administrator makes

ASSUME PanelsAssumption ==
    /\ IsFiniteSet(Workers)
    /\ {MaxJobs, MaxCredit, MaxOrders} \subseteq Nat
    /\ MaxServers \in Nat \ {0}    \* one panel is connected at the start

VARIABLES servers,      \* panel_servers: id -> row
          configs,      \* custom_configs of resellers: the job that listed it
          reseller,     \* is_reseller, reseller_credit_gb, reseller_panel_id
          dialog,       \* panel_server_id in the reseller's dialog, 0 for none
          job,          \* what a running handler is about to do
          nextServer,   \* next id of panel_servers
          begun,        \* handlers started
          ordered,      \* changes made by an administrator
          ahead,        \* gigabytes made and not charged, charged and not listed
          raced         \* a deduction since the check went unnoticed

panelVars == <<servers, configs, reseller, dialog, job, nextServer, begun,
               ordered, ahead, raced>>

(* Panels that take a template from a sample user, those that need inbounds *)
(* and a subscription address, and those that need the address alone.      *)
Kinds == {"template", "3xui", "hiddify"}
ServerIds == 1..MaxServers
Server == [kind : Kinds, active : BOOLEAN, reseller : BOOLEAN, ready : BOOLEAN]
NoJob == [pc |-> "idle", server |-> 0, by |-> "admin", gb |-> 0, units |-> 0,
          left |-> 0, some |-> FALSE, stale |-> FALSE, nr |-> 0]

PanelsTypeOK ==
    /\ DOMAIN servers \subseteq ServerIds
    /\ \A s \in DOMAIN servers : servers[s] \in Server
    /\ configs \subseteq [job : 1..MaxJobs, server : ServerIds]
    /\ reseller.role \in BOOLEAN /\ reseller.credit \in Int
    /\ reseller.panel \in 0..MaxServers /\ dialog \in 0..MaxServers
    /\ \A w \in Workers : job[w].pc \in {"idle", "probe", "count", "remove",
                                         "build", "charge", "list"}
    /\ nextServer \in 1..MaxServers + 1
    /\ begun \in 0..MaxJobs /\ ordered \in 0..MaxOrders /\ raced \in BOOLEAN

ListedOn(s) == {c \in configs : c.server = s}
Usable == {s \in DOMAIN servers : servers[s].active}
First(S) == CHOOSE s \in S : \A q \in S : s <= q

(* His own panel if it is active, or the first one marked for resellers.   *)
get_panel_server_for_usage ==
    LET marked == {s \in Usable : servers[s].reseller}
    IN  IF marked = {} THEN 0 ELSE First(marked)
get_reseller_panel == IF reseller.panel \in Usable THEN reseller.panel
                      ELSE get_panel_server_for_usage

Begin(w, j) ==
    /\ job[w].pc = "idle" /\ begun < MaxJobs
    /\ begun' = begun + 1
    /\ job' = [job EXCEPT ![w] = [j EXCEPT !.nr = begun + 1]]
Continue(w, pc) == job' = [job EXCEPT ![w].pc = pc] /\ UNCHANGED begun
Finish(w) == job' = [job EXCEPT ![w] = NoJob] /\ UNCHANGED begun

AsAdmin == /\ ordered < MaxOrders
           /\ ordered' = ordered + 1

(***************************************************************************)
(* Administrators: servers.  A new row is active and in use for personal   *)
(* configs at once; the panel is asked afterwards, and if it refuses the   *)
(* row is deleted again, by delete_panel_server like any other.            *)
(***************************************************************************)
NewServer(k) == [kind |-> k, active |-> TRUE, reseller |-> FALSE, ready |-> FALSE]

AddServer(w, k) ==
    /\ nextServer <= MaxServers /\ AsAdmin
    /\ servers' = [s \in DOMAIN servers \cup {nextServer} |->
                     IF s = nextServer THEN NewServer(k) ELSE servers[s]]
    /\ nextServer' = nextServer + 1
    /\ IF k = "hiddify" THEN UNCHANGED <<job, begun>>
       ELSE Begin(w, [NoJob EXCEPT !.pc = "probe", !.server = nextServer])
    /\ UNCHANGED <<configs, reseller, dialog, ahead, raced>>

Updated(s, row) == servers' = [servers EXCEPT ![s] = row]
KeepRest == UNCHANGED <<configs, reseller, dialog, nextServer, ahead, raced>>

(* The template is stored with the answer; inbounds are chosen later.      *)
ProbeAnswers(w) ==
    /\ job[w].pc = "probe"
    /\ LET s == job[w].server
       IN  IF s \in DOMAIN servers /\ servers[s].kind = "template"
           THEN Updated(s, [servers[s] EXCEPT !.ready = TRUE])
           ELSE UNCHANGED servers
    /\ Finish(w)
    /\ KeepRest /\ UNCHANGED ordered

ProbeFails(w) ==
    /\ job[w].pc = "probe"
    /\ Continue(w, "count")
    /\ KeepRest /\ UNCHANGED <<servers, ordered>>

(* Switches read the row and write the opposite.                           *)
Configure(s, kinds, ready) ==
    /\ s \in DOMAIN servers /\ servers[s].kind \in kinds
    /\ AsAdmin
    /\ Updated(s, [servers[s] EXCEPT !.ready = ready])
    /\ KeepRest /\ UNCHANGED <<job, begun>>

Toggle(s, field) ==
    /\ s \in DOMAIN servers
    /\ AsAdmin
    /\ Updated(s, [servers[s] EXCEPT ![field] = ~@])
    /\ KeepRest /\ UNCHANGED <<job, begun>>

(* force: every config of the panel goes with it.                          *)
DeleteServer(w, s, force) ==
    /\ s \in DOMAIN servers
    /\ AsAdmin
    /\ Begin(w, [NoJob EXCEPT !.pc = "count", !.server = s,
                              !.by = IF force THEN "force" ELSE "admin"])
    /\ KeepRest /\ UNCHANGED servers

(* Mutant: configs are no reason to refuse. *)
CountDependentsOnly(w) ==
    /\ job[w].pc = "count"
    /\ job' = [job EXCEPT ![w].pc = "remove", ![w].some = (ListedOn(job[w].server) # {})]
    /\ KeepRest /\ UNCHANGED <<servers, begun, ordered>>

CountDependents(w) ==
    /\ job[w].pc = "count"
    /\ LET some == ListedOn(job[w].server) # {}
       IN  IF some /\ job[w].by # "force" THEN Finish(w)
           ELSE /\ job' = [job EXCEPT ![w].pc = "remove", ![w].some = some]
                /\ UNCHANGED begun
    /\ KeepRest /\ UNCHANGED <<servers, ordered>>

(* Mutant: foreign_keys is off, as it is unless a connection sets it. *)
ForeignKeyUnchecked(s, kept) == TRUE

(* The foreign key of custom_configs forbids a row whose panel is gone.    *)
ForeignKeyHolds(s, kept) == \A c \in kept : c.server # s

RemoveServer(w) ==
    /\ job[w].pc = "remove"
    /\ LET s == job[w].server
           kept == IF job[w].some THEN configs \ ListedOn(s) ELSE configs
       IN  IF ForeignKeyHolds(s, kept)
           THEN /\ configs' = kept
                /\ servers' = [q \in DOMAIN servers \ {s} |-> servers[q]]
           ELSE UNCHANGED <<configs, servers>>
    /\ Finish(w)
    /\ UNCHANGED <<reseller, dialog, nextServer, ordered, ahead, raced>>

(***************************************************************************)
(* Administrators: the reseller.                                           *)
(***************************************************************************)
(* Whoever checked the credit before it shrank goes on with what he saw.   *)
Outdated == [w \in Workers |->
               [job[w] EXCEPT !.stale = @ \/ job[w].pc \in {"build", "charge"}]]

SetRole(role) ==
    /\ AsAdmin
    /\ reseller' = [reseller EXCEPT !.role = role]
    /\ UNCHANGED <<servers, configs, dialog, job, nextServer, begun, ahead, raced>>

AdjustCredit(delta) ==
    /\ AsAdmin /\ reseller.credit + delta <= MaxCredit
    /\ reseller' = [reseller EXCEPT !.credit = @ + delta]
    /\ job' = IF delta < 0 THEN Outdated ELSE job
    /\ raced' = (raced \/ reseller.credit + delta < 0)
    /\ UNCHANGED <<servers, configs, dialog, nextServer, begun, ahead>>

SetResellerPanel(s) ==
    /\ AsAdmin
    /\ reseller' = [reseller EXCEPT !.panel = s]
    /\ UNCHANGED <<servers, configs, dialog, job, nextServer, begun, ahead, raced>>

PurgeLeftovers ==
    /\ AsAdmin
    /\ reseller' = [role |-> FALSE, credit |-> 0, panel |-> 0]
    /\ job' = Outdated
    /\ UNCHANGED <<servers, configs, dialog, nextServer, begun, ahead, raced>>

(***************************************************************************)
(* The handlers of the three front ends.  A template is stored when the    *)
(* panel has answered, an address or inbounds at once; the form of the web *)
(* panel sets any column and may clear the inbounds.                       *)
(***************************************************************************)
Addressed == {"3xui", "hiddify"}
Fetched == {"template"}

BotAddsServer(w, k) == AddServer(w, k)
BotSetsAddress(s) == Configure(s, Addressed, TRUE)
BotFetchesTemplate(s) == Configure(s, Fetched, TRUE)
BotToggles(s, field) == Toggle(s, field)
BotDeletes(w, s) == ListedOn(s) = {} /\ DeleteServer(w, s, FALSE)
BotForcesDeletion(w, s) == DeleteServer(w, s, TRUE)

AppAddsServer(w, k) == AddServer(w, k)
AppConfigures(s) == Configure(s, Addressed, TRUE)
AppFetchesTemplate(s) == Configure(s, Fetched, TRUE)
AppToggles(s) == Toggle(s, "active")
AppDeletes(w, s) == DeleteServer(w, s, FALSE)

WebAddsServer(w, k) == AddServer(w, k)
WebConfigures(s) == Configure(s, Addressed, TRUE)
WebFetchesTemplate(s) == Configure(s, Fetched, TRUE)
WebToggles(s) == Toggle(s, "active")
WebUpdates(s) == \/ \E ready \in BOOLEAN : Configure(s, {"3xui"}, ready)
                 \/ Toggle(s, "active") \/ Toggle(s, "reseller")
WebDeletes(w, s, force) == DeleteServer(w, s, force)

(* Two of them switch the role, the panel writes what it was sent.         *)
BotSwitchesReseller == SetRole(~reseller.role)
BotAdjustsCredit(delta) == delta # 0 /\ AdjustCredit(delta)
BotPicksPanel(s) == s < nextServer /\ SetResellerPanel(s)
AppSwitchesReseller == SetRole(~reseller.role)
AppAdjustsCredit(delta) == delta # 0 /\ AdjustCredit(delta)
AppPicksPanel(s) == s \in DOMAIN servers \cup {0} /\ SetResellerPanel(s)
WebSetsReseller(role) == SetRole(role)
WebAdjustsCredit(delta) == AdjustCredit(delta)
WebPicksPanel(s) == SetResellerPanel(s)

(***************************************************************************)
(* The reseller, and the customers of his bot.                             *)
(***************************************************************************)
Building(s, by, gb, units) ==
    [pc |-> "build", server |-> s, by |-> by, gb |-> gb, units |-> units,
     left |-> units, some |-> FALSE, stale |-> FALSE, nr |-> 0]
KeepTables == UNCHANGED <<servers, configs, reseller, nextServer, ordered>>

OpenDialog ==
    /\ reseller.role /\ reseller.credit > 0 /\ get_reseller_panel # 0
    /\ dialog' = get_reseller_panel
    /\ KeepTables /\ UNCHANGED <<job, begun, ahead, raced>>

(* The volume is compared with the credit, the role not looked at again.   *)
BotBuilds(w, gb) ==
    /\ dialog # 0 /\ gb <= reseller.credit
    /\ IF dialog \in Usable
       THEN Begin(w, Building(dialog, "bot", gb, 1)) /\ UNCHANGED dialog
       ELSE dialog' = 0 /\ UNCHANGED <<job, begun>>
    /\ KeepTables /\ UNCHANGED <<ahead, raced>>

AppBuilds(w, gb) ==
    /\ reseller.role /\ gb <= reseller.credit /\ get_reseller_panel # 0
    /\ Begin(w, Building(get_reseller_panel, "app", gb, 1))
    /\ KeepTables /\ UNCHANGED <<dialog, ahead, raced>>

(* Mutant: the credit for one unit is enough. *)
AutoBuildsOnCredit(w, gb, units) ==
    /\ reseller.role /\ get_reseller_panel # 0
    /\ gb <= reseller.credit
    /\ Begin(w, Building(get_reseller_panel, "auto", gb, units))
    /\ KeepTables /\ UNCHANGED <<dialog, ahead, raced>>

(* provision_auto_config: as many users as the customer bought units.      *)
AutoBuilds(w, gb, units) ==
    /\ reseller.role /\ get_reseller_panel # 0
    /\ gb * units <= reseller.credit
    /\ Begin(w, Building(get_reseller_panel, "auto", gb, units))
    /\ KeepTables /\ UNCHANGED <<dialog, ahead, raced>>

(* Mutant: charged after the first of several units. *)
CreateFirstUser(w) ==
    /\ job[w].pc = "build"
    /\ job[w].server \in DOMAIN servers => servers[job[w].server].ready
    /\ ahead' = [ahead EXCEPT !.made = @ + job[w].gb]
    /\ job' = [job EXCEPT ![w].left = @ - 1, ![w].pc = "charge"]
    /\ KeepTables /\ UNCHANGED <<dialog, begun, raced>>

(* create_user: it needs a configured panel.                               *)
CreateUser(w) ==
    /\ job[w].pc = "build"
    /\ job[w].server \in DOMAIN servers => servers[job[w].server].ready
    /\ ahead' = [ahead EXCEPT !.made = @ + job[w].gb]
    /\ job' = [job EXCEPT ![w].left = @ - 1,
                          ![w].pc = IF job[w].left = 1 THEN "charge" ELSE "build"]
    /\ KeepTables /\ UNCHANGED <<dialog, begun, raced>>

(* The name is taken, the panel refuses, or its answer never arrives while *)
(* the user may well have been made: nothing is charged, and the dialog is *)
(* kept for another try.                                                   *)
CreateFails(w, made) ==
    /\ job[w].pc = "build"
    /\ ahead' = IF made THEN [ahead EXCEPT !.made = @ + job[w].gb] ELSE ahead
    /\ Finish(w)
    /\ KeepTables /\ UNCHANGED <<dialog, raced>>

Charge(w) ==
    /\ job[w].pc = "charge"
    /\ LET price == job[w].gb * job[w].units
       IN  /\ reseller' = [reseller EXCEPT !.credit = @ - price]
           /\ ahead' = [made |-> ahead.made - price, charged |-> ahead.charged + price]
    /\ raced' = (raced \/ job[w].stale)
    /\ job' = [Outdated EXCEPT ![w].pc = "list"]
    /\ UNCHANGED <<servers, configs, dialog, nextServer, begun, ordered>>

(* A row of a panel deleted meanwhile is refused and the handler ends with *)
(* an error.  An automatic sale is listed in the database of the reseller's *)
(* bot, which knows none of these panels: the error is swallowed there.    *)
List(w) ==
    /\ job[w].pc = "list"
    /\ IF job[w].by # "auto" /\ job[w].server \in DOMAIN servers
       THEN /\ configs' = configs \cup {[job |-> job[w].nr,
                                         server |-> job[w].server]}
            /\ ahead' = [ahead EXCEPT !.charged = @ - job[w].gb]
            /\ dialog' = IF job[w].by = "bot" THEN 0 ELSE dialog
       ELSE UNCHANGED <<configs, ahead, dialog>>
    /\ Finish(w)
    /\ UNCHANGED <<servers, reseller, nextServer, ordered, raced>>

DeleteConfig(c) ==
    /\ c \in configs
    /\ AsAdmin
    /\ configs' = configs \ {c}
    /\ UNCHANGED <<servers, reseller, dialog, job, nextServer, begun, ahead, raced>>

(* One panel has been connected for resellers, one reseller given credit.  *)
PanelsInit ==
    /\ servers = [s \in {1} |-> [NewServer("hiddify") EXCEPT !.ready = TRUE,
                                                              !.reseller = TRUE]]
    /\ configs = {} /\ dialog = 0 /\ nextServer = 2
    /\ reseller = [role |-> TRUE, credit |-> MaxCredit, panel |-> 0]
    /\ job = [w \in Workers |-> NoJob]
    /\ begun = 0 /\ ordered = 0 /\ raced = FALSE
    /\ ahead = [made |-> 0, charged |-> 0]

Administers ==
    \/ \E w \in Workers, k \in Kinds :
         BotAddsServer(w, k) \/ AppAddsServer(w, k) \/ WebAddsServer(w, k)
    \/ \E w \in Workers, s \in ServerIds :
         \/ BotDeletes(w, s) \/ BotForcesDeletion(w, s) \/ AppDeletes(w, s)
         \/ \E force \in BOOLEAN : WebDeletes(w, s, force)
    \/ \E s \in ServerIds :
         \/ BotSetsAddress(s) \/ BotFetchesTemplate(s)
         \/ \E field \in {"active", "reseller"} : BotToggles(s, field)
         \/ AppConfigures(s) \/ AppFetchesTemplate(s) \/ AppToggles(s)
         \/ WebConfigures(s) \/ WebFetchesTemplate(s) \/ WebToggles(s)
         \/ WebUpdates(s)
    \/ \E s \in ServerIds \cup {0} :
         BotPicksPanel(s) \/ AppPicksPanel(s) \/ WebPicksPanel(s)
    \/ BotSwitchesReseller \/ AppSwitchesReseller
    \/ \E role \in BOOLEAN : WebSetsReseller(role)
    \/ \E delta \in {-1, 1} :
         BotAdjustsCredit(delta) \/ AppAdjustsCredit(delta) \/ WebAdjustsCredit(delta)
    \/ PurgeLeftovers

PanelsNext ==
    \/ Administers
    \/ OpenDialog
    \/ \E c \in configs : DeleteConfig(c)
    \/ \E w \in Workers :
         \/ \E gb \in 1..MaxCredit :
              \/ BotBuilds(w, gb) \/ AppBuilds(w, gb)
              \/ \E units \in 1..2 : AutoBuilds(w, gb, units)
         \/ \E made \in BOOLEAN : CreateFails(w, made)
         \/ ProbeAnswers(w) \/ ProbeFails(w)
         \/ CountDependents(w) \/ RemoveServer(w)
         \/ CreateUser(w) \/ Charge(w) \/ List(w)

PanelsSpec == PanelsInit /\ [][PanelsNext]_panelVars

(***************************************************************************)
(* A config a reseller has in his list is on a panel the program still     *)
(* knows, so that its use can be shown and it can be renewed, although a   *)
(* panel may be deleted while a config is being built on it, and a config  *)
(* listed while the dependents of a panel are being counted                *)
(* (delete_panel_server, database.py:3544-3558; the key of line 295).      *)
(***************************************************************************)
ListedHasServer == \A c \in configs : c.server \in DOMAIN servers

(***************************************************************************)
(* Nobody loses configs to the deletion of a panel unless the force button *)
(* was pressed for it: not when the panel refuses a new row, nor when a    *)
(* config is listed between the count and the deletion                     *)
(* (handlers_admin.py:2483-2529).                                          *)
(***************************************************************************)
NoConfigLost ==
    [][\A c \in configs \ configs' :
         \/ c.server \in DOMAIN servers'
         \/ \E w \in Workers : job[w].by = "force" /\ job[w].server = c.server]_panelVars

(***************************************************************************)
(* The reseller pays for what exists: at no time has more been charged     *)
(* than was built on a panel, nor more been listed than was charged,       *)
(* whichever step fails (handlers_user.py:1396-1418, the order of building,*)
(* charging and listing).                                                  *)
(***************************************************************************)
ChargeFollowsBuild == ahead.made >= 0 /\ ahead.charged >= 0

(***************************************************************************)
(* The credit goes below zero only by a race: by a deduction, of another   *)
(* purchase or of an administrator, between a purchase's look at the       *)
(* credit and its charge (reseller_auto_provision.py:46-104), or by an     *)
(* administrator's correction.  One purchase after the other never         *)
(* overdraws it.                                                           *)
(***************************************************************************)
NoOverdraftAlone == reseller.credit < 0 => raced
===============================================================================
