---------------------------- MODULE ResellerProofs ----------------------------
(***************************************************************************)
(* Theorems about resellers: the panels and the credit of PanelServers,    *)
(* and the requests that open a reseller's bot, of ResellerRequests; for   *)
(* any number of panels, applicants and handlers.                          *)
(***************************************************************************)
EXTENDS ResellerRequests, PanelServers, FiniteSums, SequenceTheorems, TLAPS

(***************************************************************************)
(* Every insertion looks for the panel, every deletion of a panel for the  *)
(* rows that point to it.                                                  *)
(***************************************************************************)
LEMMA ListedStep ==
  ASSUME ListedHasServer, PanelsNext
  PROVE  ListedHasServer'
<1>1. CASE configs' \subseteq configs /\ DOMAIN servers \subseteq DOMAIN servers'
  BY <1>1 DEF ListedHasServer
<1>2. CASE \E w \in Workers : RemoveServer(w)
  <2>1. PICK w \in Workers : RemoveServer(w)
    BY <1>2
  <2> DEFINE s == job[w].server
             kept == IF job[w].some THEN configs \ ListedOn(s) ELSE configs
  <2>2. CASE ForeignKeyHolds(s, kept)
    <3>1. configs' = kept /\ DOMAIN servers' = DOMAIN servers \ {s}
      BY <2>1, <2>2 DEF RemoveServer
    <3>2. \A c \in configs' : c \in configs /\ c.server # s
      BY <2>2, <3>1 DEF ForeignKeyHolds
    <3>3. QED  BY <3>1, <3>2 DEF ListedHasServer
  <2>3. CASE ~ForeignKeyHolds(s, kept)
    BY <2>1, <2>3 DEF RemoveServer, ListedHasServer
  <2>4. QED  BY <2>2, <2>3
<1>3. CASE \E w \in Workers : List(w)
  BY <1>3 DEF List, ListedHasServer
<1>4. CASE Administers \/ OpenDialog \/ \E c \in configs : DeleteConfig(c)
  <2>1. CASE Administers
    BY <1>1, <2>1
    DEF Administers, BotAddsServer, AppAddsServer, WebAddsServer, AddServer,
        BotDeletes, BotForcesDeletion, AppDeletes, WebDeletes, DeleteServer,
        BotSetsAddress, BotFetchesTemplate, BotToggles, AppConfigures,
        AppFetchesTemplate, AppToggles, WebConfigures, WebFetchesTemplate,
        WebToggles, WebUpdates, Configure, Toggle, Updated, KeepRest,
        BotPicksPanel, AppPicksPanel, WebPicksPanel, SetResellerPanel,
        BotSwitchesReseller, AppSwitchesReseller, WebSetsReseller, SetRole,
        BotAdjustsCredit, AppAdjustsCredit, WebAdjustsCredit, AdjustCredit,
        PurgeLeftovers
  <2>2. CASE OpenDialog \/ \E c \in configs : DeleteConfig(c)
    BY <1>1, <2>2 DEF OpenDialog, DeleteConfig, KeepTables
  <2>3. QED  BY <1>4, <2>1, <2>2
<1>5. CASE \E w \in Workers :
             \/ \E gb \in 1..MaxCredit :
                  \/ BotBuilds(w, gb) \/ AppBuilds(w, gb)
                  \/ \E units \in 1..2 : AutoBuilds(w, gb, units)
             \/ \E made \in BOOLEAN : CreateFails(w, made)
             \/ ProbeAnswers(w) \/ ProbeFails(w) \/ CountDependents(w)
             \/ CreateUser(w) \/ Charge(w)
  BY <1>1, <1>5
  DEF BotBuilds, AppBuilds, AutoBuilds, CreateFails, ProbeAnswers, ProbeFails,
      CountDependents, CreateUser, Charge, KeepTables, KeepRest, Updated
<1>6. QED  BY <1>2, <1>3, <1>4, <1>5 DEF PanelsNext

(***************************************************************************)
(* A config in the list of a reseller is on a panel the program knows      *)
(* (delete_panel_server, database.py:3544-3558).                           *)
(***************************************************************************)
THEOREM ListedIsKnown == PanelsSpec => []ListedHasServer
<1>1. PanelsInit => ListedHasServer
  BY DEF PanelsInit, ListedHasServer
<1>2. ListedHasServer /\ [PanelsNext]_panelVars => ListedHasServer'
  <2> SUFFICES ASSUME ListedHasServer, [PanelsNext]_panelVars PROVE ListedHasServer'
    OBVIOUS
  <2>1. CASE UNCHANGED panelVars
    BY <2>1 DEF panelVars, ListedHasServer
  <2>2. QED  BY <2>1, ListedStep
<1>3. QED  BY <1>1, <1>2, PTL DEF PanelsSpec

(***************************************************************************)
(* The credit.  What a handler carries, and what a purchase that checked   *)
(* the credit may rely on as long as nothing was deducted since.           *)
(***************************************************************************)
Stages == {"idle", "probe", "count", "remove", "build", "charge", "list"}
Job == [pc : Stages, server : Nat, by : {"admin", "force", "bot", "app", "auto"},
        gb : Nat, units : Nat, left : Int, some : BOOLEAN, stale : BOOLEAN, nr : Nat]
Price(j) == j.gb * j.units
Relies(j) == j.pc \in {"build", "charge"} /\ ~j.stale

ShapeInv == /\ job \in [Workers -> Job]
            /\ reseller \in [role : BOOLEAN, credit : Int, panel : Nat]
            /\ dialog \in Nat /\ nextServer \in Nat /\ begun \in Nat
            /\ DOMAIN servers \subseteq Nat /\ raced \in BOOLEAN
ReliedInv == \A w \in Workers : Relies(job[w]) => Price(job[w]) <= reseller.credit
CreditInv == ShapeInv /\ ReliedInv /\ NoOverdraftAlone

LEMMA FirstIsOne ==
  ASSUME NEW S, S \subseteq Nat, S # {}
  PROVE  First(S) \in S
<1>1. \E x \in S : \A y \in S : ~(<<y, x>> \in OpToRel(<, Nat))
  BY NatLessThanWellFounded, WFMin, Zenon
<1>2. \A x, y \in Nat : <<y, x>> \in OpToRel(<, Nat) <=> y < x
  BY Zenon DEF OpToRel
<1>3. PICK x \in S : \A y \in S : ~(y < x)
  BY <1>1, <1>2
<1>4. \A y \in S : x <= y
  BY <1>3
<1>5. QED  BY <1>4 DEF First

LEMMA PanelIsNumber ==
  ASSUME ShapeInv
  PROVE  get_reseller_panel \in Nat
<1> DEFINE marked == {s \in Usable : servers[s].reseller}
<1>1. marked \subseteq Nat /\ Usable \subseteq Nat
  BY DEF ShapeInv, Usable
<1>2. marked # {} => First(marked) \in Nat
  BY <1>1, FirstIsOne
<1>3. get_panel_server_for_usage \in Nat
  BY <1>2 DEF get_panel_server_for_usage
<1>4. QED  BY <1>1, <1>3 DEF get_reseller_panel, ShapeInv

LEMMA IdleJob == NoJob \in Job /\ NoJob.pc = "idle"
  BY DEF NoJob, Job, Stages

(* A handler goes on to new, and the credit stays as it is.                *)
LEMMA JobStep ==
  ASSUME CreditInv, NEW w \in Workers, NEW new \in Job,
         job' = [job EXCEPT ![w] = new],
         Relies(new) => Price(new) <= reseller.credit,
         reseller' = reseller, raced' = raced, dialog' \in Nat,
         nextServer' \in Nat, begun' \in Nat, DOMAIN servers' \subseteq Nat
  PROVE  CreditInv'
<1>1. ShapeInv'
  BY DEF CreditInv, ShapeInv
<1>2. \A v \in Workers : job'[v] = IF v = w THEN new ELSE job[v]
  BY DEF CreditInv, ShapeInv
<1>3. ReliedInv'
  BY <1>2 DEF CreditInv, ReliedInv
<1>4. QED  BY <1>1, <1>3 DEF CreditInv, NoOverdraftAlone

(* No handler moves, and the credit does not shrink.                       *)
LEMMA RestStep ==
  ASSUME CreditInv, job' = job, raced' = raced, begun' = begun,
         reseller' \in [role : BOOLEAN, credit : Int, panel : Nat],
         reseller'.credit >= reseller.credit,
         dialog' \in Nat, nextServer' \in Nat, DOMAIN servers' \subseteq Nat
  PROVE  CreditInv'
<1>1. ShapeInv'
  BY DEF CreditInv, ShapeInv
<1>2. \A w \in Workers : Price(job[w]) \in Int
  BY DEF CreditInv, ShapeInv, Job, Price
<1>3. ReliedInv'
  BY <1>2 DEF CreditInv, ShapeInv, ReliedInv
<1>4. NoOverdraftAlone'
  BY DEF CreditInv, ShapeInv, NoOverdraftAlone
<1>5. QED  BY <1>1, <1>3, <1>4 DEF CreditInv

LEMMA BeginsJob ==
  ASSUME CreditInv, NEW w \in Workers, NEW j \in Job, Begin(w, j)
  PROVE  \E new \in Job : /\ job' = [job EXCEPT ![w] = new] /\ begun' \in Nat
                          /\ new.pc = j.pc /\ new.stale = j.stale
                          /\ new.gb = j.gb /\ new.units = j.units
<1> DEFINE new == [j EXCEPT !.nr = begun + 1]
<1>1. new \in Job /\ begun + 1 \in Nat
  BY DEF Job, CreditInv, ShapeInv
<1>2. job' = [job EXCEPT ![w] = new] /\ begun' = begun + 1
  BY DEF Begin
<1>3. /\ new.pc = j.pc /\ new.stale = j.stale
      /\ new.gb = j.gb /\ new.units = j.units
  BY DEF Job
<1>4. QED  BY <1>1, <1>2, <1>3

(* Whoever relied on the credit is now out of date.                        *)
LEMMA OutdatedJobs ==
  ASSUME ShapeInv
  PROVE  /\ Outdated \in [Workers -> Job]
         /\ \A w \in Workers : ~Relies(Outdated[w])
<1> SUFFICES ASSUME NEW w \in Workers
             PROVE  Outdated[w] \in Job /\ ~Relies(Outdated[w])
  BY DEF Outdated
<1>1. job[w] \in Job
  BY DEF ShapeInv
<1>2. Outdated[w] = [job[w] EXCEPT !.stale = job[w].stale \/ job[w].pc \in {"build", "charge"}]
  BY DEF Outdated
<1>3. Outdated[w] \in Job
  BY <1>1, <1>2 DEF Job
<1>4. /\ Outdated[w].pc = job[w].pc
      /\ Outdated[w].stale = (job[w].stale \/ job[w].pc \in {"build", "charge"})
  BY <1>1, <1>2 DEF Job
<1>5. QED  BY <1>3, <1>4 DEF Relies

(* Administrators and their panels.                                        *)
LEMMA ServerStep ==
  ASSUME CreditInv,
         \/ \E w \in Workers, k \in Kinds : AddServer(w, k)
         \/ \E w \in Workers, s \in ServerIds, force \in BOOLEAN : DeleteServer(w, s, force)
         \/ \E s \in ServerIds, kinds \in SUBSET Kinds, ready \in BOOLEAN : Configure(s, kinds, ready)
         \/ \E s \in ServerIds, field \in {"active", "reseller"} : Toggle(s, field)
  PROVE  CreditInv'
<1> USE PanelsAssumption
<1>0. \A s \in ServerIds : s \in Nat
  BY DEF ServerIds
<1>1. CASE \E w \in Workers, k \in Kinds : AddServer(w, k)
  <2>1. PICK w \in Workers, k \in Kinds : AddServer(w, k)
    BY <1>1
  <2>2. /\ UNCHANGED <<reseller, dialog, raced>> /\ dialog' \in Nat
        /\ nextServer' \in Nat /\ DOMAIN servers' \subseteq Nat
    BY <2>1 DEF AddServer, CreditInv, ShapeInv
  <2>3. reseller' \in [role : BOOLEAN, credit : Int, panel : Nat] /\ reseller'.credit >= reseller.credit
    BY <2>2 DEF CreditInv, ShapeInv
  <2>4. CASE k = "hiddify"
    BY <2>1, <2>2, <2>3, <2>4, RestStep DEF AddServer
  <2>5. CASE k # "hiddify"
    <3> DEFINE j == [NoJob EXCEPT !.pc = "probe", !.server = nextServer]
    <3>1. j \in Job /\ j.pc = "probe"
      BY IdleJob DEF Job, Stages, CreditInv, ShapeInv
    <3>2. Begin(w, j)
      BY <2>1, <2>5 DEF AddServer
    <3> HIDE DEF j
    <3>3. PICK new \in Job : /\ job' = [job EXCEPT ![w] = new] /\ begun' \in Nat
                             /\ new.pc = "probe"
      BY <3>1, <3>2, BeginsJob
    <3>4. QED  BY <2>2, <3>3, JobStep DEF Relies
  <2>6. QED  BY <2>4, <2>5
<1>2. CASE \E w \in Workers, s \in ServerIds, force \in BOOLEAN : DeleteServer(w, s, force)
  <2>1. PICK w \in Workers, s \in ServerIds, force \in BOOLEAN : DeleteServer(w, s, force)
    BY <1>2
  <2> DEFINE by == IF force THEN "force" ELSE "admin"
             j == [NoJob EXCEPT !.pc = "count", !.server = s, !.by = by]
  <2>2. j \in Job /\ j.pc = "count"
    BY <1>0, IdleJob DEF Job, Stages
  <2>3. Begin(w, j)
    BY <2>1 DEF DeleteServer
  <2> HIDE DEF j
  <2>4. PICK new \in Job : /\ job' = [job EXCEPT ![w] = new] /\ begun' \in Nat
                           /\ new.pc = "count"
    BY <2>2, <2>3, BeginsJob
  <2>5. /\ UNCHANGED <<reseller, raced>> /\ dialog' \in Nat
        /\ nextServer' \in Nat /\ DOMAIN servers' \subseteq Nat
    BY <2>1 DEF DeleteServer, KeepRest, CreditInv, ShapeInv
  <2>6. QED  BY <2>4, <2>5, JobStep DEF Relies
<1>3. CASE \/ \E s \in ServerIds, kinds \in SUBSET Kinds, ready \in BOOLEAN : Configure(s, kinds, ready)
           \/ \E s \in ServerIds, field \in {"active", "reseller"} : Toggle(s, field)
  <2>1. UNCHANGED <<job, begun, reseller, dialog, nextServer, raced>> /\ DOMAIN servers' \subseteq Nat
    BY <1>3 DEF Configure, Toggle, Updated, KeepRest, CreditInv, ShapeInv
  <2>2. reseller' \in [role : BOOLEAN, credit : Int, panel : Nat] /\ reseller'.credit >= reseller.credit
    BY <2>1 DEF CreditInv, ShapeInv
  <2>3. dialog' \in Nat /\ nextServer' \in Nat
    BY <2>1 DEF CreditInv, ShapeInv
  <2>4. QED  BY <2>1, <2>2, <2>3, RestStep
<1>4. QED  BY <1>1, <1>2, <1>3

(* The handlers that ask a panel and count its configs.                    *)
LEMMA PanelHandlerStep ==
  ASSUME CreditInv, NEW w \in Workers,
         ProbeAnswers(w) \/ ProbeFails(w) \/ CountDependents(w) \/ RemoveServer(w)
  PROVE  CreditInv'
<1>1. /\ UNCHANGED <<reseller, dialog, nextServer, begun, raced>>
      /\ DOMAIN servers' \subseteq Nat
  BY DEF ProbeAnswers, ProbeFails, CountDependents, RemoveServer, Updated, KeepRest,
         Continue, Finish, CreditInv, ShapeInv
<1>2. \E new \in Job : job' = [job EXCEPT ![w] = new] /\ ~Relies(new)
  <2>1. job[w] \in Job /\ ~Relies(NoJob)
    BY IdleJob DEF CreditInv, ShapeInv, Relies
  <2>2. CASE Finish(w)
    BY <2>1, <2>2, IdleJob DEF Finish
  <2>3. CASE ProbeFails(w)
    <3> DEFINE new == [job[w] EXCEPT !.pc = "count"]
    <3>1. new \in Job /\ ~Relies(new)
      BY <2>1 DEF Job, Stages, Relies
    <3>2. QED  BY <2>3, <3>1 DEF ProbeFails, Continue
  <2>4. CASE CountDependents(w) /\ ~Finish(w)
    <3> DEFINE some == ListedOn(job[w].server) # {}
               new == [job[w] EXCEPT !.pc = "remove", !.some = some]
    <3>1. new \in Job /\ ~Relies(new)
      BY <2>1 DEF Job, Stages, Relies
    <3>2. job' = [job EXCEPT ![w] = new]
      BY <2>1, <2>4 DEF CountDependents, Job, CreditInv, ShapeInv
    <3>3. QED  BY <3>1, <3>2
  <2>5. QED  BY <2>2, <2>3, <2>4 DEF ProbeAnswers, RemoveServer
<1>3. dialog' \in Nat /\ nextServer' \in Nat /\ begun' \in Nat
  BY <1>1 DEF CreditInv, ShapeInv
<1>4. QED  BY <1>1, <1>2, <1>3, JobStep

(* A deduction outside a purchase.                                         *)
LEMMA ShrinkStep ==
  ASSUME CreditInv, job' = Outdated, raced' \in BOOLEAN,
         reseller' \in [role : BOOLEAN, credit : Int, panel : Nat],
         reseller'.credit < 0 => raced',
         UNCHANGED <<servers, dialog, nextServer, begun>>
  PROVE  CreditInv'
<1>1. ShapeInv'
  BY OutdatedJobs DEF CreditInv, ShapeInv
<1>2. ReliedInv'
  BY OutdatedJobs DEF CreditInv, ReliedInv
<1>3. QED  BY <1>1, <1>2 DEF CreditInv, NoOverdraftAlone

(* Administrators and the reseller.                                        *)
LEMMA ResellerStep ==
  ASSUME CreditInv,
         \/ \E role \in BOOLEAN : SetRole(role)
         \/ \E delta \in {-1, 0, 1} : AdjustCredit(delta)
         \/ \E s \in ServerIds \cup {0} : SetResellerPanel(s)
         \/ PurgeLeftovers
  PROVE  CreditInv'
<1> USE PanelsAssumption
<1>0. /\ reseller \in [role : BOOLEAN, credit : Int, panel : Nat]
      /\ UNCHANGED <<servers, dialog, nextServer, begun>>
  BY DEF CreditInv, ShapeInv, SetRole, AdjustCredit, SetResellerPanel, PurgeLeftovers
<1>1. CASE \/ \E role \in BOOLEAN : SetRole(role)
           \/ \E s \in ServerIds \cup {0} : SetResellerPanel(s)
  <2>1. UNCHANGED <<job, raced>>
    BY <1>1 DEF SetRole, SetResellerPanel
  <2>2. /\ reseller' \in [role : BOOLEAN, credit : Int, panel : Nat]
        /\ reseller'.credit >= reseller.credit
    BY <1>0, <1>1 DEF SetRole, SetResellerPanel, ServerIds
  <2>3. QED  BY <1>0, <2>1, <2>2, RestStep DEF CreditInv, ShapeInv
<1>2. CASE \E delta \in {0, 1} : AdjustCredit(delta)
  <2>1. PICK delta \in {0, 1} : AdjustCredit(delta)
    BY <1>2
  <2>2. job' = job /\ reseller' = [reseller EXCEPT !.credit = @ + delta]
    BY <2>1 DEF AdjustCredit
  <2>3. /\ reseller' \in [role : BOOLEAN, credit : Int, panel : Nat]
        /\ reseller'.credit = reseller.credit + delta
    BY <1>0, <2>2
  <2>4. raced' \in BOOLEAN /\ (raced => raced')
    BY <2>1 DEF AdjustCredit, CreditInv, ShapeInv
  <2>5. ShapeInv'
    BY <1>0, <2>2, <2>3, <2>4 DEF CreditInv, ShapeInv
  <2>6. reseller.credit \in Int /\ reseller'.credit >= reseller.credit
    BY <1>0, <2>3
  <2>7. \A w \in Workers : Price(job[w]) \in Int
    BY DEF CreditInv, ShapeInv, Job, Price
  <2>8. ReliedInv'
    BY <1>0, <2>2, <2>3, <2>6, <2>7 DEF CreditInv, ReliedInv
  <2>9. NoOverdraftAlone'
    BY <2>3, <2>4, <2>6 DEF CreditInv, NoOverdraftAlone
  <2>10. QED  BY <2>5, <2>8, <2>9 DEF CreditInv
<1>3. CASE AdjustCredit(-1)
  <2>1. /\ reseller' = [reseller EXCEPT !.credit = reseller.credit + (-1)]
        /\ raced' = (raced \/ reseller.credit + (-1) < 0) /\ job' = Outdated
    BY <1>3 DEF AdjustCredit
  <2>2. /\ reseller' \in [role : BOOLEAN, credit : Int, panel : Nat]
        /\ raced' \in BOOLEAN /\ (reseller'.credit < 0 => raced')
    <3>1. /\ reseller' \in [role : BOOLEAN, credit : Int, panel : Nat]
          /\ reseller'.credit = reseller.credit + (-1)
      BY <1>0, <2>1
    <3>2. raced' \in BOOLEAN
      BY <2>1
    <3>3. reseller'.credit < 0 => raced'
      BY <2>1, <3>1
    <3>4. QED  BY <3>1, <3>2, <3>3
  <2>3. QED  BY <1>0, <2>1, <2>2, ShrinkStep
<1>4. CASE PurgeLeftovers
  <2>1. /\ reseller' \in [role : BOOLEAN, credit : Int, panel : Nat]
        /\ raced' \in BOOLEAN /\ reseller'.credit = 0 /\ job' = Outdated
    BY <1>4 DEF PurgeLeftovers, CreditInv, ShapeInv
  <2>2. QED  BY <1>0, <2>1, ShrinkStep
<1>5. QED  BY <1>1, <1>2, <1>3, <1>4

(* A purchase begins when the credit covers its price.                     *)
LEMMA BuildingIsJob ==
  ASSUME NEW s \in Nat, NEW by \in {"bot", "app", "auto"}, NEW gb \in Nat, NEW units \in Nat
  PROVE  /\ Building(s, by, gb, units) \in Job
         /\ Building(s, by, gb, units).gb = gb
         /\ Building(s, by, gb, units).units = units
<1>1. "build" \in Stages /\ by \in {"admin", "force", "bot", "app", "auto"} /\ units \in Int
  BY DEF Stages
<1>2. Building(s, by, gb, units) =
        [pc |-> "build", server |-> s, by |-> by, gb |-> gb, units |-> units,
         left |-> units, some |-> FALSE, stale |-> FALSE, nr |-> 0]
  BY DEF Building
<1>3. QED  BY <1>1, <1>2 DEF Job

LEMMA BuysStep ==
  ASSUME CreditInv, NEW w \in Workers, NEW gb \in Nat, NEW units \in Nat, NEW s \in Nat,
         NEW by \in {"bot", "app", "auto"},
         Begin(w, Building(s, by, gb, units)), gb * units <= reseller.credit,
         UNCHANGED <<servers, reseller, dialog, nextServer, raced>>
  PROVE  CreditInv'
<1>1. PICK new \in Job : /\ job' = [job EXCEPT ![w] = new] /\ begun' \in Nat
                         /\ new.gb = gb /\ new.units = units
  <2> DEFINE j == Building(s, by, gb, units)
  <2>1. j \in Job /\ j.gb = gb /\ j.units = units
    BY BuildingIsJob
  <2>2. Begin(w, j)
    OBVIOUS
  <2> HIDE DEF j
  <2>3. QED  BY <2>1, <2>2, BeginsJob
<1>2. Price(new) <= reseller.credit
  BY <1>1 DEF Price
<1>3. dialog' \in Nat /\ nextServer' \in Nat /\ DOMAIN servers' \subseteq Nat
  BY DEF CreditInv, ShapeInv
<1>4. QED  BY <1>1, <1>2, <1>3, JobStep

LEMMA BeginsPurchase ==
  ASSUME CreditInv, NEW w \in Workers, NEW gb \in 1..MaxCredit,
         \/ BotBuilds(w, gb) \/ AppBuilds(w, gb)
         \/ \E units \in 1..2 : AutoBuilds(w, gb, units)
  PROVE  CreditInv'
<1> USE PanelsAssumption
<1>1. gb \in Nat /\ gb * 1 = gb /\ get_reseller_panel \in Nat
  BY PanelIsNumber DEF CreditInv
<1>2. CASE BotBuilds(w, gb) /\ dialog \in Usable
  <2>1. /\ Begin(w, Building(dialog, "bot", gb, 1)) /\ gb * 1 <= reseller.credit
        /\ UNCHANGED <<servers, reseller, dialog, nextServer, raced>>
    BY <1>1, <1>2 DEF BotBuilds, KeepTables
  <2>2. dialog \in Nat
    BY DEF CreditInv, ShapeInv
  <2>3. QED  BY <1>1, <2>1, <2>2, BuysStep
<1>3. CASE BotBuilds(w, gb) /\ dialog \notin Usable
  <2>1. dialog' = 0 /\ UNCHANGED <<job, begun, servers, reseller, nextServer, raced>>
    BY <1>3 DEF BotBuilds, KeepTables
  <2>2. QED  BY <2>1, RestStep DEF CreditInv, ShapeInv
<1>4. CASE AppBuilds(w, gb)
  <2>1. /\ Begin(w, Building(get_reseller_panel, "app", gb, 1)) /\ gb * 1 <= reseller.credit
        /\ UNCHANGED <<servers, reseller, dialog, nextServer, raced>>
    BY <1>1, <1>4 DEF AppBuilds, KeepTables
  <2>2. QED  BY <1>1, <2>1, BuysStep
<1>5. CASE \E units \in 1..2 : AutoBuilds(w, gb, units)
  <2>1. PICK units \in 1..2 : AutoBuilds(w, gb, units)
    BY <1>5
  <2>2. /\ Begin(w, Building(get_reseller_panel, "auto", gb, units))
        /\ gb * units <= reseller.credit /\ units \in Nat
        /\ UNCHANGED <<servers, reseller, dialog, nextServer, raced>>
    BY <2>1 DEF AutoBuilds, KeepTables
  <2>3. QED  BY <1>1, <2>2, BuysStep
<1>6. QED  BY <1>2, <1>3, <1>4, <1>5

(* Building and listing leave the credit as it is, and with it the price.  *)
LEMMA GoesOnStep ==
  ASSUME CreditInv, NEW w \in Workers,
         CreateUser(w) \/ List(w) \/ \E made \in BOOLEAN : CreateFails(w, made)
  PROVE  CreditInv'
<1>1. /\ UNCHANGED <<servers, reseller, nextServer, begun, raced>> /\ dialog' \in Nat
      /\ nextServer' \in Nat /\ begun' \in Nat /\ DOMAIN servers' \subseteq Nat
  BY DEF CreateUser, List, CreateFails, Finish, KeepTables, CreditInv, ShapeInv
<1>2. CASE Finish(w)
  <2>1. job' = [job EXCEPT ![w] = NoJob] /\ ~Relies(NoJob)
    BY <1>2, IdleJob DEF Finish, Relies
  <2>2. QED  BY <1>1, <2>1, IdleJob, JobStep
<1>3. CASE CreateUser(w)
  <2> DEFINE pc == IF job[w].left = 1 THEN "charge" ELSE "build"
             new == [job[w] EXCEPT !.left = job[w].left - 1, !.pc = pc]
  <2>1. job[w] \in Job /\ job[w].pc = "build"
    BY <1>3 DEF CreateUser, CreditInv, ShapeInv
  <2>2. new \in Job
    <3>1. pc \in Stages
      BY DEF Stages
    <3>2. job[w].left - 1 \in Int
      BY <2>1 DEF Job
    <3> HIDE DEF pc
    <3>3. QED  BY <2>1, <3>1, <3>2 DEF Job
  <2>3. /\ new.gb = job[w].gb /\ new.units = job[w].units /\ new.stale = job[w].stale
    BY <2>1 DEF Job
  <2>4. Relies(new) => Price(new) <= reseller.credit
    BY <2>1, <2>3 DEF CreditInv, ReliedInv, Relies, Price
  <2>5. job' = [job EXCEPT ![w] = new]
    BY <1>3, <2>1 DEF CreateUser, Job, CreditInv, ShapeInv
  <2> HIDE DEF new
  <2>6. QED  BY <1>1, <2>2, <2>4, <2>5, JobStep
<1>4. QED  BY <1>2, <1>3 DEF List, CreateFails

(* Not less than what was paid for is left, unless something went unnoticed. *)
LEMMA ChargeStep ==
  ASSUME CreditInv, NEW w \in Workers, Charge(w)
  PROVE  CreditInv'
<1>1. job[w] \in Job /\ job[w].pc = "charge" /\ reseller.credit \in Int
      /\ Price(job[w]) \in Int
  BY DEF Charge, CreditInv, ShapeInv, Job, Price
<1>2. reseller' = [reseller EXCEPT !.credit = reseller.credit - Price(job[w])]
  BY DEF Charge, Price
<1>3. /\ reseller' \in [role : BOOLEAN, credit : Int, panel : Nat]
      /\ reseller'.credit = reseller.credit - Price(job[w])
  BY <1>1, <1>2 DEF CreditInv, ShapeInv
<1>4. raced' = (raced \/ job[w].stale) /\ raced' \in BOOLEAN
  BY <1>1 DEF Charge, CreditInv, ShapeInv
<1>5. /\ job' \in [Workers -> Job]
      /\ \A v \in Workers : ~Relies(job'[v])
  <2>1. job' = [Outdated EXCEPT ![w] = [Outdated[w] EXCEPT !.pc = "list"]]
    BY OutdatedJobs DEF Charge, CreditInv
  <2>2. Outdated \in [Workers -> Job] /\ \A v \in Workers : ~Relies(Outdated[v])
    BY OutdatedJobs DEF CreditInv
  <2> DEFINE new == [Outdated[w] EXCEPT !.pc = "list"]
  <2>3. new \in Job /\ new.pc = "list"
    BY <2>2 DEF Job, Stages
  <2>4. ~Relies(new)
    BY <2>3 DEF Relies
  <2>5. job' = [Outdated EXCEPT ![w] = new]
    BY <2>1
  <2> HIDE DEF new
  <2>6. QED  BY <2>2, <2>3, <2>4, <2>5
<1>6. UNCHANGED <<servers, dialog, nextServer, begun>>
  BY DEF Charge
<1>7. ShapeInv'
  BY <1>3, <1>4, <1>5, <1>6 DEF CreditInv, ShapeInv
<1>8. ReliedInv'
  BY <1>5 DEF ReliedInv
<1>9. NoOverdraftAlone'
  <2>1. CASE job[w].stale
    BY <1>4, <2>1 DEF NoOverdraftAlone
  <2>2. CASE ~job[w].stale
    <3>1. Price(job[w]) <= reseller.credit
      BY <1>1, <2>2 DEF CreditInv, ReliedInv, Relies
    <3>2. QED  BY <1>1, <1>3, <3>1 DEF NoOverdraftAlone
  <2>3. QED  BY <2>1, <2>2
<1>10. QED  BY <1>7, <1>8, <1>9 DEF CreditInv

LEMMA OtherStep ==
  ASSUME CreditInv, OpenDialog \/ \E c \in configs : DeleteConfig(c)
  PROVE  CreditInv'
<1>1. /\ UNCHANGED <<servers, reseller, job, nextServer, begun, raced>>
      /\ dialog' \in Nat
  BY PanelIsNumber DEF OpenDialog, DeleteConfig, KeepTables, CreditInv, ShapeInv
<1>2. QED  BY <1>1, RestStep DEF CreditInv, ShapeInv

LEMMA CreditStarts == ASSUME PanelsInit PROVE CreditInv
<1>1. ShapeInv
  <2>1. job \in [Workers -> Job]
    BY IdleJob DEF PanelsInit
  <2>2. DOMAIN servers \subseteq Nat
    <3>1. DOMAIN servers = {1}
      BY DEF PanelsInit
    <3>2. QED  BY <3>1
  <2>3. reseller \in [role : BOOLEAN, credit : Int, panel : Nat]
    BY PanelsAssumption DEF PanelsInit
  <2>4. dialog = 0 /\ nextServer = 2 /\ begun = 0 /\ raced \in BOOLEAN
    BY DEF PanelsInit
  <2>5. QED  BY <2>1, <2>2, <2>3, <2>4 DEF ShapeInv
<1>2. ReliedInv /\ NoOverdraftAlone
  BY PanelsAssumption, IdleJob DEF PanelsInit, ReliedInv, NoOverdraftAlone, Relies
<1>3. QED  BY <1>1, <1>2 DEF CreditInv

LEMMA CreditStep ==
  ASSUME CreditInv, [PanelsNext]_panelVars
  PROVE  CreditInv'
<1>1. CASE UNCHANGED panelVars
  BY <1>1
  DEF panelVars, CreditInv, ShapeInv, ReliedInv, NoOverdraftAlone
<1>2. CASE Administers
  BY <1>2, ServerStep, ResellerStep
  DEF Administers, BotAddsServer, AppAddsServer, WebAddsServer,
      BotDeletes, BotForcesDeletion, AppDeletes, WebDeletes,
      BotSetsAddress, BotFetchesTemplate, BotToggles, AppConfigures,
      AppFetchesTemplate, AppToggles, WebConfigures, WebFetchesTemplate,
      WebToggles, WebUpdates, Addressed, Fetched, Kinds,
      BotPicksPanel, AppPicksPanel, WebPicksPanel,
      BotSwitchesReseller, AppSwitchesReseller, WebSetsReseller,
      BotAdjustsCredit, AppAdjustsCredit, WebAdjustsCredit, CreditInv, ShapeInv
<1>3. CASE OpenDialog \/ \E c \in configs : DeleteConfig(c)
  BY <1>3, OtherStep
<1>4. CASE \E w \in Workers :
             \/ \E gb \in 1..MaxCredit :
                  \/ BotBuilds(w, gb) \/ AppBuilds(w, gb)
                  \/ \E units \in 1..2 : AutoBuilds(w, gb, units)
             \/ \E made \in BOOLEAN : CreateFails(w, made)
             \/ ProbeAnswers(w) \/ ProbeFails(w)
             \/ CountDependents(w) \/ RemoveServer(w)
             \/ CreateUser(w) \/ Charge(w) \/ List(w)
  BY <1>4, BeginsPurchase, PanelHandlerStep, GoesOnStep, ChargeStep
<1>5. QED  BY <1>1, <1>2, <1>3, <1>4 DEF PanelsNext

LEMMA CreditAlways == PanelsSpec => []CreditInv
<1>1. PanelsInit => CreditInv
  BY CreditStarts
<1>2. CreditInv /\ [PanelsNext]_panelVars => CreditInv'
  BY CreditStep
<1>3. QED  BY <1>1, <1>2, PTL DEF PanelsSpec

(***************************************************************************)
(* The credit of a reseller is overdrawn by a race or a correction only    *)
(* (reseller_auto_provision.py:46-104).                                    *)
(***************************************************************************)
THEOREM OverdrawnByRace == PanelsSpec => []NoOverdraftAlone
<1>1. CreditInv => NoOverdraftAlone
  BY DEF CreditInv
<1>2. QED  BY <1>1, CreditAlways, PTL

(***************************************************************************)
(* Only a deletion by the force button goes on to the removal of a panel   *)
(* after it has counted configs.                                           *)
(***************************************************************************)
ForcedInv == \A w \in Workers : job[w].some => job[w].by = "force"

LEMMA ForcedJob ==
  ASSUME ShapeInv, ForcedInv, NEW w \in Workers, NEW new,
         job' = [job EXCEPT ![w] = new], new.some => new.by = "force"
  PROVE  ForcedInv'
  BY DEF ShapeInv, ForcedInv

LEMMA ForcedBegin ==
  ASSUME ShapeInv, ForcedInv, NEW w \in Workers, NEW j \in Job, ~j.some, Begin(w, j)
  PROVE  ForcedInv'
<1> DEFINE new == [j EXCEPT !.nr = begun + 1]
<1>1. job' = [job EXCEPT ![w] = new]
  BY DEF Begin
<1>2. ~new.some
  BY DEF Job
<1>3. QED  BY <1>1, <1>2, ForcedJob

LEMMA ForcedFinish ==
  ASSUME ShapeInv, ForcedInv, NEW w \in Workers, Finish(w)
  PROVE  ForcedInv'
  BY ForcedJob DEF Finish, NoJob

LEMMA ForcedOutdated ==
  ASSUME ShapeInv, ForcedInv
  PROVE  \A w \in Workers : Outdated[w].some => Outdated[w].by = "force"
<1> SUFFICES ASSUME NEW w \in Workers
             PROVE  Outdated[w].some = job[w].some /\ Outdated[w].by = job[w].by
  BY DEF ForcedInv
<1>1. job[w] \in Job
  BY DEF ShapeInv
<1>2. QED  BY <1>1 DEF Outdated, Job

LEMMA ForcedByAdmin ==
  ASSUME ShapeInv, ForcedInv, Administers
  PROVE  ForcedInv'
<1> USE PanelsAssumption
<1>1. CASE \E w \in Workers, k \in Kinds : AddServer(w, k)
  <2>1. PICK w \in Workers, k \in Kinds : AddServer(w, k)
    BY <1>1
  <2> DEFINE j == [NoJob EXCEPT !.pc = "probe", !.server = nextServer]
  <2>2. j \in Job /\ ~j.some
    BY IdleJob DEF Job, Stages, ShapeInv, NoJob
  <2>3. job' = job \/ Begin(w, j)
    BY <2>1 DEF AddServer
  <2> HIDE DEF j
  <2>4. QED  BY <2>2, <2>3, ForcedBegin DEF ForcedInv
<1>2. CASE \E w \in Workers, s \in ServerIds, force \in BOOLEAN : DeleteServer(w, s, force)
  <2>1. PICK w \in Workers, s \in ServerIds, force \in BOOLEAN : DeleteServer(w, s, force)
    BY <1>2
  <2> DEFINE by == IF force THEN "force" ELSE "admin"
             j == [NoJob EXCEPT !.pc = "count", !.server = s, !.by = by]
  <2>2. s \in Nat
    BY DEF ServerIds
  <2>3. j \in Job /\ ~j.some
    BY <2>2, IdleJob DEF Job, Stages, NoJob
  <2>4. Begin(w, j)
    BY <2>1 DEF DeleteServer
  <2> HIDE DEF j
  <2>5. QED  BY <2>3, <2>4, ForcedBegin
<1>3. CASE job' = job
  BY <1>3 DEF ForcedInv
<1>4. CASE job' = Outdated
  BY <1>4, ForcedOutdated DEF ForcedInv
<1>5. QED
  BY <1>1, <1>2, <1>3, <1>4
  DEF Administers, BotAddsServer, AppAddsServer, WebAddsServer,
      BotDeletes, BotForcesDeletion, AppDeletes, WebDeletes,
      BotSetsAddress, BotFetchesTemplate, BotToggles, AppConfigures,
      AppFetchesTemplate, AppToggles, WebConfigures, WebFetchesTemplate,
      WebToggles, WebUpdates, Configure, Toggle,
      BotPicksPanel, AppPicksPanel, WebPicksPanel, SetResellerPanel,
      BotSwitchesReseller, AppSwitchesReseller, WebSetsReseller, SetRole,
      BotAdjustsCredit, AppAdjustsCredit, WebAdjustsCredit, AdjustCredit,
      PurgeLeftovers

LEMMA ForcedByPurchase ==
  ASSUME ShapeInv, ForcedInv, NEW w \in Workers, NEW gb \in 1..MaxCredit,
         \/ BotBuilds(w, gb) \/ AppBuilds(w, gb)
         \/ \E units \in 1..2 : AutoBuilds(w, gb, units)
  PROVE  ForcedInv'
<1>1. CASE job' = job
  BY <1>1 DEF ForcedInv
<1>2. CASE \E s \in Nat, by \in {"bot", "app", "auto"}, units \in Nat :
             Begin(w, Building(s, by, gb, units))
  <2>1. PICK s \in Nat, by \in {"bot", "app", "auto"}, units \in Nat :
               Begin(w, Building(s, by, gb, units))
    BY <1>2
  <2>2. Building(s, by, gb, units) \in Job /\ ~Building(s, by, gb, units).some
    BY PanelsAssumption, BuildingIsJob DEF Building
  <2>3. QED  BY <2>1, <2>2, ForcedBegin
<1>3. dialog \in Nat /\ get_reseller_panel \in Nat
  BY PanelIsNumber DEF ShapeInv
<1>4. 1..2 \subseteq Nat
  OBVIOUS
<1>5. QED  BY <1>1, <1>2, <1>3, <1>4 DEF BotBuilds, AppBuilds, AutoBuilds

LEMMA ForcedByHandler ==
  ASSUME ShapeInv, ForcedInv, NEW w \in Workers,
         \/ \E made \in BOOLEAN : CreateFails(w, made)
         \/ ProbeAnswers(w) \/ ProbeFails(w) \/ CountDependents(w)
         \/ RemoveServer(w) \/ CreateUser(w) \/ Charge(w) \/ List(w)
  PROVE  ForcedInv'
<1>1. job[w] \in Job
  BY DEF ShapeInv
<1>2. CASE Finish(w)
  BY <1>2, ForcedFinish
<1>3. CASE ProbeFails(w)
  <2> DEFINE new == [job[w] EXCEPT !.pc = "count"]
  <2>1. job' = [job EXCEPT ![w] = new]
    BY <1>3 DEF ProbeFails, Continue
  <2>2. new.some = job[w].some /\ new.by = job[w].by
    BY <1>1 DEF Job
  <2>3. QED  BY <2>1, <2>2, ForcedJob DEF ForcedInv
<1>4. CASE CountDependents(w) /\ ~Finish(w)
  <2> DEFINE some == ListedOn(job[w].server) # {}
             new == [job[w] EXCEPT !.pc = "remove", !.some = some]
  <2>1. job' = [job EXCEPT ![w] = new] /\ (some => job[w].by = "force")
    BY <1>1, <1>4 DEF CountDependents, Job, ShapeInv
  <2>2. new.some = some /\ new.by = job[w].by
    BY <1>1 DEF Job
  <2>3. QED  BY <2>1, <2>2, ForcedJob
<1>5. CASE CreateUser(w)
  <2> DEFINE pc == IF job[w].left = 1 THEN "charge" ELSE "build"
             new == [job[w] EXCEPT !.left = job[w].left - 1, !.pc = pc]
  <2>1. job' = [job EXCEPT ![w] = new]
    BY <1>1, <1>5 DEF CreateUser, Job, ShapeInv
  <2>2. new.some = job[w].some /\ new.by = job[w].by
    BY <1>1 DEF Job
  <2>3. QED  BY <2>1, <2>2, ForcedJob DEF ForcedInv
<1>6. CASE Charge(w)
  <2> DEFINE new == [Outdated[w] EXCEPT !.pc = "list"]
  <2>1. job' = [Outdated EXCEPT ![w] = new]
    BY <1>6 DEF Charge
  <2>2. Outdated \in [Workers -> Job]
    BY OutdatedJobs
  <2>3. new.some = Outdated[w].some /\ new.by = Outdated[w].by
    BY <2>2 DEF Job
  <2> HIDE DEF new
  <2>4. QED  BY <2>1, <2>2, <2>3, ForcedOutdated DEF ForcedInv
<1>7. QED
  BY <1>2, <1>3, <1>4, <1>5, <1>6 DEF CreateFails, ProbeAnswers, RemoveServer, List

LEMMA ForcedStep ==
  ASSUME ShapeInv, ForcedInv, [PanelsNext]_panelVars
  PROVE  ForcedInv'
<1>1. CASE UNCHANGED panelVars
  BY <1>1 DEF panelVars, ForcedInv
<1>2. CASE OpenDialog \/ \E c \in configs : DeleteConfig(c)
  BY <1>2 DEF OpenDialog, DeleteConfig, ForcedInv
<1>3. QED
  BY <1>1, <1>2, ForcedByAdmin, ForcedByPurchase, ForcedByHandler DEF PanelsNext

LEMMA LostByForce ==
  ASSUME ListedHasServer, ForcedInv, PanelsNext, NEW c \in configs \ configs'
  PROVE  \/ c.server \in DOMAIN servers'
         \/ \E w \in Workers : job[w].by = "force" /\ job[w].server = c.server
<1>1. CASE \E d \in configs : DeleteConfig(d)
  BY <1>1 DEF DeleteConfig, ListedHasServer
<1>2. CASE \E w \in Workers : RemoveServer(w)
  <2>1. PICK w \in Workers : RemoveServer(w)
    BY <1>2
  <2>2. job[w].some /\ c \in ListedOn(job[w].server)
    BY <2>1 DEF RemoveServer
  <2>3. QED  BY <2>2 DEF ForcedInv, ListedOn
<1>3. CASE configs \subseteq configs'
  BY <1>3
<1>4. CASE Administers
  <2>1. configs' = configs
    BY <1>4
    DEF Administers, BotAddsServer, AppAddsServer, WebAddsServer, AddServer,
        BotDeletes, BotForcesDeletion, AppDeletes, WebDeletes, DeleteServer,
        BotSetsAddress, BotFetchesTemplate, BotToggles, AppConfigures,
        AppFetchesTemplate, AppToggles, WebConfigures, WebFetchesTemplate,
        WebToggles, WebUpdates, Configure, Toggle, KeepRest,
        BotPicksPanel, AppPicksPanel, WebPicksPanel, SetResellerPanel,
        BotSwitchesReseller, AppSwitchesReseller, WebSetsReseller, SetRole,
        BotAdjustsCredit, AppAdjustsCredit, WebAdjustsCredit, AdjustCredit,
        PurgeLeftovers
  <2>2. QED  BY <2>1
<1>5. CASE OpenDialog
  BY <1>5 DEF OpenDialog, KeepTables
<1>6. CASE \E w \in Workers :
             \/ \E gb \in 1..MaxCredit :
                  \/ BotBuilds(w, gb) \/ AppBuilds(w, gb)
                  \/ \E units \in 1..2 : AutoBuilds(w, gb, units)
             \/ \E made \in BOOLEAN : CreateFails(w, made)
             \/ ProbeAnswers(w) \/ ProbeFails(w) \/ CountDependents(w)
             \/ CreateUser(w) \/ Charge(w) \/ List(w)
  BY <1>3, <1>6
  DEF BotBuilds, AppBuilds, AutoBuilds, CreateFails, ProbeAnswers, ProbeFails,
      CountDependents, CreateUser, Charge, List, KeepTables, KeepRest
<1>7. QED  BY <1>1, <1>2, <1>4, <1>5, <1>6 DEF PanelsNext

(***************************************************************************)
(* Nobody loses configs to the deletion of a panel unless it was forced    *)
(* (handlers_admin.py:2483-2529).                                          *)
(***************************************************************************)
THEOREM LossIsForced == PanelsSpec => NoConfigLost
<1>1. PanelsInit => ForcedInv
  BY DEF PanelsInit, NoJob, ForcedInv
<1>2. CreditInv /\ ForcedInv /\ [PanelsNext]_panelVars => ForcedInv'
  BY ForcedStep DEF CreditInv
<1>3. ListedHasServer /\ ForcedInv /\ [PanelsNext]_panelVars =>
        [\A c \in configs \ configs' :
           \/ c.server \in DOMAIN servers'
           \/ \E w \in Workers : job[w].by = "force" /\ job[w].server = c.server]_panelVars
  BY LostByForce
<1>4. QED
  BY <1>1, <1>2, <1>3, CreditAlways, ListedIsKnown, PTL DEF PanelsSpec, NoConfigLost

(***************************************************************************)
(* What is built is charged, what is charged is listed.  A purchase has    *)
(* built Due gigabytes that are not charged yet, or charged Owed gigabytes *)
(* for a config that is not listed yet; the counters cover what all the    *)
(* handlers together have in hand.                                         *)
(***************************************************************************)
Due(j) == IF j.pc = "build" THEN j.gb * (j.units - j.left)
          ELSE IF j.pc = "charge" THEN j.gb * j.units ELSE 0
Owed(j) == IF j.pc = "list" THEN j.gb ELSE 0
UnitsOK(j) == /\ j.pc \in {"build", "charge", "list"} => j.units \in 1..2
              /\ j.pc = "build" => j.left \in 1..j.units

PaidInv == /\ ahead \in [made : Int, charged : Int]
           /\ \A w \in Workers : UnitsOK(job[w])
           /\ Sum([w \in Workers |-> Due(job[w])], Workers) <= ahead.made
           /\ Sum([w \in Workers |-> Owed(job[w])], Workers) <= ahead.charged

LEMMA DueIsNat ==
  ASSUME NEW j \in Job, UnitsOK(j)
  PROVE  Due(j) \in Nat /\ Owed(j) \in Nat
<1>1. j.gb \in Nat
  BY DEF Job
<1>2. CASE j.pc = "build"
  <2>1. j.units - j.left \in {0, 1}
    BY <1>2 DEF UnitsOK
  <2>2. j.gb * (j.units - j.left) \in {0, j.gb}
    BY <1>1, <2>1
  <2> QED  BY <1>1, <1>2, <2>2 DEF Due, Owed
<1>3. CASE j.pc = "charge"
  <2>1. j.gb * j.units \in {j.gb, j.gb + j.gb}
    BY <1>1, <1>3 DEF UnitsOK
  <2> QED  BY <1>1, <1>3, <2>1 DEF Due, Owed
<1>4. CASE j.pc \notin {"build", "charge"}
  BY <1>1, <1>4 DEF Due, Owed
<1> QED  BY <1>2, <1>3, <1>4

(* One handler moves, the counters move at least as far.                    *)
LEMMA PaidMoves ==
  ASSUME ShapeInv, ShapeInv', PaidInv, NEW w \in Workers,
         \A v \in Workers \ {w} : UnitsOK(job'[v]) /\ Due(job'[v]) = Due(job[v])
                                  /\ Owed(job'[v]) = Owed(job[v]),
         UnitsOK(job'[w]), ahead' \in [made : Int, charged : Int],
         ahead'.made - Due(job'[w]) >= ahead.made - Due(job[w]),
         ahead'.charged - Owed(job'[w]) >= ahead.charged - Owed(job[w])
  PROVE  PaidInv'
<1> DEFINE d == [v \in Workers |-> Due(job[v])]
           dn == [v \in Workers |-> Due(job'[v])]
           o == [v \in Workers |-> Owed(job[v])]
           on == [v \in Workers |-> Owed(job'[v])]
<1>1. \A v \in Workers : /\ d[v] \in Int /\ dn[v] \in Int /\ o[v] \in Int /\ on[v] \in Int
                         /\ v # w => dn[v] = d[v] /\ on[v] = o[v]
  BY DueIsNat DEF ShapeInv, PaidInv
<1>2. d[w] = Due(job[w]) /\ dn[w] = Due(job'[w]) /\ o[w] = Owed(job[w]) /\ on[w] = Owed(job'[w])
  OBVIOUS
<1>3. Sum(d, Workers) <= ahead.made /\ Sum(o, Workers) <= ahead.charged
  BY DEF PaidInv
<1>4. ahead \in [made : Int, charged : Int]
  BY DEF PaidInv
<1> HIDE DEF d, dn, o, on
<1>5. /\ Sum(dn, Workers) = Sum(d, Workers) - d[w] + dn[w]
      /\ Sum(on, Workers) = Sum(o, Workers) - o[w] + on[w]
      /\ Sum(d, Workers) \in Int /\ Sum(o, Workers) \in Int
  BY <1>1, PanelsAssumption, SumChange, SumType
<1>6. Sum(dn, Workers) <= ahead'.made /\ Sum(on, Workers) <= ahead'.charged
  BY <1>1, <1>2, <1>3, <1>4, <1>5
<1>7. \A v \in Workers : UnitsOK(job'[v])
  OBVIOUS
<1> QED  BY <1>6, <1>7 DEF PaidInv, dn, on

(* No counter moves, and every handler keeps what it has in hand or is done. *)
LEMMA PaidRests ==
  ASSUME ShapeInv, ShapeInv', PaidInv, ahead' = ahead,
         \A v \in Workers : UnitsOK(job'[v]) /\ Due(job'[v]) = Due(job[v])
                            /\ Owed(job'[v]) = Owed(job[v])
  PROVE  PaidInv'
<1>1. [v \in Workers |-> Due(job'[v])] = [v \in Workers |-> Due(job[v])]
  OBVIOUS
<1>2. [v \in Workers |-> Owed(job'[v])] = [v \in Workers |-> Owed(job[v])]
  OBVIOUS
<1> QED  BY <1>1, <1>2 DEF PaidInv

LEMMA PaidBegins ==
  ASSUME ShapeInv, ShapeInv', PaidInv, ahead' = ahead, NEW w \in Workers,
         NEW j \in Job, UnitsOK(j), Due(j) = 0, Owed(j) = 0,
         Begin(w, j) \/ job' = [job EXCEPT ![w] = j]
  PROVE  PaidInv'
<1> DEFINE new == [j EXCEPT !.nr = begun + 1]
<1>1. /\ new.pc = j.pc /\ new.gb = j.gb /\ new.units = j.units /\ new.left = j.left
  BY DEF Job
<1>2. job' = [job EXCEPT ![w] = new] \/ job' = [job EXCEPT ![w] = j]
  BY DEF Begin
<1>3. job[w] \in Job /\ UnitsOK(job[w])
  BY DEF ShapeInv, PaidInv
<1> HIDE DEF new
<1>4. /\ job'[w] = new \/ job'[w] = j
      /\ \A v \in Workers \ {w} : job'[v] = job[v]
  BY <1>2 DEF ShapeInv
<1>5. UnitsOK(job'[w]) /\ Due(job'[w]) = 0 /\ Owed(job'[w]) = 0
  BY <1>1, <1>4 DEF UnitsOK, Due, Owed
<1>6. Due(job[w]) \in Nat /\ Owed(job[w]) \in Nat
  BY <1>3, DueIsNat
<1>7. ahead.made \in Int /\ ahead.charged \in Int /\ ahead' \in [made : Int, charged : Int]
  BY DEF PaidInv
<1>8. /\ ahead'.made - Due(job'[w]) >= ahead.made - Due(job[w])
      /\ ahead'.charged - Owed(job'[w]) >= ahead.charged - Owed(job[w])
  BY <1>5, <1>6, <1>7
<1>9. \A v \in Workers \ {w} : UnitsOK(job'[v]) /\ Due(job'[v]) = Due(job[v])
                               /\ Owed(job'[v]) = Owed(job[v])
  BY <1>4 DEF PaidInv
<1> QED  BY <1>5, <1>7, <1>8, <1>9, PaidMoves

LEMMA IdlePaid == NoJob \in Job /\ UnitsOK(NoJob) /\ Due(NoJob) = 0 /\ Owed(NoJob) = 0
  BY IdleJob DEF UnitsOK, Due, Owed

LEMMA OutdatedPaid ==
  ASSUME ShapeInv, PaidInv, NEW w \in Workers
  PROVE  /\ Outdated[w].pc = job[w].pc /\ Outdated[w].gb = job[w].gb
         /\ Outdated[w].units = job[w].units /\ Outdated[w].left = job[w].left
         /\ UnitsOK(Outdated[w]) /\ Due(Outdated[w]) = Due(job[w])
         /\ Owed(Outdated[w]) = Owed(job[w])
<1>1. job[w] \in Job
  BY DEF ShapeInv
<1>2. /\ Outdated[w].pc = job[w].pc /\ Outdated[w].gb = job[w].gb
      /\ Outdated[w].units = job[w].units /\ Outdated[w].left = job[w].left
  BY <1>1 DEF Outdated, Job
<1> QED  BY <1>2 DEF PaidInv, UnitsOK, Due, Owed

LEMMA PaidByAdmin ==
  ASSUME ShapeInv, ShapeInv', PaidInv, Administers
  PROVE  PaidInv'
<1> USE PanelsAssumption
<1>0. ahead' = ahead
  BY DEF Administers, BotAddsServer, AppAddsServer, WebAddsServer, AddServer,
        BotDeletes, BotForcesDeletion, AppDeletes, WebDeletes, DeleteServer,
        BotSetsAddress, BotFetchesTemplate, BotToggles, AppConfigures,
        AppFetchesTemplate, AppToggles, WebConfigures, WebFetchesTemplate,
        WebToggles, WebUpdates, Configure, Toggle, KeepRest,
        BotPicksPanel, AppPicksPanel, WebPicksPanel, SetResellerPanel,
        BotSwitchesReseller, AppSwitchesReseller, WebSetsReseller, SetRole,
        BotAdjustsCredit, AppAdjustsCredit, WebAdjustsCredit, AdjustCredit,
        PurgeLeftovers
<1>1. CASE \E w \in Workers, k \in Kinds : AddServer(w, k)
  <2>1. PICK w \in Workers, k \in Kinds : AddServer(w, k)
    BY <1>1
  <2> DEFINE j == [NoJob EXCEPT !.pc = "probe", !.server = nextServer]
  <2>2. j \in Job /\ j.pc = "probe"
    BY IdleJob DEF Job, Stages, ShapeInv, NoJob
  <2>3. job' = job \/ Begin(w, j)
    BY <2>1 DEF AddServer
  <2> HIDE DEF j
  <2>4. UnitsOK(j) /\ Due(j) = 0 /\ Owed(j) = 0
    BY <2>2 DEF UnitsOK, Due, Owed
  <2>5. CASE job' = job
    BY <1>0, <2>5, PaidRests DEF PaidInv
  <2> QED  BY <1>0, <2>2, <2>3, <2>4, <2>5, PaidBegins
<1>2. CASE \E w \in Workers, s \in ServerIds, force \in BOOLEAN : DeleteServer(w, s, force)
  <2>1. PICK w \in Workers, s \in ServerIds, force \in BOOLEAN : DeleteServer(w, s, force)
    BY <1>2
  <2> DEFINE by == IF force THEN "force" ELSE "admin"
             j == [NoJob EXCEPT !.pc = "count", !.server = s, !.by = by]
  <2>2. s \in Nat
    BY DEF ServerIds
  <2>3. j \in Job /\ j.pc = "count"
    BY <2>2, IdleJob DEF Job, Stages, NoJob
  <2>4. Begin(w, j)
    BY <2>1 DEF DeleteServer
  <2> HIDE DEF j
  <2>5. UnitsOK(j) /\ Due(j) = 0 /\ Owed(j) = 0
    BY <2>3 DEF UnitsOK, Due, Owed
  <2> QED  BY <1>0, <2>3, <2>4, <2>5, PaidBegins
<1>3. CASE job' = job
  BY <1>0, <1>3, PaidRests DEF PaidInv
<1>4. CASE job' = Outdated
  BY <1>0, <1>4, OutdatedPaid, PaidRests
<1>5. QED
  BY <1>1, <1>2, <1>3, <1>4
  DEF Administers, BotAddsServer, AppAddsServer, WebAddsServer,
      BotDeletes, BotForcesDeletion, AppDeletes, WebDeletes,
      BotSetsAddress, BotFetchesTemplate, BotToggles, AppConfigures,
      AppFetchesTemplate, AppToggles, WebConfigures, WebFetchesTemplate,
      WebToggles, WebUpdates, Configure, Toggle,
      BotPicksPanel, AppPicksPanel, WebPicksPanel, SetResellerPanel,
      BotSwitchesReseller, AppSwitchesReseller, WebSetsReseller, SetRole,
      BotAdjustsCredit, AppAdjustsCredit, WebAdjustsCredit, AdjustCredit,
      PurgeLeftovers

LEMMA PaidByPurchase ==
  ASSUME ShapeInv, ShapeInv', PaidInv, NEW w \in Workers, NEW gb \in 1..MaxCredit,
         \/ BotBuilds(w, gb) \/ AppBuilds(w, gb)
         \/ \E units \in 1..2 : AutoBuilds(w, gb, units)
  PROVE  PaidInv'
<1>0. ahead' = ahead
  BY DEF BotBuilds, AppBuilds, AutoBuilds, KeepTables
<1>1. CASE job' = job
  BY <1>0, <1>1, PaidRests DEF PaidInv
<1>2. CASE \E s \in Nat, by \in {"bot", "app", "auto"}, units \in 1..2 :
             Begin(w, Building(s, by, gb, units))
  <2>1. PICK s \in Nat, by \in {"bot", "app", "auto"}, units \in 1..2 :
               Begin(w, Building(s, by, gb, units))
    BY <1>2
  <2> DEFINE j == Building(s, by, gb, units)
  <2>2. j \in Job /\ gb \in Nat
    <3>1. gb \in Nat /\ units \in Nat
      BY PanelsAssumption
    <3> QED  BY <3>1, BuildingIsJob
  <2>3. j.pc = "build" /\ j.gb = gb /\ j.units = units /\ j.left = units
    BY DEF Building
  <2>4. Begin(w, j)
    BY <2>1
  <2> HIDE DEF j
  <2>5. j.units - j.left = 0 /\ j.gb * 0 = 0
    BY <2>2, <2>3
  <2>6. UnitsOK(j) /\ Due(j) = 0 /\ Owed(j) = 0
    BY <2>3, <2>5 DEF UnitsOK, Due, Owed
  <2> QED  BY <1>0, <2>2, <2>4, <2>6, PaidBegins
<1>3. dialog \in Nat /\ get_reseller_panel \in Nat
  BY PanelIsNumber DEF ShapeInv
<1>4. 1 \in 1..2
  OBVIOUS
<1>5. QED  BY <1>1, <1>2, <1>3, <1>4 DEF BotBuilds, AppBuilds, AutoBuilds

LEMMA PaidByUser ==
  ASSUME ShapeInv, ShapeInv', PaidInv, NEW w \in Workers, CreateUser(w)
  PROVE  PaidInv'
<1> DEFINE pc == IF job[w].left = 1 THEN "charge" ELSE "build"
           new == [job[w] EXCEPT !.left = job[w].left - 1, !.pc = pc]
<1>1. job[w] \in Job /\ job[w].pc = "build" /\ UnitsOK(job[w])
  BY DEF CreateUser, ShapeInv, PaidInv
<1>2. /\ job' = [job EXCEPT ![w] = new]
      /\ ahead' = [ahead EXCEPT !.made = ahead.made + job[w].gb]
  BY <1>1 DEF CreateUser, Job, ShapeInv, PaidInv
<1>3. new.gb = job[w].gb /\ new.units = job[w].units /\ new.left = job[w].left - 1 /\ new.pc = pc
  BY <1>1 DEF Job
<1>4. job[w].gb \in Nat /\ job[w].units \in {1, 2} /\ job[w].left \in 1..job[w].units
  BY <1>1 DEF Job, UnitsOK
<1> HIDE DEF new
<1>5. job'[w] = new /\ \A v \in Workers \ {w} : job'[v] = job[v]
  BY <1>2 DEF ShapeInv
<1>6. UnitsOK(new) /\ Owed(new) = 0 /\ Owed(job[w]) = 0
  BY <1>1, <1>3, <1>4 DEF UnitsOK, Owed
<1>7. Due(new) = Due(job[w]) + job[w].gb
  <2>1. CASE job[w].left = 1
    <3>1. Due(new) = job[w].gb * job[w].units
      BY <1>3, <2>1 DEF Due
    <3>2. Due(job[w]) = job[w].gb * (job[w].units - 1)
      BY <1>1, <2>1 DEF Due
    <3> QED  BY <1>4, <3>1, <3>2
  <2>2. CASE job[w].left = 2 /\ job[w].units = 2
    <3>1. Due(new) = job[w].gb * (2 - 1)
      BY <1>3, <2>2 DEF Due
    <3>2. Due(job[w]) = job[w].gb * (2 - 2)
      BY <1>1, <2>2 DEF Due
    <3> QED  BY <1>4, <3>1, <3>2
  <2> QED  BY <1>4, <2>1, <2>2
<1>8. /\ ahead \in [made : Int, charged : Int] /\ ahead' \in [made : Int, charged : Int]
      /\ ahead'.made = ahead.made + job[w].gb /\ ahead'.charged = ahead.charged
  BY <1>2, <1>4 DEF PaidInv
<1>9. Due(job[w]) \in Nat
  BY <1>1, DueIsNat
<1>10. /\ ahead'.made - Due(job'[w]) >= ahead.made - Due(job[w])
       /\ ahead'.charged - Owed(job'[w]) >= ahead.charged - Owed(job[w])
  BY <1>4, <1>5, <1>6, <1>7, <1>8, <1>9
<1>11. \A v \in Workers \ {w} : UnitsOK(job'[v]) /\ Due(job'[v]) = Due(job[v])
                                /\ Owed(job'[v]) = Owed(job[v])
  BY <1>5 DEF PaidInv
<1> QED  BY <1>5, <1>6, <1>8, <1>10, <1>11, PaidMoves

LEMMA PaidByFailure ==
  ASSUME ShapeInv, ShapeInv', PaidInv, NEW w \in Workers, NEW made \in BOOLEAN,
         CreateFails(w, made)
  PROVE  PaidInv'
<1>1. /\ job' = [job EXCEPT ![w] = NoJob]
      /\ ahead' = IF made THEN [ahead EXCEPT !.made = ahead.made + job[w].gb] ELSE ahead
  BY DEF CreateFails, Finish, PaidInv
<1>2. job[w] \in Job /\ UnitsOK(job[w]) /\ job[w].gb \in Nat
  BY DEF ShapeInv, PaidInv, Job
<1>3. /\ ahead \in [made : Int, charged : Int] /\ ahead' \in [made : Int, charged : Int]
      /\ ahead'.made >= ahead.made /\ ahead'.charged = ahead.charged
  BY <1>1, <1>2 DEF PaidInv
<1>4. job'[w] = NoJob /\ \A v \in Workers \ {w} : job'[v] = job[v]
  BY <1>1 DEF ShapeInv
<1>5. Due(job[w]) \in Nat /\ Owed(job[w]) \in Nat
  BY <1>2, DueIsNat
<1>6. /\ ahead'.made - Due(job'[w]) >= ahead.made - Due(job[w])
      /\ ahead'.charged - Owed(job'[w]) >= ahead.charged - Owed(job[w])
  BY <1>3, <1>4, <1>5, IdlePaid
<1>7. \A v \in Workers \ {w} : UnitsOK(job'[v]) /\ Due(job'[v]) = Due(job[v])
                               /\ Owed(job'[v]) = Owed(job[v])
  BY <1>4 DEF PaidInv
<1> QED  BY <1>3, <1>4, <1>6, <1>7, IdlePaid, PaidMoves

LEMMA PaidByCharge ==
  ASSUME ShapeInv, ShapeInv', PaidInv, NEW w \in Workers, Charge(w)
  PROVE  PaidInv'
<1> DEFINE price == job[w].gb * job[w].units
           new == [Outdated[w] EXCEPT !.pc = "list"]
<1>1. job[w] \in Job /\ job[w].pc = "charge" /\ UnitsOK(job[w])
  BY DEF Charge, ShapeInv, PaidInv
<1>2. /\ job' = [Outdated EXCEPT ![w] = new]
      /\ ahead' = [made |-> ahead.made - price, charged |-> ahead.charged + price]
  BY DEF Charge
<1>3. job[w].gb \in Nat /\ price \in Nat /\ price >= job[w].gb
  <2>1. job[w].gb \in Nat /\ job[w].units \in {1, 2}
    BY <1>1 DEF Job, UnitsOK
  <2> QED  BY <2>1
<1>4. /\ ahead \in [made : Int, charged : Int] /\ ahead' \in [made : Int, charged : Int]
      /\ ahead'.made = ahead.made - price /\ ahead'.charged = ahead.charged + price
  <2> HIDE DEF price
  <2> QED  BY <1>2, <1>3 DEF PaidInv
<1>5. Due(job[w]) = price /\ Owed(job[w]) = 0
  BY <1>1 DEF Due, Owed
<1>6. Outdated \in [Workers -> Job]
  BY OutdatedJobs
<1>7. new.pc = "list" /\ new.gb = job[w].gb /\ new.units = job[w].units
  BY <1>6, OutdatedPaid DEF Job
<1> HIDE DEF new
<1>8. job'[w] = new /\ \A v \in Workers \ {w} : job'[v] = Outdated[v]
  BY <1>2, <1>6
<1>9. UnitsOK(new) /\ Due(new) = 0 /\ Owed(new) = job[w].gb
  BY <1>1, <1>7 DEF UnitsOK, Due, Owed
<1> HIDE DEF price
<1>10. /\ ahead'.made - Due(job'[w]) >= ahead.made - Due(job[w])
       /\ ahead'.charged - Owed(job'[w]) >= ahead.charged - Owed(job[w])
  BY <1>3, <1>4, <1>5, <1>8, <1>9
<1>11. \A v \in Workers \ {w} : UnitsOK(job'[v]) /\ Due(job'[v]) = Due(job[v])
                                /\ Owed(job'[v]) = Owed(job[v])
  BY <1>8, OutdatedPaid
<1> QED  BY <1>4, <1>8, <1>9, <1>10, <1>11, PaidMoves

LEMMA PaidByList ==
  ASSUME ShapeInv, ShapeInv', PaidInv, NEW w \in Workers, List(w)
  PROVE  PaidInv'
<1>1. /\ job[w].pc = "list" /\ job' = [job EXCEPT ![w] = NoJob]
      /\ ahead' = ahead \/ ahead' = [ahead EXCEPT !.charged = ahead.charged - job[w].gb]
  BY DEF List, Finish, PaidInv
<1>2. job[w].gb \in Nat /\ Due(job[w]) = 0 /\ Owed(job[w]) = job[w].gb
  BY <1>1 DEF ShapeInv, Job, Due, Owed
<1>3. /\ ahead \in [made : Int, charged : Int] /\ ahead' \in [made : Int, charged : Int]
      /\ ahead'.made = ahead.made /\ ahead'.charged >= ahead.charged - job[w].gb
  BY <1>1, <1>2 DEF PaidInv
<1>4. job'[w] = NoJob /\ \A v \in Workers \ {w} : job'[v] = job[v]
  BY <1>1 DEF ShapeInv
<1>5. /\ ahead'.made - Due(job'[w]) >= ahead.made - Due(job[w])
      /\ ahead'.charged - Owed(job'[w]) >= ahead.charged - Owed(job[w])
  BY <1>2, <1>3, <1>4, IdlePaid
<1>6. \A v \in Workers \ {w} : UnitsOK(job'[v]) /\ Due(job'[v]) = Due(job[v])
                               /\ Owed(job'[v]) = Owed(job[v])
  BY <1>4 DEF PaidInv
<1> QED  BY <1>3, <1>4, <1>5, <1>6, IdlePaid, PaidMoves

LEMMA PaidByPanel ==
  ASSUME ShapeInv, ShapeInv', PaidInv, NEW w \in Workers,
         ProbeAnswers(w) \/ ProbeFails(w) \/ CountDependents(w) \/ RemoveServer(w)
  PROVE  PaidInv'
<1>0. ahead' = ahead /\ job[w] \in Job /\ job[w].pc \in {"probe", "count", "remove"}
  BY DEF ProbeAnswers, ProbeFails, CountDependents, RemoveServer, KeepRest, ShapeInv
<1>1. PICK j \in Job : job' = [job EXCEPT ![w] = j] /\ j.pc \in {"idle", "count", "remove"}
  <2>1. CASE Finish(w)
    BY <2>1, IdleJob DEF Finish
  <2>2. CASE ProbeFails(w)
    <3> DEFINE new == [job[w] EXCEPT !.pc = "count"]
    <3>1. job' = [job EXCEPT ![w] = new]
      BY <2>2 DEF ProbeFails, Continue
    <3>2. new \in Job /\ new.pc = "count"
      BY <1>0 DEF Job, Stages
    <3> QED  BY <3>1, <3>2
  <2>3. CASE CountDependents(w) /\ ~Finish(w)
    <3> DEFINE some == ListedOn(job[w].server) # {}
               new == [job[w] EXCEPT !.pc = "remove", !.some = some]
    <3>1. job' = [job EXCEPT ![w] = new]
      BY <1>0, <2>3 DEF CountDependents, Job, ShapeInv
    <3>2. new \in Job /\ new.pc = "remove"
      BY <1>0 DEF Job, Stages
    <3> QED  BY <3>1, <3>2
  <2> QED  BY <2>1, <2>2, <2>3 DEF ProbeAnswers, RemoveServer
<1>2. UnitsOK(j) /\ Due(j) = 0 /\ Owed(j) = 0
  BY <1>1 DEF UnitsOK, Due, Owed
<1> QED  BY <1>0, <1>1, <1>2, PaidBegins

(***************************************************************************)
(* At no time has more been charged than was built, nor more been listed   *)
(* than was charged, whatever the panels answer and however purchases and  *)
(* administrators interleave (handlers_user.py:1396-1418).                 *)
(***************************************************************************)
THEOREM PaysForWhatExists == PanelsSpec => []ChargeFollowsBuild
<1>1. PanelsInit => PaidInv
  <2> SUFFICES ASSUME PanelsInit PROVE PaidInv
    OBVIOUS
  <2> DEFINE d == [w \in Workers |-> Due(job[w])]
             o == [w \in Workers |-> Owed(job[w])]
  <2>1. \A w \in Workers : UnitsOK(job[w]) /\ d[w] = 0 /\ o[w] = 0
    BY IdlePaid DEF PanelsInit
  <2> HIDE DEF d, o
  <2>2. Sum(d, Workers) = 0 /\ Sum(o, Workers) = 0
    BY <2>1, PanelsAssumption, SumZero
  <2>3. ahead = [made |-> 0, charged |-> 0]
    BY DEF PanelsInit
  <2> QED  BY <2>1, <2>2, <2>3 DEF PaidInv, d, o
<1>2. ASSUME CreditInv, CreditInv', PaidInv, [PanelsNext]_panelVars
      PROVE  PaidInv'
  <2>1. ShapeInv /\ ShapeInv'
    BY <1>2 DEF CreditInv
  <2>2. CASE UNCHANGED <<job, ahead>>
    BY <1>2, <2>1, <2>2, PaidRests DEF PaidInv
  <2>3. CASE UNCHANGED panelVars \/ OpenDialog \/ \E c \in configs : DeleteConfig(c)
    BY <2>2, <2>3 DEF panelVars, OpenDialog, DeleteConfig
  <2> QED
    BY <1>2, <2>1, <2>3, PaidByAdmin, PaidByPurchase, PaidByUser, PaidByFailure,
       PaidByCharge, PaidByList, PaidByPanel DEF PanelsNext
<1>3. PaidInv /\ CreditInv => ChargeFollowsBuild
  <2> SUFFICES ASSUME PaidInv, CreditInv PROVE ChargeFollowsBuild
    OBVIOUS
  <2> DEFINE d == [w \in Workers |-> Due(job[w])]
             o == [w \in Workers |-> Owed(job[w])]
  <2>1. \A w \in Workers : d[w] \in Nat /\ o[w] \in Nat
    BY DueIsNat DEF PaidInv, CreditInv, ShapeInv
  <2>2. Sum(d, Workers) <= ahead.made /\ Sum(o, Workers) <= ahead.charged
        /\ ahead.made \in Int /\ ahead.charged \in Int
    BY DEF PaidInv
  <2> HIDE DEF d, o
  <2>3. Sum(d, Workers) \in Nat /\ Sum(o, Workers) \in Nat
    BY <2>1, PanelsAssumption, SumNat
  <2> QED  BY <2>2, <2>3 DEF ChargeFollowsBuild
<1> QED  BY <1>1, <1>2, <1>3, CreditAlways, PTL DEF PanelsSpec

-----------------------------------------------------------------------------
(* Requests: no credit is granted without a bot of its own and a receipt.  *)

Row == [user : Applicants, status : Statuses, receipt : BOOLEAN, granted : Nat]
ClerkDeeds == {"idle", "decide", "state", "data", "both", "dismiss", "clear", "submit",
          "create", "receipt", "token", "register", "grant", "complete"}
Work == [does : ClerkDeeds, user : Applicants \cup {"none"}, req : Nat,
         token : BotTokens \cup {"none"}, to : Statuses \cup {"none"},
         then : {"idle", "state", "both", "dismiss"}]
Dialog == [step : {"none", "volume", "text", "token", "owner"}, req : Nat,
           token : BotTokens \cup {"none"}]

(* Handlers that are between the registration of a bot and the grant.      *)
Granting(r) == {c \in Clerks : clerk[c].does = "grant" /\ clerk[c].req = r}

RowInv(q) ==
    /\ q.status \in {"awaiting_payment_review", "awaiting_bot_info", "completed"}
         => q.receipt
    /\ q.granted > 0 => q.receipt
    /\ q.status = "completed" => q.granted > 0

(***************************************************************************)
(* What a handler has read stays true although others change the row:      *)
(* receipts and grants are never taken back.                               *)
(***************************************************************************)
WorkInv(w) ==
    /\ w.does \in {"decide", "receipt", "register", "grant", "complete"} => w.req \in Ids
    /\ w.does \in {"register", "grant", "complete"} => requests[w.req].receipt
    /\ w.does = "decide" =>
         /\ w.to \in Statuses \ {"awaiting_payment_review", "completed"}
         /\ w.to = "awaiting_bot_info" => requests[w.req].receipt
    /\ w.does = "complete" => requests[w.req].granted > 0
    /\ w.does \in {"submit", "create"} => w.user \in Applicants

RequestShape == /\ requests \in Seq(Row)
            /\ flow \in [Applicants -> Dialog]
            /\ clerk \in [Clerks -> Work]
            /\ IsFiniteSet(sold)
            /\ \A s \in sold : s = [token |-> s.token, req |-> s.req]
BackedInv == \A r \in Ids : requests[r].granted + Cardinality(Granting(r))
                              <= Cardinality(BotsOf(r))
RequestInv == /\ RequestShape /\ BackedInv
              /\ \A r \in Ids : RowInv(requests[r])
              /\ \A c \in Clerks : WorkInv(clerk[c])

LEMMA Counts ==
  ASSUME IsFiniteSet(sold), NEW r
  PROVE  /\ IsFiniteSet(Granting(r)) /\ Cardinality(Granting(r)) \in Nat
         /\ IsFiniteSet(BotsOf(r)) /\ Cardinality(BotsOf(r)) \in Nat
  BY RequestsAssumption, FS_Subset, FS_CardinalityType DEF Granting, BotsOf

LEMMA RowAt == ASSUME RequestShape, NEW r \in Ids PROVE requests[r] \in Row
  BY DEF RequestShape, Ids

LEMMA InvGivesBacked == ASSUME RequestInv PROVE GrantsAreBacked
<1> SUFFICES ASSUME NEW r \in Ids
             PROVE  /\ requests[r].granted <= Cardinality(BotsOf(r))
                    /\ requests[r].granted > 0 => requests[r].receipt
                    /\ requests[r].status = "completed" => requests[r].granted > 0
  BY DEF GrantsAreBacked
<1>1. requests[r] \in Row
  BY RowAt DEF RequestInv
<1>2. requests[r].granted \in Nat /\ Cardinality(Granting(r)) \in Nat /\ Cardinality(BotsOf(r)) \in Nat
  BY <1>1, Counts DEF RequestInv, RequestShape, Row
<1>3. requests[r].granted + Cardinality(Granting(r)) <= Cardinality(BotsOf(r))
  BY DEF RequestInv, BackedInv
<1>4. QED  BY <1>2, <1>3 DEF RequestInv, RowInv

LEMMA FreeWork == Free \in Work /\ WorkInv(Free) /\ Free.does = "idle"
  BY DEF Free, Work, ClerkDeeds, WorkInv

LEMMA RequestsStart == ASSUME RequestsInit PROVE RequestInv
<1>1. Ids = {}
  BY DEF RequestsInit, Ids
<1>2. RequestShape
  <2>1. NoFlow \in Dialog
    BY DEF NoFlow, Dialog
  <2>2. QED  BY <2>1, FreeWork, FS_EmptySet DEF RequestsInit, RequestShape
<1>3. \A c \in Clerks : WorkInv(clerk[c])
  BY FreeWork DEF RequestsInit
<1>4. QED  BY <1>1, <1>2, <1>3 DEF RequestInv, BackedInv

(* A handler goes on, neither to nor from a grant or from one by giving up. *)
LEMMA ClerkStep ==
  ASSUME RequestInv, NEW c \in Clerks, NEW new \in Work,
         clerk' = [clerk EXCEPT ![c] = new], new.does # "grant", WorkInv(new),
         flow' \in [Applicants -> Dialog], UNCHANGED <<requests, sold>>
  PROVE  RequestInv'
<1>1. \A d \in Clerks : clerk'[d] = IF d = c THEN new ELSE clerk[d]
  BY DEF RequestInv, RequestShape
<1>2. RequestShape'
  BY DEF RequestInv, RequestShape
<1>3. \A r \in Ids' : RowInv(requests[r])'
  BY DEF RequestInv, RowInv, Ids
<1>4. \A d \in Clerks : WorkInv(clerk[d])'
  BY <1>1 DEF RequestInv, WorkInv, Ids
<1>5. BackedInv'
  <2> SUFFICES ASSUME NEW r \in Ids
               PROVE  requests[r].granted + Cardinality(Granting(r)') <= Cardinality(BotsOf(r))
    BY DEF BackedInv, BotsOf, Ids
  <2>1. Granting(r)' \subseteq Granting(r)
    BY <1>1 DEF Granting
  <2>2. Cardinality(Granting(r)') <= Cardinality(Granting(r)) /\ Cardinality(Granting(r)') \in Nat
    BY <2>1, Counts, FS_Subset, FS_CardinalityType DEF RequestInv, RequestShape
  <2>3. requests[r].granted \in Nat
    BY RowAt DEF RequestInv, Row
  <2>4. QED  BY <2>2, <2>3, Counts DEF RequestInv, RequestShape, BackedInv
<1>6. QED  BY <1>2, <1>3, <1>4, <1>5 DEF RequestInv

(***************************************************************************)
(* A handler writes a row and goes on.  The row keeps its receipt, and     *)
(* what it gains in grants the handler gives up as one between             *)
(* registration and grant.                                                 *)
(***************************************************************************)
LEMMA RowStep ==
  ASSUME RequestInv, NEW c \in Clerks, NEW new \in Work, NEW r \in Ids, NEW q \in Row,
         requests' = [requests EXCEPT ![r] = q], RowInv(q),
         requests[r].receipt => q.receipt,
         \/ q.granted = requests[r].granted
         \/ /\ q.granted = requests[r].granted + 1
            /\ clerk[c].does = "grant" /\ clerk[c].req = r,
         clerk' = [clerk EXCEPT ![c] = new], new.does # "grant",
         WorkInv(new)', UNCHANGED <<flow, sold>>
  PROVE  RequestInv'
<1>1. /\ requests' \in Seq(Row) /\ Ids' = Ids
      /\ \A i \in Ids : requests'[i] = IF i = r THEN q ELSE requests[i]
  BY LenProperties, ExceptSeq DEF RequestInv, RequestShape, Ids
<1>2. \A d \in Clerks : clerk'[d] = IF d = c THEN new ELSE clerk[d]
  BY DEF RequestInv, RequestShape
<1>3. RequestShape'
  BY <1>1 DEF RequestInv, RequestShape
<1>4. \A i \in Ids' : RowInv(requests[i])'
  BY <1>1 DEF RequestInv, RowInv
<1>5. requests[r].granted \in Nat /\ q.granted >= requests[r].granted
  BY RowAt DEF RequestInv, Row
<1>6. \A d \in Clerks : WorkInv(clerk[d])'
  <2> SUFFICES ASSUME NEW d \in Clerks, d # c PROVE WorkInv(clerk[d])'
    BY <1>2
  <2>1. WorkInv(clerk[d]) /\ clerk'[d] = clerk[d]
    BY <1>2 DEF RequestInv
  <2>2. \A i \in Ids : /\ requests[i].receipt => requests'[i].receipt
                       /\ requests[i].granted > 0 => requests'[i].granted > 0
    BY <1>1, <1>5
  <2>3. QED  BY <1>1, <2>1, <2>2 DEF WorkInv
<1>7. BackedInv'
  <2> SUFFICES ASSUME NEW i \in Ids
               PROVE  requests'[i].granted + Cardinality(Granting(i)') <= Cardinality(BotsOf(i))
    BY <1>1 DEF BackedInv, BotsOf
  <2>1. Granting(i)' = Granting(i) \ {c}
    BY <1>2 DEF Granting
  <2>2. /\ Cardinality(Granting(i)') \in Nat
        /\ Cardinality(Granting(i)') = IF c \in Granting(i) THEN Cardinality(Granting(i)) - 1
                                       ELSE Cardinality(Granting(i))
    BY <2>1, Counts, FS_RemoveElement, FS_CardinalityType DEF RequestInv, RequestShape
  <2>3. requests[i].granted + Cardinality(Granting(i)) <= Cardinality(BotsOf(i))
    BY DEF RequestInv, BackedInv
  <2>4. /\ requests[i].granted \in Nat /\ Cardinality(Granting(i)) \in Nat
        /\ Cardinality(BotsOf(i)) \in Nat
    BY RowAt, Counts DEF RequestInv, RequestShape, Row
  <2>5. CASE requests'[i].granted = requests[i].granted
    BY <2>2, <2>3, <2>4, <2>5
  <2>6. CASE requests'[i].granted # requests[i].granted
    <3>1. i = r /\ requests'[i].granted = requests[i].granted + 1 /\ c \in Granting(i)
      BY <1>1, <2>6 DEF Granting
    <3>2. QED  BY <2>2, <2>3, <2>4, <3>1
  <2>7. QED  BY <2>5, <2>6
<1>8. QED  BY <1>3, <1>4, <1>6, <1>7 DEF RequestInv

(* Every verdict that lets the applicant go on was given on a receipt.     *)
LEMMA VerdictFacts ==
  ASSUME NEW v \in Verdicts
  PROVE  /\ v.to \in Statuses \ {"awaiting_payment_review", "completed"}
         /\ v.then \in {"idle", "state", "both", "dismiss"}
         /\ v.to = "awaiting_bot_info" => v.from = {"awaiting_payment_review"}
  BY DEF Verdicts, BotQuotes, BotRejects, BotApproves, BotCancels, UserCancels,
         AppReviews, PanelReviews, Verdict, Pending, InReview, Statuses, Opened

LEMMA LookStep ==
  ASSUME RequestInv, NEW c \in Clerks, NEW r \in Ids, NEW v \in Verdicts, Look(c, r, v)
  PROVE  RequestInv'
<1> DEFINE then == IF v.then = "dismiss" /\ requests[r].status # "awaiting_bot_info"
                   THEN "idle" ELSE v.then
           new == [Free EXCEPT !.does = "decide", !.user = requests[r].user,
                               !.req = r, !.to = v.to, !.then = then]
<1>1. requests[r] \in Row /\ r \in Nat
  BY RowAt DEF RequestInv, RequestShape, Ids
<1>2. clerk' = [clerk EXCEPT ![c] = new] /\ UNCHANGED <<requests, flow, sold>>
  BY DEF Look, Begins
<1>3. then \in {"idle", "state", "both", "dismiss"} /\ v.to \in Statuses
  BY VerdictFacts
<1> HIDE DEF then
<1>4. Free \in Work
  BY FreeWork
<1>5. new \in Work
  <2>1. requests[r].user \in Applicants
    BY <1>1 DEF Row
  <2>2. QED  BY <1>1, <1>3, <1>4, <2>1 DEF Work, ClerkDeeds
<1>6. v.to = "awaiting_bot_info" => requests[r].receipt
  BY VerdictFacts DEF Look, RequestInv, RowInv
<1>7. new.does = "decide" /\ new.req = r /\ new.to = v.to
  BY <1>4 DEF Work
<1> HIDE DEF new
<1>8. WorkInv(new)
  BY <1>6, <1>7, VerdictFacts DEF WorkInv
<1>9. QED  BY <1>2, <1>5, <1>7, <1>8, ClerkStep DEF RequestInv, RequestShape

(* What a handler becomes that only takes another step.                    *)
LEMMA NextDeed ==
  ASSUME RequestInv, NEW c \in Clerks, NEW to \in ClerkDeeds
  PROVE  /\ [clerk[c] EXCEPT !.does = to] \in Work
         /\ [clerk[c] EXCEPT !.does = to].does = to
         /\ [clerk[c] EXCEPT !.does = to].req = clerk[c].req
         /\ [clerk[c] EXCEPT !.does = to].user = clerk[c].user
         /\ [clerk EXCEPT ![c].does = to] = [clerk EXCEPT ![c] = [clerk[c] EXCEPT !.does = to]]
<1>1. clerk[c] \in Work
  BY DEF RequestInv, RequestShape
<1>2. QED  BY <1>1 DEF Work, RequestInv, RequestShape

LEMMA EndStep ==
  ASSUME RequestInv, NEW c \in Clerks, Ends(c), UNCHANGED <<requests, sold>>,
         flow' \in [Applicants -> Dialog]
  PROVE  RequestInv'
  BY FreeWork, ClerkStep DEF Ends

(* The verdict is written, whatever the row has become.                    *)
LEMMA DecideStep ==
  ASSUME RequestInv, NEW c \in Clerks, Decide(c)
  PROVE  RequestInv'
<1> DEFINE r == clerk[c].req
           q == [requests[r] EXCEPT !.status = clerk[c].to]
<1>1. clerk[c] \in Work /\ clerk[c].does = "decide" /\ WorkInv(clerk[c])
  BY DEF Decide, RequestInv, RequestShape
<1>2. r \in Ids /\ requests[r] \in Row /\ RowInv(requests[r])
  BY <1>1, RowAt DEF WorkInv, RequestInv
<1>3. clerk[c].to \in Statuses
  BY <1>1 DEF WorkInv
<1>4. q \in Row /\ q.receipt = requests[r].receipt /\ q.granted = requests[r].granted
      /\ q.status = clerk[c].to
  BY <1>2, <1>3 DEF Row
<1>5. RowInv(q)
  BY <1>1, <1>2, <1>4 DEF RowInv, WorkInv
<1>6. requests' = [requests EXCEPT ![r] = q] /\ UNCHANGED <<flow, sold>>
  BY <1>2 DEF Decide, RequestInv, RequestShape
<1>7. PICK new \in Work : /\ clerk' = [clerk EXCEPT ![c] = new]
                          /\ new.does \in {"idle", "state", "both", "dismiss"}
  <2>1. clerk[c].then \in {"idle", "state", "both", "dismiss"} /\ clerk[c].then \in ClerkDeeds
    BY <1>1 DEF Work, ClerkDeeds
  <2>2. CASE Ends(c)
    BY <2>2, FreeWork DEF Ends
  <2>3. CASE GoesOn(c, clerk[c].then)
    BY <2>1, <2>3, NextDeed DEF GoesOn
  <2>4. QED  BY <2>2, <2>3 DEF Decide
<1>8. WorkInv(new)'
  BY <1>7 DEF WorkInv
<1> HIDE DEF q
<1>9. QED  BY <1>2, <1>4, <1>5, <1>6, <1>7, <1>8, RowStep

(* The steps that lead the applicant on or clear his dialog.               *)
LEMMA DialogStep ==
  ASSUME RequestInv, NEW c \in Clerks,
         \/ SetState(c) \/ UpdateData(c) \/ SetStateAndData(c) \/ ClearFlow(c)
         \/ SubmitClears(c) \/ TakeToken(c) \/ CutShort(c)
  PROVE  RequestInv'
<1>1. UNCHANGED <<requests, sold>>
  BY DEF SetState, UpdateData, SetStateAndData, ClearFlow, SubmitClears, TakeToken, CutShort
<1>2. flow' \in [Applicants -> Dialog]
  <2>1. clerk[c] \in Work /\ flow \in [Applicants -> Dialog]
    BY DEF RequestInv, RequestShape
  <2>2. CASE SetState(c)
    BY <2>1, <2>2 DEF SetState, Dialog
  <2>3. CASE UpdateData(c)
    BY <2>1, <2>3 DEF UpdateData, Dialog, Work
  <2>4. CASE SetStateAndData(c)
    <3>1. [step |-> "token", req |-> clerk[c].req, token |-> "none"] \in Dialog
      BY <2>1 DEF Dialog, Work
    <3>2. QED  BY <2>1, <2>4, <3>1 DEF SetStateAndData
  <2>5. CASE ClearFlow(c) \/ SubmitClears(c)
    <3>1. NoFlow \in Dialog
      BY DEF NoFlow, Dialog
    <3>2. QED  BY <2>1, <2>5, <3>1 DEF ClearFlow, SubmitClears
  <2>6. CASE TakeToken(c)
    <3>1. clerk[c].token \in BotTokens \cup {"none"}
      BY <2>1 DEF Work
    <3>2. CASE clerk[c].user \in Applicants
      <4>1. [flow[clerk[c].user] EXCEPT !.step = "owner", !.token = clerk[c].token] \in Dialog
        BY <2>1, <3>1, <3>2 DEF Dialog
      <4>2. [flow EXCEPT ![clerk[c].user].step = "owner", ![clerk[c].user].token = clerk[c].token]
              = [flow EXCEPT ![clerk[c].user] =
                   [flow[clerk[c].user] EXCEPT !.step = "owner", !.token = clerk[c].token]]
        BY <2>1, <3>2
      <4>3. QED  BY <2>1, <2>6, <4>1, <4>2 DEF TakeToken
    <3>3. CASE clerk[c].user \notin Applicants
      BY <2>1, <2>6, <3>3 DEF TakeToken
    <3>4. QED  BY <3>2, <3>3
  <2>7. CASE CutShort(c)
    BY <2>1, <2>7 DEF CutShort
  <2>8. QED  BY <2>2, <2>3, <2>4, <2>5, <2>6, <2>7
<1>3. CASE Ends(c)
  BY <1>1, <1>2, <1>3, EndStep
<1>4. CASE \/ GoesOn(c, "data")
           \/ SubmitClears(c) /\ GoesOn(c, "create")
  <2>1. PICK to \in {"data", "create"} : /\ GoesOn(c, to)
                                         /\ to = "create" => SubmitClears(c)
    BY <1>4
  <2> DEFINE new == [clerk[c] EXCEPT !.does = to]
  <2>2. to \in ClerkDeeds
    BY DEF ClerkDeeds
  <2>3. /\ new \in Work /\ new.does = to /\ new.user = clerk[c].user
        /\ clerk' = [clerk EXCEPT ![c] = new]
    BY <2>1, <2>2, NextDeed DEF GoesOn
  <2>4. to = "create" => clerk[c].user \in Applicants
    BY <2>1 DEF SubmitClears, RequestInv, WorkInv
  <2> HIDE DEF new
  <2>5. WorkInv(new) /\ new.does # "grant"
    BY <2>1, <2>3, <2>4 DEF WorkInv
  <2>6. QED  BY <1>1, <1>2, <2>3, <2>5, ClerkStep
<1>5. QED
  BY <1>3, <1>4
  DEF SetState, UpdateData, SetStateAndData, ClearFlow, SubmitClears, TakeToken, CutShort

(* The steps that write a row.                                             *)
LEMMA StoreStep ==
  ASSUME RequestInv, NEW c \in Clerks, StoreReceipt(c)
  PROVE  RequestInv'
<1> DEFINE r == clerk[c].req
           q == [requests[r] EXCEPT !.status = "awaiting_payment_review", !.receipt = TRUE]
<1>1. r \in Ids /\ requests[r] \in Row /\ RowInv(requests[r])
  BY RowAt DEF StoreReceipt, RequestInv, WorkInv
<1>2. /\ q \in Row /\ q.receipt /\ q.granted = requests[r].granted
      /\ q.status = "awaiting_payment_review"
  BY <1>1 DEF Row, Statuses, Opened
<1>3. RowInv(q)
  BY <1>2 DEF RowInv
<1>4. /\ requests' = [requests EXCEPT ![r] = q]
      /\ clerk' = [clerk EXCEPT ![c] = Free] /\ UNCHANGED <<flow, sold>>
  BY <1>1 DEF StoreReceipt, Ends, RequestInv, RequestShape
<1>5. WorkInv(Free)'
  BY DEF WorkInv, Free
<1> HIDE DEF q
<1>6. QED  BY <1>1, <1>2, <1>3, <1>4, <1>5, FreeWork, RowStep

LEMMA GrantStep ==
  ASSUME RequestInv, NEW c \in Clerks, GrantCredit(c)
  PROVE  RequestInv'
<1> DEFINE r == clerk[c].req
           q == [requests[r] EXCEPT !.granted = requests[r].granted + 1]
<1>1. /\ r \in Ids /\ requests[r] \in Row /\ RowInv(requests[r])
      /\ requests[r].receipt /\ clerk[c].does = "grant"
  BY RowAt DEF GrantCredit, RequestInv, WorkInv
<1>2. /\ q \in Row /\ q.receipt /\ q.granted = requests[r].granted + 1 /\ q.granted > 0
      /\ q.status = requests[r].status
  BY <1>1 DEF Row
<1>3. RowInv(q)
  BY <1>2 DEF RowInv
<1>4. requests' = [requests EXCEPT ![r] = q] /\ UNCHANGED <<flow, sold>>
  BY <1>1 DEF GrantCredit, RequestInv, RequestShape
<1>5. PICK new \in Work : /\ new.does = "complete" /\ new.req = r
                          /\ clerk' = [clerk EXCEPT ![c] = new]
  <2>1. "complete" \in ClerkDeeds
    BY DEF ClerkDeeds
  <2>2. QED  BY <2>1, NextDeed DEF GrantCredit, GoesOn
<1>6. r \in Ids' /\ requests'[r] = q
  BY <1>1, <1>4 DEF Ids, RequestInv, RequestShape
<1> HIDE DEF q
<1>7. WorkInv(new)'
  BY <1>2, <1>5, <1>6 DEF WorkInv
<1>8. QED  BY <1>1, <1>2, <1>3, <1>4, <1>5, <1>7, RowStep

LEMMA CompleteStep ==
  ASSUME RequestInv, NEW c \in Clerks, CompleteRequest(c)
  PROVE  RequestInv'
<1> DEFINE r == clerk[c].req
           q == [requests[r] EXCEPT !.status = "completed"]
<1>1. /\ r \in Ids /\ requests[r] \in Row /\ requests[r].receipt
      /\ requests[r].granted > 0
  BY RowAt DEF CompleteRequest, RequestInv, WorkInv
<1>2. /\ q \in Row /\ q.receipt /\ q.granted = requests[r].granted /\ q.granted > 0
      /\ q.status = "completed"
  BY <1>1 DEF Row, Statuses
<1>3. RowInv(q)
  BY <1>2 DEF RowInv
<1>4. requests' = [requests EXCEPT ![r] = q] /\ UNCHANGED <<flow, sold>>
  BY <1>1 DEF CompleteRequest, RequestInv, RequestShape
<1>5. PICK new \in Work : new.does = "clear" /\ clerk' = [clerk EXCEPT ![c] = new]
  <2>1. "clear" \in ClerkDeeds
    BY DEF ClerkDeeds
  <2>2. QED  BY <2>1, NextDeed DEF CompleteRequest, GoesOn
<1> HIDE DEF q
<1>6. WorkInv(new)'
  BY <1>5 DEF WorkInv
<1>7. QED  BY <1>1, <1>2, <1>3, <1>4, <1>5, <1>6, RowStep

(* A new row has been granted nothing and no handler is about it.          *)
LEMMA CreateStep ==
  ASSUME RequestInv, NEW c \in Clerks, CreateRequest(c)
  PROVE  RequestInv'
<1> DEFINE q == [user |-> clerk[c].user, status |-> "pending_review",
                 receipt |-> FALSE, granted |-> 0]
<1>1. q \in Row /\ RowInv(q) /\ q.granted = 0
  <2>1. clerk[c].user \in Applicants
    BY DEF CreateRequest, RequestInv, WorkInv
  <2>2. QED  BY <2>1 DEF Row, RowInv, Statuses, Opened
<1>2. /\ requests' = Append(requests, q) /\ clerk' = [clerk EXCEPT ![c] = Free]
      /\ UNCHANGED <<flow, sold>>
  BY DEF CreateRequest, Ends
<1> HIDE DEF q
<1> PICK n : n = Len(requests) + 1
  OBVIOUS
<1>3. /\ requests' \in Seq(Row) /\ Ids' = Ids \cup {n} /\ n \notin Ids
      /\ requests'[n] = q /\ \A i \in Ids : requests'[i] = requests[i]
  <2>1. requests \in Seq(Row)
    BY DEF RequestInv, RequestShape
  <2>2. requests' \in Seq(Row) /\ Len(requests') = n
    BY <1>1, <1>2, <2>1, AppendProperties
  <2>3. Ids = 1..Len(requests) /\ Ids' = 1..n /\ Len(requests) \in Nat
    BY <2>1, <2>2, LenProperties DEF Ids
  <2>4. requests'[n] = q /\ \A i \in Ids : requests'[i] = requests[i]
    BY <1>1, <1>2, <2>1, <2>3, AppendProperties
  <2>5. QED  BY <2>2, <2>3, <2>4
<1>4. \A d \in Clerks : clerk'[d] = IF d = c THEN Free ELSE clerk[d]
  BY <1>2 DEF RequestInv, RequestShape
<1>5. RequestShape'
  BY <1>2, <1>3, FreeWork DEF RequestInv, RequestShape
<1>6. \A i \in Ids' : RowInv(requests[i])'
  BY <1>1, <1>3 DEF RequestInv, RowInv
<1>7. \A d \in Clerks : WorkInv(clerk[d])'
  <2>1. WorkInv(Free)'
    BY DEF WorkInv, Free
  <2>2. \A d \in Clerks : WorkInv(clerk[d])
    BY DEF RequestInv
  <2>3. QED  BY <1>3, <1>4, <2>1, <2>2 DEF WorkInv
<1>8. BackedInv'
  <2>1. \A i : Granting(i)' \subseteq Granting(i)
    BY <1>4 DEF Granting, Free
  <2>2. \A i : /\ Cardinality(Granting(i)') <= Cardinality(Granting(i))
               /\ Cardinality(Granting(i)') \in Nat /\ Cardinality(Granting(i)) \in Nat
               /\ Cardinality(BotsOf(i)) \in Nat
    BY <2>1, Counts, FS_Subset, FS_CardinalityType DEF RequestInv, RequestShape
  <2>3. Granting(n)' = {}
    BY <1>3, <2>1 DEF Granting, RequestInv, WorkInv
  <2>4. Cardinality(Granting(n)') = 0
    BY <2>3, FS_EmptySet
  <2>5. \A i \in Ids : requests[i].granted \in Nat
    BY RowAt DEF RequestInv, Row
  <2>6. \A i \in Ids : requests'[i].granted + Cardinality(Granting(i)') <= Cardinality(BotsOf(i))
    BY <1>3, <2>2, <2>5 DEF RequestInv, BackedInv
  <2>7. requests'[n].granted + Cardinality(Granting(n)') <= Cardinality(BotsOf(n))
    BY <1>1, <1>3, <2>2, <2>4
  <2>8. QED  BY <1>2, <1>3, <2>6, <2>7 DEF BackedInv, BotsOf
<1>9. QED  BY <1>5, <1>6, <1>7, <1>8 DEF RequestInv

(* A registered bot is one more for its request, and its grant is due.     *)
LEMMA RegisterStep ==
  ASSUME RequestInv, NEW c \in Clerks, RegisterBot(c)
  PROVE  RequestInv'
<1>1. CASE clerk[c].token \in {s.token : s \in sold}
  BY <1>1, EndStep DEF RegisterBot, RequestInv, RequestShape
<1>2. CASE clerk[c].token \notin {s.token : s \in sold}
  <2> DEFINE r == clerk[c].req
             bot == [token |-> clerk[c].token, req |-> r]
  <2>1. sold' = sold \cup {bot} /\ UNCHANGED <<requests, flow>>
    BY <1>2 DEF RegisterBot
  <2>2. bot \notin sold
    BY <1>2
  <2>3. PICK new \in Work : /\ new.does = "grant" /\ new.req = r
                            /\ clerk' = [clerk EXCEPT ![c] = new]
    <3>1. "grant" \in ClerkDeeds
      BY DEF ClerkDeeds
    <3>2. QED  BY <1>2, <3>1, NextDeed DEF RegisterBot, GoesOn
  <2>4. r \in Ids /\ requests[r].receipt /\ clerk[c].does = "register"
    BY DEF RegisterBot, RequestInv, WorkInv
  <2>5. \A d \in Clerks : clerk'[d] = IF d = c THEN new ELSE clerk[d]
    BY <2>3 DEF RequestInv, RequestShape
  <2>6. RequestShape'
    <3>1. IsFiniteSet(sold')
      BY <2>1, FS_AddElement DEF RequestInv, RequestShape
    <3>2. \A s \in sold' : s = [token |-> s.token, req |-> s.req]
      BY <2>1 DEF RequestInv, RequestShape
    <3>3. QED  BY <2>1, <2>3, <3>1, <3>2 DEF RequestInv, RequestShape
  <2>7. /\ \A i \in Ids' : RowInv(requests[i])'
        /\ \A d \in Clerks : WorkInv(clerk[d])'
    <3>1. WorkInv(new)'
      BY <2>1, <2>3, <2>4 DEF WorkInv, Ids
    <3>2. \A d \in Clerks : WorkInv(clerk[d])
      BY DEF RequestInv
    <3>3. QED  BY <2>1, <2>5, <3>1, <3>2 DEF RequestInv, WorkInv, RowInv, Ids
  <2>8. BackedInv'
    <3> SUFFICES ASSUME NEW i \in Ids
                 PROVE  requests[i].granted + Cardinality(Granting(i)') <= Cardinality(BotsOf(i)')
      BY <2>1 DEF BackedInv, Ids
    <3>1. /\ requests[i].granted + Cardinality(Granting(i)) <= Cardinality(BotsOf(i))
          /\ requests[i].granted \in Nat /\ Cardinality(Granting(i)) \in Nat
          /\ Cardinality(BotsOf(i)) \in Nat
          /\ IsFiniteSet(Granting(i)) /\ IsFiniteSet(BotsOf(i))
      BY RowAt, Counts DEF RequestInv, RequestShape, BackedInv, Row
    <3>2. CASE i = r
      <4>1. Granting(i)' = Granting(i) \cup {c} /\ c \notin Granting(i)
        BY <2>3, <2>4, <2>5, <3>2 DEF Granting
      <4>2. BotsOf(i)' = BotsOf(i) \cup {bot} /\ bot \notin BotsOf(i)
        BY <2>1, <2>2, <3>2 DEF BotsOf
      <4>3. Cardinality(Granting(i)') = Cardinality(Granting(i)) + 1
        BY <3>1, <4>1, FS_AddElement
      <4>4. Cardinality(BotsOf(i)') = Cardinality(BotsOf(i)) + 1
        BY <3>1, <4>2, FS_AddElement
      <4>5. QED  BY <3>1, <4>3, <4>4
    <3>3. CASE i # r
      <4>1. Granting(i)' = Granting(i)
        BY <2>3, <2>4, <2>5, <3>3 DEF Granting
      <4>2. BotsOf(i)' = BotsOf(i)
        BY <2>1, <3>3 DEF BotsOf
      <4>3. QED  BY <3>1, <4>1, <4>2
    <3>4. QED  BY <3>2, <3>3
  <2>9. QED  BY <2>6, <2>7, <2>8 DEF RequestInv
<1>3. QED  BY <1>1, <1>2

(* A set of ids has a newest one: the one nearest to n.                    *)
LEMMA NewestIsOne ==
  ASSUME NEW n \in Nat, NEW S, S \subseteq 1..n, S # {}
  PROVE  Newest(S) \in S
<1> DEFINE far == {n - r : r \in S}
<1>1. far \subseteq Nat /\ far # {}
  <2>1. \A r \in S : n - r \in Nat
    OBVIOUS
  <2>2. far # {}
    OBVIOUS
  <2>3. QED  BY <2>1, <2>2
<1>2. \E x \in far : \A y \in far : ~(<<y, x>> \in OpToRel(<, Nat))
  BY <1>1, NatLessThanWellFounded, WFMin, Zenon
<1>3. \A x, y \in Nat : <<y, x>> \in OpToRel(<, Nat) <=> y < x
  BY Zenon DEF OpToRel
<1>4. PICK x \in far : \A y \in far : ~(y < x)
  BY <1>1, <1>2, <1>3
<1>5. PICK r \in S : x = n - r
  BY <1>4
<1>6. \A q \in S : q <= r
  <2> SUFFICES ASSUME NEW q \in S PROVE q <= r
    OBVIOUS
  <2>1. n - q \in far /\ ~(n - q < n - r)
    BY <1>4, <1>5
  <2>2. QED  BY <2>1
<1>7. QED  BY <1>6 DEF Newest

(* The applicant's messages.                                               *)
LEMMA BeginStep ==
  ASSUME RequestInv, NEW c \in Clerks, NEW new \in Work, Begins(c, new),
         new.does # "grant", WorkInv(new), UNCHANGED <<requests, flow, sold>>
  PROVE  RequestInv'
  BY ClerkStep DEF Begins, RequestInv, RequestShape

LEMMA MessageStep ==
  ASSUME RequestInv, NEW c \in Clerks, NEW u \in Applicants,
         \/ GiveText(c, u) \/ SendReceipt(c, u) \/ GiveOwner(c, u)
         \/ \E t \in BotTokens : GiveToken(c, u, t)
  PROVE  RequestInv'
<1>1. Free \in Work /\ flow[u] \in Dialog /\ UNCHANGED <<requests, flow, sold>>
  BY FreeWork
  DEF RequestInv, RequestShape, GiveText, SendReceipt, GiveOwner, GiveToken
<1>2. CASE GiveText(c, u)
  <2> DEFINE new == [Free EXCEPT !.does = "submit", !.user = u]
  <2>1. new \in Work /\ new.does = "submit" /\ new.user = u
    BY <1>1 DEF Work, ClerkDeeds
  <2>2. Begins(c, new)
    BY <1>2 DEF GiveText
  <2> HIDE DEF new
  <2>3. WorkInv(new)
    BY <2>1 DEF WorkInv
  <2>4. QED  BY <1>1, <2>1, <2>2, <2>3, BeginStep
<1>3. CASE \E t \in BotTokens : GiveToken(c, u, t)
  <2>1. PICK t \in BotTokens : GiveToken(c, u, t)
    BY <1>3
  <2> DEFINE new == [Free EXCEPT !.does = "token", !.user = u, !.token = t]
  <2>2. new \in Work /\ new.does = "token"
    BY <1>1 DEF Work, ClerkDeeds
  <2>3. Begins(c, new)
    BY <2>1 DEF GiveToken
  <2> HIDE DEF new
  <2>4. WorkInv(new)
    BY <2>2 DEF WorkInv
  <2>5. QED  BY <1>1, <2>2, <2>3, <2>4, BeginStep
<1>4. CASE SendReceipt(c, u)
  <2> DEFINE r == Newest(OpenOf(u))
             new == [Free EXCEPT !.does = "receipt", !.user = u, !.req = r]
  <2>1. r \in Ids /\ r \in Nat
    <3>1. OpenOf(u) # {} /\ OpenOf(u) \subseteq 1..Len(requests) /\ Len(requests) \in Nat
      BY <1>4, LenProperties DEF SendReceipt, OpenOf, RequestInv, RequestShape, Ids
    <3>2. r \in OpenOf(u)
      BY <3>1, NewestIsOne
    <3>3. QED  BY <3>1, <3>2 DEF OpenOf
  <2> HIDE DEF r
  <2>2. new \in Work /\ new.does = "receipt" /\ new.req = r
    BY <1>1, <2>1 DEF Work, ClerkDeeds
  <2>3. Begins(c, new)
    BY <1>4 DEF SendReceipt, r
  <2> HIDE DEF new
  <2>4. WorkInv(new)
    BY <2>1, <2>2 DEF WorkInv
  <2>5. QED  BY <1>1, <2>2, <2>3, <2>4, BeginStep
<1>5. CASE GiveOwner(c, u)
  <2> DEFINE r == flow[u].req
             good == r \in Ids /\ requests[r].status = "awaiting_bot_info"
             does == IF good THEN "register" ELSE "clear"
             new == [Free EXCEPT !.does = does, !.user = u, !.req = r, !.token = flow[u].token]
  <2>1. Begins(c, new)
    BY <1>5 DEF GiveOwner
  <2>2. does \in {"register", "clear"} /\ (does = "register" => good)
    OBVIOUS
  <2>3. does = "register" => r \in Ids /\ requests[r].receipt
    BY <2>2 DEF RequestInv, RowInv
  <2> HIDE DEF good, does
  <2>4. r \in Nat /\ flow[u].token \in BotTokens \cup {"none"}
    BY <1>1 DEF Dialog
  <2>5. new \in Work /\ new.does = does /\ new.req = r
    BY <1>1, <2>2, <2>4 DEF Work, ClerkDeeds
  <2> HIDE DEF new, r
  <2>6. WorkInv(new)
    BY <2>2, <2>3, <2>5 DEF WorkInv
  <2>7. QED  BY <1>1, <2>1, <2>2, <2>5, <2>6, BeginStep
<1>6. QED  BY <1>2, <1>3, <1>4, <1>5

LEMMA FlowStep ==
  ASSUME RequestInv, NEW u \in Applicants, Apply(u) \/ GiveVolume(u) \/ LeaveFlow(u)
  PROVE  RequestInv'
<1>1. UNCHANGED <<requests, clerk, sold>>
  BY DEF Apply, GiveVolume, LeaveFlow
<1>2. flow' \in [Applicants -> Dialog]
  <2>1. NoFlow \in Dialog /\ flow \in [Applicants -> Dialog]
    BY DEF RequestInv, RequestShape, NoFlow, Dialog
  <2>2. QED  BY <2>1 DEF Apply, GiveVolume, LeaveFlow, Dialog
<1>3. QED
  BY <1>1, <1>2
  DEF RequestInv, RequestShape, BackedInv, RowInv, WorkInv, Ids, Granting, BotsOf

LEMMA RequestStep ==
  ASSUME RequestInv, [RequestsNext]_requestVars
  PROVE  RequestInv'
<1>1. CASE UNCHANGED requestVars
  BY <1>1 DEF requestVars, RequestInv, RequestShape, BackedInv, RowInv, WorkInv, Ids,
              Granting, BotsOf
<1>2. CASE \E u \in Applicants : Apply(u) \/ GiveVolume(u) \/ LeaveFlow(u)
  BY <1>2, FlowStep
<1>3. CASE \E c \in Clerks : Handles(c)
  BY <1>3, DecideStep, DialogStep, CreateStep, StoreStep, RegisterStep,
     GrantStep, CompleteStep DEF Handles
<1>4. CASE \E c \in Clerks :
             \/ \E r \in Ids, v \in Verdicts : Look(c, r, v)
             \/ \E u \in Applicants :
                  \/ GiveText(c, u) \/ SendReceipt(c, u) \/ GiveOwner(c, u)
                  \/ \E t \in BotTokens : GiveToken(c, u, t)
  BY <1>4, LookStep, MessageStep
<1>5. QED  BY <1>1, <1>2, <1>3, <1>4 DEF RequestsNext

(***************************************************************************)
(* Each grant of a request has a bot of its own and a receipt, and what is *)
(* completed was granted (handlers_user.py:2208-2240).                     *)
(***************************************************************************)
THEOREM GrantsAreBackedAlways == RequestsSpec => []GrantsAreBacked
<1>1. RequestsInit => RequestInv
  BY RequestsStart
<1>2. RequestInv /\ [RequestsNext]_requestVars => RequestInv'
  BY RequestStep
<1>3. RequestInv => GrantsAreBacked
  BY InvGivesBacked
<1>4. QED  BY <1>1, <1>2, <1>3, PTL DEF RequestsSpec

-----------------------------------------------------------------------------
(* Requests: their types, with the bounds.  A handler may grant only once, *)
(* so the grants of a request, with the handlers that may still give one,  *)
(* are no more than the handlers ever started.                             *)

DueTo(r) == {c \in Clerks : clerk[c].does \in {"register", "grant"} /\ clerk[c].req = r}

FlowBound(n) ==
    \A u \in Applicants : /\ flow[u].req <= n
                          /\ flow[u].step = "owner" => flow[u].token \in BotTokens
WorkBound(w) ==
    /\ w.req <= Len(requests)
    /\ w.does \in {"token", "register"} => w.token \in BotTokens
BoundsInv ==
    /\ Len(requests) <= MaxRequests /\ calls \in 0..MaxCalls
    /\ FlowBound(Len(requests))
    /\ \A c \in Clerks : WorkBound(clerk[c])
    /\ sold \subseteq [token : BotTokens, req : 1..MaxRequests]
    /\ \A r \in Ids : requests[r].granted + Cardinality(DueTo(r)) <= calls
RequestsInv == RequestInv /\ BoundsInv

LEMMA DueCount ==
  ASSUME NEW r
  PROVE  IsFiniteSet(DueTo(r)) /\ Cardinality(DueTo(r)) \in Nat
BY RequestsAssumption, FS_Subset, FS_CardinalityType DEF DueTo

LEMMA IdsAre ==
  ASSUME RequestInv
  PROVE  Ids = 1..Len(requests) /\ Len(requests) \in Nat
BY LenProperties DEF RequestInv, RequestShape, Ids

LEMMA BoundsStart == ASSUME RequestsInit PROVE RequestsInv
<1>1. RequestInv
  BY RequestsStart
<1>2. Len(requests) = 0 /\ Ids = {}
  BY <1>1, IdsAre DEF RequestsInit, Ids
<1>3. \A u \in Applicants : flow[u].req = 0 /\ flow[u].step # "owner"
  BY DEF RequestsInit, NoFlow
<1>4. \A c \in Clerks : clerk[c].req = 0 /\ clerk[c].does = "idle"
  BY DEF RequestsInit, Free
<1>5. sold = {} /\ calls = 0
  BY DEF RequestsInit
<1> QED
  BY <1>1, <1>2, <1>3, <1>4, <1>5, RequestsAssumption
  DEF RequestsInv, BoundsInv, FlowBound, WorkBound

LEMMA RequestsAreTyped == ASSUME RequestsInv PROVE RequestsTypeOK
<1> USE DEF RequestsInv
<1>1. Len(requests) \in Nat /\ Ids = 1..Len(requests) /\ requests \in Seq(Row)
  BY IdsAre DEF RequestInv, RequestShape
<1>2. \A r \in Ids : requests[r] \in Request
  <2> SUFFICES ASSUME NEW r \in Ids PROVE requests[r] \in Request
    OBVIOUS
  <2>1. requests[r] \in Row /\ Cardinality(DueTo(r)) \in Nat
    BY RowAt, DueCount DEF RequestInv
  <2>2. requests[r].granted \in 0..MaxCalls
    BY <2>1, RequestsAssumption DEF BoundsInv, Row
  <2> QED  BY <2>1, <2>2 DEF Row, Request
<1>3. requests \in Seq(Request)
  BY <1>1, <1>2, SeqDef DEF Ids
<1>4. flow \in [Applicants -> [step : {"none", "volume", "text", "token", "owner"},
                               req : 0..MaxRequests, token : BotTokens \cup {"none"}]]
  <2>1. \A u \in Applicants : flow[u] \in Dialog /\ flow[u].req \in 0..MaxRequests
    BY <1>1, RequestsAssumption DEF RequestInv, RequestShape, BoundsInv, FlowBound, Dialog
  <2> QED  BY <2>1 DEF RequestInv, RequestShape, Dialog
<1>5. \A c \in Clerks : clerk[c].req \in 0..Len(requests)
  BY <1>1 DEF RequestInv, RequestShape, Work, BoundsInv, WorkBound
<1> QED  BY <1>1, <1>3, <1>4, <1>5 DEF BoundsInv, RequestsTypeOK

(* A handler begins.                                                       *)
Began(c, new) ==
    /\ clerk' = [clerk EXCEPT ![c] = new] /\ calls' = calls + 1 /\ calls < MaxCalls
    /\ WorkBound(new) /\ UNCHANGED <<requests, flow, sold>>

LEMMA HandlerBegins ==
  ASSUME RequestsInv, NEW c \in Clerks,
         \/ \E r \in Ids, v \in Verdicts : Look(c, r, v)
         \/ \E u \in Applicants :
              \/ GiveText(c, u) \/ SendReceipt(c, u) \/ GiveOwner(c, u)
              \/ \E t \in BotTokens : GiveToken(c, u, t)
  PROVE  \E new : Began(c, new)
<1> USE DEF RequestsInv
<1>1. Ids = 1..Len(requests) /\ Len(requests) \in Nat
  BY IdsAre
<1>2. ASSUME NEW r \in Ids, NEW v \in Verdicts, Look(c, r, v)
      PROVE  \E new : Began(c, new)
  <2>1. PICK new : /\ Begins(c, new) /\ new.does = "decide" /\ new.req = r
                   /\ UNCHANGED <<requests, flow, sold>>
    BY <1>2 DEF Look, Free
  <2>2. WorkBound(new)
    BY <1>1, <2>1 DEF WorkBound
  <2> QED  BY <2>1, <2>2 DEF Begins, Began
<1>3. ASSUME NEW u \in Applicants, GiveText(c, u)
      PROVE  \E new : Began(c, new)
  <2>1. PICK new : /\ Begins(c, new) /\ new.does = "submit" /\ new.req = 0
                   /\ UNCHANGED <<requests, flow, sold>>
    BY <1>3 DEF GiveText, Free
  <2>2. WorkBound(new)
    BY <1>1, <2>1 DEF WorkBound
  <2> QED  BY <2>1, <2>2 DEF Begins, Began
<1>4. ASSUME NEW u \in Applicants, SendReceipt(c, u)
      PROVE  \E new : Began(c, new)
  <2>1. Newest(OpenOf(u)) \in Ids
    <3>1. OpenOf(u) # {} /\ OpenOf(u) \subseteq 1..Len(requests)
      BY <1>1, <1>4 DEF SendReceipt, OpenOf
    <3> QED  BY <1>1, <3>1, NewestIsOne
  <2>2. PICK new : /\ Begins(c, new) /\ new.does = "receipt" /\ new.req = Newest(OpenOf(u))
                   /\ UNCHANGED <<requests, flow, sold>>
    BY <1>4 DEF SendReceipt, Free
  <2>3. WorkBound(new)
    BY <1>1, <2>1, <2>2 DEF WorkBound
  <2> QED  BY <2>2, <2>3 DEF Begins, Began
<1>5. ASSUME NEW u \in Applicants, GiveOwner(c, u)
      PROVE  \E new : Began(c, new)
  <2>1. PICK new : /\ Begins(c, new) /\ new.req = flow[u].req /\ new.token = flow[u].token
                   /\ new.does \in {"register", "clear"}
                   /\ UNCHANGED <<requests, flow, sold>>
    BY <1>5 DEF GiveOwner, Free
  <2>2. flow[u].step = "owner"
    BY <1>5 DEF GiveOwner
  <2>3. WorkBound(new)
    BY <2>1, <2>2 DEF WorkBound, BoundsInv, FlowBound
  <2> QED  BY <2>1, <2>3 DEF Begins, Began
<1>6. ASSUME NEW u \in Applicants, NEW t \in BotTokens, GiveToken(c, u, t)
      PROVE  \E new : Began(c, new)
  <2>1. PICK new : /\ Begins(c, new) /\ new.token = t /\ new.req = 0
                   /\ UNCHANGED <<requests, flow, sold>>
    BY <1>6 DEF GiveToken, Free
  <2>2. WorkBound(new)
    BY <1>1, <2>1 DEF WorkBound
  <2> QED  BY <2>1, <2>2 DEF Begins, Began
<1> QED  BY <1>2, <1>3, <1>4, <1>5, <1>6

LEMMA OneMore ==
  ASSUME NEW S, IsFiniteSet(S), NEW x, NEW T, T \subseteq S \cup {x}
  PROVE  Cardinality(T) \in Nat /\ Cardinality(T) <= Cardinality(S) + 1
<1> PICK n : n = Cardinality(S)
  OBVIOUS
<1>1. n \in Nat
  BY FS_CardinalityType
<1>2. IsFiniteSet(S \cup {x}) /\ Cardinality(S \cup {x}) \in {n, n + 1}
  BY FS_AddElement
<1> PICK m : m = Cardinality(S \cup {x})
  OBVIOUS
<1>3. Cardinality(T) <= m /\ Cardinality(T) \in Nat
  BY <1>2, FS_Subset, FS_CardinalityType
<1> QED  BY <1>1, <1>2, <1>3

LEMMA BoundsBegin ==
  ASSUME RequestsInv, NEW c \in Clerks, NEW new, Began(c, new)
  PROVE  BoundsInv'
<1> USE DEF RequestsInv
<1>1. \A d \in Clerks : clerk'[d] = IF d = c THEN new ELSE clerk[d]
  BY DEF Began, RequestInv, RequestShape
<1>2. \A d \in Clerks : WorkBound(clerk[d])'
  BY <1>1 DEF Began, WorkBound, BoundsInv
<1>3. ASSUME NEW r \in Ids
      PROVE  requests'[r].granted + Cardinality(DueTo(r)') <= calls'
  <2>1. requests[r].granted + Cardinality(DueTo(r)) <= calls /\ calls \in Nat
    BY RequestsAssumption DEF BoundsInv
  <2>2. requests[r].granted \in Nat
    BY RowAt DEF RequestInv, Row
  <2>3. DueTo(r)' \subseteq DueTo(r) \cup {c}
    BY <1>1 DEF DueTo
  <2>4. IsFiniteSet(DueTo(r)) /\ Cardinality(DueTo(r)) \in Nat
    BY DueCount
  <2>5. /\ Cardinality(DueTo(r)') \in Nat
        /\ Cardinality(DueTo(r)') <= Cardinality(DueTo(r)) + 1
    BY <2>3, <2>4, OneMore
  <2> QED  BY <2>1, <2>2, <2>4, <2>5 DEF Began
<1>4. calls' \in 0..MaxCalls
  BY RequestsAssumption DEF Began, BoundsInv
<1>5. UNCHANGED <<requests, flow, sold>>
  BY DEF Began
<1> QED  BY <1>2, <1>3, <1>4, <1>5 DEF BoundsInv, FlowBound, Ids

(* A handler takes another step or ends; what it may still grant shrinks,  *)
(* and by a grant if there is one.                                         *)
Went(c, new) ==
    /\ clerk' = [clerk EXCEPT ![c] = new] /\ calls' = calls
    /\ new.req \in {0, clerk[c].req} /\ new.does \notin {"token", "register"}
    /\ new.does = "grant" => clerk[c].does = "register" /\ new.req = clerk[c].req

LEMMA HandlerGoesOn ==
  ASSUME RequestsInv, NEW c \in Clerks, Handles(c)
  PROVE  \E new : Went(c, new) /\ (GrantCredit(c) => new.does = "complete")
<1> USE DEF RequestsInv
<1>1. CASE Ends(c) /\ ~GrantCredit(c)
  BY <1>1 DEF Ends, Went, Free
<1>2. ASSUME NEW to \in ClerkDeeds, GoesOn(c, to), to \notin {"token", "register"},
             to = "grant" => clerk[c].does = "register",
             GrantCredit(c) => to = "complete"
      PROVE  \E new : Went(c, new) /\ (GrantCredit(c) => new.does = "complete")
  <2>1. PICK new : /\ new.does = to /\ new.req = clerk[c].req
                   /\ clerk' = [clerk EXCEPT ![c] = new] /\ calls' = calls
    BY <1>2, NextDeed DEF GoesOn
  <2> QED  BY <1>2, <2>1 DEF Went
<1>3. CASE Decide(c)
  <2>1. clerk[c].then \in {"idle", "state", "both", "dismiss"} /\ clerk[c].then \in ClerkDeeds
    BY DEF RequestInv, RequestShape, Work, ClerkDeeds
  <2>2. ~GrantCredit(c)
    BY <1>3 DEF Decide, GrantCredit
  <2> QED  BY <1>1, <1>2, <1>3, <2>1, <2>2 DEF Decide
<1>4. CASE SetState(c)
  BY <1>2, <1>4 DEF SetState, GrantCredit, ClerkDeeds
<1>5. CASE SubmitClears(c)
  BY <1>2, <1>5 DEF SubmitClears, GrantCredit, ClerkDeeds
<1>6. CASE RegisterBot(c)
  BY <1>1, <1>2, <1>6 DEF RegisterBot, GrantCredit, ClerkDeeds
<1>7. CASE GrantCredit(c)
  BY <1>2, <1>7 DEF GrantCredit, ClerkDeeds
<1>8. CASE CompleteRequest(c)
  BY <1>2, <1>8 DEF CompleteRequest, GrantCredit, ClerkDeeds
<1>9. CASE \/ UpdateData(c) \/ SetStateAndData(c) \/ ClearFlow(c) \/ CreateRequest(c)
           \/ StoreReceipt(c) \/ TakeToken(c)
  BY <1>1, <1>9
  DEF UpdateData, SetStateAndData, ClearFlow, CreateRequest, StoreReceipt, TakeToken,
      GrantCredit
<1>10. CASE CutShort(c)
  <2>1. CASE GrantCredit(c)
    BY <1>7, <2>1
  <2> QED  BY <1>1, <1>10, <2>1 DEF CutShort
<1> QED
  BY <1>3, <1>4, <1>5, <1>6, <1>7, <1>8, <1>9, <1>10 DEF Handles

(* No dialog gets a request that is not there, nor a token nobody gave.    *)
LEMMA DialogBound ==
  ASSUME RequestsInv, NEW c \in Clerks, Handles(c)
  PROVE  FlowBound(Len(requests))'
<1> USE DEF RequestsInv
<1>0. Len(requests) \in Nat /\ Ids = 1..Len(requests) /\ Len(requests)' \in Nat
      /\ Len(requests') >= Len(requests)
  <2>1. RequestInv'
    BY RequestStep DEF RequestsNext
  <2>2. Ids' = 1..Len(requests') /\ Len(requests)' \in Nat /\ Ids = 1..Len(requests)
        /\ Len(requests) \in Nat
    BY <2>1, LenProperties DEF RequestInv, RequestShape, Ids
  <2>3. Ids \subseteq Ids'
    BY DEF Handles, Decide, SetState, UpdateData, SetStateAndData, ClearFlow, SubmitClears,
           CreateRequest, StoreReceipt, TakeToken, RegisterBot, GrantCredit,
           CompleteRequest, CutShort, Ids
  <2> QED  BY <2>2, <2>3
<1>1. \A u \in Applicants : /\ flow[u] \in Dialog /\ flow[u].req <= Len(requests)
                            /\ flow[u].step = "owner" => flow[u].token \in BotTokens
  BY DEF BoundsInv, FlowBound, RequestInv, RequestShape
<1>2. SUFFICES ASSUME NEW u \in Applicants
               PROVE  /\ flow'[u].req <= Len(requests)
                      /\ flow'[u].step = "owner" => flow'[u].token \in BotTokens
  <2>1. flow' \in [Applicants -> Dialog]
    BY RequestStep DEF RequestsNext, RequestInv, RequestShape
  <2>2. \A v \in Applicants : flow'[v].req \in Nat
    BY <2>1 DEF Dialog
  <2> QED  BY <1>0, <1>2, <2>2 DEF FlowBound
<1>3. CASE flow' = flow
  BY <1>1, <1>3
<1>4. clerk[c].req \in 0..Len(requests) /\ flow \in [Applicants -> Dialog]
  BY <1>0 DEF BoundsInv, WorkBound, RequestInv, RequestShape, Work
<1>5. CASE SetState(c)
  <2>1. flow'[u].req = flow[u].req /\ (flow'[u].step \in {flow[u].step, "token"})
        /\ flow'[u].token = flow[u].token
    BY <1>1, <1>4, <1>5 DEF SetState, Dialog
  <2> QED  BY <1>1, <2>1
<1>6. CASE UpdateData(c)
  <2>1. flow'[u].req \in {flow[u].req, clerk[c].req} /\ flow'[u].step = flow[u].step
        /\ flow'[u].token = flow[u].token
    BY <1>1, <1>4, <1>6 DEF UpdateData, Dialog
  <2> QED  BY <1>0, <1>1, <1>4, <2>1
<1>7. CASE SetStateAndData(c)
  <2>1. flow'[u] \in {flow[u], [step |-> "token", req |-> clerk[c].req, token |-> "none"]}
    BY <1>1, <1>4, <1>7 DEF SetStateAndData
  <2> QED  BY <1>0, <1>1, <1>4, <2>1
<1>8. CASE ClearFlow(c) \/ SubmitClears(c)
  <2>1. flow'[u] \in {flow[u], NoFlow}
    BY <1>1, <1>4, <1>8 DEF ClearFlow, SubmitClears
  <2> QED  BY <1>0, <1>1, <2>1 DEF NoFlow
<1>9. CASE TakeToken(c) /\ flow' # flow
  <2>1. clerk[c].token \in BotTokens
    BY <1>9 DEF TakeToken, BoundsInv, WorkBound
  <2>2. flow' = [flow EXCEPT ![clerk[c].user].step = "owner",
                             ![clerk[c].user].token = clerk[c].token]
    BY <1>9 DEF TakeToken
  <2>3. CASE clerk[c].user = u
    <3>1. flow'[u] = [flow[u] EXCEPT !.step = "owner", !.token = clerk[c].token]
      BY <1>4, <2>2, <2>3
    <3>2. flow'[u].req = flow[u].req /\ flow'[u].token = clerk[c].token
      BY <1>1, <3>1 DEF Dialog
    <3> QED  BY <1>1, <2>1, <3>2
  <2>4. CASE clerk[c].user # u
    BY <1>1, <1>4, <2>2, <2>4
  <2> QED  BY <2>3, <2>4
<1> QED
  BY <1>3, <1>5, <1>6, <1>7, <1>8, <1>9
  DEF Handles, Decide, CreateRequest, StoreReceipt, TakeToken, RegisterBot, GrantCredit,
      CompleteRequest, CutShort

(* What a handler does to the table of requests.                           *)
LEMMA RowsGrow ==
  ASSUME RequestsInv, NEW c \in Clerks, Handles(c)
  PROVE  /\ Len(requests) <= Len(requests') /\ Len(requests') <= MaxRequests
         /\ \A i \in Ids' \ Ids : requests'[i].granted = 0
         /\ \A i \in Ids : \/ requests'[i].granted = requests[i].granted
                           \/ /\ GrantCredit(c) /\ i = clerk[c].req
                              /\ requests'[i].granted = requests[i].granted + 1
<1> USE DEF RequestsInv
<1>1. Ids = 1..Len(requests) /\ Len(requests) \in Nat /\ requests \in Seq(Row)
      /\ Len(requests) <= MaxRequests
  BY IdsAre DEF RequestInv, RequestShape, BoundsInv
<1>2. CASE UNCHANGED requests
  BY <1>1, <1>2 DEF Ids
<1>3. CASE CreateRequest(c)
  <2>1. PICK q : /\ requests' = Append(requests, q) /\ q.granted = 0
                 /\ q = [user |-> clerk[c].user, status |-> "pending_review",
                         receipt |-> FALSE, granted |-> 0]
    BY <1>3 DEF CreateRequest
  <2>2. q \in Row
    <3>1. clerk[c].user \in Applicants
      BY <1>3 DEF CreateRequest, RequestInv, WorkInv
    <3> QED  BY <2>1, <3>1 DEF Row, Statuses, Opened
  <2>3. /\ Len(requests') = Len(requests) + 1 /\ Ids' = 1..(Len(requests) + 1)
        /\ requests'[Len(requests) + 1] = q
        /\ \A i \in Ids : requests'[i] = requests[i]
    <3>1. Len(requests') = Len(requests) + 1 /\ requests' \in Seq(Row)
      BY <1>1, <2>1, <2>2, AppendProperties
    <3>2. Ids' = 1..(Len(requests) + 1)
      BY <3>1, LenProperties DEF Ids
    <3> QED  BY <1>1, <2>1, <2>2, <3>1, <3>2, AppendProperties
  <2>4. Len(requests) < MaxRequests
    BY <1>3 DEF CreateRequest
  <2> QED  BY <1>1, <2>1, <2>3, <2>4, RequestsAssumption
<1>4. CASE ~UNCHANGED requests /\ ~CreateRequest(c)
  <2> DEFINE r == clerk[c].req
  <2>1. r \in Ids /\ requests[r] \in Row
    BY <1>4, RowAt
    DEF Handles, Decide, SetState, UpdateData, SetStateAndData, ClearFlow, SubmitClears,
        StoreReceipt, TakeToken, RegisterBot, GrantCredit, CompleteRequest, CutShort,
        RequestInv, WorkInv
  <2>2. PICK q : /\ requests' = [requests EXCEPT ![r] = q]
                 /\ \/ q.granted = requests[r].granted
                    \/ GrantCredit(c) /\ q.granted = requests[r].granted + 1
    <3>1. CASE Decide(c) \/ CompleteRequest(c)
      <4>1. PICK to : requests' = [requests EXCEPT ![r] = [requests[r] EXCEPT !.status = to]]
        BY <2>1, <3>1 DEF Decide, CompleteRequest
      <4> QED  BY <2>1, <4>1 DEF Row
    <3>2. CASE StoreReceipt(c)
      <4>1. requests' = [requests EXCEPT ![r] =
              [requests[r] EXCEPT !.status = "awaiting_payment_review", !.receipt = TRUE]]
        BY <2>1, <3>2 DEF StoreReceipt, RequestInv, RequestShape
      <4>2. [requests[r] EXCEPT !.status = "awaiting_payment_review", !.receipt = TRUE].granted
              = requests[r].granted
        BY <2>1 DEF Row
      <4> QED  BY <4>1, <4>2
    <3>3. CASE GrantCredit(c)
      <4>1. requests' = [requests EXCEPT ![r] =
              [requests[r] EXCEPT !.granted = requests[r].granted + 1]]
        BY <2>1, <3>3 DEF GrantCredit
      <4>2. [requests[r] EXCEPT !.granted = requests[r].granted + 1].granted
              = requests[r].granted + 1
        BY <2>1 DEF Row
      <4> QED  BY <3>3, <4>1, <4>2
    <3>4. Decide(c) \/ CompleteRequest(c) \/ StoreReceipt(c) \/ GrantCredit(c)
      BY <1>4
      DEF Handles, SetState, UpdateData, SetStateAndData, ClearFlow, SubmitClears,
          TakeToken, RegisterBot, CutShort
    <3> QED  BY <3>1, <3>2, <3>3, <3>4
  <2>3. Ids' = Ids
    BY <2>2 DEF Ids
  <2>4. Len(requests') = Len(requests)
    <3>1. RequestInv'
      BY RequestStep DEF RequestsNext
    <3>2. Ids' = 1..Len(requests') /\ Len(requests)' \in Nat
      BY <3>1, LenProperties DEF RequestInv, RequestShape, Ids
    <3> QED  BY <1>1, <2>3, <3>2
  <2> QED  BY <1>1, <2>1, <2>2, <2>3, <2>4
<1> QED  BY <1>2, <1>3, <1>4

LEMMA BoundsGoOn ==
  ASSUME RequestsInv, NEW c \in Clerks, Handles(c)
  PROVE  BoundsInv'
<1> USE DEF RequestsInv
<1>1. PICK new : Went(c, new) /\ (GrantCredit(c) => new.does = "complete")
  BY HandlerGoesOn
<1>2. \A d \in Clerks : clerk'[d] = IF d = c THEN new ELSE clerk[d]
  BY <1>1 DEF Went, RequestInv, RequestShape
<1>3. Ids = 1..Len(requests) /\ Len(requests) \in Nat /\ Len(requests') \in Nat
      /\ Ids' = 1..Len(requests')
  <2>1. RequestInv'
    BY RequestStep DEF RequestsNext
  <2> QED  BY <2>1, LenProperties DEF RequestInv, RequestShape, Ids
<1>4. \A d \in Clerks : WorkBound(clerk[d])'
  <2>1. \A d \in Clerks : clerk[d].req \in Nat /\ WorkBound(clerk[d])
    BY DEF RequestInv, RequestShape, Work, BoundsInv
  <2>2. new.req \in Nat /\ new.req <= Len(requests) /\ new.does \notin {"token", "register"}
    BY <1>1, <1>3, <2>1 DEF Went, WorkBound
  <2> QED  BY <1>2, <1>3, <2>1, <2>2, RowsGrow DEF WorkBound
<1>5. calls' = calls /\ calls \in 0..MaxCalls
  BY <1>1 DEF Went, BoundsInv
<1>6. sold' \subseteq [token : BotTokens, req : 1..MaxRequests]
  <2>1. CASE RegisterBot(c) /\ sold' # sold
    <3>1. clerk[c].token \in BotTokens /\ clerk[c].req \in Ids
      BY <2>1 DEF RegisterBot, RequestInv, WorkInv, BoundsInv, WorkBound
    <3>2. clerk[c].req \in 1..MaxRequests
      BY <1>3, <3>1, RequestsAssumption DEF BoundsInv
    <3>3. sold' = sold \cup {[token |-> clerk[c].token, req |-> clerk[c].req]}
      BY <2>1 DEF RegisterBot
    <3> QED  BY <3>1, <3>2, <3>3 DEF BoundsInv
  <2> QED
    BY <2>1
    DEF BoundsInv, Handles, Decide, SetState, UpdateData, SetStateAndData, ClearFlow,
        SubmitClears, CreateRequest, StoreReceipt, TakeToken, GrantCredit,
        CompleteRequest, CutShort
<1>7. ASSUME NEW i \in Ids'
      PROVE  requests'[i].granted + Cardinality(DueTo(i)') <= calls'
  <2>1. DueTo(i)' \subseteq DueTo(i) /\ (GrantCredit(c) => c \notin DueTo(i)')
    BY <1>1, <1>2 DEF Went, DueTo
  <2>2. IsFiniteSet(DueTo(i)) /\ Cardinality(DueTo(i)) \in Nat
    BY DueCount
  <2>3. IsFiniteSet(DueTo(i)') /\ Cardinality(DueTo(i)') \in Nat
        /\ Cardinality(DueTo(i)') <= Cardinality(DueTo(i))
    BY <2>1, <2>2, FS_Subset, FS_CardinalityType
  <2>4. CASE i \notin Ids
    <3>1. DueTo(i) = {}
      BY <2>4 DEF DueTo, RequestInv, WorkInv
    <3>2. Cardinality(DueTo(i)) = 0
      BY <3>1, FS_EmptySet
    <3>3. requests'[i].granted = 0
      BY <2>4, <1>7, RowsGrow
    <3> QED  BY <1>5, <2>3, <3>2, <3>3, RequestsAssumption
  <2>5. CASE i \in Ids
    <3>0. requests[i].granted \in Nat
          /\ requests[i].granted + Cardinality(DueTo(i)) <= calls
      BY <2>5, RowAt DEF RequestInv, Row, BoundsInv
    <3>1. CASE requests'[i].granted = requests[i].granted
      BY <1>5, <2>2, <2>3, <3>0, <3>1, RequestsAssumption
    <3>2. CASE GrantCredit(c) /\ i = clerk[c].req
               /\ requests'[i].granted = requests[i].granted + 1
      <4>1. c \in DueTo(i)
        BY <3>2 DEF GrantCredit, DueTo
      <4>2. DueTo(i)' \subseteq DueTo(i) \ {c}
        BY <2>1, <3>2
      <4>3. IsFiniteSet(DueTo(i) \ {c})
            /\ Cardinality(DueTo(i) \ {c}) = Cardinality(DueTo(i)) - 1
        BY <2>2, <4>1, FS_RemoveElement
      <4>4. Cardinality(DueTo(i)') <= Cardinality(DueTo(i)) - 1
        BY <4>2, <4>3, FS_Subset
      <4> QED  BY <1>5, <2>2, <2>3, <3>0, <3>2, <4>4, RequestsAssumption
    <3> QED  BY <2>5, <3>1, <3>2, RowsGrow
  <2> QED  BY <2>4, <2>5
<1> QED
  BY <1>4, <1>5, <1>6, <1>7, RowsGrow, DialogBound DEF BoundsInv

LEMMA RequestsTypeStep ==
  ASSUME RequestsInv, [RequestsNext]_requestVars
  PROVE  RequestsInv'
<1>1. RequestInv'
  BY RequestStep DEF RequestsInv
<1>2. CASE \E c \in Clerks : Handles(c)
  BY <1>1, <1>2, BoundsGoOn DEF RequestsInv
<1>3. CASE \E c \in Clerks :
             \/ \E r \in Ids, v \in Verdicts : Look(c, r, v)
             \/ \E u \in Applicants :
                  \/ GiveText(c, u) \/ SendReceipt(c, u) \/ GiveOwner(c, u)
                  \/ \E t \in BotTokens : GiveToken(c, u, t)
  <2>1. \E c \in Clerks : \E new : Began(c, new)
    BY <1>3, HandlerBegins
  <2> QED  BY <1>1, <2>1, BoundsBegin DEF RequestsInv
<1>4. ASSUME NEW u \in Applicants, Apply(u) \/ GiveVolume(u) \/ LeaveFlow(u)
      PROVE  RequestsInv'
  <2>1. UNCHANGED <<requests, clerk, sold, calls>>
    BY <1>4 DEF Apply, GiveVolume, LeaveFlow
  <2>2. flow \in [Applicants -> Dialog]
    BY DEF RequestsInv, RequestInv, RequestShape
  <2>3. flow' \in {[flow EXCEPT ![u].step = "volume"], [flow EXCEPT ![u].step = "text"],
                   [flow EXCEPT ![u] = NoFlow]}
    BY <1>4 DEF Apply, GiveVolume, LeaveFlow
  <2>4. Len(requests) \in Nat
    BY IdsAre DEF RequestsInv
  <2>5. ASSUME NEW v \in Applicants
        PROVE  /\ flow'[v].req <= Len(requests)
               /\ flow'[v].step = "owner" => flow'[v].token \in BotTokens
    <3>1. flow[v] \in Dialog /\ flow[v].req <= Len(requests)
          /\ (flow[v].step = "owner" => flow[v].token \in BotTokens)
      BY <2>2 DEF RequestsInv, BoundsInv, FlowBound
    <3>2. CASE flow'[v] = flow[v] \/ flow'[v] = NoFlow
      BY <2>4, <3>1, <3>2 DEF NoFlow
    <3>3. CASE flow'[v] \in {[flow[v] EXCEPT !.step = "volume"],
                             [flow[v] EXCEPT !.step = "text"]}
      <4>1. flow'[v].req = flow[v].req /\ flow'[v].step \in {"volume", "text"}
        BY <3>1, <3>3 DEF Dialog
      <4> QED  BY <3>1, <4>1
    <3> QED  BY <2>2, <2>3, <3>2, <3>3
  <2> QED
    BY <1>1, <2>1, <2>5 DEF RequestsInv, BoundsInv, FlowBound, WorkBound, Ids, DueTo
<1>5. CASE UNCHANGED requestVars
  BY <1>1, <1>5 DEF requestVars, RequestsInv, BoundsInv, FlowBound, WorkBound, Ids, DueTo
<1> QED  BY <1>2, <1>3, <1>4, <1>5 DEF RequestsNext

(* Every request, dialog and handler keeps its shape and its bounds, and   *)
(* nobody works on a request that is not there.                            *)
THEOREM RequestsTyped == RequestsSpec => []RequestsTypeOK
<1>1. RequestsInit => RequestsInv
  BY BoundsStart
<1>2. RequestsInv /\ [RequestsNext]_requestVars => RequestsInv'
  BY RequestsTypeStep
<1>3. RequestsInv => RequestsTypeOK
  BY RequestsAreTyped
<1> QED  BY <1>1, <1>2, <1>3, PTL DEF RequestsSpec

-----------------------------------------------------------------------------
(* Panels: their types, with the bounds.  A handler at work has a number,  *)
(* and lists its config under it.                                          *)

NumberOK(j) == j.pc # "idle" => j.nr \in 1..MaxJobs
ServersOK ==
    /\ DOMAIN servers \subseteq ServerIds
    /\ \A s \in DOMAIN servers : servers[s] \in Server
    /\ nextServer \in 1..MaxServers + 1
TargetsOK == reseller.panel \in 0..MaxServers /\ dialog \in 0..MaxServers
CountsOK == begun \in 0..MaxJobs /\ ordered \in 0..MaxOrders
ConfigsOK == configs \subseteq [job : 1..MaxJobs, server : ServerIds]
NumbersOK == \A w \in Workers : NumberOK(job[w])
PanelsInv == /\ CreditInv /\ ServersOK /\ TargetsOK /\ CountsOK /\ ConfigsOK
             /\ NumbersOK

LEMMA PanelsAreTyped == ASSUME PanelsInv PROVE PanelsTypeOK
<1>1. \A w \in Workers : job[w].pc \in Stages
  BY DEF PanelsInv, CreditInv, ShapeInv, Job
<1>2. reseller.role \in BOOLEAN /\ reseller.credit \in Int /\ raced \in BOOLEAN
  BY DEF PanelsInv, CreditInv, ShapeInv
<1> QED
  BY <1>1, <1>2
  DEF PanelsInv, ServersOK, TargetsOK, CountsOK, ConfigsOK, Stages, PanelsTypeOK

LEMMA PanelsStart == ASSUME PanelsInit PROVE PanelsInv
<1> USE PanelsAssumption
<1>1. CreditInv
  BY CreditStarts
<1>2. ServersOK
  <2>1. DOMAIN servers = {1} /\ nextServer = 2
    BY DEF PanelsInit
  <2>2. servers[1] \in Server
    BY DEF PanelsInit, NewServer, Server, Kinds
  <2> QED  BY <2>1, <2>2 DEF ServersOK, ServerIds
<1>3. TargetsOK /\ CountsOK /\ ConfigsOK
  BY DEF PanelsInit, TargetsOK, CountsOK, ConfigsOK
<1>4. NumbersOK
  BY IdleJob DEF PanelsInit, NumbersOK, NumberOK
<1> QED  BY <1>1, <1>2, <1>3, <1>4 DEF PanelsInv

(* What the administrators' handlers of the three front ends come down to. *)
LEMMA AdminDeeds ==
  ASSUME Administers
  PROVE  \/ \E w \in Workers, k \in Kinds : AddServer(w, k)
         \/ \E w \in Workers, s \in ServerIds, force \in BOOLEAN : DeleteServer(w, s, force)
         \/ \E s \in ServerIds, kinds \in SUBSET Kinds, ready \in BOOLEAN :
              Configure(s, kinds, ready)
         \/ \E s \in ServerIds, field \in {"active", "reseller"} : Toggle(s, field)
         \/ \E role \in BOOLEAN : SetRole(role)
         \/ \E delta \in {-1, 0, 1} : AdjustCredit(delta)
         \/ \E s \in ServerIds \cup {0} : SetResellerPanel(s)
         \/ PurgeLeftovers
<1>1. BotSwitchesReseller \/ AppSwitchesReseller => \E role \in BOOLEAN : SetRole(role)
  BY DEF BotSwitchesReseller, AppSwitchesReseller
<1> QED
  BY <1>1
  DEF Administers, BotAddsServer, AppAddsServer, WebAddsServer,
      BotDeletes, BotForcesDeletion, AppDeletes, WebDeletes,
      BotSetsAddress, BotFetchesTemplate, BotToggles, AppConfigures,
      AppFetchesTemplate, AppToggles, WebConfigures, WebFetchesTemplate,
      WebToggles, WebUpdates, Addressed, Fetched, Kinds,
      BotPicksPanel, AppPicksPanel, WebPicksPanel, WebSetsReseller,
      BotAdjustsCredit, AppAdjustsCredit, WebAdjustsCredit

LEMMA ServersStep ==
  ASSUME ServersOK, [PanelsNext]_panelVars
  PROVE  ServersOK'
<1> USE PanelsAssumption
<1>1. ASSUME NEW s \in DOMAIN servers, NEW row \in Server, Updated(s, row),
             nextServer' = nextServer
      PROVE  ServersOK'
  BY <1>1 DEF Updated, ServersOK
<1>2. CASE \E w \in Workers, k \in Kinds : AddServer(w, k)
  <2>1. PICK w \in Workers, k \in Kinds : AddServer(w, k)
    BY <1>2
  <2>2. NewServer(k) \in Server
    BY DEF NewServer, Server
  <2>3. /\ DOMAIN servers' = DOMAIN servers \cup {nextServer}
        /\ \A s \in DOMAIN servers' : servers'[s] \in {NewServer(k), servers[s]}
        /\ \A s \in DOMAIN servers' : s # nextServer => servers'[s] = servers[s]
        /\ servers'[nextServer] = NewServer(k)
        /\ nextServer' = nextServer + 1 /\ nextServer <= MaxServers
    BY <2>1 DEF AddServer
  <2> QED  BY <2>2, <2>3 DEF ServersOK, ServerIds
<1>3. ASSUME NEW s \in ServerIds,
             \/ \E kinds \in SUBSET Kinds, ready \in BOOLEAN : Configure(s, kinds, ready)
             \/ \E field \in {"active", "reseller"} : Toggle(s, field)
      PROVE  ServersOK'
  <2>1. s \in DOMAIN servers /\ servers[s] \in Server
    BY <1>3 DEF Configure, Toggle, ServersOK
  <2>2. \E row \in Server : Updated(s, row)
    <3>1. \A ready \in BOOLEAN : [servers[s] EXCEPT !.ready = ready] \in Server
      BY <2>1 DEF Server
    <3>2. \A field \in {"active", "reseller"} : [servers[s] EXCEPT ![field] = ~@] \in Server
      BY <2>1 DEF Server
    <3> QED  BY <1>3, <3>1, <3>2 DEF Configure, Toggle
  <2>3. nextServer' = nextServer
    BY <1>3 DEF Configure, Toggle, KeepRest
  <2> QED  BY <1>1, <2>1, <2>2, <2>3
<1>4. ASSUME NEW w \in Workers, ProbeAnswers(w)
      PROVE  ServersOK'
  <2>1. nextServer' = nextServer
    BY <1>4 DEF ProbeAnswers, KeepRest
  <2>2. CASE UNCHANGED servers
    BY <2>1, <2>2 DEF ServersOK
  <2>3. CASE ~UNCHANGED servers
    <3>1. /\ job[w].server \in DOMAIN servers
          /\ Updated(job[w].server, [servers[job[w].server] EXCEPT !.ready = TRUE])
      BY <1>4, <2>3 DEF ProbeAnswers
    <3>2. [servers[job[w].server] EXCEPT !.ready = TRUE] \in Server
      BY <3>1 DEF ServersOK, Server
    <3> QED  BY <1>1, <2>1, <3>1, <3>2
  <2> QED  BY <2>2, <2>3
<1>5. ASSUME NEW w \in Workers, RemoveServer(w)
      PROVE  ServersOK'
  <2>1. /\ nextServer' = nextServer /\ DOMAIN servers' \subseteq DOMAIN servers
        /\ \A s \in DOMAIN servers' : servers'[s] = servers[s]
    BY <1>5 DEF RemoveServer
  <2> QED  BY <2>1 DEF ServersOK
<1>6. CASE UNCHANGED <<servers, nextServer>>
  BY <1>6 DEF ServersOK
<1>7. CASE Administers
  BY <1>2, <1>3, <1>6, <1>7, AdminDeeds
  DEF DeleteServer, KeepRest, SetRole, AdjustCredit, SetResellerPanel, PurgeLeftovers
<1> QED
  BY <1>4, <1>5, <1>6, <1>7
  DEF PanelsNext, panelVars, OpenDialog, DeleteConfig, BotBuilds, AppBuilds, AutoBuilds,
      CreateFails, ProbeFails, CountDependents, CreateUser, Charge, List, KeepTables,
      KeepRest

LEMMA TargetsStep ==
  ASSUME CreditInv, ServersOK, TargetsOK, [PanelsNext]_panelVars
  PROVE  TargetsOK'
<1> USE PanelsAssumption
<1>1. get_reseller_panel \in 0..MaxServers
  <2> DEFINE marked == {s \in Usable : servers[s].reseller}
  <2>1. Usable \subseteq ServerIds /\ marked \subseteq Nat
    BY DEF ServersOK, Usable, ServerIds
  <2>2. marked # {} => First(marked) \in Usable
    BY <2>1, FirstIsOne
  <2>3. get_panel_server_for_usage \in Usable \cup {0}
    BY <2>2 DEF get_panel_server_for_usage
  <2>4. get_reseller_panel \in Usable \cup {0}
    BY <2>3 DEF get_reseller_panel
  <2>5. ServerIds \cup {0} \subseteq 0..MaxServers
    BY DEF ServerIds
  <2> HIDE DEF marked
  <2> QED  BY <2>1, <2>4, <2>5
<1>2. CASE UNCHANGED <<reseller, dialog>>
  BY <1>2 DEF TargetsOK
<1>3. CASE OpenDialog
  BY <1>1, <1>3 DEF OpenDialog, KeepTables, TargetsOK
<1>4. ASSUME NEW w \in Workers, NEW gb \in 1..MaxCredit, BotBuilds(w, gb)
      PROVE  TargetsOK'
  BY <1>4 DEF BotBuilds, KeepTables, TargetsOK
<1>5. ASSUME NEW w \in Workers, List(w)
      PROVE  TargetsOK'
  BY <1>5 DEF List, TargetsOK
<1>6. CASE /\ dialog' = dialog
           /\ reseller'.panel \in {reseller.panel} \cup 0..MaxServers
  BY <1>6 DEF TargetsOK
<1>7. CASE Administers
  <2>1. CASE \E s \in ServerIds \cup {0} : SetResellerPanel(s)
    BY <1>6, <2>1 DEF SetResellerPanel, ServerIds, CreditInv, ShapeInv
  <2>2. CASE \/ \E role \in BOOLEAN : SetRole(role)
             \/ \E delta \in {-1, 0, 1} : AdjustCredit(delta)
             \/ PurgeLeftovers
    BY <1>6, <2>2 DEF SetRole, AdjustCredit, PurgeLeftovers, CreditInv, ShapeInv
  <2> QED
    BY <1>2, <1>7, <2>1, <2>2, AdminDeeds
    DEF AddServer, DeleteServer, Configure, Toggle, KeepRest
<1>8. ASSUME NEW w \in Workers, Charge(w)
      PROVE  TargetsOK'
  BY <1>6, <1>8 DEF Charge, CreditInv, ShapeInv
<1> QED
  BY <1>2, <1>3, <1>4, <1>5, <1>7, <1>8
  DEF PanelsNext, panelVars, DeleteConfig, AppBuilds, AutoBuilds, RemoveServer,
      CreateFails, ProbeAnswers, ProbeFails, CountDependents, CreateUser, KeepTables, KeepRest

LEMMA CountsStep ==
  ASSUME CountsOK, [PanelsNext]_panelVars
  PROVE  CountsOK'
<1> USE PanelsAssumption
<1>1. begun' = begun \/ (begun < MaxJobs /\ begun' = begun + 1)
  <2>1. CASE Administers
    BY <2>1, AdminDeeds
    DEF AddServer, DeleteServer, Configure, Toggle, SetRole, AdjustCredit,
        SetResellerPanel, PurgeLeftovers, Begin
  <2> QED
    BY <2>1
    DEF PanelsNext, panelVars, OpenDialog, DeleteConfig, BotBuilds, AppBuilds, AutoBuilds,
        CreateFails, ProbeAnswers, ProbeFails, CountDependents, RemoveServer, CreateUser,
        Charge, List, Begin, Continue, Finish
<1>2. ordered' = ordered \/ AsAdmin
  <2>1. CASE Administers
    BY <2>1, AdminDeeds
    DEF AddServer, DeleteServer, Configure, Toggle, SetRole, AdjustCredit,
        SetResellerPanel, PurgeLeftovers
  <2> QED
    BY <2>1
    DEF PanelsNext, panelVars, OpenDialog, DeleteConfig, BotBuilds, AppBuilds, AutoBuilds,
        CreateFails, ProbeAnswers, ProbeFails, CountDependents, RemoveServer, CreateUser,
        Charge, List, KeepTables
<1> QED  BY <1>1, <1>2 DEF CountsOK, AsAdmin

LEMMA ConfigsStep ==
  ASSUME CreditInv, ServersOK, NumbersOK, ConfigsOK, [PanelsNext]_panelVars
  PROVE  ConfigsOK'
<1>1. ASSUME NEW w \in Workers, List(w)
      PROVE  ConfigsOK'
  <2>1. job[w].nr \in 1..MaxJobs
    BY <1>1 DEF List, NumbersOK, NumberOK
  <2>2. CASE configs' = configs
    BY <2>2 DEF ConfigsOK
  <2>3. CASE configs' # configs
    <3>1. /\ job[w].server \in ServerIds
          /\ configs' = configs \cup {[job |-> job[w].nr, server |-> job[w].server]}
      BY <1>1, <2>3 DEF List, ServersOK
    <3> QED  BY <2>1, <3>1 DEF ConfigsOK
  <2> QED  BY <2>2, <2>3
<1>2. CASE configs' \subseteq configs
  BY <1>2 DEF ConfigsOK
<1>3. CASE Administers
  BY <1>2, <1>3, AdminDeeds
  DEF AddServer, DeleteServer, Configure, Toggle, KeepRest, SetRole, AdjustCredit,
      SetResellerPanel, PurgeLeftovers
<1>4. ASSUME NEW w \in Workers, RemoveServer(w)
      PROVE  ConfigsOK'
  BY <1>2, <1>4 DEF RemoveServer
<1> QED
  BY <1>1, <1>2, <1>3, <1>4
  DEF PanelsNext, panelVars, OpenDialog, DeleteConfig, BotBuilds, AppBuilds, AutoBuilds,
      CreateFails, ProbeAnswers, ProbeFails, CountDependents, CreateUser, Charge,
      KeepTables, KeepRest

(* A handler that begins is given the next number; one at work keeps its   *)
(* own.                                                                    *)
LEMMA NumbersStep ==
  ASSUME CreditInv, CountsOK, NumbersOK, [PanelsNext]_panelVars
  PROVE  NumbersOK'
<1> USE PanelsAssumption
<1>0. job \in [Workers -> Job] /\ \A w \in Workers : NumberOK(job[w])
  BY DEF CreditInv, ShapeInv, NumbersOK
<1>1. ASSUME NEW w \in Workers, NEW new, job' = [job EXCEPT ![w] = new], NumberOK(new)
      PROVE  NumbersOK'
  BY <1>0, <1>1 DEF NumbersOK
<1>2. ASSUME NEW w \in Workers, NEW j, Begin(w, j), j \in Job \/ j = NoJob
      PROVE  NumbersOK'
  <2>1. PICK new : new = [j EXCEPT !.nr = begun + 1]
    OBVIOUS
  <2>2. begun + 1 \in 1..MaxJobs
    BY <1>2 DEF Begin, CountsOK
  <2>3. NumberOK(new)
    BY <1>2, <2>1, <2>2, IdleJob DEF NumberOK, Job
  <2> QED  BY <1>1, <1>2, <2>1, <2>3 DEF Begin
<1>3. CASE UNCHANGED job
  BY <1>0, <1>3 DEF NumbersOK
<1>4. ASSUME NEW w \in Workers
      PROVE  Outdated[w] \in Job /\ NumberOK(Outdated[w])
  <2>1. Outdated[w] = [job[w] EXCEPT !.stale = job[w].stale \/ job[w].pc \in {"build", "charge"}]
    BY DEF Outdated
  <2>2. Outdated[w].nr = job[w].nr /\ Outdated[w].pc = job[w].pc
    BY <1>0, <2>1 DEF Job
  <2> QED  BY <1>0, <2>2, OutdatedJobs DEF NumberOK, CreditInv
<1>5. CASE job' = Outdated
  BY <1>4, <1>5 DEF NumbersOK
<1>6. CASE Administers
  <2>1. CASE \E w \in Workers, k \in Kinds : AddServer(w, k)
    <3>1. PICK w \in Workers, k \in Kinds : AddServer(w, k)
      BY <2>1
    <3> DEFINE j == [NoJob EXCEPT !.pc = "probe", !.server = nextServer]
    <3>2. j \in Job
      BY IdleJob DEF Job, Stages, CreditInv, ShapeInv
    <3>3. job' = job \/ Begin(w, j)
      BY <3>1 DEF AddServer
    <3> HIDE DEF j
    <3> QED  BY <1>2, <1>3, <3>2, <3>3
  <2>2. CASE \E w \in Workers, s \in ServerIds, force \in BOOLEAN : DeleteServer(w, s, force)
    <3>1. PICK w \in Workers, s \in ServerIds, force \in BOOLEAN : DeleteServer(w, s, force)
      BY <2>2
    <3> DEFINE by == IF force THEN "force" ELSE "admin"
               j == [NoJob EXCEPT !.pc = "count", !.server = s, !.by = by]
    <3>2. s \in Nat
      BY DEF ServerIds
    <3>3. j \in Job
      BY <3>2, IdleJob DEF Job, Stages, NoJob
    <3>4. Begin(w, j)
      BY <3>1 DEF DeleteServer
    <3> HIDE DEF j
    <3> QED  BY <1>2, <3>3, <3>4
  <2> QED
    BY <1>3, <1>5, <1>6, <2>1, <2>2, AdminDeeds
    DEF Configure, Toggle, KeepRest, SetRole, AdjustCredit, SetResellerPanel,
        PurgeLeftovers
<1>7. ASSUME NEW w \in Workers, NEW gb \in 1..MaxCredit,
             \/ BotBuilds(w, gb) \/ AppBuilds(w, gb)
             \/ \E units \in 1..2 : AutoBuilds(w, gb, units)
      PROVE  NumbersOK'
  <2>1. CASE \E s \in Nat, by \in {"bot", "app", "auto"}, units \in Nat :
               Begin(w, Building(s, by, gb, units))
    <3>1. PICK s \in Nat, by \in {"bot", "app", "auto"}, units \in Nat :
                 Begin(w, Building(s, by, gb, units))
      BY <2>1
    <3>2. gb \in Nat
      BY DEF PanelsAssumption
    <3>3. Building(s, by, gb, units) \in Job
      BY <3>2, BuildingIsJob
    <3> QED  BY <1>2, <3>1, <3>3
  <2>2. dialog \in Nat /\ get_reseller_panel \in Nat /\ 1..2 \subseteq Nat
    BY PanelIsNumber DEF CreditInv, ShapeInv
  <2> QED  BY <1>3, <1>7, <2>1, <2>2 DEF BotBuilds, AppBuilds, AutoBuilds
<1>8. ASSUME NEW w \in Workers, Charge(w)
      PROVE  NumbersOK'
  <2>1. PICK new : /\ new = [Outdated[w] EXCEPT !.pc = "list"]
                   /\ job' = [Outdated EXCEPT ![w] = new]
    BY <1>8 DEF Charge
  <2>2. Outdated[w].pc = "charge"
    BY <1>0, <1>8 DEF Charge, Outdated, Job
  <2>3. new.nr = Outdated[w].nr
    BY <1>4, <2>1 DEF Job
  <2>4. NumberOK(new)
    BY <1>4, <2>2, <2>3 DEF NumberOK
  <2> QED  BY <1>4, <2>1, <2>4 DEF NumbersOK, Outdated
<1>9. ASSUME NEW w \in Workers, \E new : /\ job' = [job EXCEPT ![w] = new]
                                         /\ new.nr = job[w].nr, job[w].pc # "idle"
      PROVE  NumbersOK'
  BY <1>0, <1>1, <1>9 DEF NumberOK
<1>10. ASSUME NEW w \in Workers, ProbeFails(w) \/ CountDependents(w) \/ CreateUser(w),
              ~Finish(w)
       PROVE  NumbersOK'
  <2>1. job[w] \in Job
    BY <1>0
  <2>2. CASE ProbeFails(w)
    <3>1. job' = [job EXCEPT ![w] = [job[w] EXCEPT !.pc = "count"]] /\ job[w].pc # "idle"
      BY <2>2 DEF ProbeFails, Continue
    <3>2. [job[w] EXCEPT !.pc = "count"].nr = job[w].nr
      BY <2>1 DEF Job
    <3> QED  BY <1>9, <3>1, <3>2
  <2>3. CASE CountDependents(w)
    <3>1. PICK some : job' = [job EXCEPT ![w] = [job[w] EXCEPT !.pc = "remove", !.some = some]]
      BY <1>0, <1>10, <2>3 DEF CountDependents
    <3>2. [job[w] EXCEPT !.pc = "remove", !.some = some].nr = job[w].nr
          /\ job[w].pc # "idle"
      BY <2>1, <2>3 DEF Job, CountDependents
    <3> QED  BY <1>9, <3>1, <3>2
  <2>4. CASE CreateUser(w)
    <3>1. PICK left, pc : job' = [job EXCEPT ![w] = [job[w] EXCEPT !.left = left, !.pc = pc]]
      BY <1>0, <2>4 DEF CreateUser
    <3>2. [job[w] EXCEPT !.left = left, !.pc = pc].nr = job[w].nr /\ job[w].pc # "idle"
      BY <2>1, <2>4 DEF Job, CreateUser
    <3> QED  BY <1>9, <3>1, <3>2
  <2> QED  BY <1>10, <2>2, <2>3, <2>4
<1>11. ASSUME NEW w \in Workers, Finish(w)
       PROVE  NumbersOK'
  BY <1>1, <1>11, IdleJob DEF Finish, NumberOK
<1> QED
  BY <1>3, <1>6, <1>7, <1>8, <1>10, <1>11
  DEF PanelsNext, panelVars, OpenDialog, DeleteConfig, CreateFails, ProbeAnswers,
      RemoveServer, List

LEMMA PanelsTypeStep ==
  ASSUME PanelsInv, [PanelsNext]_panelVars
  PROVE  PanelsInv'
BY CreditStep, ServersStep, TargetsStep, CountsStep, ConfigsStep, NumbersStep DEF PanelsInv

(* Panels, configs, the reseller and every handler keep their shape and    *)
(* their bounds: no row, dialog or handler names a panel that never was.   *)
THEOREM PanelsTyped == PanelsSpec => []PanelsTypeOK
<1>1. PanelsInit => PanelsInv
  BY PanelsStart
<1>2. PanelsInv /\ [PanelsNext]_panelVars => PanelsInv'
  BY PanelsTypeStep
<1>3. PanelsInv => PanelsTypeOK
  BY PanelsAreTyped
<1> QED  BY <1>1, <1>2, <1>3, PTL DEF PanelsSpec
===============================================================================
