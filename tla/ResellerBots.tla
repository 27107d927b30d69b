----------------------------- MODULE ResellerBots -----------------------------
(***************************************************************************)
(* The bots of one installation: the table reseller_bots, written by the   *)
(* web panel, by the mini app and by administrators inside the bot, and    *)
(* the BotManager of the bot process, which runs one polling task per bot: *)
(* main() starts what the table says, reconcile_resellers_loop compares    *)
(* the table with the running bots in every round, wait_all clears away    *)
(* polling tasks that ended, and the handlers of an administrator call     *)
(* start_bot and stop_bot themselves.  All of them are coroutines of one   *)
(* event loop, so another one may run at every await; the web front ends   *)
(* are other processes and may write the database at any time.             *)
(*                                                                         *)
(* A token belongs to one Telegram username, and the database file of a    *)
(* bot is named after the username it had when it was registered.          *)
(***************************************************************************)
EXTENDS Integers, FiniteSets, Functions

CONSTANTS Tokens,       \* tokens of reseller bots
          Main,         \* the token of the main bot
          Names,        \* usernames, which name the database files
          NameOf,       \* the username behind a token
          BotAdmins,    \* administrators at work inside the main bot
          MaxRows,      \* bound: rows ever inserted
          MaxChanges,   \* bound: changes of the table after registration
          MaxMishaps    \* bound: polling tasks that end by themselves, restarts,
                        \* main bots that fail to start

ASSUME BotsAssumption ==
    /\ Main \notin Tokens
    /\ NameOf \in [Tokens -> Names]
    /\ {MaxRows, MaxChanges, MaxMishaps} \subseteq Nat

VARIABLES rows,     \* reseller_bots
          purges,   \* pending_db_purges
          tenant,   \* per database file that exists: miniapp_tenant_id, 0 unset
          inst,     \* BotManager.instances: token -> what is known of it
          polling,  \* how many polling tasks of a token are alive
          waited,   \* the instances whose tasks wait_all is waiting for
          roused,   \* one of these tasks is done
          loop,     \* main(), then the reconcile loop
          held,     \* the instance whose menu button the loop is setting
          hand,     \* the handlers of the administrators inside the bot
          newRows,  \* rows the mini app inserted, tenant id not yet written
          nextRow,  \* next id of reseller_bots
          spent     \* the counters of the bounds

table == <<rows, purges, newRows, nextRow>>
running == <<inst, polling, waited, roused, held>>
botVars == <<table, tenant, running, loop, hand, spent>>

Running == Tokens \cup {Main}
Row == [id : 1..MaxRows, token : Tokens, path : Names, active : BOOLEAN]
NoRow == [id |-> 0, token |-> Main, path |-> "none", active |-> FALSE]
Inst == [alive : BOOLEAN, checked : BOOLEAN]
Idle == [pc |-> "idle", row |-> NoRow, purge |-> FALSE]

BotsTypeOK ==
    /\ rows \subseteq Row
    /\ \A r, q \in rows : r.id = q.id \/ r.token = q.token => r = q
    /\ purges \subseteq [token : Tokens, path : Names]
    /\ DOMAIN tenant \subseteq Names /\ Range(tenant) \subseteq 0..MaxRows
    /\ DOMAIN inst \subseteq Running /\ Range(inst) \subseteq Inst
    /\ polling \in [Running -> Nat]
    /\ waited \subseteq Running /\ roused \in BOOLEAN
    /\ loop \in [pc : {"boot", "sleep", "start", "starting", "menu", "syncing",
                       "stop", "broken"},
                 row : Row \cup {NoRow}, todo : SUBSET Row,
                 listed : SUBSET Row, halt : SUBSET Tokens, booting : BOOLEAN]
    /\ held \subseteq Tokens /\ Cardinality(held) <= 1
    /\ hand \in [BotAdmins -> [pc : {"idle", "insert", "added", "starting",
                                     "tenant", "toggled", "delete", "remove"},
                               row : Row \cup {NoRow}, purge : BOOLEAN]]
    /\ newRows \subseteq Row
    /\ nextRow \in 1..MaxRows + 1
    /\ spent \in [{"changes", "mishaps"} -> Nat]

Active == {r \in rows : r.active}
Tokened(S) == {r.token : r \in S}
Oldest(S) == CHOOSE r \in S : \A q \in S : r.id <= q.id
Spend(what, limit) ==
    /\ spent[what] < limit
    /\ spent' = [spent EXCEPT ![what] = @ + 1]

(* Opening a database creates its file; set_setting then writes the id.    *)
Opened(path) ==
    [n \in DOMAIN tenant \cup {path} |-> IF n \in DOMAIN tenant
                                         THEN tenant[n] ELSE 0]
WithTenant(r) == [Opened(r.path) EXCEPT ![r.path] = r.id]
Removed(path) == Restrict(tenant, DOMAIN tenant \ {path})

(***************************************************************************)
(* start_bot ends, after its calls to Telegram: the tasks are created and  *)
(* the entry is written, over another one if there is one by now.          *)
(***************************************************************************)
Registered(token) ==
    /\ inst' = [t \in DOMAIN inst \cup {token} |->
                  IF t = token THEN [alive |-> TRUE, checked |-> FALSE]
                  ELSE inst[t]]
    /\ polling' = [polling EXCEPT ![token] = @ + 1]
    /\ waited' = waited \ {token}
    /\ held' = held \ {token}
    /\ UNCHANGED roused

(* Mutant: the polling task of the entry is not cancelled.                 *)
PoppedOnly(token) ==
    /\ inst' = Restrict(inst, DOMAIN inst \ {token})
    /\ roused' = (roused \/ token \in waited)
    /\ waited' = waited \ {token}
    /\ held' = held \ {token}
    /\ UNCHANGED polling

(* stop_bot: the entry is taken out and its polling task is cancelled.     *)
Popped(token) ==
    /\ inst' = Restrict(inst, DOMAIN inst \ {token})
    /\ polling' = IF inst[token].alive
                  THEN [polling EXCEPT ![token] = @ - 1] ELSE polling
    /\ roused' = (roused \/ token \in waited)
    /\ waited' = waited \ {token}
    /\ held' = held \ {token}

Stopped(token) == IF token \in DOMAIN inst THEN Popped(token)
                  ELSE UNCHANGED running

(***************************************************************************)
(* main(): the main bot, then every active row; and one round of           *)
(* reconcile_resellers_loop: start, menu button, stop, purge.  In a round  *)
(* everything is decided from the rows listed at its beginning.            *)
(*                                                                         *)
(* start_bot may raise: the database cannot be opened, the token is no     *)
(* token.  main() goes on with the next row; a round of the loop ends      *)
(* there, at the handler around all of it, and so do the starts, menu      *)
(* buttons, stops and purges it still had to do.                           *)
(***************************************************************************)
Booted == loop' = [loop EXCEPT !.pc = "start", !.todo = Active, !.booting = TRUE]

Boot ==
    /\ loop.pc = "boot"
    /\ Registered(Main)
    /\ Booted
    /\ UNCHANGED <<table, tenant, hand, spent>>

(* Nobody starts the main bot again before the process is restarted.       *)
BootFails ==
    /\ loop.pc = "boot"
    /\ Booted
    /\ Spend("mishaps", MaxMishaps)
    /\ UNCHANGED <<table, tenant, running, hand>>

ListRows ==
    /\ loop.pc \in {"sleep", "broken"}
    /\ loop' = [loop EXCEPT !.pc = "start", !.todo = Active, !.listed = Active]
    /\ UNCHANGED <<table, tenant, running, hand, spent>>

Broken == [pc |-> "broken", row |-> NoRow, todo |-> {}, listed |-> {},
           halt |-> {}, booting |-> FALSE]

(* The rows to start: at boot all of them, in a round those not running.   *)
ToStart == {r \in loop.todo : loop.booting \/ r.token \notin DOMAIN inst}

StartNext ==
    /\ loop.pc = "start" /\ ToStart # {}
    /\ LET r == Oldest(ToStart)
       IN  /\ tenant' = WithTenant(r)
           /\ loop' = [loop EXCEPT
                         !.pc = IF r.token \in DOMAIN inst THEN @ ELSE "starting",
                         !.row = r, !.todo = {q \in @ : q.id > r.id}]
    /\ UNCHANGED <<table, running, hand, spent>>

StartDone ==
    /\ loop.pc = "starting"
    /\ Registered(loop.row.token)
    /\ loop' = [loop EXCEPT !.pc = "start", !.row = NoRow]
    /\ UNCHANGED <<table, tenant, hand, spent>>

StartFails ==
    /\ loop.pc = "starting"
    /\ loop' = IF loop.booting THEN [loop EXCEPT !.pc = "start", !.row = NoRow]
               ELSE Broken
    /\ UNCHANGED <<table, tenant, running, hand, spent>>

AllStarted ==
    /\ loop.pc = "start" /\ ToStart = {}
    /\ loop' = [loop EXCEPT !.pc = IF loop.booting THEN "sleep" ELSE "menu",
                            !.row = NoRow, !.todo = loop.listed,
                            !.booting = FALSE]
    /\ UNCHANGED <<table, tenant, running, hand, spent>>

Unchecked == {r \in loop.todo : /\ r.token \in DOMAIN inst
                                /\ ~inst[r.token].checked}

(* A wrong tenant id is mended, then the menu button is set.               *)
MenuNext ==
    /\ loop.pc = "menu" /\ Unchecked # {}
    /\ LET r == Oldest(Unchecked)
       IN  /\ tenant' = WithTenant(r)
           /\ held' = {r.token}
           /\ loop' = [loop EXCEPT !.pc = "syncing", !.row = r,
                                   !.todo = {q \in @ : q.id > r.id}]
    /\ UNCHANGED <<table, inst, polling, waited, roused, hand, spent>>

MenuDone ==
    /\ loop.pc = "syncing"
    /\ inst' = [t \in DOMAIN inst |->
                  IF t \in held THEN [inst[t] EXCEPT !.checked = TRUE]
                  ELSE inst[t]]
    /\ held' = {}
    /\ loop' = [loop EXCEPT !.pc = "menu", !.row = NoRow]
    /\ UNCHANGED <<table, tenant, polling, waited, roused, hand, spent>>

(* Mutant: a bot that was only switched off goes on.                       *)
ToStopDeleted == DOMAIN inst \ ({Main} \cup Tokened(rows))

ToStop == DOMAIN inst \ ({Main} \cup Tokened(loop.listed))

AllChecked ==
    /\ loop.pc = "menu" /\ Unchecked = {}
    /\ loop' = [loop EXCEPT !.pc = "stop", !.todo = {}, !.halt = ToStop]
    /\ UNCHANGED <<table, tenant, running, hand, spent>>

StopNext ==
    /\ loop.pc = "stop"
    /\ \E t \in loop.halt : /\ Stopped(t)
                            /\ loop' = [loop EXCEPT !.halt = @ \ {t}]
    /\ UNCHANGED <<table, tenant, hand, spent>>

(* Mutant: an entry without a file is left in the table.                   *)
PurgeFilesThere ==
    /\ loop.pc = "stop" /\ loop.halt = {}
    /\ LET due == {q \in purges : q.token \notin DOMAIN inst /\ q.path \in DOMAIN tenant}
       IN  /\ tenant' = Restrict(tenant, DOMAIN tenant \ {q.path : q \in due})
           /\ purges' = purges \ due
    /\ loop' = [loop EXCEPT !.pc = "sleep", !.listed = {}]
    /\ UNCHANGED <<rows, newRows, nextRow, running, hand, spent>>

(* The files of deleted bots that no longer run; no await in between.      *)
PurgeFiles ==
    /\ loop.pc = "stop" /\ loop.halt = {}
    /\ LET due == {q \in purges : q.token \notin DOMAIN inst}
       IN  /\ tenant' = Restrict(tenant, DOMAIN tenant \ {q.path : q \in due})
           /\ purges' = purges \ due
    /\ loop' = [loop EXCEPT !.pc = "sleep", !.listed = {}]
    /\ UNCHANGED <<rows, newRows, nextRow, running, hand, spent>>

(* Some file cannot be removed, or the purges cannot be listed.            *)
PurgeFails ==
    /\ loop.pc = "stop" /\ loop.halt = {}
    /\ \E gone \in SUBSET {q \in purges : q.token \notin DOMAIN inst} :
         /\ tenant' = Restrict(tenant, DOMAIN tenant \ {q.path : q \in gone})
         /\ purges' = purges \ gone
    /\ loop' = Broken
    /\ UNCHANGED <<rows, newRows, nextRow, running, hand, spent>>

(***************************************************************************)
(* wait_all: wait for the tasks of the instances there are now, then stop  *)
(* those that ended, then look again.                                      *)
(***************************************************************************)
WaitForTasks ==
    /\ loop.pc # "boot" /\ ~loop.booting
    /\ waited = {} /\ ~roused
    /\ waited' = DOMAIN inst
    /\ roused' = (\E t \in DOMAIN inst : ~inst[t].alive)
    /\ UNCHANGED <<table, tenant, inst, polling, held, loop, hand, spent>>

Ended == {t \in waited : ~inst[t].alive}

WaitOver ==
    /\ roused
    /\ IF Ended = {}
       THEN /\ waited' = {} /\ roused' = FALSE
            /\ UNCHANGED <<inst, polling, held>>
       ELSE \E t \in Ended : Popped(t)
    /\ UNCHANGED <<table, tenant, loop, hand, spent>>

PollEnds(t) ==
    /\ t \in DOMAIN inst /\ inst[t].alive /\ t # Main
    /\ Spend("mishaps", MaxMishaps)
    /\ inst' = [inst EXCEPT ![t].alive = FALSE]
    /\ polling' = [polling EXCEPT ![t] = @ - 1]
    /\ roused' = (roused \/ t \in waited)
    /\ UNCHANGED <<table, tenant, waited, held, loop, hand>>

Crash ==
    /\ Spend("mishaps", MaxMishaps)
    /\ inst' = Restrict(inst, {})
    /\ polling' = [t \in Running |-> 0]
    /\ waited' = {} /\ roused' = FALSE /\ held' = {}
    /\ loop' = [pc |-> "boot", row |-> NoRow, todo |-> {}, listed |-> {},
                halt |-> {}, booting |-> FALSE]
    /\ hand' = [a \in BotAdmins |-> Idle]
    /\ UNCHANGED <<table, tenant>>

(***************************************************************************)
(* The front ends.  A token is registered once (UNIQUE); the row's file is *)
(* named after the bot, and the caller writes the tenant id afterwards.    *)
(***************************************************************************)
NewRow(t) == [id |-> nextRow, token |-> t, path |-> NameOf[t], active |-> TRUE]

Inserted(t) ==
    /\ nextRow <= MaxRows
    /\ t \notin Tokened(rows)
    /\ rows' = rows \cup {NewRow(t)}
    /\ nextRow' = nextRow + 1
    /\ UNCHANGED purges

WebCreates(t) ==
    /\ Inserted(t)
    /\ newRows' = newRows \cup {NewRow(t)}
    /\ UNCHANGED <<tenant, running, loop, hand, spent>>

WebSetsTenant(r) ==
    /\ r \in newRows
    /\ tenant' = WithTenant(r)
    /\ newRows' = newRows \ {r}
    /\ UNCHANGED <<rows, purges, nextRow, running, loop, hand, spent>>

Toggled(r) == (rows \ {r}) \cup {[r EXCEPT !.active = ~@]}

WebToggles(r) ==
    /\ r \in rows
    /\ Spend("changes", MaxChanges)
    /\ rows' = Toggled(r)
    /\ UNCHANGED <<purges, newRows, nextRow, tenant, running, loop, hand>>

(* The new token keeps the file of the old one.                            *)
WebChangesToken(r, t) ==
    /\ r \in rows /\ t \notin Tokened(rows \ {r})
    /\ Spend("changes", MaxChanges)
    /\ rows' = (rows \ {r}) \cup {[r EXCEPT !.token = t]}
    /\ UNCHANGED <<purges, newRows, nextRow, tenant, running, loop, hand>>

WebDeletes(r, purge) ==
    /\ r \in rows
    /\ Spend("changes", MaxChanges)
    /\ rows' = rows \ {r}
    /\ purges' = IF purge
                 THEN purges \cup {[token |-> r.token, path |-> r.path]}
                 ELSE purges
    /\ UNCHANGED <<newRows, nextRow, tenant, running, loop, hand>>

(***************************************************************************)
(* The same inside the main bot, where the handler starts and stops the    *)
(* bot itself and waits for Telegram in between.                           *)
(***************************************************************************)
Goes(a, to) == hand' = [hand EXCEPT ![a] = to]

(* An administrator with nothing begun; his message comes to the main bot. *)
AtWork(a) == hand[a].pc = "idle" /\ Main \in DOMAIN inst

(* start_bot as a handler calls it: begun, unless the bot runs already.    *)
HandStarts(a, r, then) ==
    IF r.token \in DOMAIN inst
    THEN Goes(a, then) /\ UNCHANGED tenant
    ELSE Goes(a, [hand[a] EXCEPT !.pc = "starting", !.row = r])
         /\ tenant' = Opened(r.path)

BotAdds(a, t) ==
    /\ AtWork(a)
    /\ Inserted(t)
    /\ Goes(a, [Idle EXCEPT !.pc = "added", !.row = NewRow(t), !.purge = TRUE])
    /\ UNCHANGED <<newRows, tenant, running, loop, spent>>

BotStartsAdded(a) ==
    /\ hand[a].pc = "added"
    /\ HandStarts(a, hand[a].row, [hand[a] EXCEPT !.pc = "tenant"])
    /\ UNCHANGED <<table, running, loop, spent>>

(* purge is true of a handler that adds: it still writes the tenant id.    *)
BotStarted(a) ==
    /\ hand[a].pc = "starting"
    /\ Registered(hand[a].row.token)
    /\ Goes(a, IF hand[a].purge THEN [hand[a] EXCEPT !.pc = "tenant"] ELSE Idle)
    /\ UNCHANGED <<table, tenant, loop, spent>>

(* The handler ends at the exception of start_bot; the row is there.       *)
BotStartFails(a) ==
    /\ hand[a].pc = "starting"
    /\ Goes(a, Idle)
    /\ UNCHANGED <<table, tenant, running, loop, spent>>

BotSetsTenant(a) ==
    /\ hand[a].pc = "tenant"
    /\ tenant' = WithTenant(hand[a].row)
    /\ Goes(a, Idle)
    /\ UNCHANGED <<table, running, loop, spent>>

BotToggles(a, r) ==
    /\ AtWork(a) /\ r \in rows
    /\ Spend("changes", MaxChanges)
    /\ rows' = Toggled(r)
    /\ Goes(a, [Idle EXCEPT !.pc = "toggled", !.row = r])
    /\ UNCHANGED <<purges, newRows, nextRow, tenant, running, loop>>

(* The row is read again: nothing is left to do when it is gone.           *)
BotApplies(a) ==
    /\ hand[a].pc = "toggled"
    /\ LET now == {r \in rows : r.id = hand[a].row.id}
       IN  \/ /\ now = {} /\ Goes(a, Idle) /\ UNCHANGED <<tenant, running>>
           \/ \E r \in now : /\ r.active
                             /\ HandStarts(a, r, Idle)
                             /\ UNCHANGED running
           \/ \E r \in now : /\ ~r.active
                             /\ Stopped(r.token)
                             /\ Goes(a, Idle) /\ UNCHANGED tenant
    /\ UNCHANGED <<table, loop, spent>>

BotStopsDeleted(a, r, purge) ==
    /\ AtWork(a) /\ r \in rows
    /\ Spend("changes", MaxChanges)
    /\ Stopped(r.token)
    /\ Goes(a, [pc |-> "delete", row |-> r, purge |-> purge])
    /\ UNCHANGED <<table, tenant, loop>>

BotDeletes(a) ==
    /\ hand[a].pc = "delete"
    /\ rows' = {r \in rows : r.id # hand[a].row.id}
    /\ Goes(a, IF hand[a].purge THEN [hand[a] EXCEPT !.pc = "remove"] ELSE Idle)
    /\ UNCHANGED <<purges, newRows, nextRow, tenant, running, loop, spent>>

BotRemovesFile(a) ==
    /\ hand[a].pc = "remove"
    /\ tenant' = Removed(hand[a].row.path)
    /\ Goes(a, Idle)
    /\ UNCHANGED <<table, running, loop, spent>>

(* A database file no row points to may be removed from the list of files. *)
BotRemovesOrphan(a, n) ==
    /\ AtWork(a) /\ n \in DOMAIN tenant
    /\ n \notin {r.path : r \in rows}
    /\ tenant' = Removed(n)
    /\ UNCHANGED <<table, running, loop, hand, spent>>

BotsInit ==
    /\ rows = {} /\ purges = {} /\ newRows = {} /\ nextRow = 1
    /\ tenant = Restrict([n \in Names |-> 0], {})
    /\ inst = Restrict([t \in Running |-> [alive |-> TRUE, checked |-> TRUE]], {})
    /\ polling = [t \in Running |-> 0]
    /\ waited = {} /\ roused = FALSE /\ held = {}
    /\ loop = [pc |-> "boot", row |-> NoRow, todo |-> {}, listed |-> {},
               halt |-> {}, booting |-> FALSE]
    /\ hand = [a \in BotAdmins |-> Idle]
    /\ spent = [c \in {"changes", "mishaps"} |-> 0]

Manager ==
    \/ Boot \/ BootFails \/ ListRows \/ StartNext \/ StartDone \/ StartFails
    \/ AllStarted \/ MenuNext \/ MenuDone \/ AllChecked \/ StopNext \/ PurgeFiles
    \/ PurgeFails \/ WaitForTasks \/ WaitOver

Handling(a) ==
    \/ BotStartsAdded(a) \/ BotStarted(a) \/ BotStartFails(a) \/ BotSetsTenant(a)
    \/ BotApplies(a) \/ BotDeletes(a) \/ BotRemovesFile(a)

BotsNext ==
    \/ Manager
    \/ Crash
    \/ \E t \in Tokens : PollEnds(t) \/ WebCreates(t)
    \/ \E r \in rows, t \in Tokens : WebChangesToken(r, t)
    \/ \E r \in rows : \/ WebToggles(r)
                       \/ \E purge \in BOOLEAN : WebDeletes(r, purge)
    \/ \E r \in newRows : WebSetsTenant(r)
    \/ \E a \in BotAdmins :
         \/ Handling(a)
         \/ \E t \in Tokens : BotAdds(a, t)
         \/ \E r \in rows : \/ BotToggles(a, r)
                            \/ \E purge \in BOOLEAN :
                                 BotStopsDeleted(a, r, purge)
         \/ \E n \in Names : BotRemovesOrphan(a, n)

(* The event loop runs every coroutine that can go on.                     *)
BotsFairness ==
    /\ WF_botVars(Boot \/ BootFails \/ ListRows \/ StartNext \/ StartDone
                  \/ StartFails \/ AllStarted \/ MenuNext \/ MenuDone
                  \/ AllChecked \/ StopNext \/ PurgeFiles \/ PurgeFails)
    /\ WF_botVars(WaitForTasks \/ WaitOver)
    /\ \A a \in BotAdmins : WF_botVars(Handling(a))
    /\ WF_botVars(\E r \in newRows : WebSetsTenant(r))

BotsSpec == BotsInit /\ [][BotsNext]_botVars /\ BotsFairness

(* The polling tasks of a token: the one its entry knows, and so stop_bot  *)
(* and wait_all can end, and those beside it.                              *)
Known(t) == IF t \in DOMAIN inst /\ inst[t].alive THEN 1 ELSE 0
Strays(t) == polling[t] - Known(t)

(* start_bot looks for the entry and registers one after two awaits.  Its  *)
(* caller registers a bot that somebody else has started meanwhile.        *)
Overtakes(t) ==
    /\ Known(t) = 1
    /\ \/ loop.pc = "starting" /\ loop.row.token = t /\ loop'.pc = "start"
       \/ \E a \in BotAdmins : /\ hand[a].pc = "starting"
                                /\ hand[a].row.token = t
                                /\ hand'[a].pc \in {"idle", "tenant"}

(***************************************************************************)
(* A polling task gets out of the manager's hands in one way only: two     *)
(* callers of start_bot overlap on its token (bot_manager.py:125-235).     *)
(* Nothing else leaves a bot running that nobody can stop: not a stop, a   *)
(* task that ended by itself, a restart, nor an entry written over another *)
(* whose task has ended.                                                   *)
(***************************************************************************)
StraysAreKnown ==
    [][\A t \in Running : Strays(t)' > Strays(t) => Overtakes(t)]_<<inst, polling>>

(* Where nobody is at work inside the bot, every polling task is the one   *)
(* its entry knows.                                                        *)
NoStrays == \A t \in Running : Strays(t) = 0

(* From some time on no round of the loop is cut short by an exception or  *)
(* leaves a file it could not remove.                                      *)
RoundsComplete == <>[](loop.pc # "broken")

(***************************************************************************)
(* The bots that run become and stay those the table says are active       *)
(* (reconcile_resellers_loop, bot_manager.py:290-298), whatever the web    *)
(* panel, the mini app and the handlers in the bot did, in whatever order  *)
(* with the loop, and however many rounds and starts failed, once they     *)
(* have stopped and rounds are completed again.  It is claimed no further: *)
(* while one bot fails to start in every round, the loop brings no bot     *)
(* after it up and stops none (bot_manager.py:315-317, 374-375).           *)
(***************************************************************************)
BotsConverge == RoundsComplete => <>[](DOMAIN inst \ {Main} = Tokened(Active))

(***************************************************************************)
(* The file of a deleted bot is removed in the end, unless its token has   *)
(* been registered again and runs (bot_manager.py:343-347), where rounds   *)
(* are completed again: one that breaks never comes to the files.          *)
(***************************************************************************)
PurgesSettle == RoundsComplete => <>[](\A q \in purges : q.token \in Tokened(Active))
===============================================================================
