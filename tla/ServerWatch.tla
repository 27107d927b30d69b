------------------------------ MODULE ServerWatch -----------------------------
(***************************************************************************)
(* The watch on the servers behind the master subscription: a task scans   *)
(* them, counts the scans in a row that found a server offline, and sends  *)
(* a push when the count reaches the threshold and again when the server   *)
(* is back.  The counts live in the task: a supervisor starts one for each *)
(* reseller whose panel is on and cancels it when the panel goes off.      *)
(***************************************************************************)
EXTENDS Naturals, Functions

CONSTANTS Servers,     \* remarks of the scanned configurations
          MaxStreak,   \* bound: the threshold, _MAX_OFFLINE_STREAK in the code
          MaxMisfortunes \* bound: failures and switches of the panel

(* A server is offline after one scan at the least. *)
ASSUME WatchAssumption == MaxStreak \in Nat \ {0} /\ MaxMisfortunes \in Nat

VARIABLES wanted,      \* the panel of the reseller is on
          task,        \* the running loop, with its local variables
          alerted,     \* ghost: the newest push about each server; "excused" when
                       \* the task has lost its memory of it, "twice" when it
                       \* said what the push before it had said
          misfortunes  \* failures and switches so far

watchVars == <<wanted, task, alerted, misfortunes>>

Status == {"online", "offline", "unknown"}
NewTask == [runs |-> TRUE, streak |-> [s \in Servers |-> 0], notified |-> {},
            needed |-> 1, todo |-> [s \in {} |-> "online"]]
NoTask == [NewTask EXCEPT !.runs = FALSE]
Streaks == 0..MaxStreak

WatchTypeOK ==
    /\ wanted \in BOOLEAN
    /\ task.runs \in BOOLEAN /\ task.streak \in [Servers -> Streaks]
    /\ task.notified \subseteq Servers /\ task.needed \in 1..MaxStreak
    /\ DOMAIN task.todo \subseteq Servers
    /\ \A s \in DOMAIN task.todo : task.todo[s] \in Status
    /\ alerted \in [Servers -> {"none", "down", "up", "excused", "twice"}]
    /\ misfortunes \in 0..MaxMisfortunes

WatchInit ==
    /\ wanted = TRUE /\ task = NoTask
    /\ alerted = [s \in Servers |-> "none"]
    /\ misfortunes = 0

Strikes == misfortunes < MaxMisfortunes /\ misfortunes' = misfortunes + 1
Capped(n) == IF n < MaxStreak THEN n + 1 ELSE n

SwitchesPanel ==
    /\ Strikes
    /\ wanted' = ~wanted
    /\ UNCHANGED <<task, alerted>>

(* _notifier_supervisor: a new task knows nothing of what the old one told.*)
Supervise ==
    /\ task.runs # wanted
    /\ task' = IF wanted THEN NewTask ELSE NoTask
    /\ alerted' = [s \in Servers |-> IF alerted[s] = "down" THEN "excused" ELSE alerted[s]]
    /\ UNCHANGED <<wanted, misfortunes>>

(* A scan that succeeds, of a list the servers may be missing from.  The   *)
(* threshold is read anew for each.                                        *)
Scans(found, needed) ==
    /\ task.runs /\ DOMAIN task.todo = {}
    /\ task' = [task EXCEPT !.todo = found, !.needed = needed]
    /\ UNCHANGED <<wanted, alerted, misfortunes>>

Done(s) == Restrict(task.todo, DOMAIN task.todo \ {s})
(* Mutant: told in every scan. *)
IsDueAgain(s) == Capped(task.streak[s]) >= task.needed

IsDue(s) == Capped(task.streak[s]) >= task.needed /\ s \notin task.notified
IsBack(s) == task.todo[s] = "online" /\ s \in task.notified

(* The push, in the view of those who are told.                            *)
Alerts(s, how, after) ==
    alerted' = [alerted EXCEPT ![s] = IF @ \in after \cup {"excused"} THEN how ELSE "twice"]

FindsOffline(s) ==
    /\ s \in DOMAIN task.todo /\ task.todo[s] = "offline"
    /\ task' = [task EXCEPT !.todo = Done(s), !.streak[s] = Capped(@),
                            !.notified = IF IsDue(s) THEN @ \cup {s} ELSE @]
    /\ IF IsDue(s) THEN Alerts(s, "down", {"none", "up"}) ELSE UNCHANGED alerted
    /\ UNCHANGED <<wanted, misfortunes>>

FindsAnswering(s) ==
    /\ s \in DOMAIN task.todo /\ task.todo[s] # "offline"
    /\ task' = [task EXCEPT !.todo = Done(s), !.streak[s] = 0,
                            !.notified = IF IsBack(s) THEN @ \ {s} ELSE @]
    /\ IF IsBack(s) THEN Alerts(s, "up", {"down"}) ELSE UNCHANGED alerted
    /\ UNCHANGED <<wanted, misfortunes>>

(* _notify_admins fails, before or after it reached a browser: the rest of *)
(* the scan is given up and what was told is not noted.                    *)
FailsToNotify(s) ==
    /\ Strikes
    /\ s \in DOMAIN task.todo
    /\ \/ task.todo[s] = "offline" /\ IsDue(s)
          /\ task' = [task EXCEPT !.todo = [t \in {} |-> "online"], !.streak[s] = Capped(@)]
       \/ IsBack(s)
          /\ task' = [task EXCEPT !.todo = [t \in {} |-> "online"], !.streak[s] = 0]
    /\ alerted' \in {alerted, [alerted EXCEPT ![s] = "excused"]}
    /\ UNCHANGED wanted

Lists == UNION {[S -> Status] : S \in SUBSET Servers}

WatchNext ==
    \/ SwitchesPanel \/ Supervise
    \/ \E found \in Lists, needed \in 1..MaxStreak : Scans(found, needed)
    \/ \E s \in Servers : FindsOffline(s) \/ FindsAnswering(s) \/ FailsToNotify(s)

WatchSpec == WatchInit /\ [][WatchNext]_watchVars

(***************************************************************************)
(* The administrators hear of an outage once and of its end once, however  *)
(* scans, thresholds and failed pushes follow each other                   *)
(* (admin_panel/server.py:256-306).  A push that failed halfway and a      *)
(* restart of the task, which forgets, excuse a repetition.                *)
(***************************************************************************)
OutageToldOnce == \A s \in Servers : alerted[s] # "twice"
===============================================================================
