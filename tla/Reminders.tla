------------------------------- MODULE Reminders -------------------------------
(***************************************************************************)
(* The hourly reminders of one bot: of services about to expire, then of   *)
(* services about to run out of volume, each for the configs of the bank   *)
(* and then for those built on a panel.  A round reads the rows without a  *)
(* mark once; for each it asks the panel how the service stands, makes a   *)
(* discount code, sends it and marks the row.  The panel and Telegram are  *)
(* awaited: configs are sold, released and deleted meanwhile.              *)
(***************************************************************************)
EXTENDS Naturals

CONSTANTS ConfigIds,     \* ids; configs and custom_configs number from one alike
          MaxHitches     \* bound: crashes, errors, changes of the settings

(* AUTOINCREMENT counts from one. *)
ASSUME RemindersAssumption == 0 \notin ConfigIds /\ MaxHitches \in Nat

VARIABLES enabled,  \* the kinds of reminder switched on
          service,  \* the rows of the two tables
          round,    \* the task: what it checks, the rows left, the row at work
          told,     \* ghost: codes sent about a row since it was sold
          hitches   \* crashes, errors and changes so far

reminderVars == <<enabled, service, round, told, hitches>>

Tables == {"bank", "custom"}
Reminds == {"expiry", "volume"}
Rows == Tables \X ConfigIds
NoRound == [kind |-> "none", table |-> "bank", rows |-> {}, at |-> 0, fresh |-> {}]

RemindersTypeOK ==
    /\ enabled \subseteq Reminds
    /\ \A r \in Rows : /\ service[r].state \in {"free", "sold", "gone"}
                       /\ service[r].marked \subseteq Reminds
    /\ round.kind \in Reminds \cup {"none"} /\ round.table \in Tables
    /\ round.rows \subseteq ConfigIds /\ round.at \in ConfigIds \cup {0}
    /\ round.fresh \subseteq Rows
    /\ told \in [Rows -> [Reminds -> 0..2]]
    /\ hitches \in 0..MaxHitches

(* A panel config exists from its sale on and ends by being deleted.       *)
RemindersInit ==
    /\ enabled = Reminds
    /\ service = [r \in Rows |-> [state |-> IF r[1] = "bank" THEN "free" ELSE "sold",
                                  marked |-> {}]]
    /\ round = NoRound
    /\ told = [r \in Rows |-> [k \in Reminds |-> 0]]
    /\ hitches = 0

Hitch == hitches < MaxHitches /\ hitches' = hitches + 1

(* take_unused_config(s), admin_take_random_config, release_config.        *)
Reassigns(r, old, new) ==
    /\ service[r].state = old
    /\ service' = [service EXCEPT ![r] = [state |-> new, marked |-> {}]]
    /\ told' = [told EXCEPT ![r] = [k \in Reminds |-> 0]]
    /\ round' = [round EXCEPT !.fresh = @ \ {r}]
    /\ UNCHANGED <<enabled, hitches>>
SellsConfig(i) == Reassigns(<<"bank", i>>, "free", "sold")
ReleasesConfig(i) == Reassigns(<<"bank", i>>, "sold", "free")
DeletesConfig(r) == Reassigns(r, "sold", "gone")

SwitchesReminder(k) ==
    /\ Hitch
    /\ enabled' = IF k \in enabled THEN enabled \ {k} ELSE enabled \cup {k}
    /\ UNCHANGED <<service, round, told>>

(* Mutant: the mark is not looked at. *)
DueRowsAgain(t, k) ==
    {i \in ConfigIds : k \in enabled /\ service[<<t, i>>].state = "sold"}

(* get_configs_due_for_..., get_custom_configs_due_for_...: empty when the *)
(* reminder is off.                                                        *)
DueRows(t, k) ==
    {i \in ConfigIds : /\ k \in enabled /\ service[<<t, i>>].state = "sold"
                       /\ k \notin service[<<t, i>>].marked}
LooksThrough(t, k) ==
    round' = [kind |-> k, table |-> t, rows |-> DueRows(t, k), at |-> 0,
              fresh |-> {t} \X DueRows(t, k)]

StartsRound ==
    /\ round.kind = "none"
    /\ LooksThrough("bank", "expiry")
    /\ UNCHANGED <<enabled, service, told, hitches>>

(* The next table, the next kind of reminder, the sleep.                   *)
NextCheck ==
    /\ round.kind # "none" /\ round.rows = {}
    /\ \/ round.table = "bank" /\ LooksThrough("custom", round.kind)
       \/ round.table = "custom" /\ round.kind = "expiry" /\ LooksThrough("bank", "volume")
       \/ round.table = "custom" /\ round.kind = "volume" /\ round' = NoRound
    /\ UNCHANGED <<enabled, service, told, hitches>>

(* fetch_sub_info has no answer, or the service is not near its end.       *)
PassesOver(i) ==
    /\ i \in round.rows /\ round.at = 0
    /\ round' = [round EXCEPT !.rows = @ \ {i}]
    /\ UNCHANGED <<enabled, service, told, hitches>>

(* generate_..._discount_code, then the message is on its way, to whoever  *)
(* had bought the row that was read.                                       *)
SendsCode(i) ==
    /\ i \in round.rows /\ round.at = 0
    /\ round' = [round EXCEPT !.at = i]
    /\ LET r == <<round.table, i>>
       IN  told' = IF r \in round.fresh /\ told[r][round.kind] < 2
                   THEN [told EXCEPT ![r][round.kind] = @ + 1] ELSE told
    /\ UNCHANGED <<enabled, service, hitches>>

(* mark_fn, except that the reminder of volume marks the config of the     *)
(* bank with that id, whichever table it is about.                         *)
MarkedRow == <<IF round.kind = "volume" THEN "bank" ELSE round.table, round.at>>

MarksReminded ==
    /\ round.at # 0
    /\ service' = [service EXCEPT ![MarkedRow].marked =
                     IF service[MarkedRow].state = "gone" THEN @ ELSE @ \cup {round.kind}]
    /\ round' = [round EXCEPT !.rows = @ \ {round.at}, !.at = 0]
    /\ UNCHANGED <<enabled, told, hitches>>

(* An error ends the check of this kind, a crash the round: a code that    *)
(* was sent and not marked yet will be sent again, and is not counted.     *)
Uncounted == IF round.at # 0 /\ <<round.table, round.at>> \in round.fresh
             THEN [told EXCEPT ![<<round.table, round.at>>][round.kind] = 0] ELSE told
BreaksOff ==
    /\ Hitch
    /\ round.kind # "none"
    /\ \/ round' = NoRound
       \/ round.kind = "expiry" /\ LooksThrough("bank", "volume")
    /\ told' = Uncounted
    /\ UNCHANGED <<enabled, service>>

RemindersNext ==
    \/ StartsRound \/ NextCheck \/ MarksReminded \/ BreaksOff
    \/ \E i \in ConfigIds : \/ SellsConfig(i) \/ ReleasesConfig(i)
                            \/ PassesOver(i) \/ SendsCode(i)
    \/ \E r \in Rows : DeletesConfig(r)
    \/ \E k \in Reminds : SwitchesReminder(k)

RemindersSpec == RemindersInit /\ [][RemindersNext]_reminderVars

(***************************************************************************)
(* A buyer is reminded of the expiry of his service once, and of its volume *)
(* once when it came from the bank (renewal_reminders.py:8), through every *)
(* round, sale and release between; only an error or a crash between the   *)
(* message and the mark repeats it.  Reminders of the volume of a service  *)
(* built on a panel are left out: MarkedRow never marks them.              *)
(***************************************************************************)
RemindedOnce ==
    \A t \in Tables, i \in ConfigIds, k \in Reminds :
       told[<<t, i>>][k] > 1 => t = "custom" /\ k = "volume"
===============================================================================
