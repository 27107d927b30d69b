------------------------------ MODULE Referral ------------------------------
(***************************************************************************)
(* The three referral schemes, in the threads of one process: commission   *)
(* for the first purchase of an invited user                               *)
(* (reward_referrer_if_first_purchase), a fixed bonus for an invitation    *)
(* and a free config for enough of them (cmd_start and                     *)
(* apply_referral_invite_rewards).  Two of the methods read settings while *)
(* they hold the lock of the Database object.                              *)
(***************************************************************************)
EXTENDS SettingsCache

CONSTANTS
    Users,      \* users with a row
    Inviters,   \* those whose invitation links are around
    Price       \* what a purchase costs

ASSUME ReferralAssumption ==
    /\ Inviters \subseteq Users /\ None \notin Users /\ IsFiniteSet(Users)
    /\ Price \in Nat
    /\ Keys = {"button", "enabled", "percent", "cap", "bonus", "bonusCap",
               "threshold"}

VARIABLES
    referredBy, \* users.referred_by
    rewarded,   \* users with referral_first_purchase_rewarded
    bonusGiven, \* users with referral_invite_bonus_given
    freeGiven,  \* users with referral_free_config_given
    credit,     \* users.referral_credit
    guest,      \* the invited user a thread works for
    host        \* the user who invited

(* History variables.                                                       *)
VARIABLES
    due,        \* users whose first purchase earned a commission
    paid,       \* commissions paid for a user
    lost,       \* commissions lost to an interruption
    gifts       \* free configs handed to a user

people == <<referredBy, rewarded, bonusGiven, freeGiven, credit>>
parties == <<guest, host>>
records == <<due, paid, lost, gifts>>
vars == <<cacheVars, people, parties, records>>

Labels == {"idle", "select", "store", "inplace",
           "reward", "pay", "percent", "refer", "button", "look", "invite",
           "gifts", "freebie"}
Working == Labels \ {"idle", "select", "store", "inplace"}

TypeOK ==
    /\ CacheTypeOK
    /\ pc \in [Threads -> Labels] /\ then \in [Threads -> Labels]
    /\ referredBy \in [Users -> Users \cup {None}]
    /\ rewarded \in SUBSET Users /\ bonusGiven \in SUBSET Users
    /\ freeGiven \in SUBSET Users
    /\ credit \in [Users -> Nat]
    /\ guest \in [Threads -> Users \cup {None}]
    /\ host \in [Threads -> Users \cup {None}]
    /\ \A h \in Threads :
          pc[h] \in Working => guest[h] \in Users /\ host[h] \in Users
    /\ due \in SUBSET Users /\ lost \in SUBSET Users
    /\ paid \in [Users -> Nat] /\ gifts \in [Users -> Nat]

Init ==
    /\ CacheInit
    /\ referredBy = [u \in Users |-> None]
    /\ rewarded = {} /\ bonusGiven = {} /\ freeGiven = {}
    /\ credit = [u \in Users |-> 0]
    /\ guest = [h \in Threads |-> None]
    /\ host = [h \in Threads |-> None]
    /\ due = {} /\ lost = {}
    /\ paid = [u \in Users |-> 0]
    /\ gifts = [u \in Users |-> 0]

-----------------------------------------------------------------------------

Setting(k) == cache[k]
Enabled(k) == Setting(k) = 1
Invited(r) == {u \in Users : referredBy[u] = r}

(* Go on at l, or end.                                                      *)
Continue(h, l) ==
    /\ Goto(h, l)
    /\ IF l = "idle"
       THEN /\ guest' = [guest EXCEPT ![h] = None]
            /\ host' = [host EXCEPT ![h] = None]
       ELSE UNCHANGED parties

Holds(h) == lock = h
Acquire(h) == lock = Nobody /\ lock' = h

(* Mutant: an early return leaves the lock taken.                           *)
ReleaseWhenOn == lock' = IF Enabled("enabled") THEN Nobody ELSE lock
Release == lock' = Nobody

(* A setting read outside a transaction: with a copy that is too old the    *)
(* thread loads the settings first, and then reads whatever copy is there.  *)
Reads == [pay |-> "percent", button |-> "look"]

Reload(h) ==
    /\ pc[h] \in DOMAIN Reads /\ ~Cached
    /\ Load(h, Reads[pc[h]])
    /\ UNCHANGED <<people, parties, records>>

CanRead(h, l) == pc[h] = Reads[l] \/ (pc[h] = l /\ Cached)

-----------------------------------------------------------------------------
(* reward_referrer_if_first_purchase, after a purchase of u.                *)

FirstPurchase(u) == referredBy[u] # None /\ u \notin rewarded

TakeReward(h, u) ==
    /\ pc[h] = "idle"
    /\ Acquire(h)
    /\ FirstPurchase(u)
    /\ Goto(h, "reward")
    /\ guest' = [guest EXCEPT ![h] = u]
    /\ host' = [host EXCEPT ![h] = referredBy[u]]
    /\ UNCHANGED <<table, loading, changes, failures, people, records>>

(* Mutant: one commission too many.                                         *)
CapLeftAtCap(r) ==
    Setting("cap") = 0 \/ Cardinality(Invited(r) \cap rewarded) <= Setting("cap")

(* referral_commission_max_count                                            *)
CapLeft(r) ==
    Setting("cap") = 0 \/ Cardinality(Invited(r) \cap rewarded) < Setting("cap")

(* Mutant: only a purchase beyond the limit is marked.                      *)
MarksBeyond(on, earns) == on /\ ~earns

(* The purchase is marked, within the limit or beyond it.                   *)
Marks(on, earns) == on

(* The rest of the transaction.  get_setting is called with the lock held:  *)
(* with a copy that is missing or too old the thread waits for itself.      *)
Commission(h) ==
    LET u == guest[h]
        on == Enabled("button") /\ Enabled("enabled")
        earns == on /\ CapLeft(host[h])
    IN
    /\ pc[h] = "reward" /\ Holds(h) /\ Cached
    /\ Release
    /\ rewarded' = IF Marks(on, earns) THEN rewarded \cup {u} ELSE rewarded
    /\ due' = IF earns THEN due \cup {u} ELSE due
    /\ Continue(h, IF earns THEN "pay" ELSE "idle")
    /\ UNCHANGED <<table, loading, changes, failures>>
    /\ UNCHANGED <<referredBy, bonusGiven, freeGiven, credit, paid, lost, gifts>>

(* The percentage, and the wallet in a transaction of its own.              *)
PayCommission(h) ==
    LET reward == (Price * Setting("percent")) \div 100 IN
    /\ CanRead(h, "pay") /\ lock = Nobody
    /\ credit' = [credit EXCEPT ![host[h]] = @ + reward]
    /\ IF reward > 0
       THEN paid' = [paid EXCEPT ![guest[h]] = @ + 1] /\ UNCHANGED due
       ELSE due' = due \ {guest[h]} /\ UNCHANGED paid
    /\ Continue(h, "idle")
    /\ UNCHANGED <<lock, table, loading, changes, failures>>
    /\ UNCHANGED <<referredBy, rewarded, bonusGiven, freeGiven, lost, gifts>>

-----------------------------------------------------------------------------
(* cmd_start with the link of r, by a user who has not been invited yet.    *)

StartInvite(h, u, r) ==
    /\ pc[h] = "idle" /\ lock = Nobody
    /\ u # r /\ referredBy[u] = None
    /\ Goto(h, "refer")
    /\ guest' = [guest EXCEPT ![h] = u]
    /\ host' = [host EXCEPT ![h] = r]
    /\ UNCHANGED <<lock, table, loading, changes, failures, people, records>>

(* set_referred_by keeps the first referrer.                                *)
Refer(h) ==
    LET u == guest[h] IN
    /\ pc[h] = "refer" /\ lock = Nobody
    /\ referredBy' = [referredBy EXCEPT ![u] = IF @ = None THEN host[h] ELSE @]
    /\ Goto(h, "button")
    /\ UNCHANGED <<lock, table, loading, changes, failures, parties, records>>
    /\ UNCHANGED <<rewarded, bonusGiven, freeGiven, credit>>

(* apply_referral_invite_rewards: the first setting before the transaction, *)
(* the others inside it.                                                    *)
Button(h) ==
    /\ CanRead(h, "button")
    /\ Continue(h, IF Enabled("button") THEN "invite" ELSE "idle")
    /\ UNCHANGED <<lock, table, loading, changes, failures, people, records>>

BeginInvite(h) ==
    /\ pc[h] = "invite"
    /\ Acquire(h)
    /\ Goto(h, "gifts")
    /\ UNCHANGED <<table, loading, changes, failures, people, parties, records>>

BonusLeft(r) ==
    /\ Setting("bonus") > 0
    /\ \/ Setting("bonusCap") = 0
       \/ Cardinality(Invited(r) \cap bonusGiven) < Setting("bonusCap")

(* Mutant: the free config is given for every invitation from the           *)
(* threshold on.                                                            *)
EarnsFreeAgain(r) ==
    Setting("threshold") > 0 /\ Cardinality(Invited(r)) >= Setting("threshold")

EarnsFree(r) ==
    /\ r \notin freeGiven
    /\ Setting("threshold") > 0
    /\ Cardinality(Invited(r)) >= Setting("threshold")

InviteGifts(h) ==
    LET r == host[h]
        bonus == BonusLeft(r)
        free == EarnsFree(r)
    IN
    /\ pc[h] = "gifts" /\ Holds(h) /\ Cached
    /\ Release
    /\ bonusGiven' = IF bonus THEN bonusGiven \cup {guest[h]} ELSE bonusGiven
    /\ credit' = IF bonus THEN [credit EXCEPT ![r] = @ + Setting("bonus")]
                 ELSE credit
    /\ freeGiven' = IF free THEN freeGiven \cup {r} ELSE freeGiven
    /\ Continue(h, IF free THEN "freebie" ELSE "idle")
    /\ UNCHANGED <<table, loading, changes, failures, records>>
    /\ UNCHANGED <<referredBy, rewarded>>

(* _handle_referral_invite_rewards: the panel builds the free config, or    *)
(* fails and the referrer is sent to support.                               *)
Freebie(h) ==
    LET r == host[h] IN
    /\ pc[h] = "freebie"
    /\ gifts' \in {gifts, [gifts EXCEPT ![r] = @ + 1]}
    /\ Continue(h, "idle")
    /\ UNCHANGED <<lock, table, loading, changes, failures, people>>
    /\ UNCHANGED <<due, paid, lost>>

-----------------------------------------------------------------------------
(* An exception ("database is locked") or a crash of the request, where it  *)
(* does not wait for itself: the transaction is rolled back.                *)
Paying(h) == {pc[h], then[h]} \cap {"pay", "percent"} # {}

WaitsForItself(h) == pc[h] \in {"reward", "gifts"} /\ ~Cached

Interrupt(h) ==
    /\ pc[h] # "idle" /\ ~WaitsForItself(h)
    /\ failures < MaxFailures
    /\ failures' = failures + 1
    /\ lock' = IF Holds(h) THEN Nobody ELSE lock
    /\ lost' = IF Paying(h) THEN lost \cup {guest[h]} ELSE lost
    /\ then' = [then EXCEPT ![h] = "idle"]
    /\ snap' = [snap EXCEPT ![h] = None]
    /\ edit' = [edit EXCEPT ![h] = None]
    /\ Continue(h, "idle")
    /\ UNCHANGED <<table, changes, people, due, paid, gifts>>

-----------------------------------------------------------------------------

Step(h) ==
    \/ Reload(h)
    \/ Commission(h) \/ PayCommission(h)
    \/ Refer(h) \/ Button(h) \/ BeginInvite(h) \/ InviteGifts(h) \/ Freebie(h)

Start(h) ==
    \/ \E u \in Users : TakeReward(h, u)
    \/ \E u \in Users, r \in Inviters : StartInvite(h, u, r)

Next ==
    \/ CacheNext /\ UNCHANGED <<people, parties, records>>
    \/ \E h \in Threads : Step(h) \/ Start(h) \/ Interrupt(h)

Spec == Init /\ [][Next]_vars

(* A thread that can go on again and again does, and somebody loads the  *)
(* settings again and again (the refresh loop of the bot, or the filters    *)
(* that read them for every message); nobody is obliged to start   *)
(* a request.                                                               *)
Fairness ==
    /\ \A h \in Threads :
          SF_vars(\/ Step(h)
                  \/ CacheStep(h) /\ UNCHANGED <<people, parties, records>>)
    /\ SF_vars(\E h \in Threads :
                  Refresh(h) /\ UNCHANGED <<people, parties, records>>)
FairSpec == Spec /\ Fairness
=============================================================================
