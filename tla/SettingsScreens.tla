---------------------------- MODULE SettingsScreens ----------------------------
(***************************************************************************)
(* The settings an administrator changes: in dialogs and with switches in  *)
(* the bot, and in forms of the mini app and of the web panel.  Each front *)
(* end has checks of its own, and each writes the keys of a screen one     *)
(* set_setting after the other, so that two saves may mix and one may be   *)
(* cut short.  A switch reads and later writes.  The keys of one screen    *)
(* are those whose checks refer to each other; screens do not affect each  *)
(* other, and a behaviour is about one of them.                            *)
(*                                                                         *)
(* Of a value only its class is kept.  "odd" stands for digits such as a   *)
(* superscript two, which isdigit() lets pass and int() refuses, and for   *)
(* the float "nan", and for the fractions and exponents a number field of  *)
(* a browser lets pass.  A dialog that calls int() on it ends in an error, *)
(* as one that rejects it, and nothing is stored.                          *)
(***************************************************************************)
EXTENDS Naturals, Sequences

CONSTANTS Savers,   \* handlers that save at the same time
          MaxSaves   \* bound: saves begun, for each screen

VARIABLES screen,      \* the screen this behaviour is about
          settings,    \* its keys in the table settings
          saves,       \* what a running handler has still to write
          begunSaves,  \* saves begun
          unchecked,   \* ghost: the keys last written by the panel's page of settings
          forms,       \* ghost: the handlers that write the keys of a form
          mixed        \* ghost: a form ran beside another save or was cut short, or
                       \* two switches of the menus ran at once

settingsVars == <<screen, settings, saves, begunSaves, unchecked, forms, mixed>>

Hundred == {"zero", "few", "hundred"}            \* 0..100
Share == {"few", "hundred"}                      \* 1..100
Positive == {"few", "hundred", "many"}
Count == Positive \cup {"zero"}
Digits == Count \cup {"odd"}
Switch == {"on", "off"}
LessThan == [few |-> {}, hundred |-> {"few"}, many |-> {"few", "hundred"}]

(* DEFAULT_SETTINGS, which the table is filled with.                       *)
Defaults ==
    [referral |-> [percent |-> "few", commission_max |-> "zero"],
     free |-> [free_on |-> "off", threshold |-> "few", product |-> "none"],
     invite |-> [invite_on |-> "off", amount |-> "zero", invite_max |-> "few"],
     wheel |-> [win_percent |-> "few", prizes |-> "few", cooldown |-> "few"],
     renewal |-> [days |-> "few", discount |-> "few", hours |-> "few"],
     volume |-> [mode |-> "percent", used_percent |-> "few", gb_left |-> "few"],
     limits |-> [min_gb |-> "few", max_gb |-> "many"],
     trial |-> [test_gb |-> "few", test_days |-> "few"],
     join |-> [join_on |-> "off", channel |-> "none"],
     stock |-> [low_stock |-> "few"],
     menus |-> [reply_menu |-> "on", inline_menu |-> "off"],
     card |-> [card_number |-> "first", card_holder |-> "first"]]

ASSUME SettingsAssumption == MaxSaves \in [DOMAIN Defaults -> Nat]

(***************************************************************************)
(* What the readers can use.                                               *)
(***************************************************************************)
ReferralReads == [percent |-> Hundred, commission_max |-> Count, threshold |-> Count,
                  product |-> {"none", "auto"}, amount |-> Count, invite_max |-> Count]
WheelReads == [win_percent |-> Hundred, prizes |-> Positive, cooldown |-> Positive]
RenewalReads == [days |-> Positive, discount |-> Hundred, hours |-> Positive]
VolumeReads == [mode |-> {"percent", "gb"}, used_percent |-> {"few"},
                gb_left |-> Positive]
CustomReads == [min_gb |-> Positive, max_gb |-> Positive,
                test_gb |-> Positive, test_days |-> Positive]
StockReads == [low_stock |-> Count]
JoinReads == [channel |-> {"none", "first"}]
MenuReads == [k \in {"reply_menu", "inline_menu", "join_on", "free_on",
                     "invite_on"} |-> Switch]
CardReads == [k \in {"card_number", "card_holder"} |-> {"first", "second"}]
Readers == {ReferralReads, WheelReads, RenewalReads, VolumeReads, CustomReads,
            StockReads, JoinReads, MenuReads, CardReads}
Readable(k, v) == \E reads \in Readers : k \in DOMAIN reads /\ v \in reads[k]

(* The dialogs that ask no more of a number than isdigit() or float().     *)
Careless == {"commission_max", "invite_max", "gb_left"}

(* The keys the panel's page of settings posts as they were typed.         *)
Typed == {"min_gb", "max_gb"}

SettingsTypeOK ==
    /\ screen \in DOMAIN Defaults /\ DOMAIN settings = DOMAIN Defaults[screen]
    /\ \A k \in DOMAIN settings : \E reads \in Readers : k \in DOMAIN reads
    /\ \A w \in Savers : \A i \in DOMAIN saves[w] :
          saves[w][i].key \in DOMAIN settings
    /\ unchecked \subseteq DOMAIN settings /\ forms \subseteq Savers
    /\ begunSaves \in 0..MaxSaves[screen] /\ mixed \in BOOLEAN

(***************************************************************************)
(* A handler that passed its checks begins to write.                       *)
(***************************************************************************)
Put(k, v) == [key |-> k, value |-> v, checked |-> TRUE]
Post(k, v) == [key |-> k, value |-> v, checked |-> FALSE]

Running == {w \in Savers : saves[w] # <<>>}

Save(w, of, puts) ==
    /\ screen = of
    /\ saves[w] = <<>> /\ begunSaves < MaxSaves[screen]
    /\ begunSaves' = begunSaves + 1
    /\ saves' = [saves EXCEPT ![w] = puts]
    /\ forms' = IF Len(puts) > 1 THEN forms \cup {w} ELSE forms
    /\ mixed' = (\/ mixed
                 \/ Running # {} /\ (Len(puts) > 1 \/ forms # {} \/ of = "menus"))
    /\ UNCHANGED <<screen, settings, unchecked>>

SaveOne(w, of, k, accepted) == \E v \in accepted : Save(w, of, <<Put(k, v)>>)

(* A switch has read the key, and perhaps another one it depends on.       *)
Flip(w, of, k, unless) ==
    /\ screen = of /\ ~unless
    /\ Save(w, of, <<Put(k, IF settings[k] = "on" THEN "off" ELSE "on")>>)

SetSetting(w) ==
    /\ saves[w] # <<>>
    /\ LET put == Head(saves[w])
       IN  /\ settings' = [settings EXCEPT ![put.key] = put.value]
           /\ unchecked' = IF put.checked THEN unchecked \ {put.key}
                           ELSE unchecked \cup {put.key}
    /\ saves' = [saves EXCEPT ![w] = Tail(@)]
    /\ forms' = IF Tail(saves[w]) = <<>> THEN forms \ {w} ELSE forms
    /\ UNCHANGED <<screen, begunSaves, mixed>>

BrokenOff(w) ==
    /\ saves[w] # <<>>
    /\ saves' = [saves EXCEPT ![w] = <<>>]
    /\ forms' = forms \ {w}
    /\ mixed' = (mixed \/ w \in forms)
    /\ UNCHANGED <<screen, settings, begunSaves, unchecked>>

(***************************************************************************)
(* The dialogs and switches of the bot.                                    *)
(***************************************************************************)
ReferralDialogs(w) == \/ SaveOne(w, "referral", "percent", Hundred)
                      \/ SaveOne(w, "referral", "commission_max", Digits)
FreeConfigDialogs(w) ==
    \/ /\ screen = "free"
       /\ Flip(w, "free", "free_on",
               settings["free_on"] = "off" /\ settings["product"] = "none")
    \/ SaveOne(w, "free", "threshold", Positive)
    \/ SaveOne(w, "free", "product", {"auto"})
InviteDialogs(w) ==
    \/ /\ screen = "invite"
       /\ Flip(w, "invite", "invite_on",
               settings["invite_on"] = "off" /\ settings["amount"] = "zero")
    \/ SaveOne(w, "invite", "amount", Count)
    \/ SaveOne(w, "invite", "invite_max", Digits)
(* Mutant: the numbers are not compared with one. *)
WheelDialogsFromZero(w) == \/ SaveOne(w, "wheel", "prizes", Count)
                           \/ SaveOne(w, "wheel", "cooldown", Count)

WheelDialogs(w) == \/ SaveOne(w, "wheel", "win_percent", Hundred)
                   \/ SaveOne(w, "wheel", "prizes", Share)
                   \/ SaveOne(w, "wheel", "cooldown", Positive)
RenewalDialogs(w) == \/ SaveOne(w, "renewal", "days", Positive)
                     \/ SaveOne(w, "renewal", "discount", Share)
                     \/ SaveOne(w, "renewal", "hours", Positive)
VolumeDialogs(w) ==
    \/ /\ screen = "volume"
       /\ SaveOne(w, "volume", "mode",
                  {IF settings["mode"] = "percent" THEN "gb" ELSE "percent"})
    \/ SaveOne(w, "volume", "used_percent", {"few"})
    \/ SaveOne(w, "volume", "gb_left", Positive \cup {"odd"})
StockDialog(w) == SaveOne(w, "stock", "low_stock", Count)
(* Mutant: a key of another screen. *)
TrialDialogElsewhere(w) ==
    \E gb, days \in Positive : Save(w, "trial", <<Put("min_gb", gb), Put("test_days", days)>>)

TrialDialog(w) ==
    \E gb, days \in Positive : Save(w, "trial", <<Put("test_gb", gb), Put("test_days", days)>>)
(* The largest volume is compared with the smallest, sent just before.     *)
LimitsDialog(w) ==
    \E max \in Positive : \E min \in LessThan[max] :
        Save(w, "limits", <<Put("min_gb", min), Put("max_gb", max)>>)
JoinDialogs(w) ==
    \/ /\ screen = "join"
       /\ Flip(w, "join", "join_on",
               settings["join_on"] = "off" /\ settings["channel"] = "none")
    \/ SaveOne(w, "join", "channel", {"first"})
CardDialog(w) ==
    \E c \in {"first", "second"} : Save(w, "card", <<Put("card_number", c), Put("card_holder", c)>>)

(* Mutant: the other menu is not looked at. *)
MenuSwitchesFreely(w) ==
    screen = "menus" /\ \E k \in {"reply_menu", "inline_menu"} : Flip(w, "menus", k, FALSE)

(* The last menu that is left is not switched off.                         *)
MenuSwitches(w) ==
    \E k, other \in {"reply_menu", "inline_menu"} :
        /\ k # other /\ screen = "menus"
        /\ Flip(w, "menus", k, settings[k] = "on" /\ settings[other] = "off")

(***************************************************************************)
(* The forms of the panel; the mini app repeats their checks, with some of *)
(* its own for the volumes.                                                *)
(***************************************************************************)
ReferralForm(w) ==
    \/ \E p \in Hundred, max \in Count :
         Save(w, "referral", <<Put("percent", p), Put("commission_max", max)>>)
    \/ \E on \in Switch, n \in Count, p \in {"none", "auto"} :
         /\ on = "on" => p = "auto" /\ n # "zero"
         /\ Save(w, "free", <<Put("free_on", on), Put("threshold", n), Put("product", p)>>)
    \/ \E on \in Switch, a, max \in Count :
         /\ on = "on" => a # "zero"
         /\ Save(w, "invite", <<Put("invite_on", on), Put("amount", a), Put("invite_max", max)>>)
WheelForm(w) ==
    \E p \in Hundred, prizes, c \in Positive :
        Save(w, "wheel", <<Put("win_percent", p), Put("prizes", prizes), Put("cooldown", c)>>)
RenewalForm(w) ==
    \E days, h \in Positive, p \in Hundred :
        Save(w, "renewal", <<Put("days", days), Put("discount", p), Put("hours", h)>>)
VolumeForm(w) ==
    \E mode \in {"percent", "gb"}, gb \in Positive :
        Save(w, "volume", <<Put("mode", mode), Put("used_percent", "few"), Put("gb_left", gb)>>)
TrialForm(w) ==
    \E gb, days \in Positive : Save(w, "trial", <<Put("test_gb", gb), Put("test_days", days)>>)
JoinForm(w) ==
    \E on \in Switch, c \in {"none", "first"} :
        /\ on = "on" => c # "none"
        /\ Save(w, "join", <<Put("join_on", on), Put("channel", c)>>)
LimitsForm(w) ==
    \E max \in Positive : \E min \in LessThan[max] \cup {max} :
        Save(w, "limits", <<Put("min_gb", min), Put("max_gb", max)>>)

AppReferralForm(w) == ReferralForm(w)
AppWheelForm(w) == WheelForm(w)
AppRenewalForm(w) == RenewalForm(w)
AppVolumeForm(w) == VolumeForm(w)
AppCardForm(w) == CardDialog(w)
(* Every field may be left out, and is written before the next is checked; *)
(* a smallest volume alone is not compared with the largest there is, and  *)
(* a smallest volume that int() refuses ends the request.                  *)
AppLimitsForm(w) ==
    \/ SaveOne(w, "limits", "min_gb", Positive)
    \/ LimitsDialog(w)
    \/ /\ screen = "limits"
       /\ SaveOne(w, "limits", "max_gb",
                  {max \in Positive : settings["min_gb"] \in LessThan[max] \cup {"zero"}})
    \/ TrialForm(w)
    \/ SaveOne(w, "trial", "test_gb", Positive) \/ SaveOne(w, "trial", "test_days", Positive)

(* The panel's own page of settings posts every field it shows, key by     *)
(* key, as typed or as it was when the page was opened, and stops at the   *)
(* first post that fails; the endpoint stores what it is sent.             *)
SettingsPage(w) ==
    \/ \E min, max \in Digits :
         Save(w, "limits", <<Post("min_gb", min), Post("max_gb", max)>>)
    \/ \E number, holder \in {"first", "second"} :
         Save(w, "card", <<Post("card_number", number), Post("card_holder", holder)>>)

SettingsInit ==
    /\ screen \in DOMAIN Defaults
    /\ settings = Defaults[screen]
    /\ saves = [w \in Savers |-> <<>>]
    /\ begunSaves = 0 /\ mixed = FALSE /\ unchecked = {} /\ forms = {}

SettingsNext ==
    \E w \in Savers :
       \/ SetSetting(w) \/ BrokenOff(w)
       \/ ReferralDialogs(w) \/ FreeConfigDialogs(w) \/ InviteDialogs(w)
       \/ WheelDialogs(w) \/ RenewalDialogs(w) \/ VolumeDialogs(w)
       \/ StockDialog(w) \/ TrialDialog(w) \/ LimitsDialog(w)
       \/ JoinDialogs(w) \/ CardDialog(w) \/ MenuSwitches(w)
       \/ ReferralForm(w) \/ WheelForm(w) \/ RenewalForm(w) \/ VolumeForm(w)
       \/ TrialForm(w) \/ JoinForm(w) \/ LimitsForm(w)
       \/ AppReferralForm(w) \/ AppWheelForm(w) \/ AppRenewalForm(w)
       \/ AppVolumeForm(w) \/ AppCardForm(w) \/ AppLimitsForm(w) \/ SettingsPage(w)

SettingsSpec == SettingsInit /\ [][SettingsNext]_settingsVars

(***************************************************************************)
(* Whatever dialogs, switches and forms are used, mixed or broken off, what*)
(* they leave is a value the readers can compute with (database.py:2996,   *)
(* 3045, 3110, 3686 and the reward transaction), except for "odd" in the   *)
(* three keys whose dialogs do not convert what they were sent, and for    *)
(* the volumes the panel's page of settings wrote last: whoever writes one *)
(* of these after it, beside it or between its posts, makes it readable.   *)
(***************************************************************************)
StoredIsReadable ==
    \A k \in DOMAIN settings :
       \/ Readable(k, settings[k])
       \/ settings[k] = "odd" /\ k \in Careless
       \/ k \in unchecked /\ k \in Typed

(***************************************************************************)
(* What is switched on has what it needs: a free config a product, a       *)
(* required channel its name, and one of the two menus is on.  A switch    *)
(* looks at the other key long before it writes, and any number of dialogs *)
(* and switches may save meanwhile; only a form beside another save or cut *)
(* short, and two switches of the menus at once, can break it              *)
(* (handlers_admin.py:876-887, 1712-1722, 3783-3810, 3904-3915).           *)
(***************************************************************************)
SwitchesAreBacked ==
    ~mixed /\ forms = {} =>
       /\ screen = "free" => settings["free_on"] = "off" \/ settings["product"] = "auto"
       /\ screen = "join" => settings["join_on"] = "off" \/ settings["channel"] = "first"
       /\ screen = "menus" => "on" \in {settings["reply_menu"], settings["inline_menu"]}
===============================================================================
