------------------------------- MODULE MCOffice -------------------------------
(***************************************************************************)
(* The parts of the back office that share no variable, for checking with  *)
(* TLC in one run.  A behaviour is about one part, chosen at the start; the *)
(* others stay in their initial state.                                     *)
(***************************************************************************)
EXTENDS ResellerRequests, PanelServers, Support, AdminRoles, PanelAccess,
        ServerWatch, Reminders, SettingsScreens

VARIABLE part

(* Three saves where what one writes is what another has looked at.        *)
SavesOf == [s \in DOMAIN Defaults |-> IF s \in {"free", "join", "menus"} THEN 3 ELSE 2]

Parts == {"requests", "panels", "tickets", "chat", "notifier", "roles",
          "access", "watch", "reminders", "settings"}

OfficeTypeOK ==
    CASE part = "requests" -> RequestsTypeOK
      [] part = "panels" -> PanelsTypeOK
      [] part \in {"tickets", "chat", "notifier"} -> SupportTypeOK
      [] part = "roles" -> RolesTypeOK
      [] part = "access" -> AccessTypeOK
      [] part = "watch" -> WatchTypeOK
      [] part = "reminders" -> RemindersTypeOK
      [] part = "settings" -> SettingsTypeOK

(* Settings and roles have several initial states: the other parts leave   *)
(* them at one of these.                                                   *)
OfficeInit ==
    /\ part \in Parts
    /\ RequestsInit /\ PanelsInit /\ SupportInit /\ RolesInit
    /\ AccessInit /\ WatchInit /\ RemindersInit /\ SettingsInit
    /\ part # "settings" => screen = "card"
    /\ part # "roles" => DOMAIN admins = {Chief}

SupportPart ==
    \/ part = "tickets" /\ TicketsNext
    \/ part = "chat" /\ ChatNext
    \/ part = "notifier" /\ NotifierNext

OfficeVars == <<part, requestVars, panelVars, supportVars, adminVars, accessVars,
                watchVars, reminderVars, settingsVars>>

RequestsWork ==
    /\ part = "requests" /\ RequestsNext
    /\ UNCHANGED <<part, panelVars, supportVars, adminVars, accessVars,
                   watchVars, reminderVars, settingsVars>>
PanelsWork ==
    /\ part = "panels" /\ PanelsNext
    /\ UNCHANGED <<part, requestVars, supportVars, adminVars, accessVars,
                   watchVars, reminderVars, settingsVars>>
SupportWorks ==
    /\ SupportPart
    /\ UNCHANGED <<part, requestVars, panelVars, adminVars, accessVars,
                   watchVars, reminderVars, settingsVars>>
RolesWork ==
    /\ part = "roles" /\ RolesNext
    /\ UNCHANGED <<part, requestVars, panelVars, supportVars, accessVars,
                   watchVars, reminderVars, settingsVars>>
AccessWorks ==
    /\ part = "access" /\ AccessNext
    /\ UNCHANGED <<part, requestVars, panelVars, supportVars, adminVars,
                   watchVars, reminderVars, settingsVars>>
WatchWorks ==
    /\ part = "watch" /\ WatchNext
    /\ UNCHANGED <<part, requestVars, panelVars, supportVars, adminVars,
                   accessVars, reminderVars, settingsVars>>
RemindersWork ==
    /\ part = "reminders" /\ RemindersNext
    /\ UNCHANGED <<part, requestVars, panelVars, supportVars, adminVars,
                   accessVars, watchVars, settingsVars>>
SettingsWork ==
    /\ part = "settings" /\ SettingsNext
    /\ UNCHANGED <<part, requestVars, panelVars, supportVars, adminVars,
                   accessVars, watchVars, reminderVars>>

OfficeNext ==
    \/ RequestsWork \/ PanelsWork \/ SupportWorks \/ RolesWork
    \/ AccessWorks \/ WatchWorks \/ RemindersWork \/ SettingsWork

OfficeSpec == OfficeInit /\ [][OfficeNext]_OfficeVars
===============================================================================
