------------------------------- MODULE Support --------------------------------
(***************************************************************************)
(* Tickets and the live chat.  The mini app answers tickets in one event   *)
(* loop and does not let go of it between its look and its writes; the web *)
(* panel is another process and every call to the database is a step of    *)
(* its own.  The chat is answered from the bot as well.  The notifier of   *)
(* the panel tells the administrators of new messages of users.            *)
(***************************************************************************)
EXTENDS Naturals, FiniteSets

CONSTANTS TgAdmins,     \* administrators with a Telegram id, the owner not one
          Owner,        \* the owner of the bot
          WebAdmins,    \* administrators of the web panel, owners not among them
          MaxTickets,   \* bound: rows of tickets
          MaxAnswers,   \* bound: answers begun
          MaxMessages   \* bound: messages of users, in tickets and in the chat

VARIABLES tickets,      \* tickets, with the sender of their newest message
          answers,      \* ghost: who has answered, and through what
          chat,         \* the conversation of one user, and the presence
          reply,        \* the answer each administrator is writing
          incoming,     \* a message of the user on its way to a keeper
          notifier,     \* _notifier_loop; ghosts: the messages it has told of,
                        \* and those it found there when it started anew
          spentOn       \* the counters of the bounds

supportVars == <<tickets, answers, chat, reply, incoming, notifier, spentOn>>

Staff == TgAdmins \cup {Owner} \cup WebAdmins
Nobody == "nobody"
User == "user"
Writers == Staff \cup {User}
OnTelegram == TgAdmins \cup {Owner}

(* Ids of the web panel count from one; those of Telegram are far larger.  *)
ASSUME SupportAssumption ==
    /\ WebAdmins \cap OnTelegram = {} /\ {Nobody, User} \cap Staff = {}
    /\ {MaxTickets, MaxAnswers, MaxMessages} \subseteq Nat

Ticket == [status : {"open", "answered", "closed"}, claimed : Staff \cup {Nobody},
           last : {"user", "admin"}]
NoReply == [pc |-> "idle", to |-> 0, via |-> "app"]
Vias == {"app", "web", "bot"}

SupportTypeOK ==
    /\ DOMAIN tickets \in SUBSET (1..MaxTickets)
    /\ \A t \in DOMAIN tickets : tickets[t] \in Ticket
    /\ answers \subseteq [to : 0..MaxTickets, by : Staff, via : Vias]
    /\ chat \in [assigned : Staff \cup {Nobody}, online : SUBSET OnTelegram,
                 newest : 0..MaxMessages, unread : BOOLEAN]
    /\ reply \in [Writers -> [pc : {"idle", "claim", "ask", "take", "add"},
                              to : 0..MaxTickets, via : Vias]]
    /\ incoming \in [resolve : 0..MaxMessages, assign : SUBSET OnTelegram]
    /\ notifier \in [pc : {"sleep", "list", "down"}, last : 0..MaxMessages,
                     latest : 0..MaxMessages, told : SUBSET (1..MaxMessages),
                     skipped : SUBSET (1..MaxMessages)]
    /\ spentOn \in [answers : 0..MaxAnswers, messages : 0..MaxMessages]

Answering == /\ spentOn.answers < MaxAnswers
             /\ spentOn' = [spentOn EXCEPT !.answers = @ + 1]
Writing == /\ spentOn.messages < MaxMessages
           /\ spentOn' = [spentOn EXCEPT !.messages = @ + 1]

(***************************************************************************)
(* Tickets.                                                                *)
(***************************************************************************)
KeepChat == UNCHANGED <<chat, incoming, notifier>>

create_ticket ==
    LET id == Cardinality(DOMAIN tickets) + 1
    IN  /\ id <= MaxTickets
        /\ tickets' = [t \in DOMAIN tickets \cup {id} |->
                         IF t = id THEN [status |-> "open", claimed |-> Nobody,
                                         last |-> "user"]
                         ELSE tickets[t]]
        /\ UNCHANGED <<answers, reply, spentOn>> /\ KeepChat

(* The status follows the sender, in the transaction that adds the message. *)
Added(t, sender, claimed) ==
    tickets' = [tickets EXCEPT ![t] =
                  [status |-> IF sender = "admin" THEN "answered" ELSE "open",
                   claimed |-> claimed, last |-> sender]]

CloseTicket(t) ==
    /\ t \in DOMAIN tickets
    /\ tickets' = [tickets EXCEPT ![t].status = "closed"]
    /\ UNCHANGED <<answers, reply, spentOn>> /\ KeepChat

(* UPDATE ... WHERE claimed_by IS NULL.                                    *)
claim_ticket_if_open(t, a) ==
    IF tickets[t].claimed = Nobody THEN a ELSE tickets[t].claimed

(* Mutant: whoever opens a ticket may answer it. *)
MayAnswerAny(t, a) == TRUE

MayAnswer(t, a) == \/ tickets[t].claimed \in {Nobody, a}
                   \/ a = Owner

(* The mini app looks at the ticket, claims it and adds the answer without *)
(* another of its own handlers in between.                                 *)
AppIsFree == \A b \in OnTelegram \cup {User} : reply[b].via # "app" \/ reply[b].pc = "idle"

UserAddsToTicket(t) ==
    /\ t \in DOMAIN tickets /\ tickets[t].status # "closed"
    /\ AppIsFree /\ Writing
    /\ reply' = [reply EXCEPT ![User] = [pc |-> "add", to |-> t, via |-> "app"]]
    /\ UNCHANGED <<tickets, answers>> /\ KeepChat

AppAnswersTicket(t, a) ==
    /\ t \in DOMAIN tickets /\ MayAnswer(t, a)
    /\ AppIsFree /\ reply[a].pc = "idle" /\ Answering
    /\ reply' = [reply EXCEPT ![a] = [pc |-> "claim", to |-> t, via |-> "app"]]
    /\ UNCHANGED <<tickets, answers>> /\ KeepChat

(* The panel answers whatever ticket there is.                             *)
WebAnswersTicket(t, a) ==
    /\ t \in DOMAIN tickets /\ reply[a].pc = "idle" /\ Answering
    /\ reply' = [reply EXCEPT ![a] = [pc |-> "claim", to |-> t, via |-> "web"]]
    /\ UNCHANGED <<tickets, answers>> /\ KeepChat

ClaimTicket(a) ==
    /\ reply[a].pc = "claim"
    /\ tickets' = [tickets EXCEPT ![reply[a].to].claimed =
                     claim_ticket_if_open(reply[a].to, a)]
    /\ reply' = [reply EXCEPT ![a].pc = "add"]
    /\ UNCHANGED <<answers, spentOn>> /\ KeepChat

AddToTicket(a) ==
    /\ reply[a].pc = "add" /\ reply[a].to # 0
    /\ LET t == reply[a].to
       IN  Added(t, IF a = User THEN "user" ELSE "admin", tickets[t].claimed)
    /\ answers' = IF a = User THEN answers
                  ELSE answers \cup {[to |-> reply[a].to, by |-> a,
                                      via |-> reply[a].via]}
    /\ reply' = [reply EXCEPT ![a] = NoReply]
    /\ UNCHANGED spentOn /\ KeepChat

(***************************************************************************)
(* The chat: a message is stored, then its keeper is found among those who *)
(* are online; the web panel's administrators never are.                   *)
(***************************************************************************)
KeepTickets == UNCHANGED tickets

UserWrites ==
    /\ Writing
    /\ chat' = [chat EXCEPT !.newest = @ + 1, !.unread = TRUE]
    /\ incoming' = [incoming EXCEPT !.resolve = @ + 1]
    /\ UNCHANGED <<answers, reply, notifier>> /\ KeepTickets

(* The owner first, then by role and id.                                   *)
Candidates == IF Owner \in chat.online THEN {Owner} ELSE chat.online

resolve_support_admin_for_message ==
    /\ incoming.resolve > 0
    /\ \E to \in IF chat.assigned \in chat.online \/ chat.online = {}
                 THEN {{}} ELSE {{a} : a \in Candidates} :
         incoming' = [resolve |-> incoming.resolve - 1,
                      assign |-> incoming.assign \cup to]
    /\ UNCHANGED <<chat, answers, reply, notifier, spentOn>> /\ KeepTickets

AssignKeeper(a) ==
    /\ a \in incoming.assign
    /\ chat' = [chat EXCEPT !.assigned = a]
    /\ incoming' = [incoming EXCEPT !.assign = @ \ {a}]
    /\ UNCHANGED <<answers, reply, notifier, spentOn>> /\ KeepTickets

MayReply(a) == chat.assigned \in {Nobody, a} \/ a = Owner

(* In the bot the check is made twice, before and after the dialog.        *)
BotAsksReply(a) ==
    /\ a \in OnTelegram /\ MayReply(a) /\ reply[a].pc = "idle" /\ Answering
    /\ reply' = [reply EXCEPT ![a] = [pc |-> "ask", to |-> 0, via |-> "bot"]]
    /\ UNCHANGED <<chat, answers, incoming, notifier>> /\ KeepTickets

BotReplies(a) ==
    /\ reply[a].pc = "ask"
    /\ reply' = [reply EXCEPT ![a] =
                   IF ~MayReply(a) THEN NoReply
                   ELSE [@ EXCEPT !.pc = IF a = Owner THEN "add" ELSE "take"]]
    /\ UNCHANGED <<chat, answers, incoming, notifier, spentOn>> /\ KeepTickets

WebReplies(a) ==
    /\ a \in WebAdmins /\ MayReply(a) /\ reply[a].pc = "idle" /\ Answering
    /\ reply' = [reply EXCEPT ![a] = [pc |-> "take", to |-> 0, via |-> "web"]]
    /\ UNCHANGED <<chat, answers, incoming, notifier>> /\ KeepTickets

AppReplies(a) ==
    /\ a \in OnTelegram /\ MayReply(a) /\ AppIsFree
    /\ reply[a].pc = "idle" /\ Answering
    /\ reply' = [reply EXCEPT ![a] =
                   [pc |-> IF a = Owner THEN "add" ELSE "take", to |-> 0,
                    via |-> "app"]]
    /\ UNCHANGED <<chat, answers, incoming, notifier>> /\ KeepTickets

set_support_conversation_admin(a) ==
    /\ reply[a].pc = "take"
    /\ chat' = [chat EXCEPT !.assigned = a]
    /\ reply' = [reply EXCEPT ![a].pc = "add"]
    /\ UNCHANGED <<answers, incoming, notifier, spentOn>> /\ KeepTickets

AddReply(a) ==
    /\ reply[a].pc = "add" /\ reply[a].to = 0
    /\ answers' = answers \cup {[to |-> 0, by |-> a, via |-> reply[a].via]}
    /\ reply' = [reply EXCEPT ![a] = NoReply]
    /\ UNCHANGED <<chat, incoming, notifier, spentOn>> /\ KeepTickets

(* Telegram refuses the message: nothing is stored.                        *)
ReplyFails(a) ==
    /\ reply[a].pc = "ask"
    /\ reply' = [reply EXCEPT ![a] = NoReply]
    /\ UNCHANGED <<chat, answers, incoming, notifier, spentOn>> /\ KeepTickets

ReadByAdmin ==
    /\ chat.unread
    /\ chat' = [chat EXCEPT !.unread = FALSE]
    /\ UNCHANGED <<answers, reply, incoming, notifier, spentOn>> /\ KeepTickets

(* touch_admin_presence, and ninety seconds without it.                    *)
PresenceChanges(a) ==
    /\ chat' = [chat EXCEPT !.online = IF a \in @ THEN @ \ {a} ELSE @ \cup {a}]
    /\ UNCHANGED <<answers, reply, incoming, notifier, spentOn>> /\ KeepTickets

(* Mutant: the id is noted before the messages are told of. *)
ReadLatestAndNote ==
    /\ notifier.pc = "sleep" /\ chat.newest > notifier.last
    /\ notifier' = [notifier EXCEPT !.pc = "list", !.latest = chat.newest,
                                    !.last = chat.newest]
    /\ UNCHANGED <<chat, answers, reply, incoming, spentOn>> /\ KeepTickets

(***************************************************************************)
(* The notifier: the newest id first, then the messages after the last one *)
(* told of, whatever their number by now.                                  *)
(***************************************************************************)
ReadLatest ==
    /\ notifier.pc = "sleep" /\ chat.newest > notifier.last
    /\ notifier' = [notifier EXCEPT !.pc = "list", !.latest = chat.newest]
    /\ UNCHANGED <<chat, answers, reply, incoming, spentOn>> /\ KeepTickets

TellNew ==
    /\ notifier.pc = "list"
    /\ notifier' = [notifier EXCEPT
                      !.pc = "sleep", !.last = notifier.latest,
                      !.told = @ \cup (notifier.last + 1)..chat.newest]
    /\ UNCHANGED <<chat, answers, reply, incoming, spentOn>> /\ KeepTickets

(* An exception ends the round before the last id is moved.                *)
TellFails ==
    /\ notifier.pc = "list"
    /\ notifier' = [notifier EXCEPT !.pc = "sleep"]
    /\ UNCHANGED <<chat, answers, reply, incoming, spentOn>> /\ KeepTickets

(* The supervisor cancels the task, or the process ends.                   *)
NotifierStops ==
    /\ notifier.pc # "down"
    /\ notifier' = [notifier EXCEPT !.pc = "down"]
    /\ UNCHANGED <<chat, answers, reply, incoming, spentOn>> /\ KeepTickets

(* It begins with the newest id there is: what came since the last one it  *)
(* had noted is not told of any more.                                      *)
NotifierStarts ==
    /\ notifier.pc = "down"
    /\ notifier' = [notifier EXCEPT
                      !.pc = "sleep", !.last = chat.newest,
                      !.skipped = @ \cup (notifier.last + 1)..chat.newest]
    /\ UNCHANGED <<chat, answers, reply, incoming, spentOn>> /\ KeepTickets

SupportInit ==
    /\ tickets = [t \in {} |-> [status |-> "open", claimed |-> Nobody,
                                last |-> "user"]]
    /\ answers = {}
    /\ chat = [assigned |-> Nobody, online |-> {}, newest |-> 0, unread |-> FALSE]
    /\ reply = [a \in Writers |-> NoReply]
    /\ incoming = [resolve |-> 0, assign |-> {}]
    /\ notifier = [pc |-> "sleep", last |-> 0, latest |-> 0, told |-> {},
                   skipped |-> {}]
    /\ spentOn = [answers |-> 0, messages |-> 0]

TicketsNext ==
    \/ create_ticket
    \/ \E t \in 1..MaxTickets :
         \/ UserAddsToTicket(t) \/ CloseTicket(t)
         \/ \E a \in OnTelegram : AppAnswersTicket(t, a)
         \/ \E a \in WebAdmins : WebAnswersTicket(t, a)
    \/ \E a \in Staff : ClaimTicket(a)
    \/ \E a \in Writers : AddToTicket(a)

ChatNext ==
    \/ UserWrites \/ resolve_support_admin_for_message
    \/ ReadByAdmin
    \/ \E a \in OnTelegram : AssignKeeper(a) \/ PresenceChanges(a)
    \/ \E a \in Staff :
         \/ BotAsksReply(a) \/ BotReplies(a) \/ ReplyFails(a)
         \/ WebReplies(a) \/ AppReplies(a)
         \/ set_support_conversation_admin(a) \/ AddReply(a)

NotifierNext == \/ UserWrites \/ ReadLatest \/ TellNew \/ TellFails
                \/ NotifierStops \/ NotifierStarts

SupportNext == TicketsNext \/ ChatNext \/ NotifierNext

SupportSpec == SupportInit /\ [][SupportNext]_supportVars

ByApp(t) == {x \in answers : x.to = t /\ x.via = "app" /\ x.by # Owner}

(***************************************************************************)
(* A ticket speaks with one voice: two administrators who open it together *)
(* in the mini app never both answer it, the owner apart, though the panel *)
(* may answer or claim it meanwhile (miniapp/server.py:3714-3743, the      *)
(* claim before the answer).                                               *)
(***************************************************************************)
OneVoice == \A t \in DOMAIN tickets : Cardinality(ByApp(t)) <= 1

(***************************************************************************)
(* A running notifier misses no message of the chat: whatever arrives      *)
(* between the look at the newest id and the reading of the messages, and  *)
(* whichever round fails, every message up to the last id noted has been   *)
(* told of, but for those that a start of the notifier found there         *)
(* (admin_panel/server.py:156-218, the id noted after the telling; 163).   *)
(***************************************************************************)
NoneMissed == 1..notifier.last \subseteq notifier.told \cup notifier.skipped
===============================================================================
