----------------------------- MODULE OfficeProofs -----------------------------
(***************************************************************************)
(* The smaller parts of the back office, for any number of administrators, *)
(* tickets, messages, servers, configs and saves: one voice in a ticket,   *)
(* no message missed, an outage told once, a reminder sent once, settings  *)
(* the readers can use.  At the end: the composition of all eight parts    *)
(* keeps their types and implements each of them.                          *)
(***************************************************************************)
EXTENDS MCOffice, ResellerProofs, AccessProofs

(***************************************************************************)
(* Tickets and the chat (Support).                                         *)
(***************************************************************************)
SupportShape ==
    /\ \E n \in Nat : DOMAIN tickets = 1..n
    /\ \A t \in DOMAIN tickets : tickets[t] \in Ticket
    /\ reply \in [Writers -> [pc : {"idle", "claim", "ask", "take", "add"},
                              to : Nat, via : Vias]]
    /\ \A a \in Writers : reply[a].to \in DOMAIN tickets \cup {0}
    /\ \A x \in answers : /\ x \in [to : Nat, by : Staff, via : Vias]
                          /\ x.to \in DOMAIN tickets \cup {0}

InApp(a) == reply[a].via = "app" /\ reply[a].pc # "idle"
ByAppTo(x, t) == x.via = "app" /\ x.to = t /\ x.by # Owner

(* Who answers in the mini app is there alone; who answers a ticket        *)
(* elsewhere is of the web panel.                                          *)
AloneInv ==
    /\ \A a \in Writers : InApp(a) => a \in OnTelegram \cup {User}
    /\ \A a, b \in Writers : InApp(a) /\ InApp(b) => a = b
    /\ \A a \in Writers : reply[a].pc = "claim" => reply[a].to # 0 /\ a # User
    /\ \A a \in Writers : reply[a].to # 0 =>
          /\ reply[a].pc \in {"claim", "add"}
          /\ reply[a].via = "app" \/ a \in WebAdmins

(* A ticket answered in the mini app is claimed by the one who answered,   *)
(* by the owner or in the web panel, and the answer an administrator is    *)
(* writing there has none of another before it.                            *)
VoiceInv ==
    /\ \A x \in answers, t \in DOMAIN tickets : ByAppTo(x, t) =>
          x.by \in OnTelegram /\ tickets[t].claimed \in WebAdmins \cup {Owner, x.by}
    /\ \A x, y \in answers, t \in DOMAIN tickets :
          ByAppTo(x, t) /\ ByAppTo(y, t) => x.by = y.by
    /\ \A b \in Writers \ {Owner, User}, t \in DOMAIN tickets :
          InApp(b) /\ reply[b].to = t =>
             /\ tickets[t].claimed \in WebAdmins \cup {Owner, b}
                \/ (reply[b].pc = "claim" /\ tickets[t].claimed = Nobody)
             /\ \A x \in answers : ByAppTo(x, t) => x.by = b

SpeechInv == SupportShape /\ AloneInv /\ VoiceInv

LEMMA SpeechInit == ASSUME SupportInit PROVE SpeechInv
<1>1. DOMAIN tickets = {} /\ answers = {} /\ reply = [a \in Writers |-> NoReply]
  BY DEF SupportInit
<1>2. \E n \in Nat : {} = 1..n
  <2>1. 1..0 = {}
    OBVIOUS
  <2>2. QED  BY <2>1
<1>3. SupportShape /\ AloneInv /\ VoiceInv
  BY <1>1, <1>2 DEF SupportShape, AloneInv, VoiceInv, NoReply, Vias, InApp
<1>4. QED  BY <1>3 DEF SpeechInv

(* The chat: no ticket is touched, and nobody comes into the mini app      *)
(* while another is there.                                                 *)
LEMMA ChatStep ==
  ASSUME SpeechInv, NEW a \in Staff, NEW new,
         new \in [pc : {"idle", "ask", "take", "add"}, to : {0}, via : Vias],
         reply' = [reply EXCEPT ![a] = new], tickets' = tickets,
         new.via = "app" /\ new.pc # "idle" => InApp(a) \/ (AppIsFree /\ a \in OnTelegram),
         answers' = answers \/ answers' = answers \cup
            {[to |-> 0, by |-> a, via |-> reply[a].via]}
  PROVE  SpeechInv'
<1>1. a \in Writers
  BY DEF Writers
<1>2. \A b \in Writers : reply'[b] = IF b = a THEN new ELSE reply[b]
  BY DEF SpeechInv, SupportShape
<1>3. \A x \in answers' : x \in answers \/ (x \in [to : Nat, by : Staff, via : Vias] /\ x.to = 0)
  BY <1>1 DEF SpeechInv, SupportShape
<1>4. SupportShape'
  <2>1. reply' \in [Writers -> [pc : {"idle", "claim", "ask", "take", "add"},
                              to : Nat, via : Vias]]
    BY <1>1 DEF SpeechInv, SupportShape
  <2>2. \A x \in answers' : /\ x \in [to : Nat, by : Staff, via : Vias]
                            /\ x.to \in DOMAIN tickets \cup {0}
    BY <1>3 DEF SpeechInv, SupportShape
  <2>3. \A b \in Writers : reply'[b].to \in DOMAIN tickets \cup {0}
    BY <1>2 DEF SpeechInv, SupportShape
  <2>4. QED  BY <2>1, <2>2, <2>3 DEF SpeechInv, SupportShape
<1>5. \A b \in Writers : InApp(b)' => b \in OnTelegram \cup {User}
  BY <1>1, <1>2 DEF SpeechInv, AloneInv, InApp
<1>6. \A b, d \in Writers : InApp(b)' /\ InApp(d)' => b = d
  <2>1. AppIsFree => \A b \in Writers : ~InApp(b)
    BY DEF AppIsFree, SpeechInv, AloneInv, InApp
  <2>2. QED  BY <1>1, <1>2, <2>1 DEF SpeechInv, AloneInv, InApp
<1>7. AloneInv'
  BY <1>2, <1>5, <1>6 DEF SpeechInv, AloneInv
<1>8. \A t \in DOMAIN tickets : t # 0
  BY DEF SpeechInv, SupportShape
<1>9. VoiceInv'
  BY <1>2, <1>3, <1>8 DEF SpeechInv, VoiceInv, ByAppTo, InApp
<1>10. QED  BY <1>4, <1>7, <1>9 DEF SpeechInv

LEMMA ChatSteps ==
  ASSUME SpeechInv, NEW a \in Staff,
         \/ BotAsksReply(a) \/ BotReplies(a) \/ ReplyFails(a) \/ WebReplies(a)
         \/ AppReplies(a) \/ set_support_conversation_admin(a) \/ AddReply(a)
  PROVE  SpeechInv'
<1> DEFINE Chats(new) ==
       /\ new \in [pc : {"idle", "ask", "take", "add"}, to : {0}, via : Vias]
       /\ reply' = [reply EXCEPT ![a] = new] /\ tickets' = tickets
       /\ new.via = "app" /\ new.pc # "idle" =>
             InApp(a) \/ (AppIsFree /\ a \in OnTelegram)
       /\ answers' = answers \/ answers' = answers \cup
             {[to |-> 0, by |-> a, via |-> reply[a].via]}
<1>1. a \in Writers /\ reply[a] \in [pc : {"idle", "claim", "ask", "take", "add"},
                                    to : Nat, via : Vias]
  BY DEF Writers, SpeechInv, SupportShape
<1>2. CASE BotAsksReply(a)
  <2>1. Chats([pc |-> "ask", to |-> 0, via |-> "bot"])
    BY <1>2 DEF BotAsksReply, KeepTickets, Vias
  <2>2. QED  BY <2>1, ChatStep
<1>3. CASE BotReplies(a) /\ MayReply(a)
  <2> DEFINE new == [reply[a] EXCEPT !.pc = IF a = Owner THEN "add" ELSE "take"]
  <2>1. reply[a].to = 0
    BY <1>1, <1>3 DEF BotReplies, SpeechInv, AloneInv
  <2>2. new \in [pc : {"idle", "ask", "take", "add"}, to : {0}, via : Vias]
        /\ new.via = reply[a].via
    BY <1>1, <2>1
  <2>3. reply' = [reply EXCEPT ![a] = new] /\ tickets' = tickets /\ answers' = answers
        /\ reply[a].pc = "ask"
    BY <1>3 DEF BotReplies, KeepTickets
  <2> HIDE DEF new
  <2>4. Chats(new)
    BY <2>2, <2>3 DEF InApp
  <2>5. QED  BY <2>4, ChatStep
<1>4. CASE \/ BotReplies(a) /\ ~MayReply(a)
           \/ ReplyFails(a) \/ AddReply(a)
  <2>1. Chats(NoReply)
    BY <1>4 DEF BotReplies, ReplyFails, AddReply, KeepTickets, NoReply, Vias
  <2>2. QED  BY <2>1, ChatStep
<1>5. CASE WebReplies(a)
  <2>1. Chats([pc |-> "take", to |-> 0, via |-> "web"])
    BY <1>5 DEF WebReplies, KeepTickets, Vias
  <2>2. QED  BY <2>1, ChatStep
<1>6. CASE AppReplies(a)
  <2> DEFINE new == [pc |-> IF a = Owner THEN "add" ELSE "take", to |-> 0, via |-> "app"]
  <2>1. Chats(new)
    BY <1>6 DEF AppReplies, KeepTickets, Vias
  <2>2. QED  BY <2>1, ChatStep
<1>7. CASE set_support_conversation_admin(a)
  <2> DEFINE new == [reply[a] EXCEPT !.pc = "add"]
  <2>1. reply[a].to = 0 /\ reply[a].pc = "take"
    BY <1>1, <1>7 DEF set_support_conversation_admin, SpeechInv, AloneInv
  <2>2. new \in [pc : {"idle", "ask", "take", "add"}, to : {0}, via : Vias]
        /\ new.via = reply[a].via
    BY <1>1, <2>1
  <2>3. reply' = [reply EXCEPT ![a] = new] /\ tickets' = tickets /\ answers' = answers
    BY <1>1, <1>7 DEF set_support_conversation_admin, KeepTickets
  <2> HIDE DEF new
  <2>4. Chats(new)
    BY <2>1, <2>2, <2>3 DEF InApp
  <2>5. QED  BY <2>4, ChatStep
<1>8. QED  BY <1>2, <1>3, <1>4, <1>5, <1>6, <1>7

LEMMA NewTicket ==
  ASSUME SpeechInv, create_ticket
  PROVE  SpeechInv'
<1> DEFINE id == Cardinality(DOMAIN tickets) + 1
<1>1. PICK n \in Nat : DOMAIN tickets = 1..n
  BY DEF SpeechInv, SupportShape
<1>2. id = n + 1
  <2>1. Cardinality(1..n) = n
    BY <1>1, FS_Interval
  <2>2. QED  BY <1>1, <2>1
<1>3. /\ tickets' = [t \in DOMAIN tickets \cup {n + 1} |->
                      IF t = n + 1 THEN [status |-> "open", claimed |-> Nobody,
                                         last |-> "user"]
                      ELSE tickets[t]]
      /\ UNCHANGED <<answers, reply>>
  BY <1>2 DEF create_ticket
<1>4. DOMAIN tickets' = 1..(n + 1) /\ n + 1 \in Nat /\ n + 1 \notin DOMAIN tickets
  BY <1>1, <1>3
<1>5. \A t \in DOMAIN tickets' :
         /\ t \in DOMAIN tickets => tickets'[t] = tickets[t]
         /\ t \notin DOMAIN tickets => t = n + 1 /\ tickets'[t] \in Ticket
  <2>1. [status |-> "open", claimed |-> Nobody, last |-> "user"] \in Ticket
    BY DEF Ticket
  <2>2. \A t \in DOMAIN tickets : t # n + 1
    BY <1>4
  <2>3. QED  BY <1>3, <2>1, <2>2
<1>6. DOMAIN tickets \subseteq DOMAIN tickets'
  BY <1>3
<1>7. SupportShape'
  BY <1>3, <1>4, <1>5, <1>6 DEF SpeechInv, SupportShape
<1>8. AloneInv'
  BY <1>3 DEF SpeechInv, AloneInv, InApp
<1>9. /\ \A x \in answers : x.to # n + 1
      /\ \A b \in Writers : reply[b].to # n + 1
  BY <1>1, <1>4 DEF SpeechInv, SupportShape
<1>10. VoiceInv'
  BY <1>3, <1>5, <1>9 DEF SpeechInv, VoiceInv, InApp, ByAppTo
<1>11. QED  BY <1>7, <1>8, <1>10 DEF SpeechInv

(* Somebody begins to write to a ticket.                                   *)
LEMMA BeginsToWrite ==
  ASSUME SpeechInv, NEW a \in Writers, NEW t \in DOMAIN tickets,
         NEW pc \in {"claim", "add"}, NEW via \in {"app", "web"},
         reply' = [reply EXCEPT ![a] = [pc |-> pc, to |-> t, via |-> via]],
         UNCHANGED <<tickets, answers>>,
         via = "app" => AppIsFree /\ a \in OnTelegram \cup {User},
         via = "web" => a \in WebAdmins,
         a = User => pc = "add", a # User => pc = "claim",
         via = "app" /\ a # User => MayAnswer(t, a)
  PROVE  SpeechInv'
<1> DEFINE new == [pc |-> pc, to |-> t, via |-> via]
<1>1. \A b \in Writers : reply'[b] = IF b = a THEN new ELSE reply[b]
  BY DEF SpeechInv, SupportShape
<1>2. new.pc = pc /\ new.to = t /\ new.via = via /\ t \in Nat /\ t # 0
      /\ new \in [pc : {"claim", "add"}, to : Nat, via : Vias]
  BY DEF SpeechInv, SupportShape, Vias
<1> HIDE DEF new
<1>3. SupportShape'
  <2>1. reply' \in [Writers -> [pc : {"idle", "claim", "ask", "take", "add"},
                              to : Nat, via : Vias]]
    BY <1>2 DEF SpeechInv, SupportShape, new
  <2>2. QED  BY <1>1, <1>2, <2>1 DEF SpeechInv, SupportShape
<1>4. AppIsFree => \A b \in Writers : ~InApp(b)
  BY DEF AppIsFree, SpeechInv, AloneInv, InApp
<1>5. AloneInv'
  BY <1>1, <1>2, <1>4 DEF SpeechInv, AloneInv, InApp
<1>6. ASSUME via = "app", a \notin {Owner, User}
      PROVE  /\ tickets[t].claimed \in {Nobody, a}
             /\ \A x \in answers : ByAppTo(x, t) => x.by = a
  <2>1. tickets[t].claimed \in {Nobody, a}
    BY <1>6 DEF MayAnswer
  <2>2. Nobody \notin Staff /\ a \in OnTelegram /\ a \notin WebAdmins
    BY <1>6, SupportAssumption
  <2>3. \A x \in answers : ByAppTo(x, t) =>
           x.by \in OnTelegram /\ tickets[t].claimed \in WebAdmins \cup {Owner, x.by}
    BY DEF SpeechInv, VoiceInv
  <2>4. QED  BY <1>6, <2>1, <2>2, <2>3 DEF Staff, OnTelegram
<1>7. VoiceInv'
  <2>1. \A b \in Writers \ {Owner, User}, s \in DOMAIN tickets :
          InApp(b)' /\ reply'[b].to = s =>
             /\ tickets[s].claimed \in WebAdmins \cup {Owner, b}
                \/ (reply'[b].pc = "claim" /\ tickets[s].claimed = Nobody)
             /\ \A x \in answers : ByAppTo(x, s) => x.by = b
    BY <1>1, <1>2, <1>6 DEF SpeechInv, VoiceInv, InApp
  <2>2. QED  BY <2>1 DEF SpeechInv, VoiceInv, ByAppTo
<1>8. QED  BY <1>3, <1>5, <1>7 DEF SpeechInv

LEMMA ClaimStep ==
  ASSUME SpeechInv, NEW a \in Staff, ClaimTicket(a)
  PROVE  SpeechInv'
<1> DEFINE t == reply[a].to
<1>1. /\ a \in Writers /\ a # User /\ reply[a].pc = "claim" /\ t \in DOMAIN tickets
      /\ tickets[t] \in Ticket
      /\ InApp(a) \/ a \in WebAdmins
  BY DEF Writers, ClaimTicket, SpeechInv, SupportShape, AloneInv, InApp
<1>2. \A b \in Writers : /\ b # a => reply'[b] = reply[b]
                         /\ reply'[b].to = reply[b].to /\ reply'[b].via = reply[b].via
                         /\ reply'[b].pc = IF b = a THEN "add" ELSE reply[b].pc
  BY DEF ClaimTicket, SpeechInv, SupportShape
<1>3. /\ DOMAIN tickets' = DOMAIN tickets
      /\ \A s \in DOMAIN tickets :
            /\ tickets'[s] \in Ticket
            /\ s # t \/ tickets[t].claimed # Nobody => tickets'[s].claimed = tickets[s].claimed
            /\ tickets[t].claimed = Nobody => tickets'[t].claimed = a
  <2>1. tickets' = [tickets EXCEPT ![t].claimed = claim_ticket_if_open(t, a)]
    BY DEF ClaimTicket
  <2>2. claim_ticket_if_open(t, a) \in Staff \cup {Nobody}
    BY <1>1 DEF claim_ticket_if_open, Ticket
  <2>3. \A s \in DOMAIN tickets : tickets[s] \in Ticket
    BY DEF SpeechInv, SupportShape
  <2> HIDE DEF t
  <2>4. QED  BY <1>1, <2>1, <2>2, <2>3 DEF claim_ticket_if_open, Ticket
<1>4. answers' = answers
  BY DEF ClaimTicket
<1> HIDE DEF t
<1>5. SupportShape'
  <2>1. reply' \in [Writers -> [pc : {"idle", "claim", "ask", "take", "add"},
                              to : Nat, via : Vias]]
    BY DEF ClaimTicket, SpeechInv, SupportShape
  <2>2. QED  BY <1>2, <1>3, <1>4, <2>1 DEF SpeechInv, SupportShape
<1>6. AloneInv'
  BY <1>1, <1>2 DEF SpeechInv, AloneInv, InApp
<1>7. tickets[t].claimed = Nobody => \A x \in answers : ~ByAppTo(x, t)
  <2>1. Nobody \notin Staff
    BY SupportAssumption
  <2>2. QED  BY <1>1, <2>1 DEF SpeechInv, VoiceInv, Staff, OnTelegram
<1>8. /\ \A x \in answers, s \in DOMAIN tickets : ByAppTo(x, s) =>
            x.by \in OnTelegram /\ tickets'[s].claimed \in WebAdmins \cup {Owner, x.by}
      /\ \A x, y \in answers, s \in DOMAIN tickets :
            ByAppTo(x, s) /\ ByAppTo(y, s) => x.by = y.by
  BY <1>3, <1>7 DEF SpeechInv, VoiceInv
<1>9. ASSUME NEW b \in Writers \ {Owner, User}, NEW s \in DOMAIN tickets,
             InApp(b)', reply'[b].to = s
      PROVE  /\ tickets'[s].claimed \in WebAdmins \cup {Owner, b}
                \/ (reply'[b].pc = "claim" /\ tickets'[s].claimed = Nobody)
             /\ \A x \in answers : ByAppTo(x, s) => x.by = b
  <2>1. InApp(b) /\ reply[b].to = s
    BY <1>1, <1>2, <1>9 DEF InApp
  <2>2. /\ tickets[s].claimed \in WebAdmins \cup {Owner, b}
           \/ (reply[b].pc = "claim" /\ tickets[s].claimed = Nobody)
        /\ \A x \in answers : ByAppTo(x, s) => x.by = b
    BY <2>1 DEF SpeechInv, VoiceInv
  <2>3. b = a => s = t
    BY <2>1 DEF t
  <2>4. b # a => a \in WebAdmins
    BY <1>1, <2>1 DEF SpeechInv, AloneInv
  <2>5. QED  BY <1>2, <1>3, <2>2, <2>3, <2>4
<1>10. VoiceInv'
  BY <1>3, <1>4, <1>8, <1>9 DEF VoiceInv, ByAppTo
<1>11. QED  BY <1>5, <1>6, <1>10 DEF SpeechInv

LEMMA AddStep ==
  ASSUME SpeechInv, NEW a \in Writers, AddToTicket(a)
  PROVE  SpeechInv'
<1> DEFINE t == reply[a].to
           x0 == [to |-> t, by |-> a, via |-> reply[a].via]
<1>1. /\ t \in DOMAIN tickets /\ t # 0 /\ t \in Nat /\ reply[a].pc = "add"
      /\ tickets[t] \in Ticket /\ reply[a].via \in Vias
  BY DEF AddToTicket, SpeechInv, SupportShape
<1>2. /\ DOMAIN tickets' = DOMAIN tickets
      /\ \A s \in DOMAIN tickets : /\ tickets'[s].claimed = tickets[s].claimed
                                   /\ tickets'[s] \in Ticket
  BY <1>1 DEF AddToTicket, Added, Ticket, SpeechInv, SupportShape
<1>3. \A b \in Writers : reply'[b] = IF b = a THEN NoReply ELSE reply[b]
  BY DEF AddToTicket, SpeechInv, SupportShape
<1>4. answers' = IF a = User THEN answers ELSE answers \cup {x0}
  BY DEF AddToTicket
<1>5. x0.to = t /\ x0.by = a /\ x0.via = reply[a].via
  OBVIOUS
<1>6. NoReply.pc = "idle" /\ NoReply.to = 0
      /\ NoReply \in [pc : {"idle"}, to : {0}, via : Vias]
  BY DEF NoReply, Vias
<1>7. a # User => x0 \in [to : Nat, by : Staff, via : Vias]
  BY <1>1 DEF Writers
<1> HIDE DEF x0, t
<1>8. SupportShape'
  <2>1. reply' \in [Writers -> [pc : {"idle", "claim", "ask", "take", "add"},
                              to : Nat, via : Vias]]
    BY <1>6 DEF AddToTicket, SpeechInv, SupportShape
  <2>2. QED  BY <1>1, <1>2, <1>3, <1>4, <1>5, <1>6, <1>7, <2>1
       DEF SpeechInv, SupportShape
<1>9. AloneInv'
  BY <1>3, <1>6 DEF SpeechInv, AloneInv, InApp
<1>10. a # User /\ ByAppTo(x0, t) =>
          /\ a \in OnTelegram /\ tickets[t].claimed \in WebAdmins \cup {Owner, a}
          /\ \A x \in answers : ByAppTo(x, t) => x.by = a
          /\ \A b \in Writers : InApp(b) => b = a
  <2> SUFFICES ASSUME a # User, ByAppTo(x0, t)
               PROVE  /\ a \in OnTelegram
                      /\ tickets[t].claimed \in WebAdmins \cup {Owner, a}
                      /\ \A x \in answers : ByAppTo(x, t) => x.by = a
                      /\ \A b \in Writers : InApp(b) => b = a
    OBVIOUS
  <2>1. InApp(a) /\ a # Owner
    BY <1>1, <1>5 DEF ByAppTo, InApp
  <2>2. a \in OnTelegram /\ \A b \in Writers : InApp(b) => b = a
    BY <2>1 DEF SpeechInv, AloneInv
  <2>3. reply[a].to = t
    BY DEF t
  <2>4. QED  BY <1>1, <2>1, <2>2, <2>3 DEF SpeechInv, VoiceInv
<1>11. \A x \in answers' : \A s : ByAppTo(x, s) =>
          x \in answers \/ (x = x0 /\ a # User /\ s = t)
  BY <1>4, <1>5 DEF ByAppTo
<1>12. \A x \in answers', s \in DOMAIN tickets : ByAppTo(x, s) =>
          x.by \in OnTelegram /\ tickets[s].claimed \in WebAdmins \cup {Owner, x.by}
  BY <1>5, <1>10, <1>11 DEF SpeechInv, VoiceInv
<1>13. \A x, y \in answers', s \in DOMAIN tickets :
          ByAppTo(x, s) /\ ByAppTo(y, s) => x.by = y.by
  BY <1>5, <1>10, <1>11 DEF SpeechInv, VoiceInv
<1>14. ASSUME NEW b \in Writers \ {Owner, User}, NEW s \in DOMAIN tickets,
              InApp(b)', reply'[b].to = s
       PROVE  /\ tickets[s].claimed \in WebAdmins \cup {Owner, b}
                 \/ (reply'[b].pc = "claim" /\ tickets[s].claimed = Nobody)
              /\ \A x \in answers' : ByAppTo(x, s) => x.by = b
  <2>1. b # a /\ InApp(b) /\ reply[b].to = s /\ reply'[b] = reply[b]
    BY <1>3, <1>6, <1>14 DEF InApp
  <2>2. \A x \in answers' : ByAppTo(x, s) => x \in answers
    BY <1>10, <1>11, <2>1
  <2>3. QED  BY <2>1, <2>2 DEF SpeechInv, VoiceInv
<1>15. VoiceInv'
  BY <1>2, <1>12, <1>13, <1>14 DEF VoiceInv, ByAppTo
<1>16. QED  BY <1>8, <1>9, <1>15 DEF SpeechInv

LEMMA SpeechNext ==
  ASSUME SpeechInv, [SupportNext]_supportVars
  PROVE  SpeechInv'
<1>1. ASSUME UNCHANGED <<tickets, answers, reply>>
      PROVE  SpeechInv'
  BY <1>1 DEF SpeechInv, SupportShape, AloneInv, VoiceInv, InApp, ByAppTo
<1>2. CASE \/ UNCHANGED supportVars \/ NotifierNext
           \/ resolve_support_admin_for_message \/ ReadByAdmin
           \/ \E a \in OnTelegram : AssignKeeper(a) \/ PresenceChanges(a)
  <2>1. UNCHANGED <<tickets, answers, reply>>
    BY <1>2 DEF supportVars, NotifierNext, UserWrites, ReadLatest, TellNew,
       TellFails, NotifierStops, NotifierStarts, resolve_support_admin_for_message,
       ReadByAdmin, AssignKeeper, PresenceChanges, KeepTickets
  <2>2. QED  BY <1>1, <2>1
<1>3. ASSUME NEW t \in 1..MaxTickets, CloseTicket(t)
      PROVE  SpeechInv'
  <2>1. /\ DOMAIN tickets' = DOMAIN tickets
        /\ \A s \in DOMAIN tickets : /\ tickets'[s].claimed = tickets[s].claimed
                                     /\ tickets'[s] \in Ticket
        /\ UNCHANGED <<answers, reply>>
    BY <1>3 DEF CloseTicket, Ticket, SpeechInv, SupportShape
  <2>2. QED  BY <2>1 DEF SpeechInv, SupportShape, AloneInv, VoiceInv, InApp, ByAppTo
<1>4. ASSUME NEW t \in 1..MaxTickets, UserAddsToTicket(t)
      PROVE  SpeechInv'
  <2>1. /\ t \in DOMAIN tickets /\ AppIsFree /\ User \in Writers
        /\ reply' = [reply EXCEPT ![User] = [pc |-> "add", to |-> t, via |-> "app"]]
        /\ UNCHANGED <<tickets, answers>>
    BY <1>4 DEF UserAddsToTicket, Writers
  <2>2. QED  BY <2>1, BeginsToWrite
<1>5. ASSUME NEW t \in 1..MaxTickets, NEW a \in OnTelegram, AppAnswersTicket(t, a)
      PROVE  SpeechInv'
  <2>1. /\ t \in DOMAIN tickets /\ AppIsFree /\ a \in Writers /\ a # User
        /\ MayAnswer(t, a)
        /\ reply' = [reply EXCEPT ![a] = [pc |-> "claim", to |-> t, via |-> "app"]]
        /\ UNCHANGED <<tickets, answers>>
    BY <1>5, SupportAssumption DEF AppAnswersTicket, Writers, Staff, OnTelegram
  <2>2. QED  BY <2>1, BeginsToWrite
<1>6. ASSUME NEW t \in 1..MaxTickets, NEW a \in WebAdmins, WebAnswersTicket(t, a)
      PROVE  SpeechInv'
  <2>1. /\ t \in DOMAIN tickets /\ a \in Writers /\ a # User
        /\ reply' = [reply EXCEPT ![a] = [pc |-> "claim", to |-> t, via |-> "web"]]
        /\ UNCHANGED <<tickets, answers>>
    BY <1>6, SupportAssumption DEF WebAnswersTicket, Writers, Staff
  <2>2. QED  BY <2>1, BeginsToWrite
<1>7. CASE TicketsNext
  BY <1>3, <1>4, <1>5, <1>6, <1>7, NewTicket, ClaimStep, AddStep DEF TicketsNext
<1>8. CASE ChatNext
  BY <1>2, <1>8, ChatSteps DEF ChatNext, NotifierNext
<1>9. QED  BY <1>2, <1>7, <1>8 DEF SupportNext

(***************************************************************************)
(* However many administrators answer together in the mini app and claim   *)
(* or answer in the web panel: of those in the mini app, the owner apart,  *)
(* one at most answers a ticket (miniapp/server.py:3714-3743).             *)
(***************************************************************************)
THEOREM OneVoiceAlways == SupportSpec => []OneVoice
<1>1. SupportInit => SpeechInv
  BY SpeechInit
<1>2. SpeechInv /\ [SupportNext]_supportVars => SpeechInv'
  BY SpeechNext
<1>3. SpeechInv => OneVoice
  <2> SUFFICES ASSUME SpeechInv, NEW t \in DOMAIN tickets
               PROVE  Cardinality(ByApp(t)) <= 1
    BY DEF OneVoice
  <2>1. \A x, y \in ByApp(t) : x = y
    <3>1. \A x, y \in ByApp(t) : x.by = y.by /\ x.to = y.to /\ x.via = y.via
      BY DEF ByApp, ByAppTo, SpeechInv, VoiceInv
    <3>2. \A x \in ByApp(t) : x \in [to : Nat, by : Staff, via : Vias]
      BY DEF ByApp, SpeechInv, SupportShape
    <3>3. QED  BY <3>1, <3>2
  <2>2. CASE ByApp(t) = {}
    BY <2>2, FS_EmptySet
  <2>3. CASE ByApp(t) # {}
    <3>1. PICK x : x \in ByApp(t)
      BY <2>3
    <3>2. ByApp(t) = {x}
      BY <2>1, <3>1
    <3>3. QED  BY <3>2, FS_Singleton
  <2>4. QED  BY <2>2, <2>3
<1>4. QED  BY <1>1, <1>2, <1>3, PTL DEF SupportSpec

(***************************************************************************)
(* The notifier: the last id noted is one whose messages were told of or   *)
(* found at a start, and the id in its hands is not newer than the newest. *)
(***************************************************************************)
NotesInv ==
    /\ chat \in [assigned : Staff \cup {Nobody}, online : SUBSET OnTelegram,
                 newest : Nat, unread : BOOLEAN]
    /\ notifier \in [pc : {"sleep", "list", "down"}, last : Nat, latest : Nat,
                     told : SUBSET Nat, skipped : SUBSET Nat]
    /\ notifier.last <= chat.newest
    /\ notifier.pc = "list" => notifier.latest <= chat.newest
    /\ NoneMissed

LEMMA NotesInit == ASSUME SupportInit PROVE NotesInv
  BY DEF SupportInit, NotesInv, NoneMissed

(* The chat grows and changes hands.                                       *)
LEMMA ChatGrows ==
  ASSUME NotesInv, UNCHANGED notifier, chat'.newest >= chat.newest,
         chat' \in [assigned : Staff \cup {Nobody}, online : SUBSET OnTelegram,
                   newest : Nat, unread : BOOLEAN]
  PROVE  NotesInv'
<1>1. chat.newest \in Nat /\ chat'.newest \in Nat
      /\ notifier.last \in Nat /\ notifier.latest \in Nat
  BY DEF NotesInv
<1>2. QED  BY <1>1 DEF NotesInv, NoneMissed

LEMMA NotesNext ==
  ASSUME NotesInv, [SupportNext]_supportVars
  PROVE  NotesInv'
<1> DEFINE Chats == [assigned : Staff \cup {Nobody}, online : SUBSET OnTelegram,
                     newest : Nat, unread : BOOLEAN]
           Notes == [pc : {"sleep", "list", "down"}, last : Nat, latest : Nat,
                     told : SUBSET Nat, skipped : SUBSET Nat]
<1>1. chat \in Chats /\ chat.newest \in Nat /\ notifier \in Notes
  BY DEF NotesInv
<1>2. CASE UNCHANGED <<chat, notifier>>
  BY <1>1, <1>2, ChatGrows
<1>3. CASE UserWrites
  <2>1. chat' = [chat EXCEPT !.newest = chat.newest + 1, !.unread = TRUE]
        /\ notifier' = notifier
    BY <1>3 DEF UserWrites
  <2>2. chat.newest + 1 \in Nat /\ chat.newest + 1 >= chat.newest
    BY <1>1
  <2>3. chat' \in Chats /\ chat'.newest = chat.newest + 1
    BY <1>1, <2>1, <2>2
  <2>4. QED  BY <2>1, <2>2, <2>3, ChatGrows
<1>4. ASSUME NEW a \in Staff, set_support_conversation_admin(a)
      PROVE  NotesInv'
  <2>1. chat' \in Chats /\ chat'.newest = chat.newest /\ notifier' = notifier
    BY <1>1, <1>4 DEF set_support_conversation_admin
  <2>2. QED  BY <1>1, <2>1, ChatGrows
<1>5. ASSUME NEW a \in OnTelegram, AssignKeeper(a) \/ PresenceChanges(a)
      PROVE  NotesInv'
  <2>1. chat' \in Chats /\ chat'.newest = chat.newest /\ notifier' = notifier
    BY <1>1, <1>5 DEF AssignKeeper, PresenceChanges, Staff, OnTelegram
  <2>2. QED  BY <1>1, <2>1, ChatGrows
<1>6. CASE ReadByAdmin
  <2>1. chat' \in Chats /\ chat'.newest = chat.newest /\ notifier' = notifier
    BY <1>1, <1>6 DEF ReadByAdmin
  <2>2. QED  BY <1>1, <2>1, ChatGrows
<1>7. CASE ReadLatest
  <2>1. notifier' = [notifier EXCEPT !.pc = "list", !.latest = chat.newest]
        /\ chat' = chat
    BY <1>7 DEF ReadLatest
  <2>2. /\ notifier' \in Notes /\ notifier'.last = notifier.last
        /\ notifier'.told = notifier.told /\ notifier'.latest = chat.newest
        /\ notifier'.skipped = notifier.skipped
    BY <1>1, <2>1
  <2>3. QED  BY <1>1, <2>1, <2>2 DEF NotesInv, NoneMissed
<1>8. CASE TellNew
  <2> DEFINE more == notifier.told \cup (notifier.last + 1)..chat.newest
  <2>a. more \in SUBSET Nat
    BY <1>1
  <2>b. notifier' = [notifier EXCEPT !.pc = "sleep", !.last = notifier.latest,
                                     !.told = more]
        /\ chat' = chat /\ notifier.pc = "list"
    BY <1>8 DEF TellNew
  <2> HIDE DEF more
  <2>1. /\ notifier' \in Notes
        /\ notifier'.pc = "sleep" /\ notifier'.last = notifier.latest
        /\ notifier'.told = more /\ notifier'.skipped = notifier.skipped
        /\ notifier.latest <= chat.newest
    BY <1>1, <2>a, <2>b DEF NotesInv
  <2>2. 1..notifier.last \subseteq notifier.told \cup notifier.skipped
        /\ notifier.last \in Nat /\ notifier.latest \in Nat
    BY DEF NotesInv, NoneMissed
  <2>3. 1..notifier.latest \subseteq notifier'.told \cup notifier'.skipped
    BY <1>1, <2>1, <2>2 DEF more
  <2>4. QED  BY <1>1, <2>1, <2>b, <2>3 DEF NotesInv, NoneMissed
<1>9. CASE TellFails \/ NotifierStops
  BY <1>9 DEF TellFails, NotifierStops, NotesInv, NoneMissed
<1>10. CASE UNCHANGED supportVars
  BY <1>2, <1>10 DEF supportVars
<1>11. CASE TicketsNext
  <2>1. UNCHANGED <<chat, notifier>>
    BY <1>11 DEF TicketsNext, create_ticket, UserAddsToTicket, CloseTicket,
       AppAnswersTicket, WebAnswersTicket, ClaimTicket, AddToTicket, KeepChat
  <2>2. QED  BY <1>2, <2>1
<1>12. ASSUME \/ resolve_support_admin_for_message
              \/ \E a \in Staff : \/ BotAsksReply(a) \/ BotReplies(a) \/ ReplyFails(a)
                                  \/ WebReplies(a) \/ AppReplies(a) \/ AddReply(a)
       PROVE  UNCHANGED <<chat, notifier>>
  BY <1>12 DEF resolve_support_admin_for_message, BotAsksReply, BotReplies,
     ReplyFails, WebReplies, AppReplies, AddReply
<1>13. CASE ChatNext
  BY <1>2, <1>3, <1>4, <1>5, <1>6, <1>12, <1>13 DEF ChatNext
<1>14. CASE NotifierStarts
  <2> DEFINE found == notifier.skipped \cup (notifier.last + 1)..chat.newest
  <2>a. found \in SUBSET Nat
    BY <1>1
  <2>b. notifier' = [notifier EXCEPT !.pc = "sleep", !.last = chat.newest,
                                     !.skipped = found]
        /\ chat' = chat
    BY <1>14 DEF NotifierStarts
  <2> HIDE DEF found
  <2>1. /\ notifier' \in Notes
        /\ notifier'.pc = "sleep" /\ notifier'.last = chat.newest
        /\ notifier'.told = notifier.told /\ notifier'.skipped = found
    BY <1>1, <2>a, <2>b
  <2>2. 1..notifier.last \subseteq notifier.told \cup notifier.skipped
        /\ notifier.last \in Nat
    BY DEF NotesInv, NoneMissed
  <2>3. 1..chat.newest \subseteq notifier'.told \cup notifier'.skipped
    BY <1>1, <2>1, <2>2 DEF found
  <2>4. QED  BY <1>1, <2>1, <2>b, <2>3 DEF NotesInv, NoneMissed
<1>15. CASE NotifierNext
  BY <1>3, <1>7, <1>8, <1>9, <1>14, <1>15 DEF NotifierNext
<1>16. QED  BY <1>10, <1>11, <1>13, <1>15 DEF SupportNext

(***************************************************************************)
(* Whatever arrives while the notifier reads, whichever round fails and    *)
(* however often it is stopped and started: every message up to the last   *)
(* id it noted has been told of, or was found there by one of its starts   *)
(* (admin_panel/server.py:156-218, 332-361).                               *)
(***************************************************************************)
THEOREM NoneIsMissed == SupportSpec => []NoneMissed
<1>1. SupportInit => NotesInv
  BY NotesInit
<1>2. NotesInv /\ [SupportNext]_supportVars => NotesInv'
  BY NotesNext
<1>3. NotesInv => NoneMissed
  BY DEF NotesInv
<1>4. QED  BY <1>1, <1>2, <1>3, PTL DEF SupportSpec

(***************************************************************************)
(* What is counted: tickets and messages stay within their bounds, no      *)
(* message waits for a keeper, nor is told of, that was not stored.        *)
(***************************************************************************)
Spending == [answers : 0..MaxAnswers, messages : 0..MaxMessages]
LimitsInv ==
    /\ DOMAIN tickets \subseteq 1..MaxTickets
    /\ incoming \in [resolve : Nat, assign : SUBSET OnTelegram]
    /\ incoming.resolve <= chat.newest
    /\ notifier.latest <= chat.newest
    /\ notifier.told \cup notifier.skipped \subseteq 1..chat.newest
    /\ spentOn \in Spending /\ chat.newest <= spentOn.messages

SupportInv == SpeechInv /\ NotesInv /\ LimitsInv

LEMMA SupportStarts == ASSUME SupportInit PROVE SupportInv
<1>1. LimitsInv
  <2>1. 0 \in 0..MaxAnswers /\ 0 \in 0..MaxMessages
    BY SupportAssumption
  <2>2. DOMAIN tickets = {} /\ spentOn \in Spending
    BY <2>1 DEF SupportInit, Spending
  <2> QED  BY <2>2 DEF SupportInit, LimitsInv
<1> QED  BY <1>1, SpeechInit, NotesInit DEF SupportInv

(* Only a message of the user makes the newest one newer, and it is        *)
(* counted.                                                                *)
LEMMA MessagesCounted ==
  ASSUME NotesInv, LimitsInv, [SupportNext]_supportVars
  PROVE  /\ spentOn' \in Spending
         /\ spentOn'.messages \in Nat /\ spentOn'.messages >= spentOn.messages
         /\ \/ chat'.newest = chat.newest /\ ~UserWrites
            \/ UserWrites /\ chat'.newest = chat.newest + 1
                          /\ spentOn'.messages = spentOn.messages + 1
<1>1. spentOn.answers \in 0..MaxAnswers /\ spentOn.messages \in 0..MaxMessages
  BY DEF LimitsInv, Spending
<1>2. ASSUME Answering
      PROVE  spentOn' \in Spending /\ spentOn'.messages \in Nat
             /\ spentOn'.messages >= spentOn.messages
  <2>1. spentOn' = [spentOn EXCEPT !.answers = spentOn.answers + 1]
        /\ spentOn.answers < MaxAnswers
    BY <1>2 DEF Answering
  <2>2. spentOn.answers + 1 \in 0..MaxAnswers
    BY <1>1, <2>1, SupportAssumption
  <2>3. spentOn' \in Spending /\ spentOn'.messages = spentOn.messages
    BY <2>1, <2>2 DEF LimitsInv, Spending
  <2> QED  BY <1>1, <2>3
<1>3. ASSUME Writing
      PROVE  spentOn' \in Spending /\ spentOn'.messages \in Nat
             /\ spentOn'.messages >= spentOn.messages
  <2>1. spentOn' = [spentOn EXCEPT !.messages = spentOn.messages + 1]
        /\ spentOn.messages < MaxMessages
    BY <1>3 DEF Writing
  <2>2. spentOn.messages + 1 \in 0..MaxMessages
    BY <1>1, <2>1, SupportAssumption
  <2>3. spentOn' \in Spending /\ spentOn'.messages = spentOn.messages + 1
    BY <2>1, <2>2 DEF LimitsInv, Spending
  <2> QED  BY <1>1, <2>3
<1>4. ASSUME UNCHANGED spentOn
      PROVE  spentOn' \in Spending /\ spentOn'.messages \in Nat
             /\ spentOn'.messages >= spentOn.messages
  BY <1>1, <1>4 DEF LimitsInv
<1>5. Answering \/ Writing \/ UNCHANGED spentOn
  BY DEF SupportNext, supportVars, TicketsNext, ChatNext, NotifierNext, create_ticket,
     UserAddsToTicket, CloseTicket, AppAnswersTicket, WebAnswersTicket, ClaimTicket,
     AddToTicket, UserWrites, resolve_support_admin_for_message, ReadByAdmin,
     AssignKeeper, PresenceChanges, BotAsksReply, BotReplies, ReplyFails, WebReplies,
     AppReplies, set_support_conversation_admin, AddReply, ReadLatest, TellNew, TellFails,
     NotifierStops, NotifierStarts
<1>6. spentOn' \in Spending /\ spentOn'.messages \in Nat
      /\ spentOn'.messages >= spentOn.messages
  BY <1>2, <1>3, <1>4, <1>5
<1>7. CASE UserWrites
  <2>1. chat' = [chat EXCEPT !.newest = chat.newest + 1, !.unread = TRUE]
        /\ spentOn' = [spentOn EXCEPT !.messages = spentOn.messages + 1]
    BY <1>7 DEF UserWrites, Writing
  <2>2. chat'.newest = chat.newest + 1
    BY <2>1 DEF NotesInv
  <2>3. spentOn'.messages = spentOn.messages + 1
    BY <2>1 DEF LimitsInv, Spending
  <2> QED  BY <1>6, <1>7, <2>2, <2>3
<1>8. CASE ~UserWrites
  <2>1. \/ chat' = chat
        \/ \E a \in Staff : chat' = [chat EXCEPT !.assigned = a]
        \/ chat' = [chat EXCEPT !.unread = FALSE]
        \/ \E on \in SUBSET OnTelegram : chat' = [chat EXCEPT !.online = on]
    <3>1. ASSUME NEW a \in OnTelegram, PresenceChanges(a)
          PROVE  \E on \in SUBSET OnTelegram : chat' = [chat EXCEPT !.online = on]
      BY <3>1 DEF PresenceChanges, NotesInv
    <3>2. OnTelegram \subseteq Staff
      BY DEF OnTelegram, Staff
    <3> QED
      BY <1>8, <3>1, <3>2
      DEF SupportNext, supportVars, TicketsNext, ChatNext, NotifierNext, create_ticket,
          UserAddsToTicket, CloseTicket, AppAnswersTicket, WebAnswersTicket, ClaimTicket,
          AddToTicket, KeepChat, resolve_support_admin_for_message, ReadByAdmin,
          AssignKeeper, BotAsksReply, BotReplies, ReplyFails, WebReplies,
          AppReplies, set_support_conversation_admin, AddReply, ReadLatest, TellNew,
          TellFails, NotifierStops, NotifierStarts
  <2>2. chat'.newest = chat.newest
    BY <2>1 DEF NotesInv
  <2> QED  BY <1>6, <1>8, <2>2
<1> QED  BY <1>7, <1>8

LEMMA LimitsStep ==
  ASSUME SpeechInv, NotesInv, LimitsInv, [SupportNext]_supportVars
  PROVE  LimitsInv'
<1>1. /\ chat.newest \in Nat /\ chat'.newest \in Nat /\ chat'.newest >= chat.newest
      /\ spentOn.messages \in Nat /\ spentOn'.messages \in Nat
      /\ spentOn' \in Spending /\ chat'.newest <= spentOn'.messages
  <2>1. chat.newest \in Nat /\ spentOn.messages \in Nat
    BY DEF NotesInv, LimitsInv, Spending
  <2> QED  BY <2>1, MessagesCounted DEF LimitsInv
<1>2. DOMAIN tickets' \subseteq 1..MaxTickets
  <2>1. CASE create_ticket
    <3>1. PICK n \in Nat : DOMAIN tickets = 1..n
      BY DEF SpeechInv, SupportShape
    <3>2. Cardinality(DOMAIN tickets) = n
      BY <3>1, FS_Interval
    <3>3. DOMAIN tickets' = DOMAIN tickets \cup {n + 1} /\ n + 1 <= MaxTickets
      BY <2>1, <3>2 DEF create_ticket
    <3> QED  BY <3>1, <3>3, SupportAssumption DEF LimitsInv
  <2>2. CASE ~create_ticket
    <3>1. DOMAIN tickets' = DOMAIN tickets
      BY <2>2 DEF SupportNext, supportVars, TicketsNext, ChatNext, NotifierNext,
         UserAddsToTicket, CloseTicket, AppAnswersTicket, WebAnswersTicket, ClaimTicket,
         AddToTicket, Added, UserWrites, resolve_support_admin_for_message, ReadByAdmin,
         AssignKeeper, PresenceChanges, BotAsksReply, BotReplies, ReplyFails, WebReplies,
         AppReplies, set_support_conversation_admin, AddReply, ReadLatest, TellNew,
         TellFails, NotifierStops, NotifierStarts, KeepTickets
    <3> QED  BY <3>1 DEF LimitsInv
  <2> QED  BY <2>1, <2>2
<1>3. /\ incoming' \in [resolve : Nat, assign : SUBSET OnTelegram]
      /\ incoming'.resolve <= chat'.newest
  <2>1. CASE UNCHANGED incoming
    BY <1>1, <2>1 DEF LimitsInv
  <2>2. CASE UserWrites
    <3>1. incoming' = [incoming EXCEPT !.resolve = incoming.resolve + 1]
      BY <2>2 DEF UserWrites
    <3>2. incoming.resolve \in Nat /\ incoming.resolve <= chat.newest
          /\ chat'.newest = chat.newest + 1
      BY <1>1, <2>2, MessagesCounted DEF LimitsInv
    <3>3. incoming'.resolve = incoming.resolve + 1
          /\ incoming' \in [resolve : Nat, assign : SUBSET OnTelegram]
      BY <3>1, <3>2 DEF LimitsInv
    <3> QED  BY <1>1, <3>2, <3>3
  <2>3. CASE resolve_support_admin_for_message
    <3>1. PICK to : /\ to \in IF chat.assigned \in chat.online \/ chat.online = {}
                              THEN {{}} ELSE {{a} : a \in Candidates}
                    /\ incoming' = [resolve |-> incoming.resolve - 1,
                                    assign |-> incoming.assign \cup to]
      BY <2>3 DEF resolve_support_admin_for_message
    <3>2. to \subseteq OnTelegram
      BY <3>1 DEF Candidates, NotesInv, OnTelegram
    <3>3. incoming.resolve \in Nat /\ incoming.resolve > 0
          /\ incoming.resolve <= chat.newest
      BY <2>3 DEF resolve_support_admin_for_message, LimitsInv
    <3> QED  BY <1>1, <3>1, <3>2, <3>3 DEF LimitsInv
  <2>4. ASSUME NEW a \in OnTelegram, AssignKeeper(a)
        PROVE  /\ incoming' \in [resolve : Nat, assign : SUBSET OnTelegram]
               /\ incoming'.resolve <= chat'.newest
    <3>1. incoming' = [incoming EXCEPT !.assign = incoming.assign \ {a}]
      BY <2>4 DEF AssignKeeper
    <3>2. incoming'.resolve = incoming.resolve /\ incoming.resolve \in Nat
          /\ incoming' \in [resolve : Nat, assign : SUBSET OnTelegram]
      BY <3>1 DEF LimitsInv
    <3> QED  BY <1>1, <3>2 DEF LimitsInv
  <2> QED
    BY <2>1, <2>2, <2>3, <2>4
    DEF SupportNext, supportVars, TicketsNext, ChatNext, NotifierNext, create_ticket,
        UserAddsToTicket, CloseTicket, AppAnswersTicket, WebAnswersTicket, ClaimTicket,
        AddToTicket, KeepChat, ReadByAdmin, PresenceChanges, BotAsksReply, BotReplies,
        ReplyFails, WebReplies, AppReplies, set_support_conversation_admin, AddReply,
        ReadLatest, TellNew, TellFails, NotifierStops, NotifierStarts
<1>4. /\ notifier'.latest <= chat'.newest
      /\ notifier'.told \cup notifier'.skipped \subseteq 1..chat'.newest
  <2>0. /\ notifier \in [pc : {"sleep", "list", "down"}, last : Nat, latest : Nat,
                         told : SUBSET Nat, skipped : SUBSET Nat]
        /\ notifier.last \in Nat /\ notifier.latest \in Nat
        /\ notifier.latest <= chat.newest
        /\ notifier.told \cup notifier.skipped \subseteq 1..chat.newest
    BY DEF NotesInv, LimitsInv
  <2>1. CASE UNCHANGED notifier
    BY <1>1, <2>0, <2>1
  <2>2. CASE ReadLatest
    <3>1. notifier' = [notifier EXCEPT !.pc = "list", !.latest = chat.newest]
      BY <2>2 DEF ReadLatest
    <3>2. notifier'.latest = chat.newest /\ notifier'.told = notifier.told
          /\ notifier'.skipped = notifier.skipped
      BY <2>0, <3>1
    <3> QED  BY <1>1, <2>0, <3>2
  <2>3. CASE TellNew
    <3>1. PICK more : /\ more = notifier.told \cup (notifier.last + 1)..chat.newest
                      /\ notifier' = [notifier EXCEPT !.pc = "sleep",
                                        !.last = notifier.latest, !.told = more]
      BY <2>3 DEF TellNew
    <3>2. notifier'.latest = notifier.latest /\ notifier'.told = more
          /\ notifier'.skipped = notifier.skipped
      BY <2>0, <3>1
    <3> QED  BY <1>1, <2>0, <3>1, <3>2
  <2>4. CASE TellFails \/ NotifierStops
    <3>1. notifier'.latest = notifier.latest /\ notifier'.told = notifier.told
          /\ notifier'.skipped = notifier.skipped
      BY <2>0, <2>4 DEF TellFails, NotifierStops
    <3> QED  BY <1>1, <2>0, <3>1
  <2>5. CASE NotifierStarts
    <3>1. PICK found : /\ found = notifier.skipped \cup (notifier.last + 1)..chat.newest
                       /\ notifier' = [notifier EXCEPT !.pc = "sleep",
                                         !.last = chat.newest, !.skipped = found]
      BY <2>5 DEF NotifierStarts
    <3>2. notifier'.latest = notifier.latest /\ notifier'.told = notifier.told
          /\ notifier'.skipped = found
      BY <2>0, <3>1
    <3> QED  BY <1>1, <2>0, <3>1, <3>2
  <2> QED
    BY <2>1, <2>2, <2>3, <2>4, <2>5
    DEF SupportNext, supportVars, TicketsNext, ChatNext, NotifierNext, create_ticket,
        UserAddsToTicket, CloseTicket, AppAnswersTicket, WebAnswersTicket, ClaimTicket,
        AddToTicket, KeepChat, UserWrites, resolve_support_admin_for_message, ReadByAdmin,
        AssignKeeper, PresenceChanges, BotAsksReply, BotReplies, ReplyFails, WebReplies,
        AppReplies, set_support_conversation_admin, AddReply
<1> QED  BY <1>1, <1>2, <1>3, <1>4 DEF LimitsInv

LEMMA SupportStep ==
  ASSUME SupportInv, [SupportNext]_supportVars
  PROVE  SupportInv'
<1>1. SpeechInv /\ NotesInv /\ LimitsInv
  BY DEF SupportInv
<1> QED  BY <1>1, SpeechNext, NotesNext, LimitsStep DEF SupportInv

LEMMA SupportIsTyped == ASSUME SupportInv PROVE SupportTypeOK
<1> USE SupportAssumption
<1>1. DOMAIN tickets \subseteq 1..MaxTickets
      /\ \A t \in DOMAIN tickets : tickets[t] \in Ticket
  BY DEF SupportInv, LimitsInv, SpeechInv, SupportShape
<1>2. answers \subseteq [to : 0..MaxTickets, by : Staff, via : Vias]
  BY <1>1 DEF SupportInv, SpeechInv, SupportShape
<1>3. reply \in [Writers -> [pc : {"idle", "claim", "ask", "take", "add"},
                             to : 0..MaxTickets, via : Vias]]
  BY <1>1 DEF SupportInv, SpeechInv, SupportShape
<1>4. chat.newest \in 0..MaxMessages /\ spentOn \in Spending
  BY DEF SupportInv, NotesInv, LimitsInv, Spending
<1>5. chat \in [assigned : Staff \cup {Nobody}, online : SUBSET OnTelegram,
                newest : 0..MaxMessages, unread : BOOLEAN]
  BY <1>4 DEF SupportInv, NotesInv
<1>6. incoming \in [resolve : 0..MaxMessages, assign : SUBSET OnTelegram]
  <2>1. incoming.resolve \in 0..MaxMessages
    BY <1>4 DEF SupportInv, LimitsInv
  <2> QED  BY <2>1 DEF SupportInv, LimitsInv
<1>7. notifier \in [pc : {"sleep", "list", "down"}, last : 0..MaxMessages,
                    latest : 0..MaxMessages, told : SUBSET (1..MaxMessages),
                    skipped : SUBSET (1..MaxMessages)]
  <2>1. /\ notifier.last \in 0..MaxMessages /\ notifier.latest \in 0..MaxMessages
        /\ notifier.told \subseteq 1..MaxMessages
        /\ notifier.skipped \subseteq 1..MaxMessages
    BY <1>4 DEF SupportInv, NotesInv, LimitsInv
  <2> QED  BY <2>1 DEF SupportInv, NotesInv
<1> QED
  BY <1>1, <1>2, <1>3, <1>4, <1>5, <1>6, <1>7 DEF SupportTypeOK, Spending

(***************************************************************************)
(* Tickets, answers, the chat and the notifier stay of their types and     *)
(* within their bounds.                                                    *)
(***************************************************************************)
THEOREM SupportTyped == SupportSpec => []SupportTypeOK
<1>1. SupportInit => SupportInv
  BY SupportStarts
<1>2. SupportInv /\ [SupportNext]_supportVars => SupportInv'
  BY SupportStep
<1>3. SupportInv => SupportTypeOK
  BY SupportIsTyped
<1> QED  BY <1>1, <1>2, <1>3, PTL DEF SupportSpec

(***************************************************************************)
(* The watch on the servers (ServerWatch): what the task remembers having  *)
(* told is what was told last, unless it has lost its memory of it.        *)
(***************************************************************************)
Tellings == {"none", "down", "up", "excused"}
WatchInv ==
    /\ alerted \in [Servers -> Tellings]
    /\ task \in [runs : BOOLEAN, streak : [Servers -> Nat], notified : SUBSET Servers,
                 needed : Nat, todo : Lists]
    /\ \A s \in Servers : IF s \in task.notified THEN alerted[s] \in {"down", "excused"}
                          ELSE alerted[s] \in {"none", "up", "excused"}

Tasks == [runs : BOOLEAN, streak : [Servers -> Nat], notified : SUBSET Servers,
          needed : Nat, todo : Lists]

LEMMA NothingToDo == [s \in {} |-> "online"] \in Lists
<1>1. [s \in {} |-> "online"] \in [{} -> Status]
  OBVIOUS
<1>2. QED  BY <1>1 DEF Lists

LEMMA LessToDo ==
  ASSUME WatchInv, NEW s
  PROVE  Done(s) \in Lists
<1>1. PICK S \in SUBSET Servers : task.todo \in [S -> Status]
  BY DEF WatchInv, Lists
<1>2. Done(s) \in [(S \ {s}) -> Status]
  BY <1>1 DEF Done, Restrict
<1>3. QED  BY <1>2 DEF Lists

LEMMA BlankTasks ==
  /\ NewTask \in Tasks /\ NewTask.notified = {}
  /\ NoTask \in Tasks /\ NoTask.notified = {}
  BY NothingToDo DEF NewTask, NoTask, Tasks

LEMMA WatchStarts == ASSUME WatchInit PROVE WatchInv
  BY BlankTasks DEF WatchInit, WatchInv, Tellings, Tasks

LEMMA WatchStep ==
  ASSUME WatchInv, [WatchNext]_watchVars
  PROVE  WatchInv'
<1>1. task \in Tasks /\ alerted \in [Servers -> Tellings]
  BY DEF WatchInv, Tasks
<1>2. CASE UNCHANGED <<task, alerted>>
  BY <1>2 DEF WatchInv
<1>3. CASE Supervise
  <2>1. task' \in Tasks /\ task'.notified = {}
    BY <1>3, BlankTasks DEF Supervise
  <2>2. \A s \in Servers : alerted'[s] \in {"none", "up", "excused"}
    BY <1>1, <1>3 DEF Supervise, Tellings
  <2>3. alerted' \in [Servers -> Tellings]
    BY <1>1, <1>3 DEF Supervise, Tellings
  <2>4. QED  BY <2>1, <2>2, <2>3 DEF WatchInv, Tasks
<1>4. ASSUME NEW found \in Lists, NEW needed \in 1..MaxStreak, Scans(found, needed)
      PROVE  WatchInv'
  <2>1. needed \in Nat
    OBVIOUS
  <2>2. task' = [task EXCEPT !.todo = found, !.needed = needed] /\ alerted' = alerted
    BY <1>4 DEF Scans
  <2>3. task' \in Tasks /\ task'.notified = task.notified
    BY <1>1, <2>1, <2>2 DEF Tasks
  <2>4. QED  BY <2>2, <2>3 DEF WatchInv, Tasks
<1>5. ASSUME NEW s \in Servers, FindsOffline(s)
      PROVE  WatchInv'
  <2>1. Capped(task.streak[s]) \in Nat
    BY <1>1 DEF Tasks, Capped
  <2>2. /\ task' \in Tasks
        /\ task'.notified = IF IsDue(s) THEN task.notified \cup {s} ELSE task.notified
    BY <1>1, <1>5, <2>1, LessToDo DEF FindsOffline, Tasks
  <2>3. CASE IsDue(s)
    <3>1. alerted[s] \in {"none", "up", "excused"}
      BY <2>3 DEF IsDue, WatchInv
    <3>2. alerted' = [alerted EXCEPT ![s] = "down"]
      BY <1>1, <1>5, <2>3, <3>1 DEF FindsOffline, Alerts
    <3>3. QED  BY <1>1, <2>2, <2>3, <3>2 DEF WatchInv, Tasks, Tellings
  <2>4. CASE ~IsDue(s)
    BY <1>5, <2>2, <2>4 DEF WatchInv, Tasks, FindsOffline
  <2>5. QED  BY <2>3, <2>4
<1>6. ASSUME NEW s \in Servers, FindsAnswering(s)
      PROVE  WatchInv'
  <2>1. /\ task' \in Tasks
        /\ task'.notified = IF IsBack(s) THEN task.notified \ {s} ELSE task.notified
    BY <1>1, <1>6, LessToDo DEF FindsAnswering, Tasks
  <2>2. CASE IsBack(s)
    <3>1. alerted[s] \in {"down", "excused"}
      BY <2>2 DEF IsBack, WatchInv
    <3>2. alerted' = [alerted EXCEPT ![s] = "up"]
      BY <1>1, <1>6, <2>2, <3>1 DEF FindsAnswering, Alerts
    <3>3. QED  BY <1>1, <2>1, <2>2, <3>2 DEF WatchInv, Tasks, Tellings
  <2>3. CASE ~IsBack(s)
    BY <1>6, <2>1, <2>3 DEF WatchInv, Tasks, FindsAnswering
  <2>4. QED  BY <2>2, <2>3
<1>7. ASSUME NEW s \in Servers, FailsToNotify(s)
      PROVE  WatchInv'
  <2>1. Capped(task.streak[s]) \in Nat
    BY <1>1 DEF Tasks, Capped
  <2>2. task' \in Tasks /\ task'.notified = task.notified
    <3> DEFINE none == [t \in {} |-> "online"]
    <3>1. \E n \in Nat : task' = [task EXCEPT !.todo = none, !.streak[s] = n]
      <4>1. 0 \in Nat
        OBVIOUS
      <4>2. QED  BY <1>7, <2>1, <4>1 DEF FailsToNotify
    <3>2. none \in Lists
      BY NothingToDo
    <3> HIDE DEF none
    <3>3. PICK n \in Nat : task' = [task EXCEPT !.todo = none, !.streak[s] = n]
      BY <3>1
    <3>4. [task.streak EXCEPT ![s] = n] \in [Servers -> Nat]
      BY <1>1 DEF Tasks
    <3>5. task' = [task EXCEPT !.todo = none,
                               !.streak = [task.streak EXCEPT ![s] = n]]
      BY <1>1, <3>3 DEF Tasks
    <3>6. QED  BY <1>1, <3>2, <3>4, <3>5 DEF Tasks
  <2>3. alerted' = alerted \/ alerted' = [alerted EXCEPT ![s] = "excused"]
    BY <1>7 DEF FailsToNotify
  <2>4. QED  BY <1>1, <2>2, <2>3 DEF WatchInv, Tasks, Tellings
<1>8. CASE UNCHANGED watchVars \/ SwitchesPanel
  BY <1>2, <1>8 DEF watchVars, SwitchesPanel
<1>9. QED  BY <1>3, <1>4, <1>5, <1>6, <1>7, <1>8 DEF WatchNext

(***************************************************************************)
(* However many servers there are, however scans and thresholds follow     *)
(* each other and pushes fail: an outage is told once and its end once     *)
(* (admin_panel/server.py:256-306).                                        *)
(***************************************************************************)
THEOREM OutagesToldOnce == WatchSpec => []OutageToldOnce
<1>1. WatchInit => WatchInv
  BY WatchStarts
<1>2. WatchInv /\ [WatchNext]_watchVars => WatchInv'
  BY WatchStep
<1>3. WatchInv => OutageToldOnce
  BY DEF WatchInv, OutageToldOnce, Tellings
<1>4. QED  BY <1>1, <1>2, <1>3, PTL DEF WatchSpec

(***************************************************************************)
(* What the watch counts, up to its bounds.                                *)
(***************************************************************************)
StreaksInv == /\ wanted \in BOOLEAN /\ misfortunes \in 0..MaxMisfortunes
              /\ \A s \in Servers : task.streak[s] <= MaxStreak
              /\ task.needed \in 1..MaxStreak

LEMMA StreaksStart == ASSUME WatchInit PROVE StreaksInv
<1>1. /\ \A s \in Servers : NoTask.streak[s] = 0
      /\ NoTask.needed = 1
  BY DEF NoTask, NewTask
<1> QED  BY <1>1, WatchAssumption DEF WatchInit, StreaksInv

LEMMA CappedCount ==
  ASSUME NEW n \in Nat, n <= MaxStreak
  PROVE  Capped(n) \in Nat /\ Capped(n) <= MaxStreak
  BY WatchAssumption DEF Capped

LEMMA StreaksStep ==
  ASSUME WatchInv, StreaksInv, [WatchNext]_watchVars
  PROVE  StreaksInv'
<1> USE WatchAssumption
<1>1. task \in Tasks /\ \A s \in Servers : task.streak[s] \in Nat
  BY DEF WatchInv, Tasks
<1>2. wanted' \in BOOLEAN /\ misfortunes' \in 0..MaxMisfortunes
  <2>1. \/ UNCHANGED misfortunes
        \/ misfortunes < MaxMisfortunes /\ misfortunes' = misfortunes + 1
    BY DEF WatchNext, watchVars, SwitchesPanel, Supervise, Scans, FindsOffline,
       FindsAnswering, FailsToNotify, Strikes
  <2>2. wanted' = wanted \/ wanted' = ~wanted
    BY DEF WatchNext, watchVars, SwitchesPanel, Supervise, Scans, FindsOffline,
       FindsAnswering, FailsToNotify
  <2>3. wanted' \in BOOLEAN
    BY <2>2 DEF StreaksInv
  <2>4. misfortunes' \in 0..MaxMisfortunes
    BY <2>1 DEF StreaksInv
  <2> QED  BY <2>3, <2>4
<1>3. ASSUME task'.streak = task.streak, task'.needed \in 1..MaxStreak
      PROVE  StreaksInv'
  BY <1>2, <1>3 DEF StreaksInv
<1>4. ASSUME NEW s \in Servers, NEW n \in Nat, n <= MaxStreak,
             task'.streak = [task.streak EXCEPT ![s] = n], task'.needed = task.needed
      PROVE  StreaksInv'
  <2>1. \A q \in Servers : task'.streak[q] <= MaxStreak
    BY <1>1, <1>4 DEF Tasks, StreaksInv
  <2> QED  BY <1>2, <1>4, <2>1 DEF StreaksInv
<1>5. CASE UNCHANGED watchVars \/ SwitchesPanel
  <2>1. task' = task
    BY <1>5 DEF watchVars, SwitchesPanel
  <2> QED  BY <1>3, <2>1 DEF StreaksInv
<1>6. CASE Supervise
  <2>1. \A new \in {NewTask, NoTask} : /\ \A s \in Servers : new.streak[s] = 0
                                       /\ new.needed = 1
    BY DEF NewTask, NoTask
  <2>2. task' \in {NewTask, NoTask}
    BY <1>6 DEF Supervise
  <2> QED  BY <1>2, <2>1, <2>2 DEF StreaksInv
<1>7. ASSUME NEW found \in Lists, NEW needed \in 1..MaxStreak, Scans(found, needed)
      PROVE  StreaksInv'
  <2>1. task' = [task EXCEPT !.todo = found, !.needed = needed]
    BY <1>7 DEF Scans
  <2>2. task'.streak = task.streak /\ task'.needed = needed
    BY <1>1, <2>1 DEF Tasks
  <2> QED  BY <1>3, <2>2
<1>8. ASSUME NEW s \in Servers, FindsOffline(s) \/ FindsAnswering(s) \/ FailsToNotify(s)
      PROVE  StreaksInv'
  <2>1. PICK n : n \in {0, Capped(task.streak[s])} /\ task'.streak = [task.streak EXCEPT ![s] = n]
                 /\ task'.needed = task.needed
    <3>1. CASE FindsOffline(s)
      <4>1. PICK c, done, more :
               /\ c = Capped(task.streak[s])
               /\ task' = [task EXCEPT !.todo = done, !.streak[s] = c, !.notified = more]
        BY <1>1, <3>1 DEF FindsOffline, Tasks
      <4>2. task'.streak = [task.streak EXCEPT ![s] = c] /\ task'.needed = task.needed
        BY <1>1, <4>1 DEF Tasks
      <4> QED  BY <4>1, <4>2
    <3>2. CASE FindsAnswering(s)
      <4>1. PICK done, less :
               task' = [task EXCEPT !.todo = done, !.streak[s] = 0, !.notified = less]
        BY <1>1, <3>2 DEF FindsAnswering, Tasks
      <4>2. task'.streak = [task.streak EXCEPT ![s] = 0] /\ task'.needed = task.needed
        BY <1>1, <4>1 DEF Tasks
      <4> QED  BY <4>2
    <3>3. CASE FailsToNotify(s)
      <4>1. PICK c : c = Capped(task.streak[s])
        OBVIOUS
      <4>2. PICK none : none = [t \in {} |-> "online"]
        OBVIOUS
      <4>3. \/ task' = [task EXCEPT !.todo = none, !.streak[s] = c]
            \/ task' = [task EXCEPT !.todo = none, !.streak[s] = 0]
        BY <3>3, <4>1, <4>2 DEF FailsToNotify
      <4>4. CASE task' = [task EXCEPT !.todo = none, !.streak[s] = c]
        <5>1. task'.streak = [task.streak EXCEPT ![s] = c] /\ task'.needed = task.needed
          BY <1>1, <4>4 DEF Tasks
        <5> QED  BY <4>1, <5>1
      <4>5. CASE task' = [task EXCEPT !.todo = none, !.streak[s] = 0]
        <5>1. task'.streak = [task.streak EXCEPT ![s] = 0] /\ task'.needed = task.needed
          BY <1>1, <4>5 DEF Tasks
        <5> QED  BY <5>1
      <4> QED  BY <4>3, <4>4, <4>5
    <3> QED  BY <1>8, <3>1, <3>2, <3>3
  <2>2. n \in Nat /\ n <= MaxStreak
    BY <1>1, <2>1, CappedCount DEF StreaksInv
  <2> QED  BY <1>4, <2>1, <2>2
<1> QED  BY <1>5, <1>6, <1>7, <1>8 DEF WatchNext

WatchedInv == WatchInv /\ StreaksInv

LEMMA WatchedStarts == ASSUME WatchInit PROVE WatchedInv
  BY WatchStarts, StreaksStart DEF WatchedInv

LEMMA WatchedStep ==
  ASSUME WatchedInv, [WatchNext]_watchVars
  PROVE  WatchedInv'
<1>1. WatchInv /\ StreaksInv
  BY DEF WatchedInv
<1> QED  BY <1>1, WatchStep, StreaksStep DEF WatchedInv

LEMMA WatchIsTyped == ASSUME WatchedInv PROVE WatchTypeOK
<1>1. task \in Tasks /\ StreaksInv /\ alerted \in [Servers -> Tellings]
  BY DEF WatchedInv, WatchInv, Tasks
<1>2. task.streak \in [Servers -> Streaks]
  BY <1>1, WatchAssumption DEF Tasks, StreaksInv, Streaks
<1>3. DOMAIN task.todo \subseteq Servers
      /\ \A s \in DOMAIN task.todo : task.todo[s] \in Status
  <2>1. PICK S \in SUBSET Servers : task.todo \in [S -> Status]
    BY <1>1 DEF Tasks, Lists
  <2> QED  BY <2>1
<1>4. task.runs \in BOOLEAN /\ task.notified \subseteq Servers
  BY <1>1 DEF Tasks
<1> QED  BY <1>1, <1>2, <1>3, <1>4 DEF WatchTypeOK, StreaksInv, Tellings

(***************************************************************************)
(* The task, its list and its counts stay of their types.                  *)
(***************************************************************************)
THEOREM WatchTyped == WatchSpec => []WatchTypeOK
<1>1. WatchInit => WatchedInv
  BY WatchedStarts
<1>2. WatchedInv /\ [WatchNext]_watchVars => WatchedInv'
  BY WatchedStep
<1>3. WatchedInv => WatchTypeOK
  BY WatchIsTyped
<1> QED  BY <1>1, <1>2, <1>3, PTL DEF WatchSpec

(***************************************************************************)
(* The reminders of one bot (Reminders).                                   *)
(***************************************************************************)
Rounds == [kind : Reminds \cup {"none"}, table : Tables, rows : SUBSET ConfigIds,
           at : ConfigIds \cup {0}, fresh : SUBSET Rows]
RemindShape ==
    /\ service \in [Rows -> [state : {"free", "sold", "gone"}, marked : SUBSET Reminds]]
    /\ round \in Rounds
    /\ told \in [Rows -> [Reminds -> Nat]]

(* Reminders of the volume of a panel config are never marked.             *)
Markable(t, k) == ~(t = "custom" /\ k = "volume")

(* The row a code was sent about and that is not marked yet.               *)
InHand(t, i, k) == /\ round.at = i /\ round.table = t /\ round.kind = k
                   /\ <<t, i>> \in round.fresh

(* A code that was sent is marked, or about to be; what a round has still  *)
(* to look at was not reminded before.                                     *)
SentInv ==
    \A t \in Tables, i \in ConfigIds, k \in Reminds : Markable(t, k) =>
       /\ told[<<t, i>>][k] <= 1
       /\ told[<<t, i>>][k] # 0 => \/ k \in service[<<t, i>>].marked
                                   \/ service[<<t, i>>].state = "gone"
                                   \/ InHand(t, i, k)
       /\ t = round.table /\ k = round.kind /\ i \in round.rows =>
             told[<<t, i>>][k] = 0 \/ InHand(t, i, k)
RoundInv ==
    /\ round.at # 0 => round.at \in round.rows
    /\ round.kind = "none" => round.rows = {}
RemindInv == RemindShape /\ RoundInv /\ SentInv

LEMMA RemindInit == ASSUME RemindersInit PROVE RemindInv
<1>1. RemindShape
  BY DEF RemindersInit, RemindShape, NoRound, Rounds, Tables, Reminds
<1>2. RoundInv
  BY DEF RemindersInit, RoundInv, NoRound
<1>3. SentInv
  BY DEF RemindersInit, SentInv, Rows
<1>4. QED  BY <1>1, <1>2, <1>3 DEF RemindInv

(* A config is sold, released or deleted: its marks are gone, and what was *)
(* sent about it counts no more.                                           *)
LEMMA ReassignStep ==
  ASSUME RemindInv, NEW r \in Rows, NEW old \in {"free", "sold"},
         NEW new \in {"free", "sold", "gone"}, Reassigns(r, old, new)
  PROVE  RemindInv'
<1>1. /\ service[r].state = old
      /\ service' = [service EXCEPT ![r] = [state |-> new, marked |-> {}]]
      /\ told' = [told EXCEPT ![r] = [k \in Reminds |-> 0]]
      /\ round' = [round EXCEPT !.fresh = @ \ {r}]
  BY DEF Reassigns
<1>2. RemindShape'
  BY <1>1 DEF RemindInv, RemindShape, Rounds
<1>3. /\ round'.kind = round.kind /\ round'.table = round.table
      /\ round'.rows = round.rows /\ round'.at = round.at
      /\ round'.fresh = round.fresh \ {r}
  BY <1>1 DEF RemindInv, RemindShape, Rounds
<1>4. \A q \in Rows : /\ q # r => service'[q] = service[q] /\ told'[q] = told[q]
                      /\ q = r => \A k \in Reminds : told'[q][k] = 0
  BY <1>1 DEF RemindInv, RemindShape
<1>5. RoundInv'
  BY <1>3 DEF RemindInv, RoundInv
<1>6. SentInv'
  <2> SUFFICES ASSUME NEW t \in Tables, NEW i \in ConfigIds, NEW k \in Reminds,
                      Markable(t, k)
               PROVE  /\ told'[<<t, i>>][k] <= 1
                      /\ told'[<<t, i>>][k] # 0 => \/ k \in service'[<<t, i>>].marked
                                                   \/ service'[<<t, i>>].state = "gone"
                                                   \/ InHand(t, i, k)'
                      /\ t = round'.table /\ k = round'.kind /\ i \in round'.rows =>
                            told'[<<t, i>>][k] = 0 \/ InHand(t, i, k)'
    BY DEF SentInv, Markable
  <2> DEFINE q == <<t, i>>
  <2>1. q \in Rows
    BY DEF Rows
  <2>2. CASE q = r
    BY <1>4, <2>1, <2>2
  <2>3. CASE q # r
    <3>1. InHand(t, i, k)' <=> InHand(t, i, k)
      BY <1>3, <2>3 DEF InHand
    <3>2. service'[q] = service[q] /\ told'[q] = told[q]
      BY <1>4, <2>1, <2>3
    <3>3. QED  BY <1>3, <3>1, <3>2 DEF RemindInv, SentInv
  <2>4. QED  BY <2>2, <2>3
<1>7. QED  BY <1>2, <1>5, <1>6 DEF RemindInv

(* A check of one kind and table begins when no code is in hand that would *)
(* be due: each due row was not reminded since it was sold.                *)
LEMMA RoundLooks ==
  ASSUME RemindInv, NEW t0 \in Tables, NEW k0 \in Reminds, LooksThrough(t0, k0),
         service' = service, told' \in [Rows -> [Reminds -> Nat]],
         \A q \in Rows, k \in Reminds : told'[q][k] = told[q][k] \/ told'[q][k] = 0,
         \A t \in Tables, i \in ConfigIds, k \in Reminds : InHand(t, i, k) =>
            told'[<<t, i>>][k] = 0
  PROVE  RemindInv'
<1>1. /\ round'.kind = k0 /\ round'.table = t0 /\ round'.rows = DueRows(t0, k0)
      /\ round'.at = 0 /\ round' \in Rounds
  BY DEF LooksThrough, DueRows, Rounds, Rows
<1>2. RemindShape'
  BY <1>1 DEF RemindInv, RemindShape
<1>3. RoundInv'
  BY <1>1 DEF RoundInv, Reminds
<1>4. SentInv'
  <2> SUFFICES ASSUME NEW t \in Tables, NEW i \in ConfigIds, NEW k \in Reminds,
                      Markable(t, k)
               PROVE  /\ told'[<<t, i>>][k] <= 1
                      /\ told'[<<t, i>>][k] # 0 => \/ k \in service[<<t, i>>].marked
                                                   \/ service[<<t, i>>].state = "gone"
                      /\ t = t0 /\ k = k0 /\ i \in DueRows(t0, k0) =>
                            told'[<<t, i>>][k] = 0
    BY <1>1 DEF SentInv, Markable
  <2> DEFINE q == <<t, i>>
  <2>1. q \in Rows
    BY DEF Rows
  <2>2. told'[q][k] = told[q][k] \/ told'[q][k] = 0
    BY <2>1
  <2>3. told'[q][k] # 0 => told'[q][k] = told[q][k] /\ ~InHand(t, i, k)
    BY <2>2
  <2>4. /\ told[q][k] <= 1
        /\ told[q][k] # 0 /\ ~InHand(t, i, k) =>
              k \in service[q].marked \/ service[q].state = "gone"
    BY DEF RemindInv, SentInv
  <2>5. t = t0 /\ k = k0 /\ i \in DueRows(t0, k0) =>
           service[q].state = "sold" /\ k \notin service[q].marked
    BY DEF DueRows
  <2>6. QED  BY <2>2, <2>3, <2>4, <2>5
<1>5. QED  BY <1>2, <1>3, <1>4 DEF RemindInv

LEMMA SleepStep ==
  ASSUME RemindInv, round' = NoRound, service' = service,
         told' \in [Rows -> [Reminds -> Nat]],
         \A q \in Rows, k \in Reminds : told'[q][k] = told[q][k] \/ told'[q][k] = 0,
         \A t \in Tables, i \in ConfigIds, k \in Reminds : InHand(t, i, k) =>
            told'[<<t, i>>][k] = 0
  PROVE  RemindInv'
<1>1. /\ NoRound \in Rounds /\ NoRound.rows = {} /\ NoRound.at = 0
      /\ NoRound.kind = "none"
  BY DEF NoRound, Rounds, Tables
<1>2. RemindShape' /\ RoundInv'
  BY <1>1 DEF RemindInv, RemindShape, RoundInv
<1>3. SentInv'
  <2> SUFFICES ASSUME NEW t \in Tables, NEW i \in ConfigIds, NEW k \in Reminds,
                      Markable(t, k)
               PROVE  /\ told'[<<t, i>>][k] <= 1
                      /\ told'[<<t, i>>][k] # 0 => \/ k \in service[<<t, i>>].marked
                                                   \/ service[<<t, i>>].state = "gone"
    BY <1>1 DEF SentInv, Markable
  <2>1. <<t, i>> \in Rows
    BY DEF Rows
  <2>2. told'[<<t, i>>][k] = told[<<t, i>>][k] \/ told'[<<t, i>>][k] = 0
    BY <2>1
  <2>3. told'[<<t, i>>][k] # 0 => ~InHand(t, i, k)
    OBVIOUS
  <2>4. QED  BY <2>2, <2>3 DEF RemindInv, SentInv
<1>4. QED  BY <1>2, <1>3 DEF RemindInv

LEMMA SendStep ==
  ASSUME RemindInv, NEW i \in ConfigIds, SendsCode(i)
  PROVE  RemindInv'
<1> DEFINE r == <<round.table, i>>
<1>1. /\ i \in round.rows /\ round.at = 0 /\ i # 0
      /\ round' = [round EXCEPT !.at = i] /\ service' = service
  BY RemindersAssumption DEF SendsCode
<1>2. /\ round.kind \in Reminds /\ round.table \in Tables /\ r \in Rows
      /\ told \in [Rows -> [Reminds -> Nat]]
  BY <1>1 DEF RemindInv, RemindShape, RoundInv, Rounds, Rows
<1>3. told' = IF r \in round.fresh /\ told[r][round.kind] < 2
              THEN [told EXCEPT ![r][round.kind] = @ + 1] ELSE told
  BY DEF SendsCode
<1>4. /\ round'.kind = round.kind /\ round'.table = round.table
      /\ round'.rows = round.rows /\ round'.at = i /\ round'.fresh = round.fresh
      /\ round' \in Rounds
  BY <1>1 DEF RemindInv, RemindShape, Rounds
<1> HIDE DEF r
<1>5. /\ told' \in [Rows -> [Reminds -> Nat]]
      /\ \A q \in Rows, k \in Reminds :
            /\ q # r \/ k # round.kind => told'[q][k] = told[q][k]
            /\ r \notin round.fresh => told'[q][k] = told[q][k]
            /\ q = r /\ k = round.kind => told'[q][k] \in {told[q][k], told[q][k] + 1}
  BY <1>2, <1>3
<1>6. RemindShape' /\ RoundInv'
  BY <1>1, <1>4, <1>5 DEF RemindInv, RemindShape, RoundInv
<1>7. SentInv'
  <2> SUFFICES ASSUME NEW t \in Tables, NEW j \in ConfigIds, NEW k \in Reminds,
                      Markable(t, k)
               PROVE  /\ told'[<<t, j>>][k] <= 1
                      /\ told'[<<t, j>>][k] # 0 => \/ k \in service[<<t, j>>].marked
                                                   \/ service[<<t, j>>].state = "gone"
                                                   \/ InHand(t, j, k)'
                      /\ t = round.table /\ k = round.kind /\ j \in round.rows =>
                            told'[<<t, j>>][k] = 0 \/ InHand(t, j, k)'
    BY <1>1, <1>4 DEF SentInv, Markable
  <2> DEFINE q == <<t, j>>
  <2>1. q \in Rows /\ (q = r <=> t = round.table /\ j = i)
    BY DEF Rows, r
  <2>2. /\ told[q][k] <= 1
        /\ told[q][k] # 0 => \/ k \in service[q].marked \/ service[q].state = "gone"
                             \/ InHand(t, j, k)
        /\ t = round.table /\ k = round.kind /\ j \in round.rows =>
              told[q][k] = 0 \/ InHand(t, j, k)
    BY DEF RemindInv, SentInv
  <2>3. ~InHand(t, j, k)
    BY <1>1, RemindersAssumption DEF InHand
  <2>4. CASE q = r /\ k = round.kind
    <3>1. told[q][k] = 0
      BY <1>1, <2>1, <2>2, <2>3, <2>4
    <3>2. told'[q][k] \in {0, 1}
      BY <1>5, <2>1, <2>4, <3>1
    <3>3. told'[q][k] # 0 => r \in round.fresh
      BY <1>5, <2>1, <2>4, <3>1
    <3>4. r \in round.fresh => InHand(t, j, k)'
      BY <1>4, <2>1, <2>4 DEF InHand
    <3>5. QED  BY <3>2, <3>3, <3>4
  <2>5. CASE ~(q = r /\ k = round.kind)
    <3>1. told'[q][k] = told[q][k]
      BY <1>5, <2>1, <2>5
    <3>2. QED  BY <2>2, <2>3, <3>1
  <2>6. QED  BY <2>4, <2>5
<1>8. QED  BY <1>6, <1>7 DEF RemindInv

(* The row at work leaves the round: it was marked, or has no mark to get. *)
LEMMA MarkStep ==
  ASSUME RemindInv, MarksReminded
  PROVE  RemindInv'
<1>1. /\ round.at \in ConfigIds /\ round.at \in round.rows /\ round.kind \in Reminds
      /\ round.table \in Tables /\ round.at # 0 /\ MarkedRow \in Rows
  BY DEF RemindInv, RemindShape, RoundInv, Rounds, MarksReminded, MarkedRow, Rows,
     Tables
<1>2. service' = [service EXCEPT ![MarkedRow].marked =
                    IF service[MarkedRow].state = "gone" THEN @ ELSE @ \cup {round.kind}]
      /\ told' = told /\ round' = [round EXCEPT !.rows = @ \ {round.at}, !.at = 0]
  BY DEF MarksReminded
<1>3. /\ round'.kind = round.kind /\ round'.table = round.table
      /\ round'.rows = round.rows \ {round.at} /\ round'.at = 0
      /\ round' \in Rounds
  BY <1>2 DEF RemindInv, RemindShape, Rounds
<1>4. /\ service' \in [Rows -> [state : {"free", "sold", "gone"}, marked : SUBSET Reminds]]
      /\ \A q \in Rows : /\ service'[q].state = service[q].state
                         /\ service[q].marked \subseteq service'[q].marked
                         /\ q = MarkedRow /\ service[q].state # "gone" =>
                               round.kind \in service'[q].marked
  BY <1>1, <1>2 DEF RemindInv, RemindShape
<1>5. RemindShape' /\ RoundInv'
  BY <1>1, <1>2, <1>3, <1>4 DEF RemindInv, RemindShape, RoundInv, Reminds
<1>6. SentInv'
  <2> SUFFICES ASSUME NEW t \in Tables, NEW i \in ConfigIds, NEW k \in Reminds,
                      Markable(t, k)
               PROVE  /\ told[<<t, i>>][k] <= 1
                      /\ told[<<t, i>>][k] # 0 => \/ k \in service'[<<t, i>>].marked
                                                  \/ service'[<<t, i>>].state = "gone"
                      /\ t = round.table /\ k = round.kind
                         /\ i \in round.rows \ {round.at} => told[<<t, i>>][k] = 0
    BY <1>2, <1>3 DEF SentInv, Markable
  <2>1. <<t, i>> \in Rows
    BY DEF Rows
  <2>2. /\ told[<<t, i>>][k] <= 1
        /\ told[<<t, i>>][k] # 0 => \/ k \in service[<<t, i>>].marked
                                    \/ service[<<t, i>>].state = "gone"
                                    \/ InHand(t, i, k)
        /\ t = round.table /\ k = round.kind /\ i \in round.rows =>
              told[<<t, i>>][k] = 0 \/ InHand(t, i, k)
    BY DEF RemindInv, SentInv
  <2>3. InHand(t, i, k) => /\ i = round.at /\ <<t, i>> = MarkedRow
                           /\ k = round.kind
    BY DEF InHand, MarkedRow, Markable, Tables
  <2>4. QED  BY <1>4, <2>1, <2>2, <2>3
<1>7. QED  BY <1>5, <1>6 DEF RemindInv

LEMMA PassStep ==
  ASSUME RemindInv, NEW i \in ConfigIds, PassesOver(i)
  PROVE  RemindInv'
<1>1. /\ round.at = 0 /\ service' = service /\ told' = told
      /\ round' = [round EXCEPT !.rows = @ \ {i}]
  BY DEF PassesOver
<1>2. /\ round'.kind = round.kind /\ round'.table = round.table
      /\ round'.rows = round.rows \ {i} /\ round'.at = 0
      /\ round'.fresh = round.fresh /\ round' \in Rounds
  BY <1>1 DEF RemindInv, RemindShape, Rounds
<1>3. \A t, j, k : InHand(t, j, k)' <=> InHand(t, j, k)
  BY <1>1, <1>2 DEF InHand
<1>4. RemindShape' /\ RoundInv'
  BY <1>1, <1>2 DEF RemindInv, RemindShape, RoundInv
<1>5. SentInv'
  BY <1>1, <1>2, <1>3 DEF RemindInv, SentInv, Markable
<1>6. QED  BY <1>4, <1>5 DEF RemindInv

LEMMA BreakStep ==
  ASSUME RemindInv, BreaksOff
  PROVE  RemindInv'
<1>1. told' = Uncounted /\ service' = service /\ round.kind # "none"
      /\ (round' = NoRound \/ LooksThrough("bank", "volume"))
  BY DEF BreaksOff
<1>2. /\ round.kind \in Reminds /\ told \in [Rows -> [Reminds -> Nat]]
  BY <1>1 DEF RemindInv, RemindShape, Rounds
<1>3. /\ told' \in [Rows -> [Reminds -> Nat]]
      /\ \A q \in Rows, k \in Reminds : told'[q][k] = told[q][k] \/ told'[q][k] = 0
  BY <1>1, <1>2 DEF Uncounted
<1>4. ASSUME NEW t \in Tables, NEW i \in ConfigIds, NEW k \in Reminds, InHand(t, i, k)
      PROVE  told'[<<t, i>>][k] = 0
  <2>1. /\ round.at # 0 /\ <<t, i>> = <<round.table, round.at>>
        /\ <<t, i>> \in round.fresh /\ k = round.kind /\ <<t, i>> \in Rows
    BY <1>4, RemindersAssumption DEF InHand, Rows
  <2>2. QED  BY <1>1, <1>2, <2>1 DEF Uncounted
<1>5. "bank" \in Tables /\ "volume" \in Reminds
  BY DEF Tables, Reminds
<1>6. QED  BY <1>1, <1>3, <1>4, <1>5, RoundLooks, SleepStep

LEMMA RemindNext ==
  ASSUME RemindInv, [RemindersNext]_reminderVars
  PROVE  RemindInv'
<1>1. told \in [Rows -> [Reminds -> Nat]]
      /\ "bank" \in Tables /\ "custom" \in Tables
      /\ "expiry" \in Reminds /\ "volume" \in Reminds
  BY DEF RemindInv, RemindShape, Tables, Reminds
<1>2. ASSUME round.at = 0, UNCHANGED <<service, told>>,
             round' = NoRound
             \/ \E t \in Tables, k \in Reminds : LooksThrough(t, k)
      PROVE  RemindInv'
  <2>1. \A t \in Tables, i \in ConfigIds, k \in Reminds : ~InHand(t, i, k)
    BY <1>2, RemindersAssumption DEF InHand
  <2>2. QED  BY <1>1, <1>2, <2>1, RoundLooks, SleepStep
<1>3. CASE StartsRound
  <2>1. round.at = 0
    BY <1>3 DEF StartsRound, RemindInv, RoundInv
  <2>2. QED  BY <1>1, <1>2, <1>3, <2>1 DEF StartsRound
<1>4. CASE NextCheck
  <2>1. round.at = 0
    BY <1>4 DEF NextCheck, RemindInv, RoundInv
  <2>2. round.kind \in Reminds
    BY <1>4 DEF NextCheck, RemindInv, RemindShape, Rounds
  <2>3. QED  BY <1>1, <1>2, <1>4, <2>1, <2>2 DEF NextCheck
<1>5. ASSUME NEW r \in Rows, DeletesConfig(r)
      PROVE  RemindInv'
  BY <1>5, ReassignStep DEF DeletesConfig
<1>6. ASSUME NEW i \in ConfigIds, SellsConfig(i) \/ ReleasesConfig(i)
      PROVE  RemindInv'
  <2>1. <<"bank", i>> \in Rows
    BY DEF Rows, Tables
  <2>2. QED  BY <1>6, <2>1, ReassignStep DEF SellsConfig, ReleasesConfig
<1>7. CASE UNCHANGED reminderVars \/ \E k \in Reminds : SwitchesReminder(k)
  <2>1. UNCHANGED <<service, round, told>>
    BY <1>7 DEF reminderVars, SwitchesReminder
  <2>2. QED  BY <2>1 DEF RemindInv, RemindShape, RoundInv, SentInv, InHand, Markable
<1>8. QED  BY <1>3, <1>4, <1>5, <1>6, <1>7, SendStep, MarkStep, PassStep, BreakStep
      DEF RemindersNext

(***************************************************************************)
(* However many configs there are, and whatever is sold, released and      *)
(* deleted while the rounds wait for the panel and for Telegram: a buyer   *)
(* is reminded of each end once, except where no mark is ever made         *)
(* (renewal_reminders.py:8).                                               *)
(***************************************************************************)
THEOREM RemindsOnce == RemindersSpec => []RemindedOnce
<1>1. RemindersInit => RemindInv
  BY RemindInit
<1>2. RemindInv /\ [RemindersNext]_reminderVars => RemindInv'
  BY RemindNext
<1>3. RemindInv => RemindedOnce
  <2> SUFFICES ASSUME RemindInv, NEW t \in Tables, NEW i \in ConfigIds,
                      NEW k \in Reminds, told[<<t, i>>][k] > 1
               PROVE  t = "custom" /\ k = "volume"
    BY DEF RemindedOnce
  <2>1. told[<<t, i>>][k] \in Nat
    BY DEF RemindInv, RemindShape, Rows
  <2>2. QED  BY <2>1 DEF RemindInv, SentInv, Markable
<1>4. QED  BY <1>1, <1>2, <1>3, PTL DEF RemindersSpec

(***************************************************************************)
(* What the reminders count: codes about a row up to the second, and       *)
(* hitches.                                                                *)
(***************************************************************************)
CodesInv == /\ enabled \subseteq Reminds /\ hitches \in 0..MaxHitches
            /\ \A r \in Rows, k \in Reminds : told[r][k] <= 2

RemindersInv == RemindInv /\ CodesInv

LEMMA RemindersStart == ASSUME RemindersInit PROVE RemindersInv
<1>1. CodesInv
  BY RemindersAssumption DEF RemindersInit, CodesInv
<1> QED  BY <1>1, RemindInit DEF RemindersInv

LEMMA CodesStep ==
  ASSUME RemindInv, CodesInv, [RemindersNext]_reminderVars
  PROVE  CodesInv'
<1>1. told \in [Rows -> [Reminds -> Nat]] /\ round \in Rounds
  BY DEF RemindInv, RemindShape
<1>2. enabled' \subseteq Reminds /\ hitches' \in 0..MaxHitches
  <2>1. \/ UNCHANGED hitches
        \/ hitches < MaxHitches /\ hitches' = hitches + 1
    BY DEF RemindersNext, reminderVars, StartsRound, NextCheck, MarksReminded, BreaksOff,
       Hitch, SellsConfig, ReleasesConfig, DeletesConfig, Reassigns, PassesOver,
       SendsCode, SwitchesReminder
  <2>2. \/ UNCHANGED enabled
        \/ \E k \in Reminds : enabled' \in {enabled \ {k}, enabled \cup {k}}
    BY DEF RemindersNext, reminderVars, StartsRound, NextCheck, MarksReminded, BreaksOff,
       SellsConfig, ReleasesConfig, DeletesConfig, Reassigns, PassesOver,
       SendsCode, SwitchesReminder
  <2> QED  BY <2>1, <2>2, RemindersAssumption DEF CodesInv
<1>3. ASSUME \A r \in Rows, k \in Reminds : told'[r][k] = told[r][k] \/ told'[r][k] = 0
      PROVE  CodesInv'
  BY <1>2, <1>3 DEF CodesInv
<1>4. CASE UNCHANGED told
  BY <1>3, <1>4
<1>5. ASSUME NEW r \in Rows, NEW old, NEW new, Reassigns(r, old, new)
      PROVE  CodesInv'
  <2>1. told' = [told EXCEPT ![r] = [k \in Reminds |-> 0]]
    BY <1>5 DEF Reassigns
  <2> QED  BY <1>1, <1>3, <2>1
<1>6. CASE BreaksOff
  <2>1. told' = Uncounted
    BY <1>6 DEF BreaksOff
  <2>2. ASSUME NEW r \in Rows, NEW k \in Reminds
        PROVE  told'[r][k] = told[r][k] \/ told'[r][k] = 0
    <3>1. CASE told' = told
      BY <3>1
    <3>2. CASE told' = [told EXCEPT ![<<round.table, round.at>>][round.kind] = 0]
      BY <1>1, <3>2
    <3> QED  BY <2>1, <3>1, <3>2 DEF Uncounted
  <2> QED  BY <1>3, <2>2
<1>7. ASSUME NEW i \in ConfigIds, SendsCode(i)
      PROVE  CodesInv'
  <2>1. PICK q, n : /\ q = <<round.table, i>> /\ n = told[q][round.kind] + 1
                    /\ \/ told' = told
                       \/ /\ told[q][round.kind] < 2
                          /\ told' = [told EXCEPT ![q][round.kind] = n]
    BY <1>7 DEF SendsCode
  <2>2. ASSUME NEW r \in Rows, NEW k \in Reminds
        PROVE  told'[r][k] <= 2
    <3>1. told[r][k] \in Nat /\ told[r][k] <= 2
      BY <1>1 DEF CodesInv
    <3>2. CASE told' = told
      BY <3>1, <3>2
    <3>3. CASE /\ told[q][round.kind] < 2
               /\ told' = [told EXCEPT ![q][round.kind] = n]
      <4>1. CASE r = q /\ k = round.kind
        BY <1>1, <2>1, <3>1, <3>3, <4>1
      <4>2. CASE ~(r = q /\ k = round.kind)
        BY <1>1, <3>1, <3>3, <4>2
      <4> QED  BY <4>1, <4>2
    <3> QED  BY <2>1, <3>2, <3>3
  <2> QED  BY <1>2, <2>2 DEF CodesInv
<1>8. \A i \in ConfigIds : <<"bank", i>> \in Rows
  BY DEF Rows, Tables
<1> QED
  BY <1>4, <1>5, <1>6, <1>7, <1>8
  DEF RemindersNext, reminderVars, StartsRound, NextCheck, MarksReminded, SellsConfig,
      ReleasesConfig, DeletesConfig, PassesOver, SwitchesReminder

LEMMA RemindersStep ==
  ASSUME RemindersInv, [RemindersNext]_reminderVars
  PROVE  RemindersInv'
<1>1. RemindInv /\ CodesInv
  BY DEF RemindersInv
<1> QED  BY <1>1, RemindNext, CodesStep DEF RemindersInv

LEMMA RemindersAreTyped == ASSUME RemindersInv PROVE RemindersTypeOK
<1>1. RemindShape /\ CodesInv
  BY DEF RemindersInv, RemindInv
<1>2. told \in [Rows -> [Reminds -> 0..2]]
  <2>1. told \in [Rows -> [Reminds -> Nat]]
    BY <1>1 DEF RemindShape
  <2>2. ASSUME NEW r \in Rows
        PROVE  told[r] \in [Reminds -> 0..2]
    <3>1. told[r] \in [Reminds -> Nat] /\ \A k \in Reminds : told[r][k] <= 2
      BY <1>1, <2>1 DEF CodesInv
    <3> QED  BY <3>1
  <2> QED  BY <2>1, <2>2
<1> QED  BY <1>1, <1>2 DEF RemindersTypeOK, RemindShape, CodesInv, Rounds

(***************************************************************************)
(* The rows, the round and the marks stay of their types, and no more than *)
(* two codes are ever counted about a row.                                 *)
(***************************************************************************)
THEOREM RemindersTyped == RemindersSpec => []RemindersTypeOK
<1>1. RemindersInit => RemindersInv
  BY RemindersStart
<1>2. RemindersInv /\ [RemindersNext]_reminderVars => RemindersInv'
  BY RemindersStep
<1>3. RemindersInv => RemindersTypeOK
  BY RemindersAreTyped
<1> QED  BY <1>1, <1>2, <1>3, PTL DEF RemindersSpec

(***************************************************************************)
(* The settings (SettingsScreens).  Good: what a key may hold, unless the  *)
(* panel's page of settings wrote it, which stores what was typed.         *)
(***************************************************************************)
Good(k, v) == Readable(k, v) \/ (v = "odd" /\ k \in Careless)
Kept(k, v, checked) == Good(k, v) \/ (~checked /\ k \in Typed /\ v \in Digits)

LEMMA GoodReferral ==
  /\ \A v \in Hundred : Good("percent", v)
  /\ \A v \in Digits : Good("commission_max", v)
  /\ \A v \in Count : Good("threshold", v)
  /\ \A v \in {"none", "auto"} : Good("product", v)
  /\ \A v \in Count : Good("amount", v)
  /\ \A v \in Digits : Good("invite_max", v)
  BY DEF Good, Readable, Readers, ReferralReads, Careless, Digits

LEMMA GoodWheel ==
  /\ \A v \in Hundred : Good("win_percent", v)
  /\ \A v \in Positive : Good("prizes", v) /\ Good("cooldown", v)
  BY DEF Good, Readable, Readers, WheelReads

LEMMA GoodRenewal ==
  /\ \A v \in Positive : Good("days", v) /\ Good("hours", v)
  /\ \A v \in Hundred : Good("discount", v)
  BY DEF Good, Readable, Readers, RenewalReads

LEMMA GoodVolume ==
  /\ Good("mode", "percent") /\ Good("mode", "gb") /\ Good("used_percent", "few")
  /\ \A v \in Positive \cup {"odd"} : Good("gb_left", v)
  BY DEF Good, Readable, Readers, VolumeReads, Careless

LEMMA GoodCustom ==
  \A v \in Positive : /\ Good("min_gb", v) /\ Good("max_gb", v)
                      /\ Good("test_gb", v) /\ Good("test_days", v)
  BY DEF Good, Readable, Readers, CustomReads

LEMMA GoodOthers ==
  /\ \A v \in Count : Good("low_stock", v)
  /\ \A v \in {"none", "first"} : Good("channel", v)
  /\ \A v \in Switch, k \in {"reply_menu", "inline_menu", "join_on", "free_on",
                             "invite_on"} : Good(k, v)
  /\ \A v \in {"first", "second"} : Good("card_number", v) /\ Good("card_holder", v)
<1>1. /\ StockReads \in Readers /\ JoinReads \in Readers
      /\ MenuReads \in Readers /\ CardReads \in Readers
  BY DEF Readers
<1>2. \A v \in Count : Good("low_stock", v)
  BY <1>1 DEF Good, Readable, StockReads
<1>3. \A v \in {"none", "first"} : Good("channel", v)
  BY <1>1 DEF Good, Readable, JoinReads
<1>4. \A v \in Switch, k \in {"reply_menu", "inline_menu", "join_on", "free_on",
                              "invite_on"} : Good(k, v)
  BY <1>1 DEF Good, Readable, MenuReads
<1>5. \A v \in {"first", "second"} : Good("card_number", v) /\ Good("card_holder", v)
  BY <1>1 DEF Good, Readable, CardReads
<1>6. QED  BY <1>2, <1>3, <1>4, <1>5

(* The switches hold on or off, and what they depend on one of two values. *)
LEMMA OnlyGood ==
  /\ \A v, k : k \in {"free_on", "join_on", "reply_menu", "inline_menu"} /\ Good(k, v)
               => v \in Switch
  /\ \A v : Good("product", v) => v \in {"none", "auto"}
  /\ \A v : Good("channel", v) => v \in {"none", "first"}
<1>1. \A k : /\ k \in DOMAIN ReferralReads => k \in {"percent", "commission_max",
                   "threshold", "product", "amount", "invite_max"}
             /\ k \in DOMAIN WheelReads => k \in {"win_percent", "prizes", "cooldown"}
             /\ k \in DOMAIN RenewalReads => k \in {"days", "discount", "hours"}
             /\ k \in DOMAIN VolumeReads => k \in {"mode", "used_percent", "gb_left"}
             /\ k \in DOMAIN CustomReads => k \in {"min_gb", "max_gb", "test_gb",
                                                   "test_days"}
             /\ k \in DOMAIN StockReads => k = "low_stock"
             /\ k \in DOMAIN JoinReads => k = "channel"
             /\ k \in DOMAIN CardReads => k \in {"card_number", "card_holder"}
  BY DEF ReferralReads, WheelReads, RenewalReads, VolumeReads, CustomReads,
     StockReads, JoinReads, CardReads
<1>2. \A k \in DOMAIN MenuReads :
         /\ k \in {"reply_menu", "inline_menu", "join_on", "free_on", "invite_on"}
         /\ MenuReads[k] = Switch
  BY DEF MenuReads
<1>3. ReferralReads["product"] = {"none", "auto"} /\ JoinReads["channel"] = {"none", "first"}
  BY DEF ReferralReads, JoinReads
<1>4. \A v, k : k \in {"free_on", "join_on", "reply_menu", "inline_menu", "product",
                       "channel"} /\ Good(k, v) =>
         \/ k \in DOMAIN MenuReads /\ v \in MenuReads[k]
         \/ k \in DOMAIN ReferralReads /\ v \in ReferralReads[k]
         \/ k \in DOMAIN JoinReads /\ v \in JoinReads[k]
  BY <1>1 DEF Good, Readable, Readers, Careless
<1>5. QED  BY <1>1, <1>2, <1>3, <1>4

-----------------------------------------------------------------------------
(* What a key holds when the saves to come have been written.              *)
EndsWith(puts, k, v) ==
    \/ \E i \in DOMAIN puts : puts[i] = Put(k, v)
    \/ settings[k] = v /\ \A i \in DOMAIN puts : puts[i].key # k
WholeWith(puts) ==
    /\ screen = "free" => EndsWith(puts, "free_on", "off") \/ EndsWith(puts, "product", "auto")
    /\ screen = "join" => EndsWith(puts, "join_on", "off") \/ EndsWith(puts, "channel", "first")
    /\ screen = "menus" =>
          EndsWith(puts, "reply_menu", "on") \/ EndsWith(puts, "inline_menu", "on")

(* The screen as it is, and a single key to come that keeps it backed      *)
(* whatever other single keys are written before it.                       *)
Backed ==
    /\ screen = "free" => settings["free_on"] = "off" \/ settings["product"] = "auto"
    /\ screen = "join" => settings["join_on"] = "off" \/ settings["channel"] = "first"
    /\ screen = "menus" => settings["reply_menu"] = "on" \/ settings["inline_menu"] = "on"
Harmless(k, v) ==
    /\ screen = "free" => /\ k = "free_on" => v = "off" \/ settings["product"] = "auto"
                          /\ k = "product" => v = "auto"
    /\ screen = "join" => /\ k = "join_on" => v = "off" \/ settings["channel"] = "first"
                          /\ k = "channel" => v = "first"
    /\ screen = "menus" =>
          /\ k = "reply_menu" => v = "on" \/ settings["inline_menu"] = "on"
          /\ k = "inline_menu" => v = "on" \/ settings["reply_menu"] = "on"

Keys == UNION {DOMAIN reads : reads \in Readers}
Values == {"odd"} \cup
          UNION {UNION {reads[k] : k \in DOMAIN reads} : reads \in Readers}
Puts == {p \in [key : Keys, value : Values, checked : BOOLEAN] :
           Kept(p.key, p.value, p.checked)}
Distinct(puts) == \A i, j \in DOMAIN puts : puts[i].key = puts[j].key => i = j

StoredInv ==
    /\ screen \in DOMAIN Defaults
    /\ settings \in [DOMAIN Defaults[screen] -> Values]
    /\ \A k \in DOMAIN settings : Kept(k, settings[k], k \notin unchecked)
    /\ saves \in [Savers -> Seq(Puts)]
    /\ mixed \in BOOLEAN /\ forms \subseteq Running
    /\ \A w \in Savers : Distinct(saves[w])

(* A form that runs alone leaves its screen whole; while none runs, each   *)
(* of the single keys to come keeps it backed.                             *)
WholeInv ==
    ~mixed =>
       /\ forms # {} \/ screen = "menus" =>
             \A v, w \in Savers : saves[v] # <<>> /\ saves[w] # <<>> => v = w
       /\ \A w \in forms : WholeWith(saves[w])
       /\ forms = {} =>
             /\ Backed
             /\ \A w \in Savers : saves[w] # <<>> =>
                   Len(saves[w]) = 1 /\ Harmless(saves[w][1].key, saves[w][1].value)

ScreensInv == StoredInv /\ WholeInv

LEMMA GoodIsKnown ==
  ASSUME NEW k, NEW v, Good(k, v)
  PROVE  k \in Keys /\ v \in Values
<1>1. CASE Readable(k, v)
  BY <1>1 DEF Readable, Keys, Values
<1>2. CASE v = "odd" /\ k \in Careless
  <2>1. /\ ReferralReads \in Readers /\ VolumeReads \in Readers
        /\ {"commission_max", "invite_max"} \subseteq DOMAIN ReferralReads
        /\ "gb_left" \in DOMAIN VolumeReads
    BY DEF Readers, ReferralReads, VolumeReads
  <2>2. QED  BY <1>2, <2>1 DEF Careless, Keys, Values
<1>3. QED  BY <1>1, <1>2 DEF Good

LEMMA KeptIsKnown ==
  ASSUME NEW k, NEW v, NEW checked, Kept(k, v, checked)
  PROVE  k \in Keys /\ v \in Values
<1>1. CASE Good(k, v)
  BY <1>1, GoodIsKnown
<1>2. CASE k \in Typed /\ v \in Digits
  <2>1. /\ CustomReads \in Readers /\ Typed \subseteq DOMAIN CustomReads
        /\ ReferralReads \in Readers /\ "amount" \in DOMAIN ReferralReads
        /\ ReferralReads["amount"] = Count
    BY DEF Readers, CustomReads, Typed, ReferralReads
  <2>2. k \in Keys
    BY <1>2, <2>1 DEF Keys
  <2>3. Count \subseteq Values
    BY <2>1 DEF Values
  <2>4. QED  BY <1>2, <2>2, <2>3 DEF Digits, Values
<1>3. QED  BY <1>1, <1>2 DEF Kept

LEMMA ScreensInit == ASSUME SettingsInit PROVE ScreensInv
<1>1. saves = [w \in Savers |-> <<>>] /\ mixed = FALSE /\ forms = {} /\ unchecked = {}
      /\ screen \in DOMAIN Defaults /\ settings = Defaults[screen]
  BY DEF SettingsInit
<1>2. \A w \in Savers : saves[w] \in Seq(Puts) /\ Distinct(saves[w])
  BY <1>1 DEF Distinct
<1>3. \A k \in DOMAIN settings : Good(k, settings[k])
  <2>1. ASSUME screen = "referral" PROVE \A k \in DOMAIN settings : Good(k, settings[k])
    <3>1. settings = [percent |-> "few", commission_max |-> "zero"]
      BY <1>1, <2>1 DEF Defaults
    <3>2. QED  BY <3>1, GoodReferral DEF Hundred, Digits, Count
  <2>2. ASSUME screen = "free" PROVE \A k \in DOMAIN settings : Good(k, settings[k])
    <3>1. settings = [free_on |-> "off", threshold |-> "few", product |-> "none"]
      BY <1>1, <2>2 DEF Defaults
    <3>2. QED  BY <3>1, GoodReferral, GoodOthers DEF Count, Positive, Switch
  <2>3. ASSUME screen = "invite" PROVE \A k \in DOMAIN settings : Good(k, settings[k])
    <3>1. settings = [invite_on |-> "off", amount |-> "zero", invite_max |-> "few"]
      BY <1>1, <2>3 DEF Defaults
    <3>2. QED  BY <3>1, GoodReferral, GoodOthers DEF Digits, Count, Positive, Switch
  <2>4. ASSUME screen = "wheel" PROVE \A k \in DOMAIN settings : Good(k, settings[k])
    <3>1. settings = [win_percent |-> "few", prizes |-> "few", cooldown |-> "few"]
      BY <1>1, <2>4 DEF Defaults
    <3>2. QED  BY <3>1, GoodWheel DEF Hundred, Positive
  <2>5. ASSUME screen = "renewal" PROVE \A k \in DOMAIN settings : Good(k, settings[k])
    <3>1. settings = [days |-> "few", discount |-> "few", hours |-> "few"]
      BY <1>1, <2>5 DEF Defaults
    <3>2. QED  BY <3>1, GoodRenewal DEF Hundred, Positive
  <2>6. ASSUME screen = "volume" PROVE \A k \in DOMAIN settings : Good(k, settings[k])
    <3>1. settings = [mode |-> "percent", used_percent |-> "few", gb_left |-> "few"]
      BY <1>1, <2>6 DEF Defaults
    <3>2. QED  BY <3>1, GoodVolume DEF Positive
  <2>7. ASSUME screen = "limits" PROVE \A k \in DOMAIN settings : Good(k, settings[k])
    <3>1. settings = [min_gb |-> "few", max_gb |-> "many"]
      BY <1>1, <2>7 DEF Defaults
    <3>2. QED  BY <3>1, GoodCustom DEF Positive
  <2>8. ASSUME screen = "trial" PROVE \A k \in DOMAIN settings : Good(k, settings[k])
    <3>1. settings = [test_gb |-> "few", test_days |-> "few"]
      BY <1>1, <2>8 DEF Defaults
    <3>2. QED  BY <3>1, GoodCustom DEF Positive
  <2>9. ASSUME screen = "join" PROVE \A k \in DOMAIN settings : Good(k, settings[k])
    <3>1. settings = [join_on |-> "off", channel |-> "none"]
      BY <1>1, <2>9 DEF Defaults
    <3>2. QED  BY <3>1, GoodOthers DEF Switch
  <2>10. ASSUME screen = "stock" PROVE \A k \in DOMAIN settings : Good(k, settings[k])
    <3>1. settings = [low_stock |-> "few"]
      BY <1>1, <2>10 DEF Defaults
    <3>2. QED  BY <3>1, GoodOthers DEF Count, Positive
  <2>11. ASSUME screen = "menus" PROVE \A k \in DOMAIN settings : Good(k, settings[k])
    <3>1. settings = [reply_menu |-> "on", inline_menu |-> "off"]
      BY <1>1, <2>11 DEF Defaults
    <3>2. QED  BY <3>1, GoodOthers DEF Switch
  <2>12. ASSUME screen = "card" PROVE \A k \in DOMAIN settings : Good(k, settings[k])
    <3>1. settings = [card_number |-> "first", card_holder |-> "first"]
      BY <1>1, <2>12 DEF Defaults
    <3>2. QED  BY <3>1, GoodOthers
  <2>13. screen \in {"referral", "free", "invite", "wheel", "renewal", "volume", "limits",
                     "trial", "join", "stock", "menus", "card"}
    BY <1>1 DEF Defaults
  <2>14. QED  BY <2>1, <2>2, <2>3, <2>4, <2>5, <2>6, <2>7, <2>8, <2>9, <2>10, <2>11,
                 <2>12, <2>13
<1>4. settings \in [DOMAIN Defaults[screen] -> Values]
  <2>1. DOMAIN settings = DOMAIN Defaults[screen]
    BY <1>1
  <2>2. settings = [k \in DOMAIN settings |-> settings[k]]
    BY <1>1 DEF Defaults
  <2>3. \A k \in DOMAIN settings : settings[k] \in Values
    BY <1>3, GoodIsKnown
  <2>4. QED  BY <2>1, <2>2, <2>3
<1>5. Backed
  BY <1>1 DEF Defaults, Backed
<1>6. StoredInv
  BY <1>1, <1>2, <1>3, <1>4 DEF StoredInv, Kept
<1>7. WholeInv
  BY <1>1, <1>5 DEF WholeInv
<1>8. QED  BY <1>6, <1>7 DEF ScreensInv

(* A handler begins to write: the keys are good ones.                      *)
LEMMA SaveStores ==
  ASSUME StoredInv, NEW w \in Savers, NEW of, NEW puts \in Seq(Puts), puts # <<>>,
         Distinct(puts), Save(w, of, puts)
  PROVE  StoredInv'
<1>1. /\ saves[w] = <<>> /\ saves' = [saves EXCEPT ![w] = puts]
      /\ mixed' \in BOOLEAN
      /\ forms' = IF Len(puts) > 1 THEN forms \cup {w} ELSE forms
      /\ UNCHANGED <<screen, settings, unchecked>>
  BY DEF Save, StoredInv
<1>2. \A v \in Savers : saves'[v] = IF v = w THEN puts ELSE saves[v]
  BY <1>1 DEF StoredInv
<1>3. saves' \in [Savers -> Seq(Puts)]
  BY <1>1 DEF StoredInv
<1>4. \A v \in Savers : Distinct(saves'[v])
  BY <1>2 DEF StoredInv
<1>5. forms' \subseteq Running'
  BY <1>1, <1>2 DEF StoredInv, Running
<1>6. QED  BY <1>1, <1>3, <1>4, <1>5 DEF StoredInv, Kept, Good, Distinct

(* A form of several keys, whole when it has been written.                 *)
LEMMA FormBegins ==
  ASSUME ScreensInv, NEW w \in Savers, NEW of, NEW puts \in Seq(Puts), Distinct(puts),
         Len(puts) > 1, Save(w, of, puts), screen = of => WholeWith(puts)
  PROVE  ScreensInv'
<1>1. /\ screen = of /\ saves[w] = <<>> /\ saves' = [saves EXCEPT ![w] = puts]
      /\ forms' = forms \cup {w}
      /\ mixed' = (mixed \/ Running # {})
      /\ UNCHANGED <<screen, settings>>
  BY DEF Save, ScreensInv, StoredInv
<1>2. \A v \in Savers : saves'[v] = IF v = w THEN puts ELSE saves[v]
  BY <1>1 DEF ScreensInv, StoredInv
<1>3. StoredInv'
  <2>1. puts # <<>>
    OBVIOUS
  <2>2. QED  BY <2>1, SaveStores DEF ScreensInv
<1>4. WholeInv'
  <2> SUFFICES ASSUME ~mixed'
               PROVE  /\ \A v, u \in Savers : saves'[v] # <<>> /\ saves'[u] # <<>> => v = u
                      /\ \A v \in forms' : WholeWith(saves[v])'
                      /\ forms' # {}
    BY DEF WholeInv
  <2>1. forms' = {w} /\ \A v \in Savers : v # w => saves'[v] = <<>>
    BY <1>1, <1>2 DEF ScreensInv, StoredInv, Running
  <2>2. saves'[w] = puts /\ WholeWith(puts)
    BY <1>1, <1>2
  <2>3. WholeWith(saves[w])'
    BY <1>1, <2>2 DEF WholeWith, EndsWith
  <2>4. QED  BY <2>1, <2>3
<1>5. QED  BY <1>3, <1>4 DEF ScreensInv

(* A single key, beside any other single keys.                             *)
LEMMA SingleBegins ==
  ASSUME ScreensInv, NEW w \in Savers, NEW of, NEW k, NEW v, Good(k, v),
         Save(w, of, <<Put(k, v)>>), screen = of /\ Backed => Harmless(k, v)
  PROVE  ScreensInv'
<1> DEFINE puts == <<Put(k, v)>>
<1>1. /\ puts \in Seq(Puts) /\ Distinct(puts) /\ puts # <<>> /\ Len(puts) = 1
      /\ puts[1].key = k /\ puts[1].value = v
  BY GoodIsKnown DEF Put, Puts, Distinct, Kept
<1> HIDE DEF puts
<1>2. Save(w, of, puts)
  BY DEF puts
<1>3. /\ screen = of /\ saves[w] = <<>> /\ saves' = [saves EXCEPT ![w] = puts]
      /\ forms' = forms
      /\ ~mixed' => ~mixed /\ (Running = {} \/ (forms = {} /\ of # "menus"))
      /\ UNCHANGED <<screen, settings>>
  <2>1. ~(Len(puts) > 1)
    BY <1>1
  <2>2. QED  BY <1>2, <2>1, Zenon DEF Save
<1>4. \A u \in Savers : saves'[u] = IF u = w THEN puts ELSE saves[u]
  BY <1>3 DEF ScreensInv, StoredInv
<1>5. StoredInv'
  BY <1>1, <1>2, SaveStores DEF ScreensInv
<1>6. WholeInv'
  <2> SUFFICES ASSUME ~mixed'
               PROVE  /\ screen = "menus" =>
                            \A u, x \in Savers : saves'[u] # <<>> /\ saves'[x] # <<>> => u = x
                      /\ forms' = {}
                      /\ Backed'
                      /\ \A u \in Savers : saves'[u] # <<>> =>
                            Len(saves'[u]) = 1
                            /\ Harmless(saves[u][1].key, saves[u][1].value)'
    BY <1>3 DEF WholeInv
  <2>1. forms = {} /\ (screen = "menus" => Running = {})
    BY <1>3 DEF ScreensInv, StoredInv
  <2>2. /\ Backed
        /\ \A u \in Savers : saves[u] # <<>> =>
              Len(saves[u]) = 1 /\ Harmless(saves[u][1].key, saves[u][1].value)
    BY <1>3, <2>1 DEF ScreensInv, WholeInv
  <2>3. Backed'
    BY <1>3, <2>2 DEF Backed
  <2>4. ASSUME NEW u \in Savers, saves'[u] # <<>>
        PROVE  Len(saves'[u]) = 1 /\ Harmless(saves[u][1].key, saves[u][1].value)'
    <3>1. CASE u = w
      BY <1>1, <1>3, <1>4, <2>2, <3>1 DEF Harmless
    <3>2. CASE u # w
      BY <1>3, <1>4, <2>2, <2>4, <3>2 DEF Harmless
    <3>3. QED  BY <3>1, <3>2
  <2>5. screen = "menus" =>
           \A u, x \in Savers : saves'[u] # <<>> /\ saves'[x] # <<>> => u = x
    BY <1>4, <2>1 DEF Running
  <2>6. QED  BY <1>3, <2>1, <2>3, <2>4, <2>5
<1>7. QED  BY <1>5, <1>6 DEF ScreensInv

LEMMA TwoPuts ==
  ASSUME NEW k, NEW v, Good(k, v),
         NEW l, NEW u, Good(l, u), k # l
  PROVE  LET puts == <<Put(k, v), Put(l, u)>>
         IN  /\ puts \in Seq(Puts) /\ Distinct(puts) /\ Len(puts) > 1
             /\ EndsWith(puts, k, v) /\ EndsWith(puts, l, u)
<1> DEFINE puts == <<Put(k, v), Put(l, u)>>
<1>1. /\ Put(k, v) \in Puts /\ Put(k, v).key = k /\ Put(k, v).value = v
      /\ Put(l, u) \in Puts /\ Put(l, u).key = l /\ Put(l, u).value = u
  BY GoodIsKnown DEF Put, Puts, Kept
<1>2. puts \in Seq(Puts) /\ DOMAIN puts = {1, 2} /\ Len(puts) = 2
      /\ puts[1] = Put(k, v) /\ puts[2] = Put(l, u)
  BY <1>1
<1> HIDE DEF puts
<1>3. Distinct(puts) /\ EndsWith(puts, k, v) /\ EndsWith(puts, l, u)
  BY <1>1, <1>2 DEF Distinct, EndsWith
<1>4. QED  BY <1>2, <1>3 DEF puts

LEMMA ThreePuts ==
  ASSUME NEW k, NEW v, Good(k, v),
         NEW l, NEW u, Good(l, u),
         NEW m, NEW x, Good(m, x),
         k # l, l # m, k # m
  PROVE  LET puts == <<Put(k, v), Put(l, u), Put(m, x)>>
         IN  /\ puts \in Seq(Puts) /\ Distinct(puts) /\ Len(puts) > 1
             /\ EndsWith(puts, k, v) /\ EndsWith(puts, l, u) /\ EndsWith(puts, m, x)
<1> DEFINE puts == <<Put(k, v), Put(l, u), Put(m, x)>>
<1>1. /\ Put(k, v) \in Puts /\ Put(k, v).key = k /\ Put(k, v).value = v
      /\ Put(l, u) \in Puts /\ Put(l, u).key = l /\ Put(l, u).value = u
      /\ Put(m, x) \in Puts /\ Put(m, x).key = m /\ Put(m, x).value = x
  BY GoodIsKnown DEF Put, Puts, Kept
<1>2. puts \in Seq(Puts) /\ DOMAIN puts = {1, 2, 3} /\ Len(puts) = 3
      /\ puts[1] = Put(k, v) /\ puts[2] = Put(l, u) /\ puts[3] = Put(m, x)
  BY <1>1
<1> HIDE DEF puts
<1>3. /\ Distinct(puts) /\ EndsWith(puts, k, v)
      /\ EndsWith(puts, l, u) /\ EndsWith(puts, m, x)
  BY <1>1, <1>2 DEF Distinct, EndsWith
<1>4. QED  BY <1>2, <1>3 DEF puts

(* Screens whose keys do not depend on each other.                         *)
Plain == {"referral", "invite", "wheel", "renewal", "volume", "limits", "trial", "stock",
          "card"}

LEMMA PlainOne ==
  ASSUME ScreensInv, NEW w \in Savers, NEW of \in Plain, NEW k,
         NEW accepted, \A v \in accepted : Good(k, v),
         SaveOne(w, of, k, accepted)
  PROVE  ScreensInv'
<1>1. PICK v \in accepted : Save(w, of, <<Put(k, v)>>)
  BY DEF SaveOne
<1>2. screen = of => Harmless(k, v)
  BY DEF Plain, Harmless
<1>3. QED  BY <1>1, <1>2, SingleBegins

LEMMA PlainTwo ==
  ASSUME ScreensInv, NEW w \in Savers, NEW of \in Plain,
         NEW k, NEW v, Good(k, v),
         NEW l, NEW u, Good(l, u), k # l,
         Save(w, of, <<Put(k, v), Put(l, u)>>)
  PROVE  ScreensInv'
<1> DEFINE puts == <<Put(k, v), Put(l, u)>>
<1>1. screen = of => \A p : WholeWith(p)
  BY DEF Plain, WholeWith
<1>2. puts \in Seq(Puts) /\ Distinct(puts) /\ Len(puts) > 1
  BY TwoPuts
<1> HIDE DEF puts
<1>3. Save(w, of, puts)
  BY DEF puts
<1>4. QED  BY <1>1, <1>2, <1>3, FormBegins

LEMMA PlainThree ==
  ASSUME ScreensInv, NEW w \in Savers, NEW of \in Plain,
         NEW k, NEW v, Good(k, v),
         NEW l, NEW u, Good(l, u),
         NEW m, NEW x, Good(m, x),
         k # l, l # m, k # m, Save(w, of, <<Put(k, v), Put(l, u), Put(m, x)>>)
  PROVE  ScreensInv'
<1> DEFINE puts == <<Put(k, v), Put(l, u), Put(m, x)>>
<1>1. screen = of => \A p : WholeWith(p)
  BY DEF Plain, WholeWith
<1>2. puts \in Seq(Puts) /\ Distinct(puts) /\ Len(puts) > 1
  BY ThreePuts
<1> HIDE DEF puts
<1>3. Save(w, of, puts)
  BY DEF puts
<1>4. QED  BY <1>1, <1>2, <1>3, FormBegins

LEMMA Words ==
  /\ Count \subseteq Digits /\ Positive \subseteq Count /\ Hundred \subseteq Count
  /\ Share \subseteq Hundred /\ Share \subseteq Positive
  BY DEF Digits, Count, Positive, Hundred, Share

(* Dialogs and forms whose checks look at one key, or at what was sent.    *)
LEMMA PlainDialogs ==
  ASSUME ScreensInv, NEW w \in Savers,
         \/ ReferralDialogs(w) \/ WheelDialogs(w) \/ RenewalDialogs(w)
         \/ StockDialog(w) \/ TrialDialog(w) \/ LimitsDialog(w) \/ CardDialog(w)
  PROVE  ScreensInv'
<1>1. CASE ReferralDialogs(w)
  BY <1>1, PlainOne, GoodReferral, Words DEF ReferralDialogs, Plain
<1>2. CASE WheelDialogs(w)
  BY <1>2, PlainOne, GoodWheel, Words DEF WheelDialogs, Plain
<1>3. CASE RenewalDialogs(w)
  BY <1>3, PlainOne, GoodRenewal, Words DEF RenewalDialogs, Plain
<1>4. CASE StockDialog(w)
  BY <1>4, PlainOne, GoodOthers, Words DEF StockDialog, Plain
<1>5. CASE TrialDialog(w)
  BY <1>5, PlainTwo, GoodCustom, Words DEF TrialDialog, Plain
<1>6. CASE LimitsDialog(w)
  <2>1. \A max \in Positive : LessThan[max] \subseteq Positive
    BY DEF LessThan, Positive
  <2>2. QED  BY <1>6, <2>1, PlainTwo, GoodCustom, Words DEF LimitsDialog, Plain
<1>7. CASE CardDialog(w)
  BY <1>7, PlainTwo, GoodOthers DEF CardDialog, Plain
<1>8. QED  BY <1>1, <1>2, <1>3, <1>4, <1>5, <1>6, <1>7

LEMMA VolumeAndInvite ==
  ASSUME ScreensInv, NEW w \in Savers, VolumeDialogs(w) \/ InviteDialogs(w)
  PROVE  ScreensInv'
<1>1. CASE SaveOne(w, "volume", "mode",
                   {IF settings["mode"] = "percent" THEN "gb" ELSE "percent"})
  BY <1>1, PlainOne, GoodVolume DEF Plain
<1>2. CASE SaveOne(w, "volume", "used_percent", {"few"})
  BY <1>2, PlainOne, GoodVolume DEF Plain
<1>3. CASE SaveOne(w, "volume", "gb_left", Positive \cup {"odd"})
  BY <1>3, PlainOne, GoodVolume DEF Plain
<1>4. CASE SaveOne(w, "invite", "amount", Count) \/ SaveOne(w, "invite", "invite_max", Digits)
  BY <1>4, PlainOne, GoodReferral, Words DEF Plain
<1>5. ASSUME NEW unless, Flip(w, "invite", "invite_on", unless)
      PROVE  ScreensInv'
  <2> DEFINE v == IF settings["invite_on"] = "on" THEN "off" ELSE "on"
  <2>1. v \in Switch
    BY DEF Switch
  <2>2. SaveOne(w, "invite", "invite_on", {v})
    BY <1>5 DEF Flip, SaveOne
  <2>3. \A u \in {v} : Good("invite_on", u)
    BY <2>1, GoodOthers
  <2> HIDE DEF v
  <2>4. QED  BY <2>2, <2>3, PlainOne DEF Plain
<1>6. QED  BY <1>1, <1>2, <1>3, <1>4, <1>5 DEF VolumeDialogs, InviteDialogs

LEMMA PlainForms ==
  ASSUME ScreensInv, NEW w \in Savers,
         WheelForm(w) \/ RenewalForm(w) \/ VolumeForm(w) \/ TrialForm(w) \/ LimitsForm(w)
  PROVE  ScreensInv'
<1>1. CASE WheelForm(w)
  <2>1. PICK p \in Hundred, prizes \in Positive, c \in Positive :
           Save(w, "wheel", <<Put("win_percent", p), Put("prizes", prizes), Put("cooldown", c)>>)
    BY <1>1 DEF WheelForm
  <2>2. QED  BY <2>1, PlainThree, GoodWheel, Words DEF Plain
<1>2. CASE RenewalForm(w)
  <2>1. PICK days \in Positive, h \in Positive, p \in Hundred :
           Save(w, "renewal", <<Put("days", days), Put("discount", p), Put("hours", h)>>)
    BY <1>2 DEF RenewalForm
  <2>2. QED  BY <2>1, PlainThree, GoodRenewal, Words DEF Plain
<1>3. CASE VolumeForm(w)
  <2>1. PICK mode \in {"percent", "gb"}, gb \in Positive :
           Save(w, "volume", <<Put("mode", mode), Put("used_percent", "few"), Put("gb_left", gb)>>)
    BY <1>3 DEF VolumeForm
  <2>2. QED  BY <2>1, PlainThree, GoodVolume, Words DEF Plain
<1>4. CASE TrialForm(w)
  BY <1>4, PlainTwo, GoodCustom, Words DEF TrialForm, Plain
<1>5. CASE LimitsForm(w)
  <2>1. \A max \in Positive : LessThan[max] \cup {max} \subseteq Positive
    BY DEF LessThan, Positive
  <2>2. QED  BY <1>5, <2>1, PlainTwo, GoodCustom, Words DEF LimitsForm, Plain
<1>6. QED  BY <1>1, <1>2, <1>3, <1>4, <1>5

LEMMA LimitsByApp ==
  ASSUME ScreensInv, NEW w \in Savers, AppLimitsForm(w)
  PROVE  ScreensInv'
<1>1. CASE \/ SaveOne(w, "limits", "min_gb", Positive)
           \/ SaveOne(w, "trial", "test_gb", Positive)
           \/ SaveOne(w, "trial", "test_days", Positive)
  BY <1>1, PlainOne, GoodCustom, Words DEF Plain
<1>2. CASE SaveOne(w, "limits", "max_gb",
                   {max \in Positive : settings["min_gb"] \in LessThan[max] \cup {"zero"}})
  BY <1>2, PlainOne, GoodCustom, Words DEF Plain
<1>3. QED  BY <1>1, <1>2, PlainDialogs, PlainForms DEF AppLimitsForm

(* What the panel's page of settings posts is stored as it was typed.      *)
LEMMA PagePosts ==
  ASSUME ScreensInv, NEW w \in Savers, SettingsPage(w)
  PROVE  ScreensInv'
<1>1. ASSUME NEW of \in Plain, NEW k, NEW v, Kept(k, v, FALSE),
             NEW l, NEW u, Kept(l, u, FALSE), k # l,
             Save(w, of, <<Post(k, v), Post(l, u)>>)
      PROVE  ScreensInv'
  <2> DEFINE puts == <<Post(k, v), Post(l, u)>>
  <2>1. /\ Post(k, v) \in Puts /\ Post(k, v).key = k
        /\ Post(l, u) \in Puts /\ Post(l, u).key = l
    BY <1>1, KeptIsKnown DEF Post, Puts
  <2>2. puts \in Seq(Puts) /\ DOMAIN puts = {1, 2} /\ Len(puts) > 1
        /\ puts[1] = Post(k, v) /\ puts[2] = Post(l, u)
    BY <2>1
  <2> HIDE DEF puts
  <2>3. Distinct(puts)
    BY <1>1, <2>1, <2>2 DEF Distinct
  <2>4. screen = of => WholeWith(puts)
    BY DEF Plain, WholeWith
  <2>5. Save(w, of, puts)
    BY <1>1 DEF puts
  <2>6. QED  BY <2>2, <2>3, <2>4, <2>5, FormBegins
<1>2. \A v \in Digits : Kept("min_gb", v, FALSE) /\ Kept("max_gb", v, FALSE)
  BY DEF Kept, Typed
<1>3. \A v \in {"first", "second"} :
         Kept("card_number", v, FALSE) /\ Kept("card_holder", v, FALSE)
  BY GoodOthers DEF Kept
<1>4. QED  BY <1>1, <1>2, <1>3 DEF SettingsPage, Plain

(* What the keys of the switches hold.                                     *)
LEMMA SwitchKeys ==
  ASSUME ScreensInv
  PROVE  /\ screen = "free" => /\ settings["free_on"] \in Switch
                               /\ settings["product"] \in {"none", "auto"}
         /\ screen = "join" => /\ settings["join_on"] \in Switch
                               /\ settings["channel"] \in {"none", "first"}
         /\ screen = "menus" => /\ settings["reply_menu"] \in Switch
                                /\ settings["inline_menu"] \in Switch
<1>1. \A k \in DOMAIN settings : k \notin Typed => Good(k, settings[k])
  BY DEF ScreensInv, StoredInv, Kept
<1>2. /\ screen = "free" => {"free_on", "product"} \subseteq DOMAIN settings
      /\ screen = "join" => {"join_on", "channel"} \subseteq DOMAIN settings
      /\ screen = "menus" => {"reply_menu", "inline_menu"} \subseteq DOMAIN settings
  BY DEF ScreensInv, StoredInv, Defaults
<1>3. QED  BY <1>1, <1>2, OnlyGood DEF Typed

(* The free config has a product, the channel a name.                      *)
LEMMA FreeAndJoin ==
  ASSUME ScreensInv, NEW w \in Savers, FreeConfigDialogs(w) \/ JoinDialogs(w)
  PROVE  ScreensInv'
<1>1. CASE screen = "free" /\ Flip(w, "free", "free_on",
               settings["free_on"] = "off" /\ settings["product"] = "none")
  <2> DEFINE v == IF settings["free_on"] = "on" THEN "off" ELSE "on"
  <2>1. Good("free_on", v) /\ Save(w, "free", <<Put("free_on", v)>>)
        /\ ~(settings["free_on"] = "off" /\ settings["product"] = "none")
    BY <1>1, GoodOthers DEF Flip, Switch
  <2>2. v = "off" \/ settings["product"] = "auto"
    BY <1>1, <2>1, SwitchKeys DEF Switch
  <2> HIDE DEF v
  <2>3. QED  BY <1>1, <2>1, <2>2, SingleBegins DEF Harmless
<1>2. CASE SaveOne(w, "free", "threshold", Positive)
  <2>1. PICK v \in Positive : Save(w, "free", <<Put("threshold", v)>>)
    BY <1>2 DEF SaveOne
  <2>2. Good("threshold", v) /\ (screen = "free" => Harmless("threshold", v))
    BY Words, GoodReferral DEF Harmless
  <2>3. QED  BY <2>1, <2>2, SingleBegins
<1>3. CASE SaveOne(w, "free", "product", {"auto"})
  <2>1. Save(w, "free", <<Put("product", "auto")>>) /\ Good("product", "auto")
        /\ (screen = "free" => Harmless("product", "auto"))
    BY <1>3, GoodReferral DEF SaveOne, Harmless
  <2>2. QED  BY <2>1, SingleBegins
<1>4. CASE screen = "join" /\ Flip(w, "join", "join_on",
               settings["join_on"] = "off" /\ settings["channel"] = "none")
  <2> DEFINE v == IF settings["join_on"] = "on" THEN "off" ELSE "on"
  <2>1. Good("join_on", v) /\ Save(w, "join", <<Put("join_on", v)>>)
        /\ ~(settings["join_on"] = "off" /\ settings["channel"] = "none")
    BY <1>4, GoodOthers DEF Flip, Switch
  <2>2. v = "off" \/ settings["channel"] = "first"
    BY <1>4, <2>1, SwitchKeys DEF Switch
  <2> HIDE DEF v
  <2>3. QED  BY <1>4, <2>1, <2>2, SingleBegins DEF Harmless
<1>5. CASE SaveOne(w, "join", "channel", {"first"})
  <2>1. Save(w, "join", <<Put("channel", "first")>>) /\ Good("channel", "first")
        /\ (screen = "join" => Harmless("channel", "first"))
    BY <1>5, GoodOthers DEF SaveOne, Harmless
  <2>2. QED  BY <2>1, SingleBegins
<1>6. QED  BY <1>1, <1>2, <1>3, <1>4, <1>5 DEF FreeConfigDialogs, JoinDialogs

LEMMA FormsOfReferral ==
  ASSUME ScreensInv, NEW w \in Savers, ReferralForm(w)
  PROVE  ScreensInv'
<1>1. ASSUME NEW p \in Hundred, NEW max \in Count,
             Save(w, "referral", <<Put("percent", p), Put("commission_max", max)>>)
      PROVE  ScreensInv'
  BY <1>1, PlainTwo, GoodReferral, Words DEF Plain
<1>2. ASSUME NEW on \in Switch, NEW n \in Count, NEW p \in {"none", "auto"},
             on = "on" => p = "auto" /\ n # "zero",
             Save(w, "free", <<Put("free_on", on), Put("threshold", n), Put("product", p)>>)
      PROVE  ScreensInv'
  <2> DEFINE puts == <<Put("free_on", on), Put("threshold", n), Put("product", p)>>
  <2>1. /\ Good("free_on", on) /\ Good("threshold", n) /\ Good("product", p)
    BY GoodOthers, GoodReferral, Words
  <2>2. /\ puts \in Seq(Puts) /\ Distinct(puts) /\ Len(puts) > 1
        /\ EndsWith(puts, "free_on", on) /\ EndsWith(puts, "product", p)
    BY <2>1, ThreePuts
  <2>3. on = "off" \/ p = "auto"
    BY <1>2 DEF Switch
  <2>4. screen = "free" => WholeWith(puts)
    BY <2>2, <2>3 DEF WholeWith
  <2> HIDE DEF puts
  <2>5. Save(w, "free", puts)
    BY <1>2 DEF puts
  <2>6. QED  BY <2>2, <2>4, <2>5, FormBegins
<1>3. ASSUME NEW on \in Switch, NEW a \in Count, NEW max \in Count,
             Save(w, "invite", <<Put("invite_on", on), Put("amount", a), Put("invite_max", max)>>)
      PROVE  ScreensInv'
  <2>1. /\ Good("invite_on", on) /\ Good("amount", a) /\ Good("invite_max", max)
    BY GoodOthers, GoodReferral, Words
  <2>2. QED  BY <1>3, <2>1, PlainThree DEF Plain
<1>4. QED  BY <1>1, <1>2, <1>3 DEF ReferralForm

LEMMA FormOfJoin ==
  ASSUME ScreensInv, NEW w \in Savers, JoinForm(w)
  PROVE  ScreensInv'
<1>1. PICK on \in Switch, c \in {"none", "first"} :
         /\ on = "on" => c # "none"
         /\ Save(w, "join", <<Put("join_on", on), Put("channel", c)>>)
  BY DEF JoinForm
<1> DEFINE puts == <<Put("join_on", on), Put("channel", c)>>
<1>2. Good("join_on", on) /\ Good("channel", c)
  BY GoodOthers, Words
<1>3. /\ puts \in Seq(Puts) /\ Distinct(puts) /\ Len(puts) > 1
      /\ EndsWith(puts, "join_on", on) /\ EndsWith(puts, "channel", c)
  BY <1>2, TwoPuts
<1>4. screen = "join" => WholeWith(puts)
  BY <1>1, <1>3 DEF WholeWith, Switch
<1> HIDE DEF puts
<1>5. Save(w, "join", puts)
  BY <1>1 DEF puts
<1>6. QED  BY <1>3, <1>4, <1>5, FormBegins

(* One of the menus stays.                                                 *)
LEMMA MenuStays ==
  ASSUME ScreensInv, NEW w \in Savers, MenuSwitches(w)
  PROVE  ScreensInv'
<1>1. PICK k \in {"reply_menu", "inline_menu"}, other \in {"reply_menu", "inline_menu"} :
         /\ k # other /\ screen = "menus"
         /\ Flip(w, "menus", k, settings[k] = "on" /\ settings[other] = "off")
  BY DEF MenuSwitches
<1> DEFINE v == IF settings[k] = "on" THEN "off" ELSE "on"
<1>2. settings[k] \in Switch /\ settings[other] \in Switch
  BY <1>1, SwitchKeys
<1>3. Good(k, v) /\ Save(w, "menus", <<Put(k, v)>>)
      /\ ~(settings[k] = "on" /\ settings[other] = "off")
  BY <1>1, GoodOthers DEF Flip, Switch
<1>4. v = "on" \/ settings[other] = "on"
  BY <1>2, <1>3 DEF Switch
<1> HIDE DEF v
<1>5. Harmless(k, v)
  BY <1>1, <1>4 DEF Harmless
<1>6. QED  BY <1>3, <1>5, SingleBegins

-----------------------------------------------------------------------------
(* The first of the keys is written: what the screen will hold in the end  *)
(* is what it was about to.                                                *)
LEMMA WrittenSoFar ==
  ASSUME NEW puts \in Seq(Puts), puts # <<>>, Distinct(puts),
         NEW k \in DOMAIN settings, NEW v,
         settings' = [settings EXCEPT ![Head(puts).key] = Head(puts).value],
         EndsWith(puts, k, v)
  PROVE  \/ \E i \in DOMAIN Tail(puts) : Tail(puts)[i] = Put(k, v)
         \/ settings'[k] = v /\ \A i \in DOMAIN Tail(puts) : Tail(puts)[i].key # k
<1>1. /\ Len(puts) \in Nat /\ Len(puts) >= 1 /\ DOMAIN puts = 1..Len(puts)
      /\ Head(puts) = puts[1]
      /\ DOMAIN Tail(puts) = 1..(Len(puts) - 1)
      /\ \A i \in 1..(Len(puts) - 1) : Tail(puts)[i] = puts[i + 1]
  OBVIOUS
<1>2. CASE \E i \in DOMAIN puts : puts[i] = Put(k, v)
  <2>1. PICK i \in 1..Len(puts) : puts[i] = Put(k, v)
    BY <1>1, <1>2
  <2>2. puts[i].key = k /\ puts[i].value = v
    BY <2>1 DEF Put
  <2>3. CASE i = 1
    <3>1. settings'[k] = v
      BY <1>1, <2>2, <2>3
    <3>2. \A j \in 1..(Len(puts) - 1) : puts[j + 1].key # k
      BY <1>1, <2>2, <2>3 DEF Distinct
    <3>3. QED  BY <1>1, <3>1, <3>2
  <2>4. CASE i # 1
    <3>1. i - 1 \in 1..(Len(puts) - 1) /\ puts[(i - 1) + 1] = Put(k, v)
      BY <1>1, <2>1, <2>4
    <3>2. Tail(puts)[i - 1] = Put(k, v)
      BY <1>1, <3>1
    <3>3. QED  BY <1>1, <3>1, <3>2
  <2>5. QED  BY <2>3, <2>4
<1>3. CASE settings[k] = v /\ \A i \in DOMAIN puts : puts[i].key # k
  <2>1. Head(puts).key # k
    BY <1>1, <1>3
  <2>2. settings'[k] = v
    BY <1>3, <2>1
  <2>3. \A j \in 1..(Len(puts) - 1) : j + 1 \in 1..Len(puts)
    BY <1>1
  <2>4. \A j \in 1..(Len(puts) - 1) : puts[j + 1].key # k
    BY <1>1, <1>3, <2>3
  <2>5. QED  BY <1>1, <2>2, <2>4
<1>4. QED  BY <1>2, <1>3 DEF EndsWith

LEMMA WriteStep ==
  ASSUME ScreensInv, NEW w \in Savers, SetSetting(w)
  PROVE  ScreensInv'
<1> DEFINE puts == saves[w]
           rest == Tail(puts)
<1>1. /\ puts \in Seq(Puts) /\ puts # <<>> /\ Distinct(puts)
      /\ settings' = [settings EXCEPT ![Head(puts).key] = Head(puts).value]
      /\ unchecked' = IF Head(puts).checked THEN unchecked \ {Head(puts).key}
                       ELSE unchecked \cup {Head(puts).key}
      /\ saves' = [saves EXCEPT ![w] = rest] /\ UNCHANGED <<screen, mixed>>
      /\ forms' = IF rest = <<>> THEN forms \ {w} ELSE forms
  BY DEF SetSetting, ScreensInv, StoredInv
<1>2. Head(puts) \in Puts /\ rest \in Seq(Puts)
  BY <1>1
<1>3. Distinct(rest)
  <2>1. /\ Len(puts) \in Nat /\ DOMAIN puts = 1..Len(puts)
        /\ DOMAIN rest = 1..(Len(puts) - 1)
        /\ \A i \in 1..(Len(puts) - 1) : rest[i] = puts[i + 1] /\ i + 1 \in 1..Len(puts)
    BY <1>1
  <2> HIDE DEF puts, rest
  <2>2. \A i, j \in 1..Len(puts) : puts[i].key = puts[j].key => i = j
    BY <1>1, <2>1 DEF Distinct
  <2>3. ASSUME NEW i \in DOMAIN rest, NEW j \in DOMAIN rest, rest[i].key = rest[j].key
        PROVE  i = j
    <3>1. i \in 1..(Len(puts) - 1) /\ j \in 1..(Len(puts) - 1)
      BY <2>1, <2>3
    <3>2. puts[i + 1].key = puts[j + 1].key
      BY <2>1, <2>3, <3>1
    <3>3. i + 1 = j + 1
      BY <2>1, <2>2, <3>1, <3>2
    <3>4. QED  BY <2>1, <3>1, <3>3
  <2>4. QED  BY <2>3 DEF Distinct
<1> HIDE DEF puts, rest
<1>4. \A v \in Savers : saves'[v] = IF v = w THEN rest ELSE saves[v]
  BY <1>1 DEF ScreensInv, StoredInv
<1>5. StoredInv'
  <2>1. /\ Kept(Head(puts).key, Head(puts).value, Head(puts).checked)
        /\ Head(puts).value \in Values /\ Head(puts).checked \in BOOLEAN
    BY <1>2 DEF Puts
  <2>2. settings' \in [DOMAIN Defaults[screen] -> Values]
        /\ DOMAIN settings' = DOMAIN settings
    BY <1>1, <2>1 DEF ScreensInv, StoredInv
  <2>3. ASSUME NEW k \in DOMAIN settings
        PROVE  Kept(k, settings'[k], k \notin unchecked')
    <3>1. CASE k = Head(puts).key
      BY <1>1, <2>1, <3>1 DEF ScreensInv, StoredInv, Kept
    <3>2. CASE k # Head(puts).key
      <4>1. settings'[k] = settings[k] /\ (k \in unchecked' <=> k \in unchecked)
        BY <1>1, <3>2 DEF ScreensInv, StoredInv
      <4>2. QED  BY <4>1 DEF ScreensInv, StoredInv, Kept
    <3>3. QED  BY <3>1, <3>2
  <2>4. saves' \in [Savers -> Seq(Puts)] /\ \A v \in Savers : Distinct(saves'[v])
    BY <1>1, <1>2, <1>3, <1>4 DEF ScreensInv, StoredInv
  <2>5. forms' \subseteq Running'
    BY <1>1, <1>4 DEF ScreensInv, StoredInv, Running
  <2>6. QED  BY <1>1, <2>2, <2>3, <2>4, <2>5 DEF ScreensInv, StoredInv, Kept, Good, Distinct
<1>6. /\ screen = "free" => {"free_on", "product"} \subseteq DOMAIN settings
      /\ screen = "join" => {"join_on", "channel"} \subseteq DOMAIN settings
      /\ screen = "menus" => {"reply_menu", "inline_menu"} \subseteq DOMAIN settings
  BY DEF ScreensInv, StoredInv, Defaults
<1>7. ASSUME ~mixed, w \in forms
      PROVE  WholeInv'
  <2>1. /\ saves[w] # <<>> /\ WholeWith(puts) /\ forms = {w}
        /\ \A v \in Savers : v # w => saves[v] = <<>>
    BY <1>1, <1>7 DEF ScreensInv, StoredInv, WholeInv, Running, puts
  <2> DEFINE Holds2(k, v) ==
         \/ \E i \in DOMAIN rest : rest[i] = Put(k, v)
         \/ settings'[k] = v /\ \A i \in DOMAIN rest : rest[i].key # k
  <2>2. \A k \in DOMAIN settings : \A v : EndsWith(puts, k, v) => Holds2(k, v)
    BY <1>1, WrittenSoFar DEF rest
  <2> HIDE DEF Holds2
  <2>3. /\ screen = "free" => Holds2("free_on", "off") \/ Holds2("product", "auto")
        /\ screen = "join" => Holds2("join_on", "off") \/ Holds2("channel", "first")
        /\ screen = "menus" => Holds2("reply_menu", "on") \/ Holds2("inline_menu", "on")
    BY <1>6, <2>1, <2>2 DEF WholeWith
  <2>4. saves'[w] = rest /\ screen' = screen
    BY <1>1, <1>4
  <2>5. WholeWith(saves[w])'
    BY <2>3, <2>4 DEF WholeWith, EndsWith, Holds2
  <2>6. rest = <<>> => \A k, v : Holds2(k, v) => settings'[k] = v
    BY DEF Holds2
  <2>7. rest = <<>> => Backed'
    BY <2>3, <2>4, <2>6 DEF Backed
  <2>8. \A v \in Savers : v # w => saves'[v] = <<>>
    BY <1>4, <2>1
  <2>9. CASE rest = <<>>
    <3>1. forms' = {} /\ \A v \in Savers : saves'[v] = <<>>
      BY <1>1, <2>1, <2>4, <2>8, <2>9
    <3>2. QED  BY <2>7, <2>9, <3>1 DEF WholeInv
  <2>10. CASE rest # <<>>
    <3>1. forms' = {w}
      BY <1>1, <2>1, <2>10
    <3>2. QED  BY <2>5, <2>8, <3>1 DEF WholeInv
  <2>11. QED  BY <2>9, <2>10
<1>8. ASSUME ~mixed, w \notin forms
      PROVE  WholeInv'
  <2>1. saves[w] # <<>> /\ saves[w] = puts
    BY <1>1 DEF puts
  <2>2. forms = {}
    BY <1>8, <2>1 DEF ScreensInv, StoredInv, WholeInv, Running
  <2>3. /\ Backed /\ Len(puts) = 1 /\ Harmless(puts[1].key, puts[1].value)
        /\ \A v \in Savers : saves[v] # <<>> =>
              Len(saves[v]) = 1 /\ Harmless(saves[v][1].key, saves[v][1].value)
        /\ screen = "menus" => \A v \in Savers : v # w => saves[v] = <<>>
    BY <1>8, <2>1, <2>2 DEF ScreensInv, WholeInv
  <2>4. Head(puts) = puts[1] /\ rest = <<>>
    <3>1. Len(rest) = 0
      BY <1>1, <2>3 DEF rest
    <3>2. QED  BY <1>1, <1>2, <3>1
  <2>5. /\ settings' = [settings EXCEPT ![puts[1].key] = puts[1].value]
        /\ screen' = screen /\ forms' = {}
    BY <1>1, <2>2, <2>4
  <2>6. Backed'
    BY <1>6, <2>3, <2>5 DEF Backed, Harmless
  <2>7. ASSUME NEW v \in Savers, saves'[v] # <<>>
        PROVE  Len(saves'[v]) = 1 /\ Harmless(saves[v][1].key, saves[v][1].value)'
    <3>1. v # w /\ saves'[v] = saves[v]
      BY <1>4, <2>4, <2>7
    <3>2. Len(saves[v]) = 1 /\ Harmless(saves[v][1].key, saves[v][1].value)
          /\ screen # "menus"
      BY <2>3, <2>7, <3>1
    <3>3. QED  BY <1>6, <2>3, <2>5, <3>1, <3>2 DEF Harmless
  <2>8. screen = "menus" => \A v \in Savers : saves'[v] = <<>>
    BY <1>4, <2>3, <2>4
  <2>9. QED  BY <2>5, <2>6, <2>7, <2>8 DEF WholeInv
<1>9. QED  BY <1>1, <1>5, <1>7, <1>8 DEF ScreensInv, WholeInv

LEMMA SaveCutShort ==
  ASSUME ScreensInv, NEW w \in Savers, BrokenOff(w)
  PROVE  ScreensInv'
<1>1. /\ saves' = [saves EXCEPT ![w] = <<>>] /\ forms' = forms \ {w}
      /\ mixed' = (mixed \/ w \in forms)
      /\ UNCHANGED <<screen, settings, unchecked>>
  BY DEF BrokenOff
<1>2. \A v \in Savers : saves'[v] = IF v = w THEN <<>> ELSE saves[v]
  BY <1>1 DEF ScreensInv, StoredInv
<1>3. saves' \in [Savers -> Seq(Puts)] /\ Distinct(<<>>) /\ mixed' \in BOOLEAN
  BY <1>1 DEF ScreensInv, StoredInv, Distinct
<1>4. \A v \in Savers : Distinct(saves'[v])
  BY <1>2, <1>3 DEF ScreensInv, StoredInv
<1>5. forms' \subseteq Running'
  BY <1>1, <1>2 DEF ScreensInv, StoredInv, Running
<1>6. StoredInv'
  BY <1>1, <1>3, <1>4, <1>5 DEF ScreensInv, StoredInv, Kept, Good, Distinct
<1>7. ASSUME ~mixed'
      PROVE  WholeInv'
  <2>1. ~mixed /\ forms' = forms /\ w \notin forms
    BY <1>1, <1>7
  <2>2. saves[w] # <<>>
    BY DEF BrokenOff
  <2>3. forms = {}
    BY <2>1, <2>2 DEF ScreensInv, StoredInv, WholeInv, Running
  <2>4. /\ Backed
        /\ \A v \in Savers : saves[v] # <<>> =>
              Len(saves[v]) = 1 /\ Harmless(saves[v][1].key, saves[v][1].value)
        /\ screen = "menus" =>
              \A v, u \in Savers : saves[v] # <<>> /\ saves[u] # <<>> => v = u
    BY <2>1, <2>3 DEF ScreensInv, WholeInv
  <2>5. Backed'
    BY <1>1, <2>4 DEF Backed
  <2>6. \A v \in Savers : saves'[v] # <<>> =>
           Len(saves'[v]) = 1 /\ Harmless(saves[v][1].key, saves[v][1].value)'
    BY <1>1, <1>2, <2>4 DEF Harmless
  <2>7. screen' = "menus" =>
           \A v, u \in Savers : saves'[v] # <<>> /\ saves'[u] # <<>> => v = u
    BY <1>1, <1>2, <2>4
  <2>8. QED  BY <2>1, <2>3, <2>5, <2>6, <2>7 DEF WholeInv
<1>8. QED  BY <1>6, <1>7 DEF ScreensInv, WholeInv

LEMMA ScreensNext ==
  ASSUME ScreensInv, [SettingsNext]_settingsVars
  PROVE  ScreensInv'
<1>1. CASE UNCHANGED settingsVars
  <2>1. /\ UNCHANGED <<screen, settings, saves, unchecked, forms, mixed>>
    BY <1>1 DEF settingsVars
  <2>2. StoredInv'
    BY <2>1 DEF ScreensInv, StoredInv, Kept, Good, Distinct, Running
  <2>3. /\ Backed' = Backed /\ \A puts : WholeWith(puts)' = WholeWith(puts)
        /\ \A k, v : Harmless(k, v)' = Harmless(k, v)
    BY <2>1 DEF Backed, WholeWith, EndsWith, Harmless
  <2>4. WholeInv'
    BY <2>1, <2>3 DEF ScreensInv, WholeInv, WholeWith, EndsWith, Harmless
  <2>5. QED  BY <2>2, <2>4 DEF ScreensInv
<1>2. ASSUME NEW w \in Savers,
             \/ AppReferralForm(w) \/ AppWheelForm(w) \/ AppRenewalForm(w)
             \/ AppVolumeForm(w) \/ AppCardForm(w)
      PROVE  \/ ReferralForm(w) \/ WheelForm(w) \/ RenewalForm(w) \/ VolumeForm(w)
             \/ CardDialog(w)
  BY <1>2 DEF AppReferralForm, AppWheelForm, AppRenewalForm, AppVolumeForm, AppCardForm
<1>3. CASE SettingsNext
  BY <1>2, <1>3, WriteStep, SaveCutShort, PlainDialogs, VolumeAndInvite, PlainForms,
     LimitsByApp, FreeAndJoin, FormsOfReferral, FormOfJoin, MenuStays, PagePosts
  DEF SettingsNext
<1>4. QED  BY <1>1, <1>3

(***************************************************************************)
(* However many handlers save, mixed or broken off: what they leave is a   *)
(* value the readers can compute with, "odd" in three keys and the volumes *)
(* typed into the panel's page of settings apart                           *)
(* (database.py:2996, 3045, 3110, 3686).                                   *)
(***************************************************************************)
THEOREM StoredStaysReadable == SettingsSpec => []StoredIsReadable
<1>1. SettingsInit => ScreensInv
  BY ScreensInit
<1>2. ScreensInv /\ [SettingsNext]_settingsVars => ScreensInv'
  BY ScreensNext
<1>3. ScreensInv => StoredIsReadable
  BY DEF ScreensInv, StoredInv, StoredIsReadable, Kept, Good
<1>4. QED  BY <1>1, <1>2, <1>3, PTL DEF SettingsSpec

(***************************************************************************)
(* Any number of dialogs and switches at once, and forms that run alone:   *)
(* what is switched on has what it needs                                   *)
(* (handlers_admin.py:876-887, 1712-1722, 3783-3810, 3904-3915).           *)
(***************************************************************************)
THEOREM SwitchesStayBacked == SettingsSpec => []SwitchesAreBacked
<1>1. SettingsInit => ScreensInv
  BY ScreensInit
<1>2. ScreensInv /\ [SettingsNext]_settingsVars => ScreensInv'
  BY ScreensNext
<1>3. ScreensInv => SwitchesAreBacked
  BY DEF ScreensInv, WholeInv, Backed, SwitchesAreBacked
<1>4. QED  BY <1>1, <1>2, <1>3, PTL DEF SettingsSpec

(***************************************************************************)
(* A save writes the keys of the screen it is about.                       *)
(***************************************************************************)
KeysInv == /\ begunSaves \in 0..MaxSaves[screen] /\ unchecked \subseteq DOMAIN settings
           /\ \A w \in Savers : \A i \in DOMAIN saves[w] :
                 saves[w][i].key \in DOMAIN Defaults[screen]

SettingsInv == ScreensInv /\ KeysInv

OnScreen(of, puts) == \A i \in DOMAIN puts : puts[i].key \in DOMAIN Defaults[of]

LEMMA KeysOfScreens ==
  /\ DOMAIN Defaults["referral"] = {"percent", "commission_max"}
  /\ DOMAIN Defaults["free"] = {"free_on", "threshold", "product"}
  /\ DOMAIN Defaults["invite"] = {"invite_on", "amount", "invite_max"}
  /\ DOMAIN Defaults["wheel"] = {"win_percent", "prizes", "cooldown"}
  /\ DOMAIN Defaults["renewal"] = {"days", "discount", "hours"}
  /\ DOMAIN Defaults["volume"] = {"mode", "used_percent", "gb_left"}
  /\ DOMAIN Defaults["limits"] = {"min_gb", "max_gb"}
  /\ DOMAIN Defaults["trial"] = {"test_gb", "test_days"}
  /\ DOMAIN Defaults["join"] = {"join_on", "channel"}
  /\ DOMAIN Defaults["stock"] = {"low_stock"}
  /\ DOMAIN Defaults["menus"] = {"reply_menu", "inline_menu"}
  /\ DOMAIN Defaults["card"] = {"card_number", "card_holder"}
  BY DEF Defaults

LEMMA KeysStart == ASSUME SettingsInit PROVE KeysInv
<1>1. MaxSaves[screen] \in Nat
  BY SettingsAssumption DEF SettingsInit
<1> QED  BY <1>1 DEF SettingsInit, KeysInv

LEMMA SaveOnScreen ==
  ASSUME ScreensInv, KeysInv, NEW w \in Savers, NEW of, NEW puts,
         Save(w, of, puts), OnScreen(of, puts)
  PROVE  KeysInv'
<1>1. /\ screen = of /\ screen' = screen /\ saves' = [saves EXCEPT ![w] = puts]
      /\ begunSaves < MaxSaves[screen] /\ begunSaves' = begunSaves + 1
      /\ UNCHANGED <<settings, unchecked>>
  BY DEF Save
<1>2. \A v \in Savers : saves'[v] = IF v = w THEN puts ELSE saves[v]
  BY <1>1 DEF ScreensInv, StoredInv
<1>3. begunSaves' \in 0..MaxSaves[screen]
  <2>1. MaxSaves[screen] \in Nat
    BY SettingsAssumption DEF ScreensInv, StoredInv
  <2> QED  BY <1>1, <2>1 DEF KeysInv
<1> QED  BY <1>1, <1>2, <1>3 DEF KeysInv, OnScreen

LEMMA OneOnScreen ==
  ASSUME ScreensInv, KeysInv, NEW w \in Savers, NEW of,
         NEW k \in DOMAIN Defaults[of], NEW v, Save(w, of, <<Put(k, v)>>)
  PROVE  KeysInv'
<1>1. OnScreen(of, <<Put(k, v)>>)
  BY DEF OnScreen, Put
<1> QED  BY <1>1, SaveOnScreen

LEMMA TwoOnScreen ==
  ASSUME ScreensInv, KeysInv, NEW w \in Savers, NEW of,
         NEW k \in DOMAIN Defaults[of], NEW v,
         NEW l \in DOMAIN Defaults[of], NEW u,
         Save(w, of, <<Put(k, v), Put(l, u)>>)
  PROVE  KeysInv'
<1>1. OnScreen(of, <<Put(k, v), Put(l, u)>>)
  BY DEF OnScreen, Put
<1> QED  BY <1>1, SaveOnScreen

LEMMA ThreeOnScreen ==
  ASSUME ScreensInv, KeysInv, NEW w \in Savers, NEW of,
         NEW k \in DOMAIN Defaults[of], NEW v,
         NEW l \in DOMAIN Defaults[of], NEW u,
         NEW m \in DOMAIN Defaults[of], NEW x,
         Save(w, of, <<Put(k, v), Put(l, u), Put(m, x)>>)
  PROVE  KeysInv'
<1>1. OnScreen(of, <<Put(k, v), Put(l, u), Put(m, x)>>)
  BY DEF OnScreen, Put
<1> QED  BY <1>1, SaveOnScreen

LEMMA DialogKeys ==
  ASSUME ScreensInv, KeysInv, NEW w \in Savers,
         \/ ReferralDialogs(w) \/ FreeConfigDialogs(w) \/ InviteDialogs(w)
         \/ WheelDialogs(w) \/ RenewalDialogs(w) \/ VolumeDialogs(w)
         \/ StockDialog(w) \/ TrialDialog(w) \/ LimitsDialog(w)
         \/ JoinDialogs(w) \/ CardDialog(w) \/ MenuSwitches(w)
  PROVE  KeysInv'
<1>1. ASSUME NEW of, NEW k \in DOMAIN Defaults[of], NEW accepted,
             SaveOne(w, of, k, accepted)
      PROVE  KeysInv'
  BY <1>1, OneOnScreen DEF SaveOne
<1>2. ASSUME NEW of, NEW k \in DOMAIN Defaults[of], NEW unless, Flip(w, of, k, unless)
      PROVE  KeysInv'
  BY <1>2, OneOnScreen DEF Flip
<1>3. CASE ReferralDialogs(w)
  BY <1>1, <1>3, KeysOfScreens DEF ReferralDialogs
<1>4. CASE FreeConfigDialogs(w)
  BY <1>1, <1>2, <1>4, KeysOfScreens DEF FreeConfigDialogs
<1>5. CASE InviteDialogs(w)
  BY <1>1, <1>2, <1>5, KeysOfScreens DEF InviteDialogs
<1>6. CASE WheelDialogs(w)
  BY <1>1, <1>6, KeysOfScreens DEF WheelDialogs
<1>7. CASE RenewalDialogs(w)
  BY <1>1, <1>7, KeysOfScreens DEF RenewalDialogs
<1>8. CASE VolumeDialogs(w)
  BY <1>1, <1>8, KeysOfScreens DEF VolumeDialogs
<1>9. CASE StockDialog(w)
  BY <1>1, <1>9, KeysOfScreens DEF StockDialog
<1>10. CASE TrialDialog(w)
  BY <1>10, TwoOnScreen, KeysOfScreens DEF TrialDialog
<1>11. CASE LimitsDialog(w)
  BY <1>11, TwoOnScreen, KeysOfScreens DEF LimitsDialog
<1>12. CASE JoinDialogs(w)
  BY <1>1, <1>2, <1>12, KeysOfScreens DEF JoinDialogs
<1>13. CASE CardDialog(w)
  BY <1>13, TwoOnScreen, KeysOfScreens DEF CardDialog
<1>14. CASE MenuSwitches(w)
  BY <1>2, <1>14, KeysOfScreens DEF MenuSwitches
<1> QED
  BY <1>3, <1>4, <1>5, <1>6, <1>7, <1>8, <1>9, <1>10, <1>11, <1>12, <1>13, <1>14

LEMMA FormKeys ==
  ASSUME ScreensInv, KeysInv, NEW w \in Savers,
         \/ ReferralForm(w) \/ WheelForm(w) \/ RenewalForm(w) \/ VolumeForm(w)
         \/ TrialForm(w) \/ JoinForm(w) \/ LimitsForm(w) \/ AppLimitsForm(w)
         \/ SettingsPage(w)
  PROVE  KeysInv'
<1>1. ASSUME NEW of, NEW k \in DOMAIN Defaults[of], NEW accepted,
             SaveOne(w, of, k, accepted)
      PROVE  KeysInv'
  BY <1>1, OneOnScreen DEF SaveOne
<1>2. CASE ReferralForm(w)
  BY <1>2, TwoOnScreen, ThreeOnScreen, KeysOfScreens DEF ReferralForm
<1>3. CASE WheelForm(w)
  BY <1>3, ThreeOnScreen, KeysOfScreens DEF WheelForm
<1>4. CASE RenewalForm(w)
  BY <1>4, ThreeOnScreen, KeysOfScreens DEF RenewalForm
<1>5. CASE VolumeForm(w)
  BY <1>5, ThreeOnScreen, KeysOfScreens DEF VolumeForm
<1>6. CASE TrialForm(w)
  BY <1>6, TwoOnScreen, KeysOfScreens DEF TrialForm
<1>7. CASE JoinForm(w)
  BY <1>7, TwoOnScreen, KeysOfScreens DEF JoinForm
<1>8. CASE LimitsForm(w)
  BY <1>8, TwoOnScreen, KeysOfScreens DEF LimitsForm
<1>9. CASE AppLimitsForm(w)
  <2>1. CASE LimitsDialog(w)
    BY <2>1, DialogKeys
  <2> QED  BY <1>1, <1>6, <1>9, <2>1, KeysOfScreens DEF AppLimitsForm
<1>10. ASSUME NEW of, NEW k \in DOMAIN Defaults[of], NEW v,
              NEW l \in DOMAIN Defaults[of], NEW u,
              Save(w, of, <<Post(k, v), Post(l, u)>>)
       PROVE  KeysInv'
  <2>1. OnScreen(of, <<Post(k, v), Post(l, u)>>)
    BY <1>10 DEF OnScreen, Post
  <2> QED  BY <1>10, <2>1, SaveOnScreen
<1>11. CASE SettingsPage(w)
  BY <1>10, <1>11, KeysOfScreens DEF SettingsPage
<1> QED  BY <1>2, <1>3, <1>4, <1>5, <1>6, <1>7, <1>8, <1>9, <1>11

LEMMA KeysStep ==
  ASSUME ScreensInv, KeysInv, [SettingsNext]_settingsVars
  PROVE  KeysInv'
<1>1. CASE UNCHANGED settingsVars
  BY <1>1 DEF settingsVars, KeysInv
<1>2. ASSUME NEW w \in Savers, SetSetting(w)
      PROVE  KeysInv'
  <2> DEFINE puts == saves[w]
  <2>1. /\ puts \in Seq(Puts) /\ puts # <<>>
        /\ saves' = [saves EXCEPT ![w] = Tail(puts)]
        /\ UNCHANGED <<screen, begunSaves>>
        /\ settings' = [settings EXCEPT ![Head(puts).key] = Head(puts).value]
        /\ unchecked' \subseteq unchecked \cup {Head(puts).key}
    BY <1>2 DEF SetSetting, ScreensInv, StoredInv
  <2>2. \A v \in Savers : saves'[v] = IF v = w THEN Tail(puts) ELSE saves[v]
    BY <2>1 DEF ScreensInv, StoredInv
  <2>3. \A i \in DOMAIN Tail(puts) : i + 1 \in DOMAIN puts /\ Tail(puts)[i] = puts[i + 1]
    BY <2>1
  <2>4. \A i \in DOMAIN Tail(puts) : Tail(puts)[i].key \in DOMAIN Defaults[screen]
    BY <2>3 DEF KeysInv
  <2>5. Head(puts).key \in DOMAIN Defaults[screen]
    <3>1. 1 \in DOMAIN puts /\ Head(puts) = puts[1]
      BY <2>1
    <3> QED  BY <3>1 DEF KeysInv
  <2> HIDE DEF puts
  <2>6. DOMAIN settings' = DOMAIN settings /\ unchecked' \subseteq DOMAIN settings
    BY <2>1, <2>5 DEF ScreensInv, StoredInv, KeysInv
  <2> QED  BY <2>1, <2>2, <2>4, <2>6 DEF KeysInv
<1>3. ASSUME NEW w \in Savers, BrokenOff(w)
      PROVE  KeysInv'
  <2>1. /\ saves' = [saves EXCEPT ![w] = <<>>]
        /\ UNCHANGED <<screen, begunSaves, settings, unchecked>>
    BY <1>3 DEF BrokenOff
  <2>2. \A v \in Savers : saves'[v] = IF v = w THEN <<>> ELSE saves[v]
    BY <2>1 DEF ScreensInv, StoredInv
  <2> QED  BY <2>1, <2>2 DEF KeysInv
<1>4. CASE SettingsNext
  BY <1>2, <1>3, <1>4, DialogKeys, FormKeys
  DEF SettingsNext, AppReferralForm, AppWheelForm, AppRenewalForm, AppVolumeForm,
      AppCardForm
<1> QED  BY <1>1, <1>4

LEMMA SettingsStart == ASSUME SettingsInit PROVE SettingsInv
  BY ScreensInit, KeysStart DEF SettingsInv

LEMMA SettingsStep ==
  ASSUME SettingsInv, [SettingsNext]_settingsVars
  PROVE  SettingsInv'
<1>1. ScreensInv /\ KeysInv
  BY DEF SettingsInv
<1> QED  BY <1>1, ScreensNext, KeysStep DEF SettingsInv

LEMMA SettingsAreTyped == ASSUME SettingsInv PROVE SettingsTypeOK
<1>1. StoredInv /\ KeysInv
  BY DEF SettingsInv, ScreensInv
<1>2. screen \in DOMAIN Defaults /\ DOMAIN settings = DOMAIN Defaults[screen]
  BY <1>1 DEF StoredInv
<1>3. \A k \in DOMAIN settings : \E reads \in Readers : k \in DOMAIN reads
  <2>1. ASSUME NEW k \in DOMAIN settings
        PROVE  \E reads \in Readers : k \in DOMAIN reads
    <3>1. k \in Keys
      BY <1>1, KeptIsKnown DEF StoredInv
    <3> QED  BY <3>1 DEF Keys
  <2> QED  BY <2>1
<1> QED  BY <1>1, <1>2, <1>3 DEF SettingsTypeOK, StoredInv, KeysInv, Running

(***************************************************************************)
(* A screen has the keys it was filled with, each of them one somebody     *)
(* reads, and no save writes a key of another screen.                      *)
(***************************************************************************)
THEOREM SettingsTyped == SettingsSpec => []SettingsTypeOK
<1>1. SettingsInit => SettingsInv
  BY SettingsStart
<1>2. SettingsInv /\ [SettingsNext]_settingsVars => SettingsInv'
  BY SettingsStep
<1>3. SettingsInv => SettingsTypeOK
  BY SettingsAreTyped
<1> QED  BY <1>1, <1>2, <1>3, PTL DEF SettingsSpec


(***************************************************************************)
(* The back office as a whole (MCOffice): each part keeps its invariant by *)
(* its own steps, and by those of the others, which leave it as it is.     *)
(***************************************************************************)
OfficeInv == /\ part \in Parts
             /\ RequestsInv /\ PanelsInv /\ SupportInv /\ RolesInv
             /\ AccessInv /\ WatchedInv /\ RemindersInv /\ SettingsInv

LEMMA OfficeStarts == ASSUME OfficeInit PROVE OfficeInv
<1>1. /\ RequestsInit /\ PanelsInit /\ SupportInit /\ RolesInit
      /\ AccessInit /\ WatchInit /\ RemindersInit /\ SettingsInit /\ part \in Parts
  BY DEF OfficeInit
<1> QED
  BY <1>1, BoundsStart, PanelsStart, SupportStarts, RolesStart, AccessInitInv,
     WatchedStarts, RemindersStart, SettingsStart
  DEF OfficeInv

(* Whoever works, to each part it is a step of that part or none.          *)
LEMMA PartsStep ==
  ASSUME [OfficeNext]_OfficeVars
  PROVE  /\ [RequestsNext]_requestVars /\ [PanelsNext]_panelVars
         /\ [SupportNext]_supportVars /\ [RolesNext]_adminVars
         /\ [AccessNext]_accessVars /\ [WatchNext]_watchVars
         /\ [RemindersNext]_reminderVars /\ [SettingsNext]_settingsVars
         /\ part' = part
<1>1. CASE UNCHANGED OfficeVars
  BY <1>1, Zenon DEF OfficeVars
<1>2. CASE RequestsWork
  BY <1>2, Zenon DEF RequestsWork
<1>3. CASE PanelsWork
  BY <1>3, Zenon DEF PanelsWork
<1>4. CASE SupportWorks
  <2>1. SupportNext
    BY <1>4, Zenon DEF SupportWorks, SupportPart, SupportNext
  <2> QED  BY <1>4, <2>1, Zenon DEF SupportWorks
<1>5. CASE RolesWork
  BY <1>5, Zenon DEF RolesWork
<1>6. CASE AccessWorks
  BY <1>6, Zenon DEF AccessWorks
<1>7. CASE WatchWorks
  BY <1>7, Zenon DEF WatchWorks
<1>8. CASE RemindersWork
  BY <1>8, Zenon DEF RemindersWork
<1>9. CASE SettingsWork
  BY <1>9, Zenon DEF SettingsWork
<1> QED
  BY <1>1, <1>2, <1>3, <1>4, <1>5, <1>6, <1>7, <1>8, <1>9, Zenon DEF OfficeNext

LEMMA OfficeStep ==
  ASSUME OfficeInv, [OfficeNext]_OfficeVars
  PROVE  OfficeInv'
<1>1. /\ part \in Parts /\ RequestsInv /\ PanelsInv /\ SupportInv /\ RolesInv
      /\ AccessInv /\ WatchedInv /\ RemindersInv /\ SettingsInv
  BY DEF OfficeInv
<1>2. RequestsInv' /\ PanelsInv' /\ SupportInv' /\ RolesInv'
  BY <1>1, PartsStep, RequestsTypeStep, PanelsTypeStep, SupportStep, RolesTypeStep
<1>3. AccessInv' /\ WatchedInv' /\ RemindersInv' /\ SettingsInv'
  BY <1>1, PartsStep, AccessStep, WatchedStep, RemindersStep, SettingsStep
<1>4. part' \in Parts
  BY <1>1, PartsStep
<1> QED  BY <1>2, <1>3, <1>4, Zenon DEF OfficeInv

(***************************************************************************)
(* Whichever part a behaviour is about, for any number of administrators,  *)
(* handlers, servers, tickets, saves and whatever else there is of it: its *)
(* state stays of its type, and every count within its bound.              *)
(***************************************************************************)
THEOREM OfficeTyped == OfficeSpec => []OfficeTypeOK
<1>1. OfficeInit => OfficeInv
  BY OfficeStarts
<1>2. OfficeInv /\ [OfficeNext]_OfficeVars => OfficeInv'
  BY OfficeStep
<1>3. OfficeInv => OfficeTypeOK
  <2> SUFFICES ASSUME OfficeInv PROVE OfficeTypeOK
    OBVIOUS
  <2>1. /\ RequestsTypeOK /\ PanelsTypeOK /\ SupportTypeOK /\ RolesTypeOK
        /\ AccessTypeOK /\ WatchTypeOK /\ RemindersTypeOK /\ SettingsTypeOK
    BY RequestsAreTyped, PanelsAreTyped, SupportIsTyped, RolesAreTyped, WatchIsTyped,
       RemindersAreTyped, SettingsAreTyped
    DEF OfficeInv, AccessInv
  <2>2. part \in Parts
    BY DEF OfficeInv
  <2> QED  BY <2>1, <2>2 DEF OfficeTypeOK, Parts
<1> QED  BY <1>1, <1>2, <1>3, PTL DEF OfficeSpec


(***************************************************************************)
(* The back office implements each of its parts: whatever is proved of the *)
(* requests, the panels, the support, the roles, the accounts, the watch,  *)
(* the reminders or the settings alone holds where all of them are.        *)
(***************************************************************************)
THEOREM OfficeIsItsParts ==
  OfficeSpec => /\ RequestsSpec /\ PanelsSpec /\ SupportSpec /\ RolesSpec
                /\ AccessSpec /\ WatchSpec /\ RemindersSpec /\ SettingsSpec
<1>1. OfficeInit => /\ RequestsInit /\ PanelsInit /\ SupportInit /\ RolesInit
                    /\ AccessInit /\ WatchInit /\ RemindersInit /\ SettingsInit
  BY DEF OfficeInit
<1>2. [OfficeNext]_OfficeVars =>
         /\ [RequestsNext]_requestVars /\ [PanelsNext]_panelVars
         /\ [SupportNext]_supportVars /\ [RolesNext]_adminVars
         /\ [AccessNext]_accessVars /\ [WatchNext]_watchVars
         /\ [RemindersNext]_reminderVars /\ [SettingsNext]_settingsVars
  BY PartsStep
<1> QED
  BY <1>1, <1>2, PTL
  DEF OfficeSpec, RequestsSpec, PanelsSpec, SupportSpec, RolesSpec, AccessSpec,
      WatchSpec, RemindersSpec, SettingsSpec

(***************************************************************************)
(* All that the back office promises, at once: grants are backed by a      *)
(* request, configs stay with their server, charges follow what was built, *)
(* a ticket has one voice and no message is missed, the owner of a bot and *)
(* of a panel stays and who was removed is forgotten, outages and ends are *)
(* told once, and the settings can be read and what is on has what it needs. *)
(***************************************************************************)
THEOREM OfficeIsSafe ==
  OfficeSpec => /\ []GrantsAreBacked
                /\ []ListedHasServer /\ []ChargeFollowsBuild /\ []NoOverdraftAlone
                /\ []OneVoice /\ []NoneMissed
                /\ []OwnerStays /\ []RemovedIsForgotten /\ []FoundersStay
                /\ []OutageToldOnce /\ []RemindedOnce
                /\ []StoredIsReadable /\ []SwitchesAreBacked
                /\ NoConfigLost
BY OfficeIsItsParts, GrantsAreBackedAlways, ListedIsKnown, PaysForWhatExists,
   OverdrawnByRace, OneVoiceAlways, NoneIsMissed, ChiefStays, RemovedAreForgotten,
   OwnerIsKept, OutagesToldOnce, RemindsOnce, StoredStaysReadable, SwitchesStayBacked,
   LossIsForced, PTL
===============================================================================
