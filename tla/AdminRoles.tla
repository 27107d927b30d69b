------------------------------ MODULE AdminRoles ------------------------------
(***************************************************************************)
(* Administrators of a bot and the cache each process keeps of them.  Only *)
(* the bot process writes the table, after dialogs with the owner; the bot *)
(* and the mini app each decide on their own cache, which they reload when *)
(* it is older than AdminCacheTTL or was invalidated by the same process.  *)
(* A check runs in a worker thread: its steps interleave with all others.  *)
(***************************************************************************)
EXTENDS Naturals, FiniteSets, Functions

CONSTANTS Deputies,       \* Telegram ids that may become administrators
          Chief,          \* the owner of the bot, seeded when it is created
          Roles,          \* the roles the owner can give: admin, mid, support
          Checks,         \* worker threads that run a check
          AdminCacheTTL,  \* _ADMIN_CACHE_TTL
          MaxCheckTime,   \* bound: ticks a check may last
          MaxRoleWrites   \* bound: writes of the table begun

ASSUME RolesAssumption == {AdminCacheTTL, MaxCheckTime, MaxRoleWrites} \subseteq Nat

VARIABLES admins,     \* the table: id -> role
          cached,     \* _admin_cache of each process, and the ticks since it was loaded
          check,      \* what each thread is doing
          picks,      \* role keyboards shown to the owner
          invalidates,\* writes committed whose _invalidate_admin_cache is due
          roleWrites, \* writes of the table so far
          gone        \* ghost: ticks since an id left the table (0: it is in, or never was)

adminVars == <<admins, cached, check, picks, invalidates, roleWrites, gone>>

People == Deputies \cup {Chief}
AdminProcesses == {"bot", "app"}
NoCache == [rows |-> {}, age |-> 0, loaded |-> FALSE]
Idle == [pc |-> "idle", in |-> "app", of |-> Chief, for |-> "gate", rows |-> {},
         age |-> 0]
Purposes == {"gate", "add", "setrole", "remove"}

(* Ages are counted up to the first tick that no longer matters.           *)
Stale == AdminCacheTTL + 1
Forgotten == AdminCacheTTL + 2 * MaxCheckTime
Older(age, cap) == IF age < cap THEN age + 1 ELSE age

RolesTypeOK ==
    /\ DOMAIN admins \subseteq People
    /\ \A a \in DOMAIN admins : admins[a] \in Roles \cup {"owner"}
    /\ cached \in [AdminProcesses -> [rows : SUBSET People, age : 0..Stale,
                                      loaded : BOOLEAN]]
    /\ check \in [Checks -> [pc : {"idle", "read", "store", "look"},
                             in : AdminProcesses, of : People, for : Purposes,
                             rows : SUBSET People, age : 0..MaxCheckTime]]
    /\ picks \subseteq {"add", "setrole"} \X People
    /\ invalidates \in 0..MaxRoleWrites
    /\ roleWrites \in 0..MaxRoleWrites
    /\ gone \in [People -> 0..Forgotten + 2]

(* The database was opened with the administrators appointed before.       *)
RolesInit ==
    /\ \E S \in SUBSET Deputies, role \in Roles :
         admins = [a \in S \cup {Chief} |-> IF a = Chief THEN "owner" ELSE role]
    /\ cached = [p \in AdminProcesses |-> NoCache]
    /\ check = [c \in Checks |-> Idle]
    /\ picks = {} /\ invalidates = 0 /\ roleWrites = 0
    /\ gone = [a \in People |-> 0]

KeepTable == UNCHANGED <<admins, roleWrites, gone, invalidates>>

(* Mutant: a cache is good until it is invalidated. *)
MustLoad(p) == ~cached[p].loaded

(* _maybe_reload_admin_cache.                                              *)
MustReload(p) == \/ ~cached[p].loaded
                 \/ cached[p].age > AdminCacheTTL

Asks(c, p, a, purpose) ==
    /\ check[c].pc = "idle"
    /\ check' = [check EXCEPT ![c] =
         [Idle EXCEPT !.pc = IF MustReload(p) THEN "read" ELSE "look",
                      !.in = p, !.of = a, !.for = purpose]]
    /\ UNCHANGED <<cached, picks>> /\ KeepTable

(* require_admin and its kin in the mini app, IsAdmin in the bot.          *)
AsksToEnter(c, p, a) == Asks(c, p, a, "gate")

(* The owner sends an id in one of the three dialogs of the bot, which are *)
(* one state of the conversation: one at a time.                           *)
SendsId(c, a, purpose) ==
    /\ purpose # "gate" /\ \A d \in Checks : check[d].for = "gate"
    /\ Asks(c, "bot", a, purpose)

ReadsAdmins(c) ==
    /\ check[c].pc = "read"
    /\ check' = [check EXCEPT ![c].pc = "store", ![c].rows = DOMAIN admins]
    /\ UNCHANGED <<cached, picks>> /\ KeepTable

StoresCache(c) ==
    /\ check[c].pc = "store"
    /\ cached' = [cached EXCEPT ![check[c].in] =
                    [NoCache EXCEPT !.rows = check[c].rows, !.loaded = TRUE]]
    /\ check' = [check EXCEPT ![c].pc = "look", ![c].rows = {}]
    /\ UNCHANGED <<picks>> /\ KeepTable

(* remove_admin: the owner's row is not deleted.                           *)
RemovesRow(a) ==
    IF a \in DOMAIN admins /\ admins[a] = "owner" THEN UNCHANGED <<admins, gone>>
    ELSE /\ admins' = Restrict(admins, DOMAIN admins \ {a})
         /\ gone' = [gone EXCEPT ![a] = IF a \in DOMAIN admins THEN 1 ELSE @]

Writes == /\ roleWrites < MaxRoleWrites
          /\ roleWrites' = roleWrites + 1
          /\ invalidates' = invalidates + 1

(* Finds None where it has just seen a cache: the check ends in an error.  *)
LooksAtNothing(c) ==
    /\ check[c].pc = "look" /\ ~cached[check[c].in].loaded
    /\ check' = [check EXCEPT ![c] = Idle]
    /\ UNCHANGED <<cached, picks>> /\ KeepTable

Answers(c) ==
    /\ check[c].pc = "look" /\ cached[check[c].in].loaded
    /\ check[c].for = "gate"
    /\ check' = [check EXCEPT ![c] = Idle]
    /\ UNCHANGED <<cached, picks>> /\ KeepTable

(* Mutant: the keyboard is shown for everybody. *)
ShowsRolesAnyway(c) ==
    /\ check[c].pc = "look" /\ cached[check[c].in].loaded
    /\ check[c].for \in {"add", "setrole"}
    /\ picks' = picks \cup {<<check[c].for, check[c].of>>}
    /\ check' = [check EXCEPT ![c] = Idle]
    /\ UNCHANGED <<cached>> /\ KeepTable

(* process_add_admin and process_change_role_id: the keyboard is shown to  *)
(* pick a role for one who is not an administrator, or for one who is and  *)
(* is not the owner.                                                       *)
ShowsRoles(c) ==
    LET a == check[c].of
        isAdmin == a \in cached[check[c].in].rows
        shown == \/ check[c].for = "add" /\ ~isAdmin
                 \/ check[c].for = "setrole" /\ isAdmin /\ a # Chief
    IN  /\ check[c].pc = "look" /\ cached[check[c].in].loaded
        /\ check[c].for \in {"add", "setrole"}
        /\ picks' = IF shown THEN picks \cup {<<check[c].for, a>>} ELSE picks
        /\ check' = [check EXCEPT ![c] = Idle]
        /\ UNCHANGED <<cached>> /\ KeepTable

process_remove_admin(c) ==
    LET a == check[c].of
    IN  /\ check[c].pc = "look" /\ cached[check[c].in].loaded
        /\ check[c].for = "remove"
        /\ IF a \in cached[check[c].in].rows /\ a # Chief
           THEN Writes /\ RemovesRow(a)
           ELSE KeepTable
        /\ check' = [check EXCEPT ![c] = Idle]
        /\ UNCHANGED <<cached, picks>>

(* The button of a keyboard, old or new: add_admin overwrites the row that *)
(* is there, set_admin_role spares the owner and the one who left.         *)
add_admin(a, role) ==
    /\ <<"add", a>> \in picks /\ Writes
    /\ admins' = [b \in DOMAIN admins \cup {a} |-> IF b = a THEN role ELSE admins[b]]
    /\ gone' = [gone EXCEPT ![a] = 0]
    /\ UNCHANGED <<cached, check, picks>>

set_admin_role(a, role) ==
    /\ <<"setrole", a>> \in picks /\ Writes
    /\ admins' = IF a \in DOMAIN admins /\ admins[a] # "owner"
                 THEN [admins EXCEPT ![a] = role] ELSE admins
    /\ UNCHANGED <<cached, check, picks, gone>>

(* _invalidate_admin_cache follows the commit, in the process that wrote.  *)
Invalidates ==
    /\ invalidates > 0
    /\ invalidates' = invalidates - 1
    /\ cached' = [cached EXCEPT !["bot"] = NoCache]
    /\ UNCHANGED <<admins, check, picks, roleWrites, gone>>

Ticks ==
    /\ \A c \in Checks : check[c].pc # "idle" => check[c].age < MaxCheckTime
    /\ check' = [c \in Checks |-> IF check[c].pc = "idle" THEN Idle
                                 ELSE [check[c] EXCEPT !.age = @ + 1]]
    /\ cached' = [p \in AdminProcesses |-> IF cached[p].loaded
                                          THEN [cached[p] EXCEPT !.age = Older(@, Stale)]
                                          ELSE NoCache]
    /\ gone' = [a \in People |-> IF gone[a] = 0 THEN 0 ELSE Older(gone[a], Forgotten + 2)]
    /\ UNCHANGED <<admins, picks, invalidates, roleWrites>>

RolesNext ==
    \/ \E c \in Checks :
          \/ \E p \in AdminProcesses, a \in Deputies : AsksToEnter(c, p, a)
          \/ \E a \in People, purpose \in Purposes : SendsId(c, a, purpose)
          \/ ReadsAdmins(c) \/ StoresCache(c) \/ LooksAtNothing(c)
          \/ Answers(c) \/ ShowsRoles(c) \/ process_remove_admin(c)
    \/ \E a \in People, role \in Roles :
          add_admin(a, role) \/ set_admin_role(a, role)
    \/ Invalidates \/ Ticks

RolesSpec == RolesInit /\ [][RolesNext]_adminVars

(***************************************************************************)
(* The owner stays the owner: no dialog removes him, changes his role or   *)
(* adds him anew with another one, however old the keyboard or the cache   *)
(* the dialog looked at (handlers_admin.py:4091-4225 with the guards of    *)
(* database.py:1207-1234).                                                 *)
(***************************************************************************)
OwnerStays == Chief \in DOMAIN admins /\ admins[Chief] = "owner"

(***************************************************************************)
(* One who has been removed is refused after a bounded time, also by the   *)
(* mini app, whose cache nobody invalidates: at most the TTL of the cache, *)
(* the time a reload begun before the removal may last, and the time of    *)
(* the check itself (database.py:1137-1156).                               *)
(***************************************************************************)
RemovedIsForgotten ==
    \A c \in Checks :
       LET a == check[c].of
       IN  /\ check[c].pc = "look" /\ check[c].for = "gate"
           /\ a \in cached[check[c].in].rows
           => gone[a] <= Forgotten + 1
===============================================================================
