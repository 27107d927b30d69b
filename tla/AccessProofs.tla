----------------------------- MODULE AccessProofs -----------------------------
(***************************************************************************)
(* Who may act: for any number of administrators, accounts, threads,       *)
(* requests and writes, and any life time of the caches, the owner of a    *)
(* bot and of a panel stays the owner, and one who was removed is refused  *)
(* after a bounded time.                                                   *)
(***************************************************************************)
EXTENDS AdminRoles, PanelAccess, TLAPS

(***************************************************************************)
(* The administrators of a bot (AdminRoles).                               *)
(***************************************************************************)
CheckStages == {"idle", "read", "store", "look"}
Task == [pc : CheckStages, in : AdminProcesses, of : People, for : Purposes,
         rows : SUBSET People, age : Nat]

RolesShape == /\ DOMAIN admins \subseteq People
            /\ cached \in [AdminProcesses -> [rows : SUBSET People, age : Nat,
                                              loaded : BOOLEAN]]
            /\ check \in [Checks -> Task]

(***************************************************************************)
(* Whatever a dialog looks at has the owner in it: the table, what a       *)
(* reload has read of it, and the caches.  Hence no keyboard to add the    *)
(* owner anew was ever shown, and an old one cannot change his role.       *)
(***************************************************************************)
SeenInv == /\ \A c \in Checks : check[c].pc = "store" => Chief \in check[c].rows
           /\ \A p \in AdminProcesses : cached[p].loaded => Chief \in cached[p].rows
           /\ <<"add", Chief>> \notin picks

OwnerInv == RolesShape /\ SeenInv /\ OwnerStays

LEMMA IdleShape == /\ Idle \in Task
                   /\ NoCache \in [rows : SUBSET People, age : Nat, loaded : BOOLEAN]
  BY DEF Idle, NoCache, Task, CheckStages, Purposes, AdminProcesses, People

LEMMA OwnerInit == ASSUME RolesInit PROVE OwnerInv
<1>1. RolesShape
  BY IdleShape DEF RolesInit, RolesShape, People
<1>2. SeenInv
  BY DEF RolesInit, SeenInv, Idle, NoCache
<1>3. OwnerStays
  BY DEF RolesInit, OwnerStays
<1>4. QED  BY <1>1, <1>2, <1>3 DEF OwnerInv

(* A check that begins, ends, or goes on without having read anything.     *)
LEMMA CheckStep ==
  ASSUME OwnerInv, NEW c \in Checks, NEW new \in Task,
         check' = [check EXCEPT ![c] = new],
         new.pc = "store" => Chief \in new.rows,
         UNCHANGED <<admins, cached, picks>>
  PROVE  OwnerInv'
<1>1. RolesShape'
  BY DEF OwnerInv, RolesShape
<1>2. \A d \in Checks : check'[d] = IF d = c THEN new ELSE check[d]
  BY DEF OwnerInv, RolesShape
<1>3. SeenInv' /\ OwnerStays'
  BY <1>2 DEF OwnerInv, SeenInv, OwnerStays
<1>4. QED  BY <1>1, <1>3 DEF OwnerInv

LEMMA CheckBegins ==
  ASSUME OwnerInv, NEW c \in Checks,
         \/ \E p \in AdminProcesses, a \in Deputies : AsksToEnter(c, p, a)
         \/ \E a \in People, purpose \in Purposes : SendsId(c, a, purpose)
  PROVE  OwnerInv'
<1>1. PICK p \in AdminProcesses, a \in People, purpose \in Purposes : Asks(c, p, a, purpose)
  BY DEF AsksToEnter, SendsId, People, AdminProcesses, Purposes
<1> DEFINE at == IF MustReload(p) THEN "read" ELSE "look"
           new == [Idle EXCEPT !.pc = at, !.in = p, !.of = a, !.for = purpose]
<1>2. new \in Task /\ new.pc # "store"
  <2>1. at \in CheckStages /\ at # "store"
    BY DEF CheckStages
  <2>2. QED  BY <1>1, <2>1, IdleShape DEF Task, Idle
<1>3. check' = [check EXCEPT ![c] = new] /\ UNCHANGED <<admins, cached, picks>>
  BY <1>1 DEF Asks, KeepTable
<1> HIDE DEF new
<1>4. QED  BY <1>2, <1>3, CheckStep

LEMMA ReadStep ==
  ASSUME OwnerInv, NEW c \in Checks, ReadsAdmins(c)
  PROVE  OwnerInv'
<1> DEFINE new == [check[c] EXCEPT !.pc = "store", !.rows = DOMAIN admins]
<1>1. new \in Task /\ Chief \in new.rows
  BY DEF OwnerInv, RolesShape, Task, CheckStages, OwnerStays
<1>2. check' = [check EXCEPT ![c] = new] /\ UNCHANGED <<admins, cached, picks>>
  BY DEF ReadsAdmins, KeepTable, OwnerInv, RolesShape, Task
<1> HIDE DEF new
<1>3. QED  BY <1>1, <1>2, CheckStep

LEMMA ReloadStep ==
  ASSUME OwnerInv, NEW c \in Checks, StoresCache(c)
  PROVE  OwnerInv'
<1> DEFINE p == check[c].in
           copy == [NoCache EXCEPT !.rows = check[c].rows, !.loaded = TRUE]
           new == [check[c] EXCEPT !.pc = "look", !.rows = {}]
<1>1. p \in AdminProcesses /\ check[c].rows \subseteq People /\ Chief \in check[c].rows
  BY DEF StoresCache, OwnerInv, RolesShape, SeenInv, Task
<1>2. /\ copy \in [rows : SUBSET People, age : Nat, loaded : BOOLEAN]
      /\ Chief \in copy.rows
  BY <1>1, IdleShape DEF NoCache
<1>3. new \in Task /\ new.pc = "look"
  BY DEF OwnerInv, RolesShape, Task, CheckStages
<1>4. cached' = [cached EXCEPT ![p] = copy] /\ UNCHANGED <<admins, picks>>
  BY DEF StoresCache, KeepTable
<1>5. check' = [check EXCEPT ![c] = new]
  BY DEF StoresCache, OwnerInv, RolesShape, Task
<1> HIDE DEF p, copy, new
<1>6. RolesShape'
  BY <1>2, <1>3, <1>4, <1>5 DEF OwnerInv, RolesShape
<1>7. SeenInv'
  BY <1>2, <1>3, <1>4, <1>5 DEF OwnerInv, RolesShape, SeenInv
<1>8. OwnerStays'
  BY <1>4 DEF OwnerInv, OwnerStays
<1>9. QED  BY <1>6, <1>7, <1>8 DEF OwnerInv

LEMMA CheckEnds ==
  ASSUME OwnerInv, NEW c \in Checks, LooksAtNothing(c) \/ Answers(c)
  PROVE  OwnerInv'
<1>1. check' = [check EXCEPT ![c] = Idle] /\ UNCHANGED <<admins, cached, picks>>
  BY DEF LooksAtNothing, Answers, KeepTable
<1>2. Idle.pc # "store"
  BY DEF Idle
<1>3. QED  BY <1>1, <1>2, IdleShape, CheckStep

(* A check that ends while the table or the keyboards change.              *)
LEMMA EndedCheck ==
  ASSUME OwnerInv, NEW c \in Checks, check' = [check EXCEPT ![c] = Idle]
  PROVE  /\ check' \in [Checks -> Task]
         /\ \A d \in Checks : check'[d].pc = "store" => Chief \in check'[d].rows
<1>1. Idle.pc # "store"
  BY DEF Idle
<1>2. \A d \in Checks : check'[d] = IF d = c THEN Idle ELSE check[d]
  BY DEF OwnerInv, RolesShape
<1>3. QED  BY <1>1, <1>2, IdleShape DEF OwnerInv, RolesShape, SeenInv

LEMMA ShowStep ==
  ASSUME OwnerInv, NEW c \in Checks, ShowsRoles(c)
  PROVE  OwnerInv'
<1>1. /\ check' = [check EXCEPT ![c] = Idle]
      /\ UNCHANGED <<admins, cached>>
      /\ cached[check[c].in].loaded /\ check[c].in \in AdminProcesses
  BY DEF ShowsRoles, KeepTable, OwnerInv, RolesShape, Task
<1>2. Chief \in cached[check[c].in].rows
  BY <1>1 DEF OwnerInv, SeenInv
<1>3. <<"add", Chief>> \notin picks'
  <2>1. \A a : a = check[c].of /\ check[c].for = "add" /\ a = Chief
               => picks' = picks
    BY <1>2 DEF ShowsRoles
  <2>2. picks' = picks \/ picks' = picks \cup {<<check[c].for, check[c].of>>}
    BY DEF ShowsRoles
  <2>3. <<"add", Chief>> \notin picks
    BY DEF OwnerInv, SeenInv
  <2>4. QED  BY <2>1, <2>2, <2>3
<1>4. RolesShape' /\ SeenInv' /\ OwnerStays'
  BY <1>1, <1>3, EndedCheck DEF OwnerInv, RolesShape, SeenInv, OwnerStays
<1>5. QED  BY <1>4 DEF OwnerInv

LEMMA RemoveStep ==
  ASSUME OwnerInv, NEW c \in Checks, process_remove_admin(c)
  PROVE  OwnerInv'
<1>1. /\ check' = [check EXCEPT ![c] = Idle]
      /\ UNCHANGED <<cached, picks>>
  BY DEF process_remove_admin
<1>2. /\ DOMAIN admins' \subseteq DOMAIN admins
      /\ Chief \in DOMAIN admins' /\ admins'[Chief] = "owner"
  <2>1. CASE UNCHANGED admins
    BY <2>1 DEF OwnerInv, OwnerStays
  <2>2. CASE admins' = Restrict(admins, DOMAIN admins \ {check[c].of}) /\ check[c].of # Chief
    BY <2>2 DEF OwnerInv, OwnerStays, Restrict
  <2>3. QED  BY <2>1, <2>2 DEF process_remove_admin, RemovesRow, KeepTable
<1>3. RolesShape' /\ SeenInv' /\ OwnerStays'
  BY <1>1, <1>2, EndedCheck DEF OwnerInv, RolesShape, SeenInv, OwnerStays
<1>4. QED  BY <1>3 DEF OwnerInv

(* The buttons of the keyboards, and what does not touch the table.        *)
LEMMA ButtonStep ==
  ASSUME OwnerInv, NEW a \in People, NEW role \in Roles,
         add_admin(a, role) \/ set_admin_role(a, role)
  PROVE  OwnerInv'
<1>1. UNCHANGED <<cached, check, picks>>
  BY DEF add_admin, set_admin_role
<1>2. /\ DOMAIN admins' \subseteq DOMAIN admins \cup {a}
      /\ Chief \in DOMAIN admins' /\ admins'[Chief] = "owner"
  <2>1. CASE add_admin(a, role)
    <3>1. a # Chief
      BY <2>1 DEF add_admin, OwnerInv, SeenInv
    <3>2. QED  BY <2>1, <3>1 DEF add_admin, OwnerInv, OwnerStays
  <2>2. CASE set_admin_role(a, role)
    BY <2>2 DEF set_admin_role, OwnerInv, OwnerStays
  <2>3. QED  BY <2>1, <2>2
<1>3. RolesShape' /\ SeenInv' /\ OwnerStays'
  BY <1>1, <1>2 DEF OwnerInv, RolesShape, SeenInv, OwnerStays
<1>4. QED  BY <1>3 DEF OwnerInv

LEMMA InvalidateStep ==
  ASSUME OwnerInv, Invalidates
  PROVE  OwnerInv'
<1>1. cached' = [cached EXCEPT !["bot"] = NoCache] /\ UNCHANGED <<admins, check, picks>>
  BY DEF Invalidates
<1>2. \A p \in AdminProcesses : cached'[p] = IF p = "bot" THEN NoCache ELSE cached[p]
  BY <1>1 DEF OwnerInv, RolesShape
<1>3. RolesShape'
  BY <1>1, IdleShape DEF OwnerInv, RolesShape
<1>4. SeenInv' /\ OwnerStays'
  BY <1>1, <1>2 DEF OwnerInv, SeenInv, OwnerStays, NoCache
<1>5. QED  BY <1>3, <1>4 DEF OwnerInv

LEMMA TickStep ==
  ASSUME OwnerInv, Ticks
  PROVE  OwnerInv'
<1>1. \A c \in Checks : /\ check'[c] \in Task
                        /\ check'[c].pc = "store" => Chief \in check'[c].rows
  <2> SUFFICES ASSUME NEW c \in Checks
               PROVE  check'[c] \in Task /\ (check'[c].pc = "store" => Chief \in check'[c].rows)
    OBVIOUS
  <2>1. CASE check[c].pc = "idle"
    BY <2>1, IdleShape DEF Ticks, Idle
  <2>2. CASE check[c].pc # "idle"
    <3>1. check[c] \in Task /\ (check[c].pc = "store" => Chief \in check[c].rows)
      BY DEF OwnerInv, RolesShape, SeenInv
    <3>2. check'[c] = [check[c] EXCEPT !.age = @ + 1]
      BY <2>2 DEF Ticks
    <3>3. QED  BY <3>1, <3>2 DEF Task
  <2>3. QED  BY <2>1, <2>2
<1>2. \A p \in AdminProcesses :
        /\ cached'[p] \in [rows : SUBSET People, age : Nat, loaded : BOOLEAN]
        /\ cached'[p].loaded => Chief \in cached'[p].rows
  <2> SUFFICES ASSUME NEW p \in AdminProcesses
               PROVE  /\ cached'[p] \in [rows : SUBSET People, age : Nat, loaded : BOOLEAN]
                      /\ cached'[p].loaded => Chief \in cached'[p].rows
    OBVIOUS
  <2>1. CASE ~cached[p].loaded
    BY <2>1, IdleShape DEF Ticks, NoCache
  <2>2. CASE cached[p].loaded
    <3>1. /\ cached[p] \in [rows : SUBSET People, age : Nat, loaded : BOOLEAN]
          /\ Chief \in cached[p].rows
      BY <2>2 DEF OwnerInv, RolesShape, SeenInv
    <3>2. cached'[p] = [cached[p] EXCEPT !.age = Older(@, Stale)]
      BY <2>2 DEF Ticks
    <3>3. Older(cached[p].age, Stale) \in Nat
      BY <3>1 DEF Older
    <3>4. QED  BY <3>1, <3>2, <3>3
  <2>3. QED  BY <2>1, <2>2
<1>3. RolesShape'
  BY <1>1, <1>2 DEF OwnerInv, RolesShape, Ticks
<1>4. SeenInv' /\ OwnerStays'
  BY <1>1, <1>2 DEF OwnerInv, SeenInv, OwnerStays, Ticks
<1>5. QED  BY <1>3, <1>4 DEF OwnerInv

LEMMA OwnerNext ==
  ASSUME OwnerInv, [RolesNext]_adminVars
  PROVE  OwnerInv'
<1>1. CASE UNCHANGED adminVars
  BY <1>1 DEF adminVars, OwnerInv, RolesShape, SeenInv, OwnerStays
<1>2. CASE RolesNext
  BY <1>2, CheckBegins, ReadStep, ReloadStep, CheckEnds, ShowStep, RemoveStep,
     ButtonStep, InvalidateStep, TickStep DEF RolesNext
<1>3. QED  BY <1>1, <1>2

(***************************************************************************)
(* No dialog removes the owner or changes his role, however old its        *)
(* keyboard or cache (handlers_admin.py:4091-4225, database.py:1207-1234). *)
(***************************************************************************)
THEOREM ChiefStays == RolesSpec => []OwnerStays
<1>1. RolesInit => OwnerInv
  BY OwnerInit
<1>2. OwnerInv /\ [RolesNext]_adminVars => OwnerInv'
  BY OwnerNext
<1>3. OwnerInv => OwnerStays
  BY DEF OwnerInv
<1>4. QED  BY <1>1, <1>2, <1>3, PTL DEF RolesSpec

(***************************************************************************)
(* How long one who was removed is remembered.  A reload that has read his *)
(* row began before he left; a cache that is not stale was read at most    *)
(* its age ago; a check that looks at a cache began when it was not stale, *)
(* or loaded it.                                                           *)
(***************************************************************************)
LeftInv == /\ gone \in [People -> Nat]
           /\ \A c \in Checks : check[c].age <= MaxCheckTime
           /\ \A a \in DOMAIN admins : gone[a] = 0
           /\ \A p \in AdminProcesses : cached[p].loaded \/ cached[p].rows = {}
ReadInv == \A c \in Checks : check[c].pc = "store" =>
             \A a \in check[c].rows : gone[a] <= check[c].age + 1
CopyInv == \A p \in AdminProcesses :
             cached[p].loaded /\ cached[p].age <= AdminCacheTTL =>
                \A a \in cached[p].rows : gone[a] <= MaxCheckTime + 1 + cached[p].age
LookInv == \A c \in Checks :
             check[c].pc = "look" /\ cached[check[c].in].loaded =>
                \A a \in cached[check[c].in].rows :
                   gone[a] <= AdminCacheTTL + MaxCheckTime + 1 + check[c].age
AgeInv == LeftInv /\ ReadInv /\ CopyInv /\ LookInv

LEMMA AgeInit == ASSUME RolesInit PROVE AgeInv
  BY RolesAssumption
  DEF RolesInit, AgeInv, LeftInv, ReadInv, CopyInv, LookInv, NoCache, Idle, People

(* Nobody leaves, and a check begins or ends without a look.               *)
LEMMA AgeBegins ==
  ASSUME OwnerInv, AgeInv, NEW c \in Checks, NEW new \in Task,
         check' = [check EXCEPT ![c] = new], UNCHANGED <<admins, cached, gone>>,
         new.age <= MaxCheckTime,
         new.pc = "store" => \A a \in new.rows : gone[a] <= new.age + 1,
         new.pc = "look" /\ cached[new.in].loaded =>
            cached[new.in].age <= AdminCacheTTL
  PROVE  AgeInv'
<1>1. \A d \in Checks : check'[d] = IF d = c THEN new ELSE check[d]
  BY DEF OwnerInv, RolesShape
<1>2. LeftInv' /\ ReadInv' /\ CopyInv'
  BY <1>1 DEF AgeInv, LeftInv, ReadInv, CopyInv
<1>3. LookInv'
  <2> SUFFICES ASSUME NEW d \in Checks, check'[d].pc = "look",
                      cached[check'[d].in].loaded,
                      NEW a \in cached[check'[d].in].rows
               PROVE  gone[a] <= AdminCacheTTL + MaxCheckTime + 1 + check'[d].age
    BY DEF LookInv
  <2>1. CASE d # c
    BY <1>1, <2>1 DEF AgeInv, LookInv
  <2>2. CASE d = c
    <3>1. check'[d] = new /\ new.in \in AdminProcesses /\ new.age \in Nat
      BY <1>1, <2>2 DEF Task
    <3>2. cached[new.in].age <= AdminCacheTTL /\ cached[new.in].age \in Nat
      BY <3>1 DEF OwnerInv, RolesShape
    <3>3. a \in People
      BY <3>1 DEF OwnerInv, RolesShape
    <3>4. gone[a] <= MaxCheckTime + 1 + cached[new.in].age /\ gone[a] \in Nat
      BY <3>1, <3>2, <3>3 DEF AgeInv, CopyInv, LeftInv
    <3>5. QED  BY <3>1, <3>2, <3>4, RolesAssumption
  <2>3. QED  BY <2>1, <2>2
<1>4. QED  BY <1>2, <1>3 DEF AgeInv

LEMMA AgeAsks ==
  ASSUME OwnerInv, AgeInv, NEW c \in Checks,
         \/ \E p \in AdminProcesses, a \in Deputies : AsksToEnter(c, p, a)
         \/ \E a \in People, purpose \in Purposes : SendsId(c, a, purpose)
  PROVE  AgeInv'
<1>1. PICK p \in AdminProcesses, a \in People, purpose \in Purposes : Asks(c, p, a, purpose)
  BY DEF AsksToEnter, SendsId, People, AdminProcesses, Purposes
<1> DEFINE at == IF MustReload(p) THEN "read" ELSE "look"
           new == [Idle EXCEPT !.pc = at, !.in = p, !.of = a, !.for = purpose]
<1>2. /\ new \in Task /\ new.pc = at /\ new.pc # "store"
      /\ new.in = p /\ new.age = 0
  <2>1. at \in CheckStages /\ at # "store"
    BY DEF CheckStages
  <2>2. QED  BY <1>1, <2>1, IdleShape DEF Task, Idle
<1>3. check' = [check EXCEPT ![c] = new] /\ UNCHANGED <<admins, cached, gone>>
  BY <1>1 DEF Asks, KeepTable
<1>4. new.pc = "look" /\ cached[p].loaded => cached[p].age <= AdminCacheTTL
  <2>1. cached[p].age \in Nat
    BY DEF OwnerInv, RolesShape
  <2>2. QED  BY <1>2, <2>1, RolesAssumption DEF MustReload
<1> HIDE DEF new, at
<1>5. new.age <= MaxCheckTime
  BY <1>2, RolesAssumption
<1>6. new.pc = "look" /\ cached[new.in].loaded => cached[new.in].age <= AdminCacheTTL
  BY <1>2, <1>4
<1>7. QED  BY <1>2, <1>3, <1>5, <1>6, AgeBegins

LEMMA AgeReads ==
  ASSUME OwnerInv, AgeInv, NEW c \in Checks, ReadsAdmins(c)
  PROVE  AgeInv'
<1> DEFINE new == [check[c] EXCEPT !.pc = "store", !.rows = DOMAIN admins]
<1>1. /\ new \in Task /\ new.pc = "store" /\ new.rows = DOMAIN admins
      /\ new.age = check[c].age /\ new.age \in Nat
  BY DEF OwnerInv, RolesShape, Task, CheckStages
<1>2. check' = [check EXCEPT ![c] = new] /\ UNCHANGED <<admins, cached, gone>>
  BY DEF ReadsAdmins, KeepTable, OwnerInv, RolesShape, Task
<1>3. new.age <= MaxCheckTime /\ \A a \in new.rows : gone[a] <= new.age + 1
  BY <1>1 DEF AgeInv, LeftInv
<1> HIDE DEF new
<1>4. QED  BY <1>1, <1>2, <1>3, AgeBegins

LEMMA AgeStores ==
  ASSUME OwnerInv, AgeInv, NEW c \in Checks, StoresCache(c)
  PROVE  AgeInv'
<1> DEFINE p == check[c].in
<1>1. /\ p \in AdminProcesses /\ check[c].rows \subseteq People
      /\ check[c].age \in Nat /\ check[c].age <= MaxCheckTime
      /\ \A a \in check[c].rows : gone[a] <= check[c].age + 1
  BY DEF StoresCache, OwnerInv, RolesShape, Task, AgeInv, LeftInv, ReadInv
<1>2. \A q \in AdminProcesses :
         /\ q # p => cached'[q] = cached[q]
         /\ q = p => /\ cached'[q].rows = check[c].rows /\ cached'[q].age = 0
                     /\ cached'[q].loaded
  <2> DEFINE copy == [NoCache EXCEPT !.rows = check[c].rows, !.loaded = TRUE]
  <2>1. cached' = [cached EXCEPT ![p] = copy]
    BY DEF StoresCache
  <2>2. copy.rows = check[c].rows /\ copy.age = 0 /\ copy.loaded
    BY DEF NoCache
  <2> HIDE DEF p, copy
  <2>3. QED  BY <2>1, <2>2 DEF OwnerInv, RolesShape
<1>3. \A d \in Checks :
         /\ d # c => check'[d] = check[d]
         /\ check'[d].age = check[d].age /\ check'[d].in = check[d].in
         /\ check'[d].pc = IF d = c THEN "look" ELSE check[d].pc
  BY DEF StoresCache, OwnerInv, RolesShape, Task
<1>4. UNCHANGED <<admins, gone>>
  BY DEF StoresCache, KeepTable
<1>5. gone \in [People -> Nat]
  BY DEF AgeInv, LeftInv
<1>6. LeftInv' /\ ReadInv'
  BY <1>2, <1>3, <1>4 DEF AgeInv, LeftInv, ReadInv
<1>7. \A a \in check[c].rows : gone[a] \in Nat /\ gone[a] <= MaxCheckTime + 1
  BY <1>1, <1>5, RolesAssumption
<1>8. CopyInv'
  BY <1>2, <1>4, <1>7, RolesAssumption DEF AgeInv, CopyInv
<1>9. LookInv'
  <2> SUFFICES ASSUME NEW d \in Checks, check'[d].pc = "look",
                      cached'[check'[d].in].loaded,
                      NEW a \in cached'[check'[d].in].rows
               PROVE  gone'[a] <= AdminCacheTTL + MaxCheckTime + 1 + check'[d].age
    BY DEF LookInv
  <2>1. check[d].in \in AdminProcesses /\ check[d].age \in Nat
    BY DEF OwnerInv, RolesShape, Task
  <2>2. CASE check[d].in = p
    <3>1. a \in check[c].rows
      BY <1>2, <1>3, <2>1, <2>2
    <3>2. gone[a] \in Nat /\ gone[a] <= MaxCheckTime + 1
      BY <1>7, <3>1
    <3>3. check'[d].age = check[d].age /\ gone'[a] = gone[a]
      BY <1>3, <1>4
    <3>4. QED  BY <2>1, <3>2, <3>3, RolesAssumption
  <2>3. CASE check[d].in # p
    <3>1. d # c /\ check'[d] = check[d]
      BY <1>3, <2>3
    <3>2. QED  BY <1>2, <1>4, <2>1, <2>3, <3>1 DEF AgeInv, LookInv
  <2>4. QED  BY <2>2, <2>3
<1>10. QED  BY <1>6, <1>8, <1>9 DEF AgeInv

(* A check ends while rows of the table come and go.                       *)
LEMMA AgeEnds ==
  ASSUME OwnerInv, AgeInv, UNCHANGED cached, gone' \in [People -> Nat],
         \A a \in People : gone'[a] <= gone[a] \/ gone'[a] <= 1,
         \A a \in DOMAIN admins' : gone'[a] = 0,
         \A d \in Checks : check'[d] = check[d] \/ check'[d] = Idle
  PROVE  AgeInv'
<1>1. Idle.pc = "idle" /\ Idle.age = 0
  BY DEF Idle
<1>2. /\ \A d \in Checks : check[d] \in Task
      /\ \A p \in AdminProcesses : /\ cached[p].rows \subseteq People
                                   /\ cached[p].age \in Nat
      /\ gone \in [People -> Nat]
  BY DEF OwnerInv, RolesShape, AgeInv, LeftInv
<1>3. LeftInv'
  BY <1>1, RolesAssumption DEF AgeInv, LeftInv
<1>4. ReadInv'
  <2> SUFFICES ASSUME NEW d \in Checks, check'[d].pc = "store",
                      NEW a \in check'[d].rows
               PROVE  gone'[a] <= check'[d].age + 1
    BY DEF ReadInv
  <2>1. check'[d] = check[d] /\ a \in People /\ check[d].age \in Nat
    BY <1>1, <1>2 DEF Task
  <2>2. gone[a] <= check[d].age + 1 /\ gone[a] \in Nat /\ gone'[a] \in Nat
    BY <1>2, <2>1 DEF AgeInv, ReadInv
  <2>3. QED  BY <2>1, <2>2
<1>5. CopyInv'
  <2> SUFFICES ASSUME NEW p \in AdminProcesses, cached[p].loaded,
                      cached[p].age <= AdminCacheTTL, NEW a \in cached[p].rows
               PROVE  gone'[a] <= MaxCheckTime + 1 + cached[p].age
    BY DEF CopyInv
  <2>1. a \in People /\ cached[p].age \in Nat
    BY <1>2
  <2>2. gone[a] <= MaxCheckTime + 1 + cached[p].age /\ gone[a] \in Nat
        /\ gone'[a] \in Nat
    BY <1>2, <2>1 DEF AgeInv, CopyInv
  <2>3. QED  BY <2>1, <2>2, RolesAssumption
<1>6. LookInv'
  <2> SUFFICES ASSUME NEW d \in Checks, check'[d].pc = "look",
                      cached[check'[d].in].loaded,
                      NEW a \in cached[check'[d].in].rows
               PROVE  gone'[a] <= AdminCacheTTL + MaxCheckTime + 1 + check'[d].age
    BY DEF LookInv
  <2>1. check'[d] = check[d] /\ check[d].in \in AdminProcesses /\ check[d].age \in Nat
    BY <1>1, <1>2 DEF Task
  <2>2. a \in People
    BY <1>2, <2>1
  <2>3. gone[a] <= AdminCacheTTL + MaxCheckTime + 1 + check[d].age
        /\ gone[a] \in Nat /\ gone'[a] \in Nat
    BY <1>2, <2>1, <2>2 DEF AgeInv, LookInv
  <2>4. QED  BY <2>1, <2>2, <2>3, RolesAssumption
<1>7. QED  BY <1>3, <1>4, <1>5, <1>6 DEF AgeInv

LEMMA AgeAnswers ==
  ASSUME OwnerInv, AgeInv, NEW c \in Checks,
         LooksAtNothing(c) \/ Answers(c) \/ ShowsRoles(c) \/ process_remove_admin(c)
  PROVE  AgeInv'
<1>1. check' = [check EXCEPT ![c] = Idle] /\ cached' = cached
  BY DEF LooksAtNothing, Answers, ShowsRoles, process_remove_admin, KeepTable
<1>2. \A d \in Checks : check'[d] = check[d] \/ check'[d] = Idle
  BY <1>1 DEF OwnerInv, RolesShape
<1>3. gone \in [People -> Nat] /\ \A a \in DOMAIN admins : gone[a] = 0
  BY DEF AgeInv, LeftInv
<1>4. CASE UNCHANGED <<admins, gone>>
  <2>1. \A a \in People : gone[a] <= gone[a]
    BY <1>3
  <2>2. QED  BY <1>1, <1>2, <1>3, <1>4, <2>1, AgeEnds
<1>5. CASE RemovesRow(check[c].of) /\ ~UNCHANGED <<admins, gone>>
  <2> DEFINE a == check[c].of
  <2>1. /\ admins' = Restrict(admins, DOMAIN admins \ {a})
        /\ gone' = [gone EXCEPT ![a] = IF a \in DOMAIN admins THEN 1 ELSE @]
        /\ a \in People
    BY <1>5 DEF RemovesRow, OwnerInv, RolesShape, Task
  <2>2. gone' \in [People -> Nat] /\ \A b \in People : gone'[b] <= gone[b] \/ gone'[b] <= 1
    BY <1>3, <2>1
  <2>3. DOMAIN admins' = DOMAIN admins \ {a}
    BY <2>1 DEF Restrict
  <2>4. \A b \in DOMAIN admins' : gone'[b] = 0
    BY <1>3, <2>1, <2>3 DEF OwnerInv, RolesShape
  <2>5. QED  BY <1>1, <1>2, <2>2, <2>4, AgeEnds
<1>6. UNCHANGED <<admins, gone>> \/ RemovesRow(check[c].of)
  BY DEF LooksAtNothing, Answers, ShowsRoles, process_remove_admin, KeepTable
<1>7. QED  BY <1>4, <1>5, <1>6

LEMMA AgeButtons ==
  ASSUME OwnerInv, AgeInv, NEW a \in People, NEW role \in Roles,
         add_admin(a, role) \/ set_admin_role(a, role)
  PROVE  AgeInv'
<1>1. cached' = cached /\ check' = check
  BY DEF add_admin, set_admin_role
<1>2. gone \in [People -> Nat] /\ \A b \in DOMAIN admins : gone[b] = 0 /\ b \in People
  BY DEF AgeInv, LeftInv, OwnerInv, RolesShape
<1>3. gone' \in [People -> Nat] /\ \A b \in People : gone'[b] <= gone[b]
  BY <1>2 DEF add_admin, set_admin_role
<1>4. \A b \in DOMAIN admins' : gone'[b] = 0
  <2>1. CASE add_admin(a, role)
    BY <1>2, <2>1 DEF add_admin
  <2>2. CASE set_admin_role(a, role)
    BY <1>2, <2>2 DEF set_admin_role
  <2>3. QED  BY <2>1, <2>2
<1>5. QED  BY <1>1, <1>3, <1>4, AgeEnds

LEMMA AgeInvalidates ==
  ASSUME OwnerInv, AgeInv, Invalidates
  PROVE  AgeInv'
<1>1. /\ UNCHANGED <<admins, check, gone>>
      /\ \A p \in AdminProcesses : cached'[p] = IF p = "bot" THEN NoCache ELSE cached[p]
  BY DEF Invalidates, OwnerInv, RolesShape
<1>2. ~NoCache.loaded /\ NoCache.rows = {}
  BY DEF NoCache
<1>3. LeftInv' /\ ReadInv' /\ CopyInv'
  BY <1>1, <1>2 DEF AgeInv, LeftInv, ReadInv, CopyInv
<1>4. \A c \in Checks : check[c].in \in AdminProcesses
  BY DEF OwnerInv, RolesShape, Task
<1>5. LookInv'
  BY <1>1, <1>2, <1>4 DEF AgeInv, LookInv
<1>6. QED  BY <1>3, <1>5 DEF AgeInv

(* A tick: everything grows older by one, the one who left no faster.      *)
LEMMA AgeTicks ==
  ASSUME OwnerInv, AgeInv, Ticks
  PROVE  AgeInv'
<1>1. gone \in [People -> Nat] /\ UNCHANGED admins
      /\ \A a \in DOMAIN admins : gone[a] = 0 /\ a \in People
  BY DEF AgeInv, LeftInv, OwnerInv, RolesShape, Ticks
<1>2. /\ gone' \in [People -> Nat]
      /\ \A a \in People : /\ gone'[a] <= gone[a] + 1
                           /\ gone[a] = 0 => gone'[a] = 0
  BY <1>1 DEF Ticks, Older
<1>3. \A c \in Checks :
         /\ check[c] \in Task /\ check'[c].age <= MaxCheckTime
         /\ check'[c].pc = check[c].pc
         /\ check[c].pc # "idle" =>
               /\ check'[c].rows = check[c].rows /\ check'[c].in = check[c].in
               /\ check'[c].age = check[c].age + 1
  <2> SUFFICES ASSUME NEW c \in Checks
               PROVE  /\ check[c] \in Task /\ check'[c].age <= MaxCheckTime
                      /\ check'[c].pc = check[c].pc
                      /\ check[c].pc # "idle" =>
                            /\ check'[c].rows = check[c].rows
                            /\ check'[c].in = check[c].in
                            /\ check'[c].age = check[c].age + 1
    OBVIOUS
  <2>1. check[c] \in Task
    BY DEF OwnerInv, RolesShape
  <2>2. CASE check[c].pc = "idle"
    BY <2>1, <2>2, RolesAssumption DEF Ticks, Idle
  <2>3. CASE check[c].pc # "idle"
    <3>1. check'[c] = [check[c] EXCEPT !.age = @ + 1] /\ check[c].age < MaxCheckTime
      BY <2>3 DEF Ticks
    <3>2. QED  BY <2>1, <2>3, <3>1, RolesAssumption DEF Task
  <2>4. QED  BY <2>1, <2>2, <2>3
<1>4. \A p \in AdminProcesses :
         /\ cached[p].rows \subseteq People /\ cached[p].age \in Nat
         /\ cached'[p].loaded \/ cached'[p].rows = {}
         /\ cached'[p].loaded => /\ cached[p].loaded /\ cached'[p].rows = cached[p].rows
                                 /\ cached'[p].age = Older(cached[p].age, Stale)
  <2> SUFFICES ASSUME NEW p \in AdminProcesses
               PROVE  /\ cached[p].rows \subseteq People /\ cached[p].age \in Nat
                      /\ cached'[p].loaded \/ cached'[p].rows = {}
                      /\ cached'[p].loaded =>
                            /\ cached[p].loaded /\ cached'[p].rows = cached[p].rows
                            /\ cached'[p].age = Older(cached[p].age, Stale)
    OBVIOUS
  <2>1. cached[p] \in [rows : SUBSET People, age : Nat, loaded : BOOLEAN]
    BY DEF OwnerInv, RolesShape
  <2>2. cached'[p] = IF cached[p].loaded
                     THEN [cached[p] EXCEPT !.age = Older(@, Stale)] ELSE NoCache
    BY DEF Ticks
  <2>3. QED  BY <2>1, <2>2 DEF NoCache
<1>5. LeftInv'
  BY <1>1, <1>2, <1>3, <1>4 DEF LeftInv
<1>6. ReadInv'
  <2> SUFFICES ASSUME NEW c \in Checks, check'[c].pc = "store", NEW a \in check'[c].rows
               PROVE  gone'[a] <= check'[c].age + 1
    BY DEF ReadInv
  <2>1. /\ check[c].pc = "store" /\ a \in check[c].rows /\ a \in People
        /\ check'[c].age = check[c].age + 1 /\ check[c].age \in Nat
    BY <1>3 DEF Task
  <2>2. gone[a] <= check[c].age + 1 /\ gone[a] \in Nat /\ gone'[a] \in Nat
    BY <1>1, <1>2, <2>1 DEF AgeInv, ReadInv
  <2>3. gone'[a] <= gone[a] + 1
    BY <1>2, <2>1
  <2>4. QED  BY <2>1, <2>2, <2>3
<1>7. CopyInv'
  <2> SUFFICES ASSUME NEW p \in AdminProcesses, cached'[p].loaded,
                      cached'[p].age <= AdminCacheTTL, NEW a \in cached'[p].rows
               PROVE  gone'[a] <= MaxCheckTime + 1 + cached'[p].age
    BY DEF CopyInv
  <2>1. cached[p].loaded /\ a \in cached[p].rows /\ a \in People
        /\ cached[p].age \in Nat
    BY <1>4
  <2>2. cached'[p].age = cached[p].age + 1 /\ cached[p].age <= AdminCacheTTL
    BY <1>4, <2>1, RolesAssumption DEF Older, Stale
  <2>3. gone[a] <= MaxCheckTime + 1 + cached[p].age /\ gone[a] \in Nat
        /\ gone'[a] \in Nat
    BY <1>1, <1>2, <2>1, <2>2 DEF AgeInv, CopyInv
  <2>4. gone'[a] <= gone[a] + 1
    BY <1>2, <2>1
  <2>5. QED  BY <2>1, <2>2, <2>3, <2>4, RolesAssumption
<1>8. LookInv'
  <2> SUFFICES ASSUME NEW c \in Checks, check'[c].pc = "look",
                      cached'[check'[c].in].loaded,
                      NEW a \in cached'[check'[c].in].rows
               PROVE  gone'[a] <= AdminCacheTTL + MaxCheckTime + 1 + check'[c].age
    BY DEF LookInv
  <2>1. /\ check[c].pc = "look" /\ check'[c].in = check[c].in
        /\ check'[c].age = check[c].age + 1 /\ check[c].age \in Nat
        /\ check[c].in \in AdminProcesses
    BY <1>3 DEF Task
  <2>2. /\ cached[check[c].in].loaded /\ a \in cached[check[c].in].rows
        /\ a \in People
    BY <1>4, <2>1
  <2>3. gone[a] <= AdminCacheTTL + MaxCheckTime + 1 + check[c].age
        /\ gone[a] \in Nat /\ gone'[a] \in Nat
    BY <1>1, <1>2, <2>1, <2>2 DEF AgeInv, LookInv
  <2>4. gone'[a] <= gone[a] + 1
    BY <1>2, <2>2
  <2>5. QED  BY <2>1, <2>3, <2>4, RolesAssumption
<1>9. QED  BY <1>5, <1>6, <1>7, <1>8 DEF AgeInv

LEMMA AgeNext ==
  ASSUME OwnerInv, AgeInv, [RolesNext]_adminVars
  PROVE  AgeInv'
<1>1. CASE UNCHANGED adminVars
  BY <1>1 DEF adminVars, AgeInv, LeftInv, ReadInv, CopyInv, LookInv
<1>2. CASE RolesNext
  BY <1>2, AgeAsks, AgeReads, AgeStores, AgeAnswers, AgeButtons, AgeInvalidates,
     AgeTicks DEF RolesNext
<1>3. QED  BY <1>1, <1>2

(***************************************************************************)
(* One who was removed is refused within the life time of the cache, the   *)
(* time a reload begun before the removal may take, and that of the check, *)
(* also by the process whose cache nobody invalidates                      *)
(* (database.py:1137-1156).                                                *)
(***************************************************************************)
THEOREM RemovedAreForgotten == RolesSpec => []RemovedIsForgotten
<1>1. RolesInit => OwnerInv /\ AgeInv
  BY OwnerInit, AgeInit
<1>2. OwnerInv /\ AgeInv /\ [RolesNext]_adminVars => OwnerInv' /\ AgeInv'
  BY OwnerNext, AgeNext
<1>3. OwnerInv /\ AgeInv => RemovedIsForgotten
  <2> SUFFICES ASSUME OwnerInv, AgeInv, NEW c \in Checks, check[c].pc = "look",
                      check[c].of \in cached[check[c].in].rows
               PROVE  gone[check[c].of] <= Forgotten + 1
    BY DEF RemovedIsForgotten
  <2>1. check[c].of \in People /\ check[c].in \in AdminProcesses /\ check[c].age \in Nat
    BY DEF OwnerInv, RolesShape, Task
  <2>2. cached[check[c].in].loaded
    BY <2>1 DEF AgeInv, LeftInv
  <2>3. gone[check[c].of] <= AdminCacheTTL + MaxCheckTime + 1 + check[c].age
        /\ check[c].age <= MaxCheckTime /\ gone[check[c].of] \in Nat
    BY <2>1, <2>2 DEF AgeInv, LookInv, LeftInv
  <2>4. QED  BY <2>1, <2>3, RolesAssumption DEF Forgotten
<1>4. QED  BY <1>1, <1>2, <1>3, PTL DEF RolesSpec

(***************************************************************************)
(* What the bounds are on: ages are counted up to their caps, a check is   *)
(* never older than a tick lets it grow, and no more invalidations are due *)
(* than there were writes.                                                 *)
(***************************************************************************)
CapsInv == /\ \A a \in DOMAIN admins : admins[a] \in Roles \cup {"owner"}
           /\ \A p \in AdminProcesses : cached[p].age <= Stale
           /\ \A c \in Checks : check[c].age <= MaxCheckTime
           /\ picks \subseteq {"add", "setrole"} \X People
           /\ invalidates \in Nat /\ invalidates <= roleWrites
           /\ roleWrites \in 0..MaxRoleWrites
           /\ gone \in [People -> 0..Forgotten + 2]

RolesInv == OwnerInv /\ CapsInv

LEMMA CapsAreNumbers == /\ Stale \in Nat /\ Forgotten \in Nat
                        /\ MaxCheckTime \in Nat /\ MaxRoleWrites \in Nat
                        /\ {0, 1} \subseteq 0..Forgotten + 2
  BY RolesAssumption DEF Stale, Forgotten

LEMMA OlderWithinCap ==
  ASSUME NEW cap \in Nat, NEW age \in 0..cap
  PROVE  Older(age, cap) \in 0..cap
  BY DEF Older

LEMMA RolesStart == ASSUME RolesInit PROVE RolesInv
<1>1. PICK S \in SUBSET Deputies, role \in Roles :
         admins = [a \in S \cup {Chief} |-> IF a = Chief THEN "owner" ELSE role]
  BY DEF RolesInit
<1>2. \A a \in DOMAIN admins : admins[a] \in Roles \cup {"owner"}
  BY <1>1
<1>3. /\ \A p \in AdminProcesses : cached[p].age = 0
      /\ \A c \in Checks : check[c].age = 0
  BY DEF RolesInit, NoCache, Idle
<1>4. gone \in [People -> 0..Forgotten + 2]
  BY CapsAreNumbers DEF RolesInit
<1>5. picks = {} /\ invalidates = 0 /\ roleWrites = 0
  BY DEF RolesInit
<1>6. CapsInv
  BY <1>2, <1>3, <1>4, <1>5, CapsAreNumbers DEF CapsInv
<1> QED  BY <1>6, OwnerInit DEF RolesInv

(* The table is written with the roles the owner can give, each write      *)
(* counted before its invalidation is due.                                 *)
LEMMA CapsOfTable ==
  ASSUME OwnerInv, CapsInv, [RolesNext]_adminVars
  PROVE  /\ \A a \in DOMAIN admins' : admins'[a] \in Roles \cup {"owner"}
         /\ invalidates' \in Nat /\ invalidates' <= roleWrites'
         /\ roleWrites' \in 0..MaxRoleWrites
         /\ gone' \in [People -> 0..Forgotten + 2]
<1> USE CapsAreNumbers
<1> DEFINE Rows == \A a \in DOMAIN admins' : admins'[a] \in Roles \cup {"owner"}
           Counts == /\ invalidates' \in Nat /\ invalidates' <= roleWrites'
                     /\ roleWrites' \in 0..MaxRoleWrites
           Left == gone' \in [People -> 0..Forgotten + 2]
<1>1. ASSUME UNCHANGED <<invalidates, roleWrites>> \/ Writes
      PROVE  Counts
  BY <1>1 DEF Writes, CapsInv
<1>2. ASSUME UNCHANGED <<admins, gone>>
      PROVE  Rows /\ Left
  BY <1>2 DEF CapsInv
<1>3. ASSUME UNCHANGED <<admins, gone, invalidates, roleWrites>>
      PROVE  Rows /\ Counts /\ Left
  BY <1>1, <1>2, <1>3
<1>4. ASSUME NEW c \in Checks, process_remove_admin(c)
      PROVE  Rows /\ Counts /\ Left
  <2>1. check[c].of \in People
    BY DEF OwnerInv, RolesShape, Task
  <2>2. CASE UNCHANGED <<admins, gone>> /\ (Writes \/ UNCHANGED <<invalidates, roleWrites>>)
    BY <1>1, <1>2, <2>2
  <2>3. CASE /\ Writes
             /\ admins' = Restrict(admins, DOMAIN admins \ {check[c].of})
             /\ gone' = [gone EXCEPT ![check[c].of] =
                           IF check[c].of \in DOMAIN admins THEN 1
                           ELSE gone[check[c].of]]
    <3>1. Left
      <4>1. gone[check[c].of] \in 0..Forgotten + 2
        BY <2>1 DEF CapsInv
      <4> QED  BY <2>1, <2>3, <4>1 DEF CapsInv
    <3>2. Rows
      BY <2>3 DEF Restrict, CapsInv
    <3> QED  BY <1>1, <2>3, <3>1, <3>2
  <2>4. KeepTable \/ (Writes /\ RemovesRow(check[c].of))
    BY <1>4 DEF process_remove_admin
  <2>5. CASE KeepTable
    BY <2>2, <2>5 DEF KeepTable
  <2>6. CASE Writes /\ RemovesRow(check[c].of)
    BY <2>2, <2>3, <2>6 DEF RemovesRow
  <2> QED  BY <2>4, <2>5, <2>6
<1>5. ASSUME NEW a \in People, NEW role \in Roles, add_admin(a, role) \/ set_admin_role(a, role)
      PROVE  Rows /\ Counts /\ Left
  <2>1. CASE add_admin(a, role)
    <3>1. Rows
      BY <2>1 DEF add_admin, CapsInv
    <3>2. Left
      BY <2>1 DEF add_admin, CapsInv
    <3> QED  BY <1>1, <2>1, <3>1, <3>2 DEF add_admin
  <2>2. CASE set_admin_role(a, role)
    <3>1. Rows
      BY <2>2 DEF set_admin_role, CapsInv
    <3> QED  BY <1>1, <2>2, <3>1 DEF set_admin_role, CapsInv
  <2> QED  BY <1>5, <2>1, <2>2
<1>6. ASSUME Invalidates
      PROVE  Rows /\ Counts /\ Left
  BY <1>2, <1>6 DEF Invalidates, CapsInv
<1>7. ASSUME Ticks
      PROVE  Rows /\ Counts /\ Left
  <2>1. \A a \in People : Older(gone[a], Forgotten + 2) \in 0..Forgotten + 2
    BY OlderWithinCap DEF CapsInv
  <2>2. Left
    BY <1>7, <2>1 DEF Ticks
  <2>3. UNCHANGED <<admins, invalidates, roleWrites>>
    BY <1>7 DEF Ticks
  <2> QED  BY <1>1, <2>2, <2>3 DEF CapsInv
<1> HIDE DEF Rows, Counts, Left
<1>8. Rows /\ Counts /\ Left
  BY <1>3, <1>4, <1>5, <1>6, <1>7
  DEF RolesNext, adminVars, AsksToEnter, SendsId, Asks, ReadsAdmins, StoresCache,
      LooksAtNothing, Answers, ShowsRoles, KeepTable
<1> QED  BY <1>8 DEF Rows, Counts, Left

(* A check begins at age zero, a cache is stored at age zero; only a tick  *)
(* makes them older, and it waits for no check that is at its limit.       *)
LEMMA CapsOfChecks ==
  ASSUME OwnerInv, CapsInv, [RolesNext]_adminVars
  PROVE  /\ \A p \in AdminProcesses : cached'[p].age <= Stale
         /\ \A c \in Checks : check'[c].age <= MaxCheckTime
         /\ picks' \subseteq {"add", "setrole"} \X People
<1> USE CapsAreNumbers
<1> DEFINE Copies == \A p \in AdminProcesses : cached'[p].age <= Stale
           Times == \A c \in Checks : check'[c].age <= MaxCheckTime
<1>0. /\ cached \in [AdminProcesses -> [rows : SUBSET People, age : Nat, loaded : BOOLEAN]]
      /\ check \in [Checks -> Task]
      /\ NoCache.age = 0 /\ Idle.age = 0
  BY DEF OwnerInv, RolesShape, NoCache, Idle
<1>1. ASSUME NEW c \in Checks, NEW new, check' = [check EXCEPT ![c] = new],
             new.age = 0 \/ new.age = check[c].age
      PROVE  Times
  BY <1>0, <1>1 DEF CapsInv
<1>2. CASE Ticks
  <2>1. ASSUME NEW p \in AdminProcesses
        PROVE  cached'[p].age <= Stale
    <3>1. CASE cached[p].loaded
      <4>1. PICK older : older = Older(cached[p].age, Stale)
        OBVIOUS
      <4>2. cached'[p] = [cached[p] EXCEPT !.age = older]
        BY <1>2, <3>1, <4>1 DEF Ticks
      <4>3. cached[p].age \in 0..Stale
        BY <1>0 DEF CapsInv
      <4>4. older \in 0..Stale
        BY <4>1, <4>3, OlderWithinCap
      <4>5. cached'[p].age = older
        BY <1>0, <4>2
      <4> QED  BY <4>4, <4>5
    <3>2. CASE ~cached[p].loaded
      BY <1>0, <1>2, <3>2 DEF Ticks
    <3> QED  BY <3>1, <3>2
  <2>2. ASSUME NEW c \in Checks
        PROVE  check'[c].age <= MaxCheckTime
    <3>1. CASE check[c].pc = "idle"
      BY <1>0, <1>2, <3>1 DEF Ticks
    <3>2. CASE check[c].pc # "idle"
      <4>1. check'[c] = [check[c] EXCEPT !.age = check[c].age + 1]
            /\ check[c].age < MaxCheckTime
        BY <1>2, <3>2 DEF Ticks
      <4>2. check[c].age \in Nat /\ check'[c].age = check[c].age + 1
        BY <1>0, <4>1 DEF Task
      <4> QED  BY <4>1, <4>2
    <3> QED  BY <3>1, <3>2
  <2> QED  BY <1>2, <2>1, <2>2 DEF Ticks, CapsInv
<1>3. Copies
  <2>1. CASE UNCHANGED cached
    BY <2>1 DEF CapsInv
  <2>2. ASSUME NEW c \in Checks, StoresCache(c)
        PROVE  Copies
    <3>1. PICK copy : /\ copy = [NoCache EXCEPT !.rows = check[c].rows, !.loaded = TRUE]
                      /\ cached' = [cached EXCEPT ![check[c].in] = copy]
      BY <2>2 DEF StoresCache
    <3>2. copy.age = 0
      BY <1>0, <3>1 DEF NoCache
    <3> QED  BY <1>0, <3>1, <3>2 DEF CapsInv
  <2>3. CASE Invalidates
    BY <1>0, <2>3 DEF Invalidates, CapsInv
  <2>4. CASE Ticks
    BY <1>2, <2>4
  <2> QED
    BY <2>1, <2>2, <2>3, <2>4
    DEF RolesNext, adminVars, AsksToEnter, SendsId, Asks, ReadsAdmins, LooksAtNothing,
        Answers, ShowsRoles, process_remove_admin, add_admin, set_admin_role
<1>4. Times
  <2>1. CASE UNCHANGED check
    BY <2>1 DEF CapsInv
  <2>2. ASSUME NEW c \in Checks, NEW p \in AdminProcesses, NEW a \in People,
               NEW purpose \in Purposes, Asks(c, p, a, purpose)
        PROVE  Times
    <3>1. PICK pc, new : /\ new = [Idle EXCEPT !.pc = pc, !.in = p, !.of = a,
                                               !.for = purpose]
                         /\ check' = [check EXCEPT ![c] = new]
      BY <2>2 DEF Asks
    <3>2. new.age = 0
      BY <3>1 DEF Idle
    <3> QED  BY <1>1, <3>1, <3>2
  <2>3. ASSUME NEW c \in Checks, ReadsAdmins(c) \/ StoresCache(c)
        PROVE  Times
    <3>0. check[c] \in Task
      BY <1>0
    <3>1. PICK pc, rows, new : /\ new = [check[c] EXCEPT !.pc = pc, !.rows = rows]
                               /\ check' = [check EXCEPT ![c] = new]
      <4>1. CASE ReadsAdmins(c)
        <5>1. PICK new : new = [check[c] EXCEPT !.pc = "store", !.rows = DOMAIN admins]
          OBVIOUS
        <5>2. check' = [check EXCEPT ![c] = new]
          BY <1>0, <3>0, <4>1, <5>1 DEF ReadsAdmins, Task
        <5> QED  BY <5>1, <5>2
      <4>2. CASE StoresCache(c)
        <5>1. PICK new : new = [check[c] EXCEPT !.pc = "look", !.rows = {}]
          OBVIOUS
        <5>2. check' = [check EXCEPT ![c] = new]
          BY <1>0, <3>0, <4>2, <5>1 DEF StoresCache, Task
        <5> QED  BY <5>1, <5>2
      <4> QED  BY <2>3, <4>1, <4>2
    <3>2. new.age = check[c].age
      BY <1>0, <3>1 DEF Task
    <3> QED  BY <1>1, <3>1, <3>2
  <2>4. ASSUME NEW c \in Checks, check' = [check EXCEPT ![c] = Idle]
        PROVE  Times
    BY <1>0, <1>1, <2>4
  <2>5. CASE Ticks
    BY <1>2, <2>5
  <2>6. Deputies \subseteq People /\ "bot" \in AdminProcesses /\ "gate" \in Purposes
    BY DEF People, AdminProcesses, Purposes
  <2> HIDE DEF Times
  <2> QED
    BY <2>1, <2>2, <2>3, <2>4, <2>5, <2>6
    DEF RolesNext, adminVars, AsksToEnter, SendsId, LooksAtNothing, Answers, ShowsRoles,
        process_remove_admin, add_admin, set_admin_role, Invalidates
<1>5. picks' \subseteq {"add", "setrole"} \X People
  <2>1. ASSUME NEW c \in Checks, ShowsRoles(c)
        PROVE  picks' \subseteq {"add", "setrole"} \X People
    <3>1. check[c].of \in People /\ check[c].for \in {"add", "setrole"}
      BY <1>0, <2>1 DEF ShowsRoles, Task
    <3>2. picks' \in {picks, picks \cup {<<check[c].for, check[c].of>>}}
      BY <2>1 DEF ShowsRoles
    <3> QED  BY <3>1, <3>2 DEF CapsInv
  <2>2. CASE UNCHANGED picks
    BY <2>2 DEF CapsInv
  <2> QED
    BY <2>1, <2>2
    DEF RolesNext, adminVars, AsksToEnter, SendsId, Asks, ReadsAdmins, StoresCache,
        LooksAtNothing, Answers, process_remove_admin, add_admin, set_admin_role,
        Invalidates, Ticks
<1> HIDE DEF Copies, Times
<1>6. Copies /\ Times
  BY <1>3, <1>4
<1> QED  BY <1>5, <1>6 DEF Copies, Times

LEMMA RolesTypeStep ==
  ASSUME RolesInv, [RolesNext]_adminVars
  PROVE  RolesInv'
<1>1. OwnerInv /\ CapsInv
  BY DEF RolesInv
<1>2. CapsInv'
  BY <1>1, CapsOfTable, CapsOfChecks DEF CapsInv
<1> QED  BY <1>1, <1>2, OwnerNext DEF RolesInv

LEMMA RolesAreTyped == ASSUME RolesInv PROVE RolesTypeOK
<1>1. RolesShape /\ CapsInv
  BY DEF RolesInv, OwnerInv
<1>2. cached \in [AdminProcesses -> [rows : SUBSET People, age : 0..Stale,
                                     loaded : BOOLEAN]]
  BY <1>1, CapsAreNumbers DEF RolesShape, CapsInv
<1>3. check \in [Checks -> [pc : {"idle", "read", "store", "look"},
                            in : AdminProcesses, of : People, for : Purposes,
                            rows : SUBSET People, age : 0..MaxCheckTime]]
  BY <1>1, CapsAreNumbers DEF RolesShape, CapsInv, Task, CheckStages
<1>4. invalidates \in 0..MaxRoleWrites
  BY <1>1, CapsAreNumbers DEF CapsInv
<1> QED  BY <1>1, <1>2, <1>3, <1>4 DEF RolesTypeOK, RolesShape, CapsInv

(***************************************************************************)
(* The table, the caches, the checks and the keyboards stay of their       *)
(* types, and what is counted within its bounds.                           *)
(***************************************************************************)
THEOREM RolesTyped == RolesSpec => []RolesTypeOK
<1>1. RolesInit => RolesInv
  BY RolesStart
<1>2. RolesInv /\ [RolesNext]_adminVars => RolesInv'
  BY RolesTypeStep
<1>3. RolesInv => RolesTypeOK
  BY RolesAreTyped
<1> QED  BY <1>1, <1>2, <1>3, PTL DEF RolesSpec

(***************************************************************************)
(* The accounts of the web panel (PanelAccess).                            *)
(***************************************************************************)
(* The account a request just made has an id that was given.               *)
MadeInv == \A r \in Requests : request[r].pc = "consume" => request[r].by \in 1..lastId

(***************************************************************************)
(* A request that opened its link when there was an owner still finds one  *)
(* when it counts, for owners are never removed; so it never gets as far   *)
(* as making another.                                                      *)
(***************************************************************************)
LateInv == \A r \in Requests : /\ request[r].pc = "count" /\ request[r].late => Owners # {}
                               /\ request[r].pc = "create" => ~request[r].late

AccessInv == AccessTypeOK /\ MadeInv /\ LateInv /\ FoundersStay

LEMMA AccessInitInv == ASSUME AccessInit PROVE AccessInv
  BY AccessAssumption
  DEF AccessInit, AccessInv, AccessTypeOK, MadeInv, LateInv, FoundersStay, NoRequest, Served

(* Where the accounts stay, the invariant depends on the requests alone.   *)
LEMMA AccountsKept ==
  ASSUME AccessInv, KeepAccounts,
         \A r \in Requests :
           \/ request'[r] = request[r]
           \/ /\ request'[r].pc # "consume" /\ request'[r].pc # "create"
              /\ request'[r].pc = "count" /\ request'[r].late => Owners # {}
  PROVE  MadeInv' /\ LateInv' /\ FoundersStay'
  BY DEF AccessInv, KeepAccounts, MadeInv, LateInv, FoundersStay, Owners

(***************************************************************************)
(* The main bot, sign-in and push messages leave accounts and requests as  *)
(* they are.                                                               *)
(***************************************************************************)
LEMMA OutsideStep ==
  ASSUME AccessInv,
         \/ enable_reseller_web_panel \/ regenerate_reseller_web_panel_token
         \/ disable_reseller_web_panel
         \/ \E a \in 1..MaxAccounts : SignsIn(a) \/ LogsOut(a) \/ Subscribes(a) \/ Unsubscribes(a)
  PROVE  AccessInv'
<1>1. KeepAccounts /\ UNCHANGED request
  BY DEF enable_reseller_web_panel, regenerate_reseller_web_panel_token,
         disable_reseller_web_panel, SignsIn, LogsOut, Subscribes, Unsubscribes
<1>2. MadeInv' /\ LateInv' /\ FoundersStay'
  BY <1>1, AccountsKept
<1>3. AccessTypeOK'
  <2>1. panel' \in [on : BOOLEAN, token : 0..MaxLinks, links : 0..MaxLinks]
    <3>1. panel \in [on : BOOLEAN, token : 0..MaxLinks, links : 0..MaxLinks]
      BY DEF AccessInv, AccessTypeOK
    <3>2. NewLink => panel.links + 1 \in 0..MaxLinks
      BY <3>1, AccessAssumption DEF NewLink
    <3>3. CASE enable_reseller_web_panel
      BY <3>1, <3>2, <3>3 DEF enable_reseller_web_panel
    <3>4. CASE regenerate_reseller_web_panel_token
      BY <3>1, <3>2, <3>4 DEF regenerate_reseller_web_panel_token
    <3>5. CASE disable_reseller_web_panel
      <4>1. 0 \in 0..MaxLinks
        BY AccessAssumption
      <4>2. panel' = [panel EXCEPT !.on = FALSE, !.token = 0]
        BY <3>5 DEF disable_reseller_web_panel
      <4>3. QED  BY <3>1, <4>1, <4>2
    <3>6. QED
      BY <3>1, <3>3, <3>4, <3>5 DEF SignsIn, LogsOut, Subscribes, Unsubscribes
  <2>2. sessions' \subseteq 1..lastId /\ pushTo' \subseteq 1..lastId
    BY DEF AccessInv, AccessTypeOK, enable_reseller_web_panel, Entitled,
           regenerate_reseller_web_panel_token, disable_reseller_web_panel,
           SignsIn, LogsOut, Subscribes, Unsubscribes
  <2>3. QED  BY <1>1, <2>1, <2>2 DEF AccessInv, AccessTypeOK, KeepAccounts
<1>4. QED  BY <1>2, <1>3 DEF AccessInv

(* The requests that leave the accounts as they are.                       *)
LEMMA ReadingStep ==
  ASSUME AccessInv, NEW r \in Requests,
         \/ \E link \in 1..MaxLinks : OpensLink(r, link)
         \/ CountsAccounts(r)
         \/ \E a, t \in 1..MaxAccounts, deed \in Deeds : OwnerAsks(r, a, deed, t)
  PROVE  AccessInv'
<1>1. AccessTypeOK'
  <2>1. /\ request \in [Requests -> Served] /\ panel.links \in 0..MaxLinks
        /\ lastId \in 0..MaxAccounts
    BY DEF AccessInv, AccessTypeOK
  <2>2. PICK new \in Served : request' = [request EXCEPT ![r] = new]
    <3>1. CASE \E link \in 1..MaxLinks : OpensLink(r, link)
      <4>1. PICK link \in 1..MaxLinks : OpensLink(r, link)
        BY <3>1
      <4> DEFINE late == Owners # {}
      <4>2. [NoRequest EXCEPT !.pc = "count", !.link = link, !.late = late] \in Served
        <5>1. NoRequest \in Served
          BY AccessAssumption DEF NoRequest, Served
        <5>2. link \in 0..MaxLinks /\ late \in BOOLEAN
          BY AccessAssumption
        <5>3. QED  BY <5>1, <5>2 DEF Served
      <4>3. QED  BY <4>1, <4>2 DEF OpensLink
    <3>2. CASE CountsAccounts(r) /\ DOMAIN accounts = {}
      <4>1. [request[r] EXCEPT !.pc = "create"] \in Served
        BY <2>1 DEF Served
      <4>2. QED  BY <3>2, <4>1 DEF CountsAccounts
    <3>3. CASE CountsAccounts(r) /\ DOMAIN accounts # {}
      <4>1. NoRequest \in Served
        BY AccessAssumption DEF NoRequest, Served
      <4>2. request' = [request EXCEPT ![r] = NoRequest]
        BY <3>3 DEF CountsAccounts
      <4>3. QED  BY <4>1, <4>2
    <3>4. CASE \E a, t \in 1..MaxAccounts, deed \in Deeds : OwnerAsks(r, a, deed, t)
      <4>1. PICK a \in 1..MaxAccounts, t \in 1..MaxAccounts, deed \in Deeds :
                OwnerAsks(r, a, deed, t)
        BY <3>4
      <4>2. [NoRequest EXCEPT !.pc = "deed", !.kind = deed, !.by = a, !.target = t] \in Served
        <5>1. NoRequest \in Served
          BY AccessAssumption DEF NoRequest, Served
        <5>2. a \in 0..MaxAccounts /\ t \in 0..MaxAccounts
          BY AccessAssumption
        <5>3. QED  BY <5>1, <5>2 DEF Served
      <4>3. QED  BY <4>1, <4>2 DEF OwnerAsks
    <3>5. QED  BY <3>1, <3>2, <3>3, <3>4
  <2>3. request' \in [Requests -> Served]
    BY <2>1, <2>2
  <2>4. UNCHANGED <<panel, accounts, lastId, sessions, founders, pushTo>>
    BY DEF OpensLink, CountsAccounts, OwnerAsks, KeepAccounts
  <2>5. QED  BY <2>3, <2>4 DEF AccessInv, AccessTypeOK
<1>2. CASE \E link \in 1..MaxLinks : OpensLink(r, link)
  <2>1. MadeInv' /\ LateInv' /\ FoundersStay'
    <3>1. PICK link \in 1..MaxLinks : OpensLink(r, link)
      BY <1>2
    <3>2. /\ request'[r] = [NoRequest EXCEPT !.pc = "count", !.link = link,
                                             !.late = (Owners # {})]
          /\ \A q \in Requests : q # r => request'[q] = request[q]
      BY <3>1 DEF OpensLink, AccessInv, AccessTypeOK
    <3>3. request'[r].pc = "count" /\ request'[r].late = (Owners # {})
      BY <3>2 DEF NoRequest
    <3>4. QED  BY <3>1, <3>2, <3>3, AccountsKept DEF OpensLink
  <2>2. QED  BY <1>1, <2>1 DEF AccessInv
<1>3. CASE CountsAccounts(r) /\ DOMAIN accounts = {}
  <2>1. ~request[r].late
    BY <1>3 DEF CountsAccounts, AccessInv, LateInv, Owners
  <2>2. KeepAccounts /\ request' = [request EXCEPT ![r] = [@ EXCEPT !.pc = "create"]]
    BY <1>3 DEF CountsAccounts
  <2>3. \A q \in Requests : q # r => request'[q] = request[q]
    BY <2>2 DEF AccessInv, AccessTypeOK
  <2>4. request'[r].pc = "create" /\ ~request'[r].late
    BY <2>1, <2>2 DEF AccessInv, AccessTypeOK
  <2>5. MadeInv' /\ LateInv' /\ FoundersStay'
    BY <2>2, <2>3, <2>4
    DEF AccessInv, MadeInv, LateInv, FoundersStay, KeepAccounts, Owners
  <2>6. QED  BY <1>1, <2>5 DEF AccessInv
<1>4. CASE CountsAccounts(r) /\ DOMAIN accounts # {}
  <2>1. MadeInv' /\ LateInv' /\ FoundersStay'
    BY <1>4, AccountsKept DEF AccessInv, AccessTypeOK, CountsAccounts, NoRequest
  <2>2. QED  BY <1>1, <2>1 DEF AccessInv
<1>5. CASE \E a, t \in 1..MaxAccounts, deed \in Deeds : OwnerAsks(r, a, deed, t)
  <2>1. MadeInv' /\ LateInv' /\ FoundersStay'
    BY <1>5, AccountsKept DEF AccessInv, AccessTypeOK, OwnerAsks, NoRequest
  <2>2. QED  BY <1>1, <2>1 DEF AccessInv
<1>6. QED  BY <1>2, <1>3, <1>4, <1>5

(* The owner's account behind the link is new, and not late.               *)
LEMMA AccountStep ==
  ASSUME AccessInv, NEW r \in Requests, CreatesOwner(r)
  PROVE  AccessInv'
<1>1. /\ lastId \in Nat /\ lastId' = lastId + 1 /\ lastId' <= MaxAccounts
      /\ lastId' \notin DOMAIN accounts /\ DOMAIN accounts' = DOMAIN accounts \cup {lastId'}
      /\ accounts'[lastId'] = [role |-> "owner", active |-> TRUE]
      /\ \A a \in DOMAIN accounts : accounts'[a] = accounts[a]
  BY AccessAssumption DEF CreatesOwner, create_web_admin, AccessInv, AccessTypeOK
<1>2. request[r].pc = "create" /\ ~request[r].late
  BY DEF CreatesOwner, AccessInv, LateInv
<1>3. /\ founders' = founders \cup {[account |-> lastId', late |-> FALSE]}
      /\ UNCHANGED <<panel, sessions, pushTo>>
  <2>1. request[r].late = FALSE
    BY <1>2 DEF AccessInv, AccessTypeOK, Served
  <2>2. QED  BY <2>1 DEF CreatesOwner
<1>4. request' = [request EXCEPT ![r] = [@ EXCEPT !.pc = "consume", !.by = lastId']]
  BY DEF CreatesOwner, AccessInv, AccessTypeOK
<1>5. AccessTypeOK'
  <2>1. lastId' \in 0..MaxAccounts /\ 1..lastId \subseteq 1..lastId'
    BY <1>1, AccessAssumption
  <2>2. accounts' \in [DOMAIN accounts' -> Account]
    <3>1. [role |-> "owner", active |-> TRUE] \in Account
      BY DEF Account, WebRoles
    <3>2. accounts' = [a \in DOMAIN accounts' |-> accounts'[a]]
      BY <1>1 DEF CreatesOwner, create_web_admin
    <3>3. \A a \in DOMAIN accounts' : accounts'[a] \in Account
      BY <1>1, <3>1 DEF AccessInv, AccessTypeOK
    <3>4. QED  BY <3>2, <3>3
  <2>3. DOMAIN accounts' \subseteq 1..lastId'
    BY <1>1, <2>1 DEF AccessInv, AccessTypeOK
  <2>4. request' \in [Requests -> Served]
    <3>1. [request[r] EXCEPT !.pc = "consume", !.by = lastId'] \in Served
      BY <2>1 DEF AccessInv, AccessTypeOK, Served
    <3>2. QED  BY <1>4, <3>1 DEF AccessInv, AccessTypeOK
  <2>5. QED  
    <3>1. /\ sessions' \subseteq 1..lastId' /\ pushTo' \subseteq 1..lastId'
      BY <1>3, <2>1 DEF AccessInv, AccessTypeOK
    <3>2. founders' \subseteq [account : 1..MaxAccounts, late : BOOLEAN]
      <4>1. [account |-> lastId', late |-> FALSE] \in [account : 1..MaxAccounts, late : BOOLEAN]
        BY <1>1, AccessAssumption
      <4>2. QED  BY <1>3, <4>1 DEF AccessInv, AccessTypeOK
    <3>3. QED  BY <1>3, <2>1, <2>2, <2>3, <2>4, <3>1, <3>2 DEF AccessInv, AccessTypeOK
<1>6. Owners \subseteq Owners' /\ lastId' \in Owners'
  BY <1>1 DEF Owners
<1>7. \A q \in Requests : q # r => request'[q] = request[q]
  BY <1>4 DEF AccessInv, AccessTypeOK
<1>8. request'[r].pc = "consume" /\ request'[r].by = lastId'
  BY <1>4 DEF AccessInv, AccessTypeOK, Served
<1>9. MadeInv'
  BY <1>1, <1>7, <1>8 DEF AccessInv, MadeInv
<1>10. LateInv'
  BY <1>6, <1>7, <1>8 DEF AccessInv, LateInv
<1>11. FoundersStay'
  BY <1>1, <1>3, <1>6 DEF AccessInv, FoundersStay, Owners
<1>12. QED  BY <1>5, <1>9, <1>10, <1>11 DEF AccessInv

LEMMA SpendStep ==
  ASSUME AccessInv, NEW r \in Requests, SpendsLink(r)
  PROVE  AccessInv'
<1>1. AccessTypeOK'
  BY AccessAssumption
  DEF AccessInv, AccessTypeOK, MadeInv, SpendsLink, KeepAccounts, NoRequest, Served
<1>2. MadeInv' /\ LateInv' /\ FoundersStay'
  BY AccountsKept DEF AccessInv, AccessTypeOK, SpendsLink, NoRequest
<1>3. QED  BY <1>1, <1>2 DEF AccessInv

(* No deed of an owner takes an owner's account away or changes it.        *)
LEMMA DeedStep ==
  ASSUME AccessInv, NEW r \in Requests, DoesDeed(r)
  PROVE  AccessInv'
<1>1. /\ request' = [request EXCEPT ![r] = NoRequest]
      /\ UNCHANGED <<panel, sessions, founders, pushTo>>
  BY DEF DoesDeed
<1>2. \A a \in Owners : a \in Owners' /\ accounts'[a] = accounts[a]
  <2>1. CASE request[r].kind = "create"
    BY <2>1 DEF DoesDeed, create_web_admin, Owners, AccessInv, AccessTypeOK
  <2>2. CASE request[r].kind # "create" /\ MayBeChanged(request[r].target)
    <3> DEFINE t == request[r].target
    <3>1. t \in DOMAIN accounts /\ t \notin Owners /\ ChangesAccount(request[r].kind, t)
      BY <2>2 DEF DoesDeed, MayBeChanged, Owners
    <3>2. \A a \in DOMAIN accounts \ {t} : a \in DOMAIN accounts' /\ accounts'[a] = accounts[a]
      BY <3>1 DEF ChangesAccount, Restrict
    <3>3. QED  BY <3>1, <3>2 DEF Owners
  <2>3. CASE request[r].kind # "create" /\ ~MayBeChanged(request[r].target)
    BY <2>3 DEF DoesDeed, Owners
  <2>4. QED  BY <2>1, <2>2, <2>3
<1>3. /\ lastId' \in 0..MaxAccounts /\ lastId <= lastId'
      /\ DOMAIN accounts' \subseteq 1..lastId'
      /\ accounts' \in [DOMAIN accounts' -> Account]
  <2>1. CASE request[r].kind = "create"
    <3>1. PICK role \in WebRoles : create_web_admin(role)
      BY <2>1 DEF DoesDeed
    <3>2. lastId' = lastId + 1 /\ lastId' \in 0..MaxAccounts /\ lastId \in Nat
      BY <3>1, AccessAssumption DEF create_web_admin, AccessInv, AccessTypeOK
    <3>3. DOMAIN accounts' \subseteq 1..lastId'
      BY <3>1, <3>2 DEF create_web_admin, AccessInv, AccessTypeOK
    <3>4. accounts' \in [DOMAIN accounts' -> Account]
      <4>1. [role |-> role, active |-> TRUE] \in Account
        BY DEF Account
      <4>2. accounts' = [a \in DOMAIN accounts \cup {lastId'} |->
                           IF a = lastId' THEN [role |-> role, active |-> TRUE]
                           ELSE accounts[a]]
        BY <3>1 DEF create_web_admin
      <4>3. QED  BY <4>1, <4>2 DEF AccessInv, AccessTypeOK
    <3>5. QED  BY <3>2, <3>3, <3>4
  <2>2. CASE request[r].kind # "create" /\ MayBeChanged(request[r].target)
    <3> DEFINE t == request[r].target
    <3>1. t \in DOMAIN accounts /\ ChangesAccount(request[r].kind, t) /\ lastId' = lastId
      BY <2>2 DEF DoesDeed, MayBeChanged
    <3>2. accounts[t] \in Account
      BY <3>1 DEF AccessInv, AccessTypeOK
    <3>3. /\ [accounts[t] EXCEPT !.role = "support"] \in Account
          /\ [accounts[t] EXCEPT !.active = ~@] \in Account
      BY <3>2 DEF Account, WebRoles
    <3>4. DOMAIN accounts' \subseteq DOMAIN accounts /\ accounts' \in [DOMAIN accounts' -> Account]
      <4>1. CASE accounts' = Restrict(accounts, DOMAIN accounts \ {t})
        BY <4>1 DEF AccessInv, AccessTypeOK, Restrict
      <4>2. CASE accounts' = [accounts EXCEPT ![t].role = "support"]
        BY <3>1, <3>3, <4>2 DEF AccessInv, AccessTypeOK
      <4>3. CASE accounts' = [accounts EXCEPT ![t].active = ~@]
        BY <3>1, <3>3, <4>3 DEF AccessInv, AccessTypeOK
      <4>4. QED  BY <3>1, <4>1, <4>2, <4>3 DEF ChangesAccount
    <3>5. QED  BY <3>1, <3>4 DEF AccessInv, AccessTypeOK
  <2>3. CASE request[r].kind # "create" /\ ~MayBeChanged(request[r].target)
    BY <2>3 DEF DoesDeed, AccessInv, AccessTypeOK
  <2>4. QED  BY <2>1, <2>2, <2>3
<1>4. 1..lastId \subseteq 1..lastId'
  BY <1>3 DEF AccessInv, AccessTypeOK
<1>5. AccessTypeOK'
  <2>1. request' \in [Requests -> Served]
    BY <1>1, AccessAssumption DEF AccessInv, AccessTypeOK, NoRequest, Served
  <2>2. QED  BY <1>1, <1>3, <1>4, <2>1 DEF AccessInv, AccessTypeOK
<1>6. \A q \in Requests : request'[q] = request[q] \/ request'[q].pc = "idle"
  BY <1>1 DEF AccessInv, AccessTypeOK, NoRequest
<1>7. MadeInv' /\ LateInv' /\ FoundersStay'
  BY <1>1, <1>2, <1>4, <1>6 DEF AccessInv, MadeInv, LateInv, FoundersStay
<1>8. QED  BY <1>5, <1>7 DEF AccessInv

LEMMA AccessStep ==
  ASSUME AccessInv, [AccessNext]_accessVars
  PROVE  AccessInv'
<1>1. CASE UNCHANGED accessVars
  BY <1>1 DEF accessVars, AccessInv, AccessTypeOK, MadeInv, LateInv, FoundersStay, Owners
<1>2. CASE AccessNext
  BY <1>2, OutsideStep, ReadingStep, AccountStep, SpendStep, DeedStep DEF AccessNext
<1> QED  BY <1>1, <1>2

(***************************************************************************)
(* The panel of a reseller never loses the owner made behind its link      *)
(* (database.py:1291-1343, admin_panel/server.py:477-504).                 *)
(***************************************************************************)
THEOREM OwnerIsKept == AccessSpec => []FoundersStay
<1>1. AccessInit => AccessInv
  BY AccessInitInv
<1>2. AccessInv /\ [AccessNext]_accessVars => AccessInv'
  BY AccessStep
<1>3. AccessInv => FoundersStay
  BY DEF AccessInv
<1>4. QED  BY <1>1, <1>2, <1>3, PTL DEF AccessSpec

(***************************************************************************)
(* Accounts, requests, sessions and subscriptions stay of their types: no  *)
(* session or subscription is of an account that was never made.           *)
(***************************************************************************)
THEOREM AccessTyped == AccessSpec => []AccessTypeOK
<1>1. AccessInit => AccessInv
  BY AccessInitInv
<1>2. AccessInv /\ [AccessNext]_accessVars => AccessInv'
  BY AccessStep
<1>3. AccessInv => AccessTypeOK
  BY DEF AccessInv
<1> QED  BY <1>1, <1>2, <1>3, PTL DEF AccessSpec
===============================================================================
