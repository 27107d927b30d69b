------------------------------ MODULE BotProofs ------------------------------
(***************************************************************************)
(* Theorems about the bots of one installation (ResellerBots): for any     *)
(* tokens, administrators and bounds, the manager and the table stay well  *)
(* formed, and a polling task gets out of the manager's hands in one way   *)
(* only.                                                                   *)
(***************************************************************************)
EXTENDS ResellerBots, FiniteSums, TLAPS

(***************************************************************************)
(* The inductive invariant, by variable: ids are fresh; an entry that is   *)
(* alive has a polling task; wait_all waits for tasks of entries; whoever  *)
(* has begun with a row has one; nothing runs until main() has begun.      *)
(***************************************************************************)
TableOK ==
    /\ rows \subseteq Row
    /\ \A r, q \in rows : r.id = q.id \/ r.token = q.token => r = q
    /\ \A r \in rows : r.id < nextRow
    /\ purges \subseteq [token : Tokens, path : Names]
    /\ newRows \subseteq Row
    /\ nextRow \in 1..MaxRows + 1

TenantOK ==
    /\ DOMAIN tenant \subseteq Names
    /\ \A n \in DOMAIN tenant : tenant[n] \in 0..MaxRows

RunningOK ==
    /\ DOMAIN inst \subseteq Running
    /\ \A t \in DOMAIN inst : inst[t] \in Inst
    /\ polling \in [Running -> Nat]
    /\ \A t \in DOMAIN inst : inst[t].alive => polling[t] > 0
    /\ waited \subseteq DOMAIN inst
    /\ roused \in BOOLEAN

HeldOK == held \subseteq Tokens /\ \A s, t \in held : s = t

LoopStates ==
    [pc : {"boot", "sleep", "start", "starting", "menu", "syncing", "stop", "broken"},
     row : Row \cup {NoRow}, todo : SUBSET Row,
     listed : SUBSET Row, halt : SUBSET Tokens, booting : BOOLEAN]

LoopOK ==
    /\ loop \in LoopStates
    /\ loop.pc \in {"starting", "syncing"} => loop.row \in Row
    /\ loop.pc = "boot" => Main \notin DOMAIN inst

HandStates ==
    [pc : {"idle", "insert", "added", "starting", "tenant", "toggled", "delete", "remove"},
     row : Row \cup {NoRow}, purge : BOOLEAN]

HandOK ==
    /\ hand \in [BotAdmins -> HandStates]
    /\ \A a \in BotAdmins : hand[a].pc # "idle" => hand[a].row \in Row

SpentOK == spent \in [{"changes", "mishaps"} -> Nat]

BotsInv == TableOK /\ TenantOK /\ RunningOK /\ HeldOK /\ LoopOK /\ HandOK /\ SpentOK

LEMMA RowFields ==
  ASSUME NEW r \in Row
  PROVE  /\ r.id \in 1..MaxRows /\ r.token \in Tokens /\ r.path \in Names
         /\ r.active \in BOOLEAN /\ r.token \in Running /\ r.token # Main
         /\ r = [id |-> r.id, token |-> r.token, path |-> r.path, active |-> r.active]
BY BotsAssumption DEF Row, Running

LEMMA OldestIn ==
  ASSUME NEW S, S \subseteq Row, S # {}
  PROVE  Oldest(S) \in S /\ Oldest(S) \in Row
<1> DEFINE T == {r.id : r \in S}
<1>1. T \subseteq Nat /\ T # {}
  BY RowFields
<1>2. PICK n \in T : \A m \in T : n <= m
  BY <1>1, SmallestOne
<1>3. PICK r \in S : r.id = n
  BY <1>2
<1>4. \A q \in S : r.id <= q.id
  BY <1>2, <1>3
<1> QED  BY <1>3, <1>4 DEF Oldest

LEMMA InvIsTyped ==
  ASSUME BotsInv
  PROVE  BotsTypeOK
<1>1. Range(tenant) \subseteq 0..MaxRows
  BY DEF BotsInv, TenantOK, Range
<1>2. Range(inst) \subseteq Inst
  BY DEF BotsInv, RunningOK, Range
<1>3. Cardinality(held) <= 1
  <2>1. CASE held = {}
    BY <2>1, FS_EmptySet
  <2>2. CASE held # {}
    <3>1. PICK t \in held : held = {t}
      BY <2>2 DEF BotsInv, HeldOK
    <3> QED  BY <3>1, FS_Singleton
  <2> QED  BY <2>1, <2>2
<1>4. waited \subseteq Running
  BY DEF BotsInv, RunningOK
<1>5. TableOK /\ TenantOK /\ RunningOK /\ HeldOK /\ LoopOK /\ HandOK /\ SpentOK
  BY DEF BotsInv
<1> QED
  BY <1>1, <1>2, <1>3, <1>4, <1>5
  DEF BotsTypeOK, TableOK, TenantOK, RunningOK, HeldOK, LoopOK, LoopStates, HandOK,
      HandStates, SpentOK

(***************************************************************************)
(* The table.                                                              *)
(***************************************************************************)
LEMMA InsertedRows ==
  ASSUME TableOK, NEW t \in Tokens, Inserted(t)
  PROVE  /\ NewRow(t) \in Row /\ rows' \subseteq Row
         /\ \A r, q \in rows' : r.id = q.id \/ r.token = q.token => r = q
         /\ \A r \in rows' : r.id < nextRow'
         /\ nextRow' \in 1..MaxRows + 1
<1>1. NewRow(t) \in Row /\ NewRow(t).id = nextRow /\ NewRow(t).token = t
  BY BotsAssumption DEF Inserted, TableOK, NewRow, Row
<1>2. \A r \in rows : r.id # nextRow /\ r.token # t /\ r.id \in Int
  BY RowFields DEF Inserted, TableOK, Tokened
<1>3. rows' = rows \cup {NewRow(t)} /\ nextRow' = nextRow + 1 /\ nextRow <= MaxRows
      /\ nextRow \in Int
  BY DEF Inserted, TableOK
<1>4. \A r \in rows' : r.id < nextRow'
  BY <1>1, <1>2, <1>3 DEF TableOK
<1>5. nextRow' \in 1..MaxRows + 1
  BY <1>3, BotsAssumption DEF TableOK
<1>6. \A r, q \in rows' : r.id = q.id \/ r.token = q.token => r = q
  BY <1>1, <1>2, <1>3 DEF TableOK
<1> QED  BY <1>1, <1>3, <1>4, <1>5, <1>6 DEF TableOK

(* A row replaced by one with the same id and a token nobody else has.     *)
LEMMA ReplacedRows ==
  ASSUME TableOK, NEW r \in rows, NEW s \in Row, s.id = r.id,
         \A q \in rows \ {r} : q.token # s.token,
         rows' = (rows \ {r}) \cup {s}, nextRow' = nextRow, purges' = purges,
         newRows' = newRows
  PROVE  TableOK'
<1>1. \A q \in rows \ {r} : q.id # s.id
  BY DEF TableOK
<1> QED  BY <1>1 DEF TableOK

LEMMA TableStep ==
  ASSUME BotsInv, [BotsNext]_botVars
  PROVE  TableOK'
<1> USE DEF BotsInv
<1>1. CASE UNCHANGED table
  BY <1>1 DEF table, TableOK
<1>2. ASSUME NEW t \in Tokens, WebCreates(t)
      PROVE  TableOK'
  BY <1>2, InsertedRows DEF WebCreates, Inserted, TableOK
<1>3. ASSUME NEW a \in BotAdmins, NEW t \in Tokens, BotAdds(a, t)
      PROVE  TableOK'
  BY <1>3, InsertedRows DEF BotAdds, Inserted, TableOK
<1>4. ASSUME NEW r \in newRows, WebSetsTenant(r)
      PROVE  TableOK'
  BY <1>4 DEF WebSetsTenant, TableOK
<1>5. ASSUME NEW r \in rows, WebToggles(r) \/ \E a \in BotAdmins : BotToggles(a, r)
      PROVE  TableOK'
  <2> DEFINE s == [r EXCEPT !.active = ~@]
  <2>1. r \in Row
    BY DEF TableOK
  <2>2. s \in Row /\ s.id = r.id /\ s.token = r.token
    BY <2>1 DEF Row
  <2>3. /\ rows' = (rows \ {r}) \cup {s}
        /\ UNCHANGED <<purges, newRows, nextRow>>
    BY <1>5 DEF WebToggles, BotToggles, Toggled
  <2>4. \A q \in rows \ {r} : q.token # s.token
    BY <2>2 DEF TableOK
  <2> HIDE DEF s
  <2> QED  BY <2>2, <2>3, <2>4, ReplacedRows
<1>6. ASSUME NEW r \in rows, NEW t \in Tokens, WebChangesToken(r, t)
      PROVE  TableOK'
  <2> DEFINE s == [r EXCEPT !.token = t]
  <2>1. r \in Row
    BY DEF TableOK
  <2>2. s \in Row /\ s.id = r.id /\ s.token = t
    BY <2>1 DEF Row
  <2>3. /\ rows' = (rows \ {r}) \cup {s}
        /\ UNCHANGED <<purges, newRows, nextRow>>
    BY <1>6 DEF WebChangesToken
  <2>4. \A q \in rows \ {r} : q.token # s.token
    BY <1>6, <2>2 DEF WebChangesToken, Tokened
  <2> HIDE DEF s
  <2> QED  BY <2>2, <2>3, <2>4, ReplacedRows
<1>7. ASSUME NEW r \in rows, NEW purge \in BOOLEAN, WebDeletes(r, purge)
      PROVE  TableOK'
  <2>1. [token |-> r.token, path |-> r.path] \in [token : Tokens, path : Names]
    BY RowFields DEF TableOK
  <2>2. /\ rows' = rows \ {r} /\ newRows' = newRows /\ nextRow' = nextRow
        /\ purges' \subseteq purges \cup {[token |-> r.token, path |-> r.path]}
    BY <1>7 DEF WebDeletes
  <2> QED  BY <2>1, <2>2 DEF TableOK
<1>8. ASSUME NEW a \in BotAdmins, BotDeletes(a)
      PROVE  TableOK'
  BY <1>8 DEF BotDeletes, TableOK
<1>9. CASE PurgeFiles \/ PurgeFails
  BY <1>9 DEF PurgeFiles, PurgeFails, TableOK
<1>10. CASE (Manager /\ ~PurgeFiles /\ ~PurgeFails) \/ Crash \/ (\E t \in Tokens : PollEnds(t))
            \/ UNCHANGED botVars
  BY <1>1, <1>10
  DEF Manager, Boot, BootFails, ListRows, StartNext, StartDone, StartFails, AllStarted,
      MenuNext, MenuDone, AllChecked, StopNext, WaitForTasks, WaitOver, Crash, PollEnds, botVars
<1>11. ASSUME NEW a \in BotAdmins,
              \/ Handling(a) /\ ~BotDeletes(a)
              \/ \E r \in rows, purge \in BOOLEAN : BotStopsDeleted(a, r, purge)
              \/ \E n \in Names : BotRemovesOrphan(a, n)
       PROVE  TableOK'
  BY <1>1, <1>11
  DEF Handling, BotStartsAdded, BotStarted, BotStartFails, BotSetsTenant, BotApplies,
      BotRemovesFile, BotStopsDeleted, BotRemovesOrphan
<1> QED
  BY <1>2, <1>3, <1>4, <1>5, <1>6, <1>7, <1>8, <1>9, <1>10, <1>11 DEF BotsNext

(***************************************************************************)
(* The database files.                                                     *)
(***************************************************************************)
LEMMA TenantKinds ==
  ASSUME TenantOK
  PROVE  /\ \A r \in Row : tenant' \in {WithTenant(r), Opened(r.path)} => TenantOK'
         /\ \A N : tenant' = Restrict(tenant, DOMAIN tenant \ N) => TenantOK'
         /\ \A n : tenant' = Removed(n) => TenantOK'
<1>1. ASSUME NEW r \in Row, tenant' \in {WithTenant(r), Opened(r.path)}
      PROVE  TenantOK'
  <2>1. r.path \in Names /\ r.id \in 0..MaxRows /\ 0 \in 0..MaxRows
    BY RowFields, BotsAssumption
  <2>2. /\ DOMAIN Opened(r.path) = DOMAIN tenant \cup {r.path}
        /\ \A n \in DOMAIN Opened(r.path) : Opened(r.path)[n] \in 0..MaxRows
    BY <2>1 DEF Opened, TenantOK
  <2>3. /\ DOMAIN WithTenant(r) = DOMAIN tenant \cup {r.path}
        /\ \A n \in DOMAIN WithTenant(r) : WithTenant(r)[n] \in 0..MaxRows
    BY <2>1, <2>2 DEF WithTenant
  <2> QED  BY <1>1, <2>1, <2>2, <2>3 DEF TenantOK
<1>2. ASSUME NEW N, tenant' = Restrict(tenant, DOMAIN tenant \ N)
      PROVE  TenantOK'
  BY <1>2 DEF Restrict, TenantOK
<1>3. ASSUME NEW n, tenant' = Removed(n)
      PROVE  TenantOK'
  BY <1>3 DEF Restrict, Removed, TenantOK
<1> QED  BY <1>1, <1>2, <1>3

LEMMA StartBegins ==
  ASSUME BotsInv, StartNext \/ MenuNext
  PROVE  \E r \in Row :
           /\ tenant' = WithTenant(r)
           /\ r \in loop.todo
           /\ StartNext =>
                 /\ loop.pc = "start"
                 /\ loop' = [loop EXCEPT
                               !.pc = IF r.token \in DOMAIN inst THEN @ ELSE "starting",
                               !.row = r, !.todo = {q \in @ : q.id > r.id}]
                 /\ UNCHANGED running
           /\ MenuNext =>
                 /\ loop.pc = "menu"
                 /\ held' = {r.token} /\ r.token \in DOMAIN inst
                 /\ loop' = [loop EXCEPT !.pc = "syncing", !.row = r,
                                         !.todo = {q \in @ : q.id > r.id}]
                 /\ UNCHANGED <<inst, polling, waited, roused>>
<1>1. loop.todo \subseteq Row
  BY DEF BotsInv, LoopOK, LoopStates
<1>2. CASE StartNext
  <2>1. ToStart \subseteq loop.todo /\ ToStart # {} /\ loop.pc = "start"
    BY <1>2 DEF ToStart, StartNext
  <2>2. PICK r \in Row : r = Oldest(ToStart) /\ r \in ToStart
    BY <1>1, <2>1, OldestIn
  <2> QED  BY <1>2, <2>1, <2>2 DEF StartNext, MenuNext
<1>3. CASE MenuNext
  <2>1. Unchecked \subseteq loop.todo /\ Unchecked # {} /\ loop.pc = "menu"
    BY <1>3 DEF Unchecked, MenuNext
  <2>2. PICK r \in Row : r = Oldest(Unchecked) /\ r \in Unchecked
    BY <1>1, <2>1, OldestIn
  <2>3. r.token \in DOMAIN inst
    BY <2>2 DEF Unchecked
  <2> QED  BY <1>3, <2>1, <2>2, <2>3 DEF StartNext, MenuNext
<1> QED  BY <1>2, <1>3

LEMMA TenantStep ==
  ASSUME BotsInv, [BotsNext]_botVars
  PROVE  TenantOK'
<1>1. TenantOK /\ newRows \subseteq Row /\ rows \subseteq Row
  BY DEF BotsInv, TableOK
<1>2. CASE UNCHANGED tenant
  BY <1>1, <1>2 DEF TenantOK
<1>3. CASE StartNext \/ MenuNext
  BY <1>1, <1>3, StartBegins, TenantKinds
<1>4. CASE PurgeFiles \/ PurgeFails
  BY <1>1, <1>4, TenantKinds DEF PurgeFiles, PurgeFails
<1>5. ASSUME NEW r \in newRows, WebSetsTenant(r)
      PROVE  TenantOK'
  BY <1>1, <1>5, TenantKinds DEF WebSetsTenant
<1>6. ASSUME NEW a \in BotAdmins,
             BotStartsAdded(a) \/ BotSetsTenant(a) \/ BotApplies(a) \/ BotRemovesFile(a)
      PROVE  TenantOK'
  <2>1. BotStartsAdded(a) \/ BotSetsTenant(a) => hand[a].row \in Row
    BY DEF BotsInv, HandOK, BotStartsAdded, BotSetsTenant
  <2>2. CASE BotStartsAdded(a)
    BY <1>1, <1>2, <2>1, <2>2, TenantKinds DEF BotStartsAdded, HandStarts
  <2>3. CASE BotSetsTenant(a)
    BY <1>1, <2>1, <2>3, TenantKinds DEF BotSetsTenant
  <2>4. CASE BotApplies(a)
    BY <1>1, <1>2, <2>4, TenantKinds DEF BotApplies, HandStarts
  <2>5. CASE BotRemovesFile(a)
    BY <1>1, <2>5, TenantKinds DEF BotRemovesFile
  <2> QED  BY <1>6, <2>2, <2>3, <2>4, <2>5
<1>7. ASSUME NEW a \in BotAdmins, NEW n \in Names, BotRemovesOrphan(a, n)
      PROVE  TenantOK'
  BY <1>1, <1>7, TenantKinds DEF BotRemovesOrphan
<1>8. CASE \/ Manager /\ ~StartNext /\ ~MenuNext /\ ~PurgeFiles /\ ~PurgeFails
           \/ Crash \/ UNCHANGED botVars
           \/ \E t \in Tokens : PollEnds(t) \/ WebCreates(t)
           \/ \E r \in rows, t \in Tokens : WebChangesToken(r, t)
           \/ \E r \in rows : WebToggles(r) \/ \E purge \in BOOLEAN : WebDeletes(r, purge)
  BY <1>2, <1>8
  DEF Manager, Boot, BootFails, ListRows, StartDone, StartFails, AllStarted, MenuDone,
      AllChecked, StopNext, WaitForTasks, WaitOver, Crash, PollEnds,
      WebCreates, WebChangesToken, WebToggles, WebDeletes, botVars
<1>9. ASSUME NEW a \in BotAdmins,
             \/ BotStarted(a) \/ BotStartFails(a) \/ BotDeletes(a)
             \/ \E t \in Tokens : BotAdds(a, t)
             \/ \E r \in rows : BotToggles(a, r) \/ \E purge \in BOOLEAN :
                                                      BotStopsDeleted(a, r, purge)
      PROVE  TenantOK'
  BY <1>2, <1>9 DEF BotStarted, BotStartFails, BotDeletes, BotAdds, BotToggles, BotStopsDeleted
<1> QED
  BY <1>3, <1>4, <1>5, <1>6, <1>7, <1>8, <1>9 DEF BotsNext, Manager, Handling

(***************************************************************************)
(* The entries of the manager and the polling tasks: a step registers a    *)
(* bot, takes an entry out, lets a task end, empties the process, marks an *)
(* entry as checked, or leaves them alone.                                 *)
(***************************************************************************)
Starts(t) ==
    /\ Registered(t)
    /\ \/ Boot /\ t = Main
       \/ StartDone /\ t = loop.row.token
       \/ \E a \in BotAdmins : BotStarted(a) /\ t = hand[a].row.token

LEMMA RunningMoves ==
  ASSUME BotsInv, [BotsNext]_botVars
  PROVE  \/ \E t \in Running : Starts(t)
         \/ \E t \in DOMAIN inst : Popped(t)
         \/ \E t \in Tokens : PollEnds(t)
         \/ Crash
         \/ MenuDone
         \/ MenuNext
         \/ WaitForTasks
         \/ UNCHANGED <<inst, polling, held>> /\ waited' = {} /\ roused' = FALSE
         \/ UNCHANGED running
<1> USE DEF BotsInv
<1>1. CASE Boot
  BY <1>1 DEF Boot, Starts, Running
<1>2. CASE StartDone
  <2>1. loop.row \in Row /\ Registered(loop.row.token)
    BY <1>2 DEF StartDone, LoopOK
  <2> QED  BY <1>2, <2>1, RowFields DEF Starts
<1>3. ASSUME NEW a \in BotAdmins, BotStarted(a)
      PROVE  \E t \in Running : Starts(t)
  <2>1. hand[a].row \in Row /\ Registered(hand[a].row.token)
    BY <1>3 DEF BotStarted, HandOK
  <2> QED  BY <1>3, <2>1, RowFields DEF Starts
<1>4. CASE StopNext
  BY <1>4 DEF StopNext, Stopped
<1>5. CASE WaitOver
  <2>1. \A t \in Ended : t \in DOMAIN inst
    BY DEF Ended, RunningOK
  <2> QED  BY <1>5, <2>1 DEF WaitOver
<1>6. CASE \/ Manager /\ ~Boot /\ ~StartDone /\ ~StopNext /\ ~WaitOver
           \/ Crash \/ UNCHANGED botVars
           \/ \E t \in Tokens : PollEnds(t) \/ WebCreates(t)
           \/ \E r \in rows, t \in Tokens : WebChangesToken(r, t)
           \/ \E r \in rows : WebToggles(r) \/ \E purge \in BOOLEAN : WebDeletes(r, purge)
           \/ \E r \in newRows : WebSetsTenant(r)
  BY <1>6
  DEF Manager, BootFails, ListRows, StartNext, StartFails, AllStarted, AllChecked,
      PurgeFiles, PurgeFails,
      WebCreates, WebChangesToken, WebToggles, WebDeletes, WebSetsTenant, botVars
<1>7. ASSUME NEW a \in BotAdmins,
             \/ Handling(a) /\ ~BotStarted(a)
             \/ \E t \in Tokens : BotAdds(a, t)
             \/ \E r \in rows : BotToggles(a, r) \/ \E purge \in BOOLEAN :
                                                      BotStopsDeleted(a, r, purge)
             \/ \E n \in Names : BotRemovesOrphan(a, n)
      PROVE  (\E t \in DOMAIN inst : Popped(t)) \/ UNCHANGED running
  BY <1>7
  DEF Handling, BotStartsAdded, BotStartFails, BotSetsTenant, BotApplies, BotDeletes,
      BotRemovesFile, BotAdds, BotToggles, BotStopsDeleted, BotRemovesOrphan, Stopped
<1> QED
  BY <1>1, <1>2, <1>3, <1>4, <1>5, <1>6, <1>7 DEF BotsNext, Manager, Handling

LEMMA RunningStep ==
  ASSUME BotsInv, [BotsNext]_botVars
  PROVE  RunningOK' /\ HeldOK'
<1> USE DEF BotsInv
<1>1. ASSUME NEW t \in Running, Registered(t)
      PROVE  RunningOK' /\ HeldOK'
  <2>1. /\ DOMAIN inst' = DOMAIN inst \cup {t}
        /\ inst'[t] \in Inst
        /\ \A u \in DOMAIN inst : u # t => inst'[u] = inst[u]
    BY <1>1 DEF Registered, Inst
  <2>2. /\ polling' \in [Running -> Nat] /\ polling'[t] > 0
        /\ \A u \in Running : u # t => polling'[u] = polling[u]
    BY <1>1 DEF Registered, RunningOK
  <2>3. waited' \subseteq waited /\ roused' = roused /\ held' \subseteq held
    BY <1>1 DEF Registered
  <2> QED  BY <2>1, <2>2, <2>3 DEF RunningOK, HeldOK
<1>2. ASSUME NEW t \in DOMAIN inst, Popped(t)
      PROVE  RunningOK' /\ HeldOK'
  <2>1. /\ DOMAIN inst' = DOMAIN inst \ {t}
        /\ \A u \in DOMAIN inst' : inst'[u] = inst[u]
    BY <1>2 DEF Popped, Restrict
  <2>2. /\ polling' \in [Running -> Nat]
        /\ \A u \in Running : u # t => polling'[u] = polling[u]
    BY <1>2 DEF Popped, RunningOK
  <2>3. waited' = waited \ {t} /\ roused' \in BOOLEAN /\ held' \subseteq held
    BY <1>2 DEF Popped, RunningOK
  <2> QED  BY <2>1, <2>2, <2>3 DEF RunningOK, HeldOK
<1>3. ASSUME NEW t \in Tokens, PollEnds(t)
      PROVE  RunningOK' /\ HeldOK'
  <2>1. /\ t \in DOMAIN inst /\ inst[t] \in Inst /\ inst[t].alive /\ polling[t] > 0
        /\ polling[t] \in Nat /\ t \in Running
    BY <1>3 DEF PollEnds, RunningOK, Running
  <2>2. /\ DOMAIN inst' = DOMAIN inst /\ inst'[t] \in Inst /\ ~inst'[t].alive
        /\ \A u \in DOMAIN inst : u # t => inst'[u] = inst[u]
    BY <1>3, <2>1 DEF PollEnds, Inst
  <2>3. /\ polling' \in [Running -> Nat]
        /\ \A u \in Running : u # t => polling'[u] = polling[u]
    BY <1>3, <2>1 DEF PollEnds, RunningOK
  <2>4. waited' = waited /\ roused' \in BOOLEAN /\ held' = held
    BY <1>3 DEF PollEnds, RunningOK
  <2> QED  BY <2>1, <2>2, <2>3, <2>4 DEF RunningOK, HeldOK
<1>4. CASE Crash
  BY <1>4 DEF Crash, Restrict, RunningOK, HeldOK
<1>5. CASE MenuDone
  <2>1. /\ DOMAIN inst' = DOMAIN inst
        /\ \A u \in DOMAIN inst : inst'[u] \in Inst /\ inst'[u].alive = inst[u].alive
    BY <1>5 DEF MenuDone, RunningOK, Inst
  <2>2. held' = {} /\ UNCHANGED <<polling, waited, roused>>
    BY <1>5 DEF MenuDone
  <2> QED  BY <2>1, <2>2 DEF RunningOK, HeldOK
<1>6. CASE MenuNext
  <2>1. PICK r \in Row : held' = {r.token} /\ UNCHANGED <<inst, polling, waited, roused>>
    BY <1>6, StartBegins
  <2> QED  BY <2>1, RowFields DEF RunningOK, HeldOK
<1>7. CASE WaitForTasks
  BY <1>7 DEF WaitForTasks, RunningOK, HeldOK
<1>8. CASE UNCHANGED <<inst, polling, held>> /\ waited' = {} /\ roused' = FALSE
  BY <1>8 DEF RunningOK, HeldOK
<1>9. CASE UNCHANGED running
  BY <1>9 DEF running, RunningOK, HeldOK
<1> QED
  BY <1>1, <1>2, <1>3, <1>4, <1>5, <1>6, <1>7, <1>8, <1>9, RunningMoves DEF Starts

(***************************************************************************)
(* The loop, the handlers and the counters.                                *)
(***************************************************************************)
LEMMA LoopStep ==
  ASSUME BotsInv, [BotsNext]_botVars
  PROVE  LoopOK'
<1>0. /\ loop \in LoopStates /\ loop.todo \subseteq Row /\ loop.halt \subseteq Tokens
      /\ loop.listed \subseteq Row /\ NoRow \in Row \cup {NoRow}
      /\ loop.pc \in {"starting", "syncing"} => loop.row \in Row
      /\ loop.pc = "boot" => Main \notin DOMAIN inst
      /\ DOMAIN inst \subseteq Running /\ Active \subseteq Row
  BY DEF BotsInv, LoopOK, LoopStates, RunningOK, TableOK, Active
<1>1. CASE StartNext \/ MenuNext
  <2>1. PICK r \in Row :
           /\ loop'.pc \in {"start", "starting", "syncing"}
           /\ loop' \in {[loop EXCEPT !.pc = l, !.row = r, !.todo = {q \in @ : q.id > r.id}] :
                           l \in {"start", "starting", "syncing"}}
    <3>1. PICK r \in Row :
             /\ StartNext =>
                   /\ loop.pc = "start"
                   /\ loop' = [loop EXCEPT
                                 !.pc = IF r.token \in DOMAIN inst THEN @ ELSE "starting",
                                 !.row = r, !.todo = {q \in @ : q.id > r.id}]
             /\ MenuNext =>
                   loop' = [loop EXCEPT !.pc = "syncing", !.row = r,
                                        !.todo = {q \in @ : q.id > r.id}]
      BY <1>1, StartBegins
    <3>2. PICK l \in {"start", "starting", "syncing"} :
             loop' = [loop EXCEPT !.pc = l, !.row = r, !.todo = {q \in @ : q.id > r.id}]
      <4>1. CASE StartNext /\ r.token \in DOMAIN inst
        BY <3>1, <4>1
      <4>2. CASE StartNext /\ r.token \notin DOMAIN inst
        BY <3>1, <4>2
      <4>3. CASE MenuNext
        BY <3>1, <4>3
      <4> QED  BY <1>1, <4>1, <4>2, <4>3
    <3>3. loop'.pc = l
      BY <1>0, <3>2 DEF LoopStates
    <3> QED  BY <3>2, <3>3
  <2>2. PICK l \in {"start", "starting", "syncing"} :
           loop' = [loop EXCEPT !.pc = l, !.row = r, !.todo = {q \in @ : q.id > r.id}]
    BY <2>1
  <2>3. {q \in loop.todo : q.id > r.id} \subseteq Row
    BY <1>0
  <2>4. loop' \in LoopStates /\ loop'.row = r /\ loop'.pc # "boot"
    BY <1>0, <2>2, <2>3 DEF LoopStates
  <2> QED  BY <2>4 DEF LoopOK
<1>2. CASE Boot \/ BootFails
  <2>1. loop' = [loop EXCEPT !.pc = "start", !.todo = Active, !.booting = TRUE]
    BY <1>2 DEF Boot, BootFails, Booted
  <2> QED  BY <1>0, <2>1 DEF LoopOK, LoopStates
<1>3. CASE ListRows
  <2>1. loop' = [loop EXCEPT !.pc = "start", !.todo = Active, !.listed = Active]
    BY <1>3 DEF ListRows
  <2> QED  BY <1>0, <2>1 DEF LoopOK, LoopStates
<1>4. CASE StartDone \/ MenuDone
  <2>1. PICK l \in {"start", "menu"} : loop' = [loop EXCEPT !.pc = l, !.row = NoRow]
    BY <1>4 DEF StartDone, MenuDone
  <2> QED  BY <1>0, <2>1 DEF LoopOK, LoopStates
<1>5. CASE AllStarted
  <2>1. PICK l \in {"sleep", "menu"} :
           loop' = [loop EXCEPT !.pc = l, !.row = NoRow, !.todo = loop.listed,
                                !.booting = FALSE]
    BY <1>5 DEF AllStarted
  <2> QED  BY <1>0, <2>1 DEF LoopOK, LoopStates
<1>6. CASE AllChecked
  <2>1. ToStop \subseteq Tokens
    BY <1>0 DEF ToStop, Running
  <2>2. loop' = [loop EXCEPT !.pc = "stop", !.todo = {}, !.halt = ToStop]
    BY <1>6 DEF AllChecked
  <2> QED  BY <1>0, <2>1, <2>2 DEF LoopOK, LoopStates
<1>7. CASE StopNext
  <2>1. PICK t : loop' = [loop EXCEPT !.halt = @ \ {t}]
    BY <1>7 DEF StopNext
  <2>2. loop.pc = "stop"
    BY <1>7 DEF StopNext
  <2> QED  BY <1>0, <2>1, <2>2 DEF LoopOK, LoopStates
<1>8. CASE StartFails \/ PurgeFails
  <2>1. CASE loop' = [loop EXCEPT !.pc = "start", !.row = NoRow]
    BY <1>0, <2>1 DEF LoopOK, LoopStates
  <2>2. CASE loop' = Broken
    <3>1. Broken \in LoopStates /\ Broken.pc = "broken"
      BY <1>0 DEF Broken, LoopStates
    <3> QED  BY <2>2, <3>1 DEF LoopOK
  <2> QED  BY <1>8, <2>1, <2>2 DEF StartFails, PurgeFails
<1>9. CASE PurgeFiles
  <2>1. loop' = [loop EXCEPT !.pc = "sleep", !.listed = {}]
    BY <1>9 DEF PurgeFiles
  <2> QED  BY <1>0, <2>1 DEF LoopOK, LoopStates
<1>10. CASE Crash
  <2>1. /\ loop' = [pc |-> "boot", row |-> NoRow, todo |-> {}, listed |-> {},
                    halt |-> {}, booting |-> FALSE]
        /\ inst' = Restrict(inst, {})
    BY <1>10 DEF Crash
  <2>2. Main \notin DOMAIN inst'
    BY <2>1 DEF Restrict
  <2>3. loop' \in LoopStates
    BY <1>0, <2>1 DEF LoopStates
  <2>4. loop'.pc = "boot"
    BY <2>1
  <2> QED  BY <2>2, <2>3, <2>4 DEF LoopOK
<1>11. ASSUME loop' = loop PROVE LoopOK'
  <2>1. loop.pc = "boot" => Main \notin DOMAIN inst'
    <3>1. SUFFICES ASSUME loop.pc = "boot" PROVE Main \notin DOMAIN inst'
      OBVIOUS
    <3>2. ASSUME NEW t \in Running, Starts(t) PROVE t # Main
      <4>1. ~Boot /\ ~StartDone
        BY <1>11, <3>1, <1>0 DEF Boot, Booted, StartDone, LoopStates
      <4>2. PICK a \in BotAdmins : BotStarted(a) /\ t = hand[a].row.token
        BY <3>2, <4>1 DEF Starts
      <4>3. hand[a].row \in Row
        BY <4>2 DEF BotStarted, BotsInv, HandOK
      <4> QED  BY <4>2, <4>3, RowFields
    <3>3. CASE \E t \in Running : Starts(t)
      BY <1>0, <3>1, <3>2, <3>3 DEF Starts, Registered
    <3>4. CASE \E t \in DOMAIN inst : Popped(t)
      BY <1>0, <3>1, <3>4 DEF Popped, Restrict
    <3>5. CASE \E t \in Tokens : PollEnds(t)
      BY <1>0, <3>1, <3>5 DEF PollEnds
    <3>6. CASE Crash
      BY <3>6 DEF Crash, Restrict
    <3>7. CASE MenuDone
      BY <1>0, <3>1, <3>7 DEF MenuDone
    <3>8. CASE MenuNext \/ WaitForTasks
      BY <1>0, <3>1, <3>8 DEF MenuNext, WaitForTasks
    <3>9. CASE UNCHANGED inst
      BY <1>0, <3>1, <3>9
    <3> QED  BY <3>3, <3>4, <3>5, <3>6, <3>7, <3>8, <3>9, RunningMoves DEF running
  <2> QED  BY <1>0, <1>11, <2>1 DEF LoopOK
<1>12. CASE \/ WaitForTasks \/ WaitOver \/ UNCHANGED botVars
            \/ \E t \in Tokens : PollEnds(t) \/ WebCreates(t)
            \/ \E r \in rows, t \in Tokens : WebChangesToken(r, t)
            \/ \E r \in rows : WebToggles(r) \/ \E purge \in BOOLEAN : WebDeletes(r, purge)
            \/ \E r \in newRows : WebSetsTenant(r)
  BY <1>11, <1>12
  DEF WaitForTasks, WaitOver, PollEnds, WebCreates, WebChangesToken, WebToggles, WebDeletes,
      WebSetsTenant, botVars
<1>13. ASSUME NEW a \in BotAdmins,
              \/ Handling(a)
              \/ \E t \in Tokens : BotAdds(a, t)
              \/ \E r \in rows : BotToggles(a, r) \/ \E purge \in BOOLEAN :
                                                       BotStopsDeleted(a, r, purge)
              \/ \E n \in Names : BotRemovesOrphan(a, n)
       PROVE  LoopOK'
  BY <1>11, <1>13
  DEF Handling, BotStartsAdded, BotStarted, BotStartFails, BotSetsTenant, BotApplies,
      BotDeletes, BotRemovesFile, BotAdds, BotToggles, BotStopsDeleted, BotRemovesOrphan
<1> QED
  BY <1>1, <1>2, <1>3, <1>4, <1>5, <1>6, <1>7, <1>8, <1>9, <1>10, <1>12, <1>13
  DEF BotsNext, Manager

LEMMA HandGoes ==
  ASSUME HandOK, NEW a \in BotAdmins, NEW to \in HandStates, Goes(a, to),
         to.pc # "idle" => to.row \in Row
  PROVE  HandOK'
BY DEF HandOK, Goes

LEMMA IdleHand == Idle \in HandStates /\ Idle.pc = "idle"
BY DEF Idle, HandStates

LEMMA HandStep ==
  ASSUME BotsInv, [BotsNext]_botVars
  PROVE  HandOK'
<1>0. HandOK /\ rows \subseteq Row /\ TableOK
  BY DEF BotsInv, TableOK
<1>1. ASSUME hand' = hand PROVE HandOK'
  BY <1>0, <1>1 DEF HandOK
<1>2. ASSUME NEW a \in BotAdmins, NEW l \in {"starting", "tenant", "remove"}, NEW r \in Row,
             Goes(a, [hand[a] EXCEPT !.pc = l, !.row = r])
      PROVE  HandOK'
  <2> DEFINE to == [hand[a] EXCEPT !.pc = l, !.row = r]
  <2>1. to \in HandStates /\ to.row \in Row
    BY <1>0 DEF HandOK, HandStates
  <2> HIDE DEF to
  <2> QED  BY <1>0, <1>2, <2>1, HandGoes DEF to
<1>3. ASSUME NEW a \in BotAdmins, NEW l \in {"starting", "tenant", "remove"},
             hand[a].pc # "idle", Goes(a, [hand[a] EXCEPT !.pc = l])
      PROVE  HandOK'
  <2> DEFINE to == [hand[a] EXCEPT !.pc = l]
  <2>1. to \in HandStates /\ to.row \in Row
    BY <1>0, <1>3 DEF HandOK, HandStates
  <2> HIDE DEF to
  <2> QED  BY <1>0, <1>3, <2>1, HandGoes DEF to
<1>4. ASSUME NEW a \in BotAdmins, Goes(a, Idle)
      PROVE  HandOK'
  BY <1>0, <1>4, HandGoes, IdleHand
<1>5. ASSUME NEW a \in BotAdmins, NEW r \in Row, NEW p \in BOOLEAN,
             Goes(a, [pc |-> "delete", row |-> r, purge |-> p])
      PROVE  HandOK'
  <2> DEFINE to == [pc |-> "delete", row |-> r, purge |-> p]
  <2>1. to \in HandStates /\ to.row \in Row
    BY DEF HandStates
  <2> HIDE DEF to
  <2> QED  BY <1>0, <1>5, <2>1, HandGoes DEF to
<1>6. CASE Crash
  <2>1. hand' = [a \in BotAdmins |-> Idle]
    BY <1>6 DEF Crash
  <2> QED  BY <2>1, IdleHand DEF HandOK
<1>7. CASE \/ Manager \/ UNCHANGED botVars
           \/ \E t \in Tokens : PollEnds(t) \/ WebCreates(t)
           \/ \E r \in rows, t \in Tokens : WebChangesToken(r, t)
           \/ \E r \in rows : WebToggles(r) \/ \E purge \in BOOLEAN : WebDeletes(r, purge)
           \/ \E r \in newRows : WebSetsTenant(r)
  BY <1>1, <1>7
  DEF Manager, Boot, BootFails, ListRows, StartNext, StartDone, StartFails, AllStarted,
      MenuNext, MenuDone, AllChecked, StopNext, PurgeFiles, PurgeFails, WaitForTasks,
      WaitOver, PollEnds,
      WebCreates, WebChangesToken, WebToggles, WebDeletes, WebSetsTenant, botVars
<1>8. ASSUME NEW a \in BotAdmins, Handling(a)
      PROVE  HandOK'
  <2>1. CASE BotStartsAdded(a)
    <3>1. hand[a].row \in Row /\ hand[a].pc # "idle"
      BY <1>0, <2>1 DEF BotStartsAdded, HandOK
    <3>2. \/ Goes(a, [hand[a] EXCEPT !.pc = "tenant"])
          \/ Goes(a, [hand[a] EXCEPT !.pc = "starting", !.row = hand[a].row])
      BY <2>1 DEF BotStartsAdded, HandStarts
    <3> QED  BY <1>2, <1>3, <3>1, <3>2
  <2>2. CASE BotStarted(a)
    <3>1. hand[a].pc # "idle"
      BY <2>2 DEF BotStarted
    <3>2. Goes(a, [hand[a] EXCEPT !.pc = "tenant"]) \/ Goes(a, Idle)
      BY <2>2 DEF BotStarted
    <3> QED  BY <1>3, <1>4, <3>1, <3>2
  <2>3. CASE BotStartFails(a) \/ BotSetsTenant(a) \/ BotRemovesFile(a)
    BY <1>4, <2>3 DEF BotStartFails, BotSetsTenant, BotRemovesFile
  <2>4. CASE BotApplies(a)
    <3>1. \/ Goes(a, Idle)
          \/ \E r \in Row : Goes(a, [hand[a] EXCEPT !.pc = "starting", !.row = r])
      BY <1>0, <2>4 DEF BotApplies, HandStarts
    <3> QED  BY <1>2, <1>4, <3>1
  <2>5. CASE BotDeletes(a)
    <3>1. hand[a].pc # "idle"
      BY <2>5 DEF BotDeletes
    <3>2. Goes(a, [hand[a] EXCEPT !.pc = "remove"]) \/ Goes(a, Idle)
      BY <2>5 DEF BotDeletes
    <3> QED  BY <1>3, <1>4, <3>1, <3>2
  <2> QED  BY <1>8, <2>1, <2>2, <2>3, <2>4, <2>5 DEF Handling
<1>9. ASSUME NEW a \in BotAdmins, NEW t \in Tokens, BotAdds(a, t)
      PROVE  HandOK'
  <2>1. NewRow(t) \in Row
    BY <1>0, <1>9, InsertedRows DEF BotAdds
  <2>2. Goes(a, [Idle EXCEPT !.pc = "added", !.row = NewRow(t), !.purge = TRUE])
    BY <1>9 DEF BotAdds
  <2> DEFINE to == [Idle EXCEPT !.pc = "added", !.row = NewRow(t), !.purge = TRUE]
  <2>3. to \in HandStates /\ to.row \in Row
    BY <2>1, IdleHand DEF HandStates
  <2> HIDE DEF to
  <2> QED  BY <1>0, <2>2, <2>3, HandGoes DEF to
<1>10. ASSUME NEW a \in BotAdmins, NEW r \in rows, BotToggles(a, r)
       PROVE  HandOK'
  <2>1. Goes(a, [Idle EXCEPT !.pc = "toggled", !.row = r]) /\ r \in Row
    BY <1>0, <1>10 DEF BotToggles
  <2> DEFINE to == [Idle EXCEPT !.pc = "toggled", !.row = r]
  <2>2. to \in HandStates /\ to.row \in Row
    BY <2>1, IdleHand DEF HandStates
  <2> HIDE DEF to
  <2> QED  BY <1>0, <2>1, <2>2, HandGoes DEF to
<1>11. ASSUME NEW a \in BotAdmins, NEW r \in rows, NEW p \in BOOLEAN, BotStopsDeleted(a, r, p)
       PROVE  HandOK'
  <2>1. Goes(a, [pc |-> "delete", row |-> r, purge |-> p]) /\ r \in Row
    BY <1>0, <1>11 DEF BotStopsDeleted
  <2> QED  BY <1>5, <2>1
<1>12. ASSUME NEW a \in BotAdmins, NEW n \in Names, BotRemovesOrphan(a, n)
       PROVE  HandOK'
  BY <1>1, <1>12 DEF BotRemovesOrphan
<1> QED
  BY <1>6, <1>7, <1>8, <1>9, <1>10, <1>11, <1>12 DEF BotsNext

LEMMA SpentStep ==
  ASSUME BotsInv, [BotsNext]_botVars
  PROVE  SpentOK'
<1>0. SpentOK
  BY DEF BotsInv
<1>1. ASSUME NEW w \in {"changes", "mishaps"}, NEW m, Spend(w, m)
      PROVE  SpentOK'
  BY <1>0, <1>1 DEF Spend, SpentOK
<1>2. CASE UNCHANGED spent
  BY <1>0, <1>2 DEF SpentOK
<1>3. CASE (Manager /\ ~BootFails) \/ UNCHANGED botVars \/ (\E r \in newRows : WebSetsTenant(r))
           \/ (\E t \in Tokens : WebCreates(t))
  BY <1>2, <1>3
  DEF Manager, Boot, ListRows, StartNext, StartDone, StartFails, AllStarted, MenuNext,
      MenuDone, AllChecked, StopNext, PurgeFiles, PurgeFails, WaitForTasks, WaitOver,
      WebCreates, WebSetsTenant, botVars
<1>4. CASE \/ BootFails \/ Crash
           \/ \E t \in Tokens : PollEnds(t)
           \/ \E r \in rows, t \in Tokens : WebChangesToken(r, t)
           \/ \E r \in rows : WebToggles(r) \/ \E purge \in BOOLEAN : WebDeletes(r, purge)
  BY <1>1, <1>4 DEF BootFails, Crash, PollEnds, WebChangesToken, WebToggles, WebDeletes
<1>5. ASSUME NEW a \in BotAdmins,
             \/ Handling(a)
             \/ \E t \in Tokens : BotAdds(a, t)
             \/ \E n \in Names : BotRemovesOrphan(a, n)
      PROVE  SpentOK'
  BY <1>2, <1>5
  DEF Handling, BotStartsAdded, BotStarted, BotStartFails, BotSetsTenant, BotApplies,
      BotDeletes, BotRemovesFile, BotAdds, BotRemovesOrphan
<1>6. ASSUME NEW a \in BotAdmins, NEW r \in rows,
             BotToggles(a, r) \/ \E purge \in BOOLEAN : BotStopsDeleted(a, r, purge)
      PROVE  SpentOK'
  BY <1>1, <1>6 DEF BotToggles, BotStopsDeleted
<1> QED
  BY <1>3, <1>4, <1>5, <1>6 DEF BotsNext

LEMMA BotsStart ==
  ASSUME BotsInit
  PROVE  BotsInv
<1>1. TableOK /\ TenantOK
  BY BotsAssumption DEF BotsInit, TableOK, TenantOK, Restrict
<1>2. RunningOK /\ HeldOK /\ Main \notin DOMAIN inst
  BY DEF BotsInit, RunningOK, HeldOK, Restrict
<1>3. LoopOK
  BY <1>2 DEF BotsInit, LoopOK, LoopStates
<1>4. HandOK
  BY IdleHand DEF BotsInit, HandOK
<1>5. SpentOK
  BY DEF BotsInit, SpentOK
<1> QED  BY <1>1, <1>2, <1>3, <1>4, <1>5 DEF BotsInv

LEMMA BotsInvariant == BotsSpec => []BotsInv
<1>1. BotsInit => BotsInv
  BY BotsStart
<1>2. BotsInv /\ [BotsNext]_botVars => BotsInv'
  BY TableStep, TenantStep, RunningStep, LoopStep, HandStep, SpentStep DEF BotsInv
<1> QED  BY <1>1, <1>2, PTL DEF BotsSpec

(* The table, the entries of the manager, the round of the loop and every  *)
(* handler stay well formed: ids and tokens are unique, nobody starts or   *)
(* stops a bot without its row, and no counter of polling tasks goes below *)
(* zero.                                                                   *)
THEOREM BotsTyped == BotsSpec => []BotsTypeOK
<1>1. BotsInv => BotsTypeOK
  BY InvIsTyped
<1> QED  BY <1>1, BotsInvariant, PTL

(***************************************************************************)
(* Polling tasks.                                                          *)
(***************************************************************************)
LEMMA KnownTasks ==
  ASSUME BotsInv, NEW t \in Running
  PROVE  /\ Known(t) \in {0, 1} /\ polling[t] \in Nat /\ polling[t] >= Known(t)
         /\ Known(t) = 1 <=> t \in DOMAIN inst /\ inst[t].alive
BY DEF BotsInv, RunningOK, Known

LEMMA StraysStay ==
  ASSUME BotsInv, BotsInv', NEW t \in Running, [BotsNext]_botVars,
         ~(\E u \in Running : Starts(u))
  PROVE  Strays(t)' <= Strays(t)
<1>0. /\ polling[t] \in Nat /\ polling[t] >= Known(t) /\ Known(t) \in {0, 1}
      /\ polling'[t] \in Nat /\ Known(t)' \in {0, 1}
  BY KnownTasks DEF BotsInv, RunningOK, Known
<1>1. ASSUME polling'[t] + Known(t) <= polling[t] + Known(t)'
      PROVE  Strays(t)' <= Strays(t)
  BY <1>0, <1>1 DEF Strays
<1>2. ASSUME NEW u \in DOMAIN inst, Popped(u)
      PROVE  polling'[t] + Known(t) <= polling[t] + Known(t)'
  <2>1. CASE t # u
    <3>1. Known(t)' = Known(t)
      BY <1>2, <2>1 DEF Popped, Restrict, Known
    <3>2. polling'[t] = polling[t]
      BY <1>2, <2>1 DEF Popped, BotsInv, RunningOK
    <3> QED  BY <1>0, <3>1, <3>2
  <2>2. CASE t = u
    <3>1. t \notin DOMAIN inst'
      BY <1>2, <2>2 DEF Popped, Restrict
    <3>2. CASE inst[t].alive
      <4>1. polling'[t] = polling[t] - 1 /\ Known(t) = 1
        BY <1>2, <2>2, <3>2 DEF Popped, BotsInv, RunningOK, Known
      <4> QED  BY <1>0, <4>1
    <3>3. CASE ~inst[t].alive
      <4>1. polling'[t] = polling[t] /\ Known(t) = 0
        BY <1>2, <2>2, <3>3 DEF Popped, Known
      <4> QED  BY <1>0, <4>1
    <3> QED  BY <3>2, <3>3
  <2> QED  BY <2>1, <2>2
<1>3. ASSUME NEW u \in Tokens, PollEnds(u)
      PROVE  polling'[t] + Known(t) <= polling[t] + Known(t)'
  <2>1. CASE t # u
    <3>1. Known(t)' = Known(t)
      BY <1>3, <2>1 DEF PollEnds, Known
    <3>2. polling'[t] = polling[t]
      BY <1>3, <2>1 DEF PollEnds, BotsInv, RunningOK
    <3> QED  BY <1>0, <3>1, <3>2
  <2>2. CASE t = u
    <3>1. polling'[t] = polling[t] - 1 /\ Known(t) = 1
      BY <1>3, <2>2 DEF PollEnds, BotsInv, RunningOK, Known
    <3> QED  BY <1>0, <3>1
  <2> QED  BY <2>1, <2>2
<1>4. CASE Crash
  <2>1. polling'[t] = 0 /\ Known(t)' = 0
    BY <1>4 DEF Crash, Restrict, Known
  <2> QED  BY <1>0, <1>1, <2>1
<1>5. CASE MenuDone
  <2>1. polling'[t] = polling[t] /\ Known(t)' = Known(t)
    BY <1>5 DEF MenuDone, Known, BotsInv, RunningOK, Inst
  <2> QED  BY <1>0, <1>1, <2>1
<1>6. CASE UNCHANGED <<inst, polling>>
  <2>1. polling'[t] = polling[t] /\ Known(t)' = Known(t)
    BY <1>6 DEF Known
  <2> QED  BY <1>0, <1>1, <2>1
<1>7. MenuNext \/ WaitForTasks \/ UNCHANGED running => UNCHANGED <<inst, polling>>
  BY DEF MenuNext, WaitForTasks, running
<1> QED  BY <1>1, <1>2, <1>3, <1>4, <1>5, <1>6, <1>7, RunningMoves

(* Whoever registers a bot that runs was overtaken by another caller.      *)
LEMMA StraysStart ==
  ASSUME BotsInv, BotsInv', NEW t \in Running, NEW u \in Running, Starts(u)
  PROVE  Strays(t)' <= Strays(t) \/ (t = u /\ Overtakes(t))
<1>0. /\ polling[t] \in Nat /\ Known(t) \in {0, 1} /\ Known(t)' \in {0, 1}
      /\ polling'[t] \in Nat
  BY KnownTasks DEF BotsInv, RunningOK, Known
<1>1. CASE t # u
  <2>1. Known(t)' = Known(t)
    BY <1>1 DEF Starts, Registered, Known
  <2>2. polling'[t] = polling[t]
    BY <1>1 DEF Starts, Registered, BotsInv, RunningOK
  <2> QED  BY <1>0, <2>1, <2>2 DEF Strays
<1>2. CASE t = u /\ Known(t) = 0
  <2>1. Known(t)' = 1
    BY <1>2 DEF Starts, Registered, Known
  <2>2. polling'[t] = polling[t] + 1
    BY <1>2 DEF Starts, Registered, BotsInv, RunningOK
  <2> QED  BY <1>0, <1>2, <2>1, <2>2 DEF Strays
<1>3. CASE t = u /\ Known(t) = 1
  <2>1. ~(Boot /\ t = Main)
    BY <1>3, KnownTasks DEF Boot, BotsInv, LoopOK
  <2>2. CASE StartDone /\ t = loop.row.token
    <3>1. loop.pc = "starting" /\ loop' = [loop EXCEPT !.pc = "start", !.row = NoRow]
      BY <2>2 DEF StartDone
    <3>2. loop'.pc = "start"
      BY <3>1 DEF BotsInv, LoopOK, LoopStates
    <3> QED  BY <1>3, <2>2, <3>1, <3>2 DEF Overtakes
  <2>3. CASE \E a \in BotAdmins : BotStarted(a) /\ t = hand[a].row.token
    <3>1. PICK a \in BotAdmins : BotStarted(a) /\ t = hand[a].row.token
      BY <2>3
    <3>2. hand[a].pc = "starting" /\ (\/ Goes(a, [hand[a] EXCEPT !.pc = "tenant"])
                                      \/ Goes(a, Idle))
      BY <3>1 DEF BotStarted
    <3>3. hand'[a].pc \in {"idle", "tenant"}
      BY <3>2, IdleHand DEF Goes, BotsInv, HandOK, HandStates
    <3> QED  BY <1>3, <3>1, <3>2, <3>3 DEF Overtakes
  <2> QED  BY <1>3, <2>1, <2>2, <2>3 DEF Starts
<1> QED  BY <1>0, <1>1, <1>2, <1>3

LEMMA StraysMove ==
  ASSUME BotsInv, BotsInv', NEW t \in Running, [BotsNext]_botVars, Strays(t)' > Strays(t)
  PROVE  Overtakes(t)
<1>0. Strays(t) \in Int /\ Strays(t)' \in Int
  BY KnownTasks DEF Strays, BotsInv, RunningOK, Known
<1>1. PICK u \in Running : Starts(u)
  BY <1>0, StraysStay
<1> QED  BY <1>0, <1>1, StraysStart

(* A polling task gets out of the manager's hands only where two callers   *)
(* of start_bot overlap on its token, for any number of bots, callers,     *)
(* ended tasks and restarts.                                               *)
THEOREM OnlyOverlapsStray == BotsSpec => StraysAreKnown
<1>1. BotsInv /\ BotsInv' /\ [BotsNext]_botVars =>
        [\A t \in Running : Strays(t)' > Strays(t) => Overtakes(t)]_<<inst, polling>>
  BY StraysMove
<1> QED  BY <1>1, BotsInvariant, PTL DEF BotsSpec, StraysAreKnown

(***************************************************************************)
(* With nobody at work inside the bot only the loop starts bots, and the   *)
(* one it has begun to start does not run yet.                             *)
(***************************************************************************)
AloneInv ==
    /\ NoStrays
    /\ loop.pc = "starting" => loop.row.token \notin DOMAIN inst

LEMMA AloneStep ==
  ASSUME BotAdmins = {}, BotsInv, BotsInv', AloneInv, [BotsNext]_botVars
  PROVE  AloneInv'
<1>1. ASSUME NEW t \in Running
      PROVE  ~Overtakes(t)
  BY <1>1 DEF Overtakes, AloneInv, Known
<1>2. NoStrays'
  <2>1. SUFFICES ASSUME NEW t \in Running PROVE Strays(t)' = 0
    BY DEF NoStrays
  <2>2. Strays(t)' <= Strays(t)
    <3>1. Strays(t) \in Int /\ Strays(t)' \in Int
      BY KnownTasks DEF Strays, BotsInv, RunningOK, Known
    <3> QED  BY <1>1, <3>1, StraysMove
  <2>3. Strays(t) = 0
    BY DEF AloneInv, NoStrays
  <2>4. Strays(t)' >= 0 /\ Strays(t)' \in Int
    BY KnownTasks DEF Strays, BotsInv, RunningOK, Known
  <2> QED  BY <2>2, <2>3, <2>4
<1>3. ASSUME loop'.pc = "starting"
      PROVE  loop'.row.token \notin DOMAIN inst'
  <2>1. CASE StartNext
    <3>1. PICK r \in Row :
             /\ loop.pc = "start"
             /\ loop' = [loop EXCEPT
                           !.pc = IF r.token \in DOMAIN inst THEN @ ELSE "starting",
                           !.row = r, !.todo = {q \in @ : q.id > r.id}]
             /\ UNCHANGED running
      BY <2>1, StartBegins
    <3>2. r.token \notin DOMAIN inst /\ loop'.row = r
      BY <1>3, <3>1 DEF BotsInv, LoopOK, LoopStates
    <3> QED  BY <3>1, <3>2 DEF running
  <2>2. CASE ~StartNext
    <3>1. loop' = loop
      <4>1. loop \in LoopStates
        BY DEF BotsInv, LoopOK
      <4>2. ~Boot /\ ~BootFails /\ ~ListRows /\ ~StartDone /\ ~StartFails
        <5>1. loop' # Broken
          BY <1>3 DEF Broken
        <5>2. ~Booted
          BY <1>3, <4>1 DEF Booted, LoopStates
        <5>3. loop' # [loop EXCEPT !.pc = "start", !.row = NoRow]
          BY <1>3, <4>1 DEF LoopStates
        <5>4. ~ListRows
          BY <1>3, <4>1 DEF ListRows, LoopStates
        <5> QED  BY <5>1, <5>2, <5>3, <5>4 DEF Boot, BootFails, StartDone, StartFails
      <4>3. ~AllStarted /\ ~MenuNext /\ ~MenuDone /\ ~AllChecked
        BY <1>3, <4>1 DEF AllStarted, MenuNext, MenuDone, AllChecked, LoopStates
      <4>4. ~StopNext
        <5>1. SUFFICES ASSUME StopNext PROVE FALSE
          OBVIOUS
        <5>2. PICK t : loop' = [loop EXCEPT !.halt = @ \ {t}]
          BY <5>1 DEF StopNext
        <5>3. loop.pc = "stop"
          BY <5>1 DEF StopNext
        <5> QED  BY <1>3, <4>1, <5>2, <5>3 DEF LoopStates
      <4>5. ~PurgeFiles /\ ~PurgeFails
        <5>1. loop' # Broken
          BY <1>3 DEF Broken
        <5>2. loop' # [loop EXCEPT !.pc = "sleep", !.listed = {}]
          BY <1>3, <4>1 DEF LoopStates
        <5> QED  BY <5>1, <5>2 DEF PurgeFiles, PurgeFails
      <4>6. ~Crash
        BY <1>3 DEF Crash
      <4>7. CASE WaitForTasks \/ WaitOver \/ UNCHANGED botVars
        BY <4>7 DEF WaitForTasks, WaitOver, botVars
      <4>8. CASE \/ \E t \in Tokens : PollEnds(t) \/ WebCreates(t)
                 \/ \E r \in rows, t \in Tokens : WebChangesToken(r, t)
                 \/ \E r \in rows : WebToggles(r) \/ \E purge \in BOOLEAN :
                                                        WebDeletes(r, purge)
                 \/ \E r \in newRows : WebSetsTenant(r)
        BY <4>8 DEF PollEnds, WebCreates, WebChangesToken, WebToggles, WebDeletes,
                    WebSetsTenant
      <4> QED  BY <2>2, <4>2, <4>3, <4>4, <4>5, <4>6, <4>7, <4>8 DEF BotsNext, Manager
    <3>2. ~(\E u \in Running : Starts(u))
      BY <1>3, <3>1 DEF Starts, Boot, StartDone, BotsInv, LoopOK, LoopStates
    <3>3. DOMAIN inst' \subseteq DOMAIN inst
      BY <3>2, RunningMoves
      DEF Popped, Restrict, PollEnds, Crash, MenuDone, MenuNext, WaitForTasks, running
    <3> QED  BY <1>3, <3>1, <3>3 DEF AloneInv
  <2> QED  BY <2>1, <2>2
<1> QED  BY <1>2, <1>3 DEF AloneInv

(* With nobody at work inside the bot, every polling task is the one its   *)
(* entry knows: the web panel, the mini app, restarts and tasks that end   *)
(* never make a bot run that stop_bot could not end.                       *)
THEOREM AloneNoStrays ==
  ASSUME BotAdmins = {}
  PROVE  BotsSpec => []NoStrays
<1>1. BotsInit => AloneInv
  BY DEF BotsInit, AloneInv, NoStrays, Strays, Known, Restrict
<1>2. BotsInv /\ BotsInv' /\ AloneInv /\ [BotsNext]_botVars => AloneInv'
  BY AloneStep
<1>3. AloneInv => NoStrays
  BY DEF AloneInv
<1> QED  BY <1>1, <1>2, <1>3, BotsInvariant, PTL DEF BotsSpec
==============================================================================
