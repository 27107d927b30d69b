--------------------------- MODULE SettingsCache ---------------------------
(***************************************************************************)
(* One Database object of one process (database.py): its lock, and the     *)
(* copy of the table settings it keeps in memory.                          *)
(*                                                                         *)
(* The lock is a threading.Lock: a thread that holds it and asks for it    *)
(* again waits for itself.  A copy that is missing or older than its TTL   *)
(* is read again by whoever needs it, in two steps that both take the      *)
(* lock: SELECT the rows, then store them.  In the bot a background loop   *)
(* does so every two seconds as well.  A setting saved by this process is  *)
(* also written into the copy, outside the lock.  Other processes write to *)
(* the same file.                                                          *)
(***************************************************************************)
EXTENDS Integers, FiniteSets

CONSTANTS
    Threads,        \* running requests, in threads of their own
    Nobody, None,   \* no thread holds the lock; no copy, no value
    Values,         \* the values each setting can have
    Initial,        \* the settings at the start
    MaxChanges,     \* bound: writes to the table
    MaxFailures     \* bound: requests that are interrupted

Keys == DOMAIN Values

ASSUME CacheAssumption ==
    /\ Nobody \notin Threads
    /\ \A k \in Keys : Values[k] \subseteq Nat
    /\ Initial \in [Keys -> UNION {Values[k] : k \in Keys}]
    /\ \A k \in Keys : Initial[k] \in Values[k]
    /\ MaxChanges \in Nat /\ MaxFailures \in Nat

VARIABLES
    lock,       \* the thread that holds the lock in the middle of a method
    rows,       \* the table
    cache,      \* _settings_cache
    fresh,      \* the copy is younger than its TTL
    pc,         \* where a thread is
    then,       \* where it goes on when the copy has been stored
    snap,       \* the rows it selected
    edit,       \* the setting it saved and has to write into the copy
    changes,    \* writes so far
    failures    \* interruptions so far

table == <<rows, cache, fresh>>
loading == <<then, snap, edit>>
cacheVars == <<lock, table, pc, loading, changes, failures>>

Settings == {s \in [Keys -> UNION {Values[k] : k \in Keys}] :
                \A k \in Keys : s[k] \in Values[k]}

CacheTypeOK ==
    /\ lock \in Threads \cup {Nobody}
    /\ rows \in Settings
    /\ cache \in Settings \cup {None}
    /\ fresh \in BOOLEAN
    /\ snap \in [Threads -> Settings \cup {None}]
    /\ edit \in [Threads -> {<<k, v>> : k \in Keys, v \in UNION {Values[k] : k \in Keys}}
                            \cup {None}]
    /\ changes \in 0..MaxChanges /\ failures \in 0..MaxFailures

CacheInit ==
    /\ lock = Nobody
    /\ rows = Initial
    /\ cache = None
    /\ fresh = FALSE
    /\ pc = [h \in Threads |-> "idle"]
    /\ then = [h \in Threads |-> "idle"]
    /\ snap = [h \in Threads |-> None]
    /\ edit = [h \in Threads |-> None]
    /\ changes = 0
    /\ failures = 0

-----------------------------------------------------------------------------

Cached == cache # None /\ fresh
Goto(h, l) == pc' = [pc EXCEPT ![h] = l]

(* _load_settings_cache, in a thread that goes on at l.                     *)
Load(h, l) ==
    /\ Goto(h, "select")
    /\ then' = [then EXCEPT ![h] = l]
    /\ UNCHANGED <<lock, table, snap, edit, changes, failures>>

Select(h) ==
    /\ pc[h] = "select" /\ lock = Nobody
    /\ snap' = [snap EXCEPT ![h] = rows]
    /\ Goto(h, "store")
    /\ UNCHANGED <<lock, table, then, edit, changes, failures>>

(* Mutant: a copy that is there already is not replaced.                    *)
FirstCopy(h) == IF cache = None THEN snap[h] ELSE cache
NewCopy(h) == snap[h]

Store(h) ==
    /\ pc[h] = "store" /\ lock = Nobody
    /\ cache' = NewCopy(h)
    /\ fresh' = TRUE
    /\ Goto(h, then[h])
    /\ then' = [then EXCEPT ![h] = "idle"]
    /\ snap' = [snap EXCEPT ![h] = None]
    /\ UNCHANGED <<lock, rows, edit, changes, failures>>

(* get_setting when the copy is missing or too old (otherwise it reads it   *)
(* and leaves everything as it is), and in the bot each round of            *)
(* cache_autorefresh_loop, on a thread of the pool, however old it is.      *)
Refresh(h) ==
    /\ pc[h] = "idle"
    /\ Load(h, "idle")

-----------------------------------------------------------------------------

WriteSetting(k, v) ==
    /\ changes < MaxChanges
    /\ v # rows[k]
    /\ rows' = [rows EXCEPT ![k] = v]
    /\ changes' = changes + 1

(* set_setting: the commit, and then the copy.                              *)
SetSetting(h, k, v) ==
    /\ pc[h] = "idle" /\ lock = Nobody
    /\ WriteSetting(k, v)
    /\ edit' = [edit EXCEPT ![h] = <<k, v>>]
    /\ Goto(h, "inplace")
    /\ UNCHANGED <<lock, cache, fresh, then, snap, failures>>

InPlace(h) ==
    /\ pc[h] = "inplace"
    /\ cache' = IF cache = None THEN None
                ELSE [cache EXCEPT ![edit[h][1]] = edit[h][2]]
    /\ edit' = [edit EXCEPT ![h] = None]
    /\ Goto(h, "idle")
    /\ UNCHANGED <<lock, rows, fresh, then, snap, changes, failures>>

(* The mini app, the web panel or another bot writes to the file.           *)
OtherProcess(k, v) ==
    /\ WriteSetting(k, v)
    /\ UNCHANGED <<lock, cache, fresh, pc, loading, failures>>

Expire ==
    /\ fresh
    /\ fresh' = FALSE
    /\ UNCHANGED <<lock, rows, cache, pc, loading, changes, failures>>

CacheStep(h) == Select(h) \/ Store(h) \/ InPlace(h)

CacheNext ==
    \/ \E h \in Threads : CacheStep(h) \/ Refresh(h)
    \/ \E k \in Keys : \E v \in Values[k] :
          OtherProcess(k, v) \/ \E h \in Threads : SetSetting(h, k, v)
    \/ Expire
=============================================================================
