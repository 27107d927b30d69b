---------------------------- MODULE ReferralProofs ----------------------------
(***************************************************************************)
(* For any number of threads, users and settings: a first purchase is paid *)
(* for exactly once, a referrer earns no more commissions than the limit   *)
(* allows, and the free config is given once.                              *)
(***************************************************************************)
EXTENDS ReferralProperties, FiniteSetTheorems, TLAPS

(* What a thread that saved a setting has to write into the copy.           *)
Edits == {e \in Keys \X UNION {Values[k] : k \in Keys} : e[2] \in Values[e[1]]}

(* What is used of the types; the copy in memory holds values a setting may *)
(* have.                                                                    *)
Shape ==
    /\ lock \in Threads \cup {Nobody}
    /\ rows \in Settings /\ cache \in Settings \cup {None}
    /\ pc \in [Threads -> Labels] /\ then \in [Threads -> Labels]
    /\ snap \in [Threads -> Settings \cup {None}]
    /\ edit \in [Threads -> Edits \cup {None}]
    /\ guest \in [Threads -> Users \cup {None}]
    /\ host \in [Threads -> Users \cup {None}]
    /\ referredBy \in [Users -> Users \cup {None}]
    /\ rewarded \in SUBSET Users /\ due \in SUBSET Users
    /\ paid \in [Users -> Nat] /\ gifts \in [Users -> Nat]

(* A thread in a transaction holds the lock, and what it has read there     *)
(* still is true; whose free config is to be built has none.                *)
ThreadOK(h) ==
    /\ pc[h] = "store" => snap[h] \in Settings
    /\ pc[h] = "inplace" => edit[h] \in Edits
    /\ pc[h] \notin {"select", "store"} => then[h] = "idle"
    /\ then[h] \in {"idle", "percent", "look"}
    /\ pc[h] \in Working \/ then[h] # "idle" => guest[h] \in Users /\ host[h] \in Users
    /\ pc[h] \in {"reward", "gifts"} => lock = h
    /\ pc[h] = "reward" => guest[h] \notin rewarded /\ referredBy[guest[h]] = host[h]
    /\ pc[h] = "freebie" => gifts[host[h]] = 0 /\ host[h] \in freeGiven
ThreadsInv == \A h \in Threads : ThreadOK(h)

(* A commission is due for a marked purchase of an invited user.            *)
MarkInv == due \subseteq rewarded /\ \A u \in rewarded : referredBy[u] # None

GiftInv ==
    /\ \A r \in Users : gifts[r] <= 1 /\ (r \notin freeGiven => gifts[r] = 0)
    /\ \A g, h \in Threads :
          pc[g] = "freebie" /\ pc[h] = "freebie" /\ host[g] = host[h] => g = h

(* A commission that is due was paid, or was lost, or is being paid by one  *)
(* thread.                                                                  *)
Payers(u) == {h \in Threads : Paying(h) /\ guest[h] = u}
PaidOnce(u) ==
    \/ u \notin due /\ paid[u] = 0 /\ u \notin lost /\ Payers(u) = {}
    \/ u \in due /\ paid[u] = 1 /\ u \notin lost /\ Payers(u) = {}
    \/ u \in due /\ paid[u] = 0 /\ u \in lost /\ Payers(u) = {}
    \/ u \in due /\ paid[u] = 0 /\ u \notin lost /\ \E h \in Threads : Payers(u) = {h}
PaymentInv == \A u \in Users : PaidOnce(u)

IInv == Shape /\ ThreadsInv /\ MarkInv /\ GiftInv /\ PaymentInv /\ CommissionCap

LEMMA InitInv == ASSUME Init PROVE IInv
<1>1. /\ pc = [h \in Threads |-> "idle"] /\ then = [h \in Threads |-> "idle"]
      /\ lock = Nobody /\ rows = Initial /\ cache = None
      /\ snap = [h \in Threads |-> None] /\ edit = [h \in Threads |-> None]
      /\ guest = [h \in Threads |-> None] /\ host = [h \in Threads |-> None]
      /\ referredBy = [u \in Users |-> None] /\ rewarded = {} /\ freeGiven = {}
      /\ due = {} /\ lost = {} /\ paid = [u \in Users |-> 0] /\ gifts = [u \in Users |-> 0]
  BY DEF Init, CacheInit
<1>2. Initial \in Settings
  BY CacheAssumption DEF Settings
<1>3. Shape
  BY <1>1, <1>2 DEF Shape, Labels
<1>4. ThreadsInv /\ MarkInv /\ GiftInv
  BY <1>1 DEF ThreadsInv, ThreadOK, Working, Labels, MarkInv, GiftInv
<1>5. PaymentInv
  BY <1>1 DEF PaymentInv, PaidOnce, Payers, Paying
<1>6. CommissionCap
  <2>1. Initial["cap"] \in Values["cap"] /\ Initial["cap"] \in Nat
    BY CacheAssumption, ReferralAssumption DEF Keys
  <2>2. \A r : Cardinality(Invited(r) \cap due) = 0
    BY <1>1, FS_EmptySet
  <2> QED  BY <2>1, <2>2 DEF CommissionCap
<1> QED  BY <1>3, <1>4, <1>5, <1>6 DEF IInv

-----------------------------------------------------------------------------
(* A thread that stands still while h takes a step.                         *)
Stands(g) ==
    /\ pc'[g] = pc[g] /\ then'[g] = then[g] /\ snap'[g] = snap[g]
    /\ edit'[g] = edit[g] /\ guest'[g] = guest[g] /\ host'[g] = host[g]

(* What h may do to what the others rely on.                                *)
Fair(h) ==
    /\ lock' = lock \/ lock = Nobody \/ lock = h
    /\ rewarded' = rewarded \/ lock = h
    /\ \A u \in Users : referredBy[u] # None => referredBy'[u] = referredBy[u]
    /\ freeGiven \subseteq freeGiven'
    /\ \A r \in Users : gifts'[r] = gifts[r] \/ (pc[h] = "freebie" /\ host[h] = r)

LEMMA OthersOK ==
  ASSUME IInv, NEW h \in Threads, NEW g \in Threads, g # h, Stands(g), Fair(h)
  PROVE  ThreadOK(g)'
<1>1. ThreadOK(g) /\ ThreadOK(h)
  BY DEF IInv, ThreadsInv
<1>2. pc[g] \in {"reward", "gifts"} => lock' = g /\ rewarded' = rewarded
  BY <1>1, CacheAssumption DEF ThreadOK, Fair
<1>3. pc[g] = "reward" => /\ guest[g] \notin rewarded'
                          /\ referredBy'[guest[g]] = host[g]
  <2>1. pc[g] = "reward" => guest[g] \in Users /\ host[g] \in Users
    BY <1>1 DEF ThreadOK, Working, Labels
  <2> QED  BY <1>1, <1>2, <2>1, ReferralAssumption DEF ThreadOK, Fair
<1>4. pc[g] = "freebie" => gifts'[host[g]] = 0 /\ host[g] \in freeGiven'
  <2>1. pc[g] = "freebie" => host[g] \in Users
    BY <1>1 DEF ThreadOK, Working, Labels
  <2> QED  BY <1>1, <2>1 DEF IInv, GiftInv, ThreadOK, Fair
<1> QED  BY <1>1, <1>2, <1>3, <1>4 DEF ThreadOK, Stands

(* A step that moves no money, marks nothing and hands out nothing.         *)
LEMMA Quiet ==
  ASSUME IInv, Shape', NEW h \in Threads, \A g \in Threads \ {h} : Stands(g),
         lock' = lock \/ lock = Nobody \/ lock = h, ThreadOK(h)',
         pc'[h] # "freebie", Paying(h)' <=> Paying(h),
         Paying(h) => guest'[h] = guest[h],
         UNCHANGED <<referredBy, rewarded, freeGiven, due, paid, lost, gifts>>
  PROVE  IInv'
<1>1. Fair(h)
  BY DEF Fair
<1>2. ThreadsInv'
  BY <1>1, OthersOK DEF ThreadsInv
<1>3. MarkInv' /\ GiftInv'
  BY DEF IInv, MarkInv, GiftInv, Stands
<1>4. \A u \in Users : Payers(u)' = Payers(u)
  BY DEF Payers, Paying, Stands
<1>5. PaymentInv'
  BY <1>4 DEF IInv, PaymentInv, PaidOnce
<1>6. CommissionCap'
  BY DEF IInv, CommissionCap, Invited
<1> QED  BY <1>2, <1>3, <1>5, <1>6 DEF IInv

-----------------------------------------------------------------------------
(* The copy of the settings.                                                *)
LEMMA LoadStep ==
  ASSUME IInv, NEW h \in Threads, NEW l \in {"idle", "percent", "look"}, Load(h, l),
         \/ pc[h] = "idle" /\ l = "idle"
         \/ pc[h] = "pay" /\ l = "percent"
         \/ pc[h] = "button" /\ l = "look",
         UNCHANGED <<people, parties, records>>
  PROVE  IInv'
<1>1. /\ pc' = [pc EXCEPT ![h] = "select"] /\ then' = [then EXCEPT ![h] = l]
      /\ UNCHANGED <<lock, rows, cache, snap, edit, guest, host, referredBy, rewarded,
                     freeGiven, due, paid, lost, gifts>>
  BY DEF Load, Goto, table, people, parties, records
<1>2. Shape' /\ \A g \in Threads \ {h} : Stands(g)
  BY <1>1 DEF IInv, Shape, Stands, Labels
<1>3. pc'[h] = "select" /\ then'[h] = l /\ then[h] = "idle"
  BY <1>1 DEF IInv, Shape, ThreadsInv, ThreadOK
<1>4. ThreadOK(h)'
  BY <1>1, <1>3 DEF IInv, ThreadsInv, ThreadOK, Working, Labels
<1>5. Paying(h)' <=> Paying(h)
  BY <1>3 DEF Paying
<1> QED  BY <1>1, <1>2, <1>3, <1>4, <1>5, Quiet

LEMMA SelectStep ==
  ASSUME IInv, NEW h \in Threads, Select(h), UNCHANGED <<people, parties, records>>
  PROVE  IInv'
<1>1. /\ pc[h] = "select" /\ pc' = [pc EXCEPT ![h] = "store"]
      /\ snap' = [snap EXCEPT ![h] = rows]
      /\ UNCHANGED <<lock, rows, cache, then, edit, guest, host, referredBy, rewarded,
                     freeGiven, due, paid, lost, gifts>>
  BY DEF Select, Goto, table, people, parties, records
<1>2. Shape' /\ \A g \in Threads \ {h} : Stands(g)
  BY <1>1 DEF IInv, Shape, Stands, Labels
<1>3. pc'[h] = "store" /\ snap'[h] \in Settings
  BY <1>1 DEF IInv, Shape
<1>4. ThreadOK(h)'
  BY <1>1, <1>3 DEF IInv, ThreadsInv, ThreadOK, Working, Labels
<1>5. Paying(h)' <=> Paying(h)
  BY <1>1, <1>3 DEF Paying
<1> QED  BY <1>1, <1>2, <1>3, <1>4, <1>5, Quiet

LEMMA StoreStep ==
  ASSUME IInv, NEW h \in Threads, Store(h), UNCHANGED <<people, parties, records>>
  PROVE  IInv'
<1>1. /\ pc[h] = "store" /\ pc' = [pc EXCEPT ![h] = then[h]]
      /\ then' = [then EXCEPT ![h] = "idle"] /\ cache' = snap[h]
      /\ snap' = [snap EXCEPT ![h] = None]
      /\ UNCHANGED <<lock, rows, edit, guest, host, referredBy, rewarded,
                     freeGiven, due, paid, lost, gifts>>
  BY DEF Store, NewCopy, Goto, people, parties, records
<1>2. ThreadOK(h) /\ then[h] \in {"idle", "percent", "look"} /\ snap[h] \in Settings
  BY <1>1 DEF IInv, ThreadsInv, ThreadOK
<1>3. Shape' /\ \A g \in Threads \ {h} : Stands(g)
  BY <1>1, <1>2 DEF IInv, Shape, Stands, Labels
<1>4. pc'[h] = then[h] /\ then'[h] = "idle"
  BY <1>1 DEF IInv, Shape
<1>5. ThreadOK(h)'
  BY <1>1, <1>2, <1>4 DEF ThreadOK, Working, Labels
<1>6. Paying(h)' <=> Paying(h)
  BY <1>1, <1>2, <1>4 DEF Paying
<1> QED  BY <1>1, <1>2, <1>3, <1>4, <1>5, <1>6, Quiet

(* A row, or the copy, with another value the setting may have.             *)
LEMMA OneSetting ==
  ASSUME NEW s \in Settings, NEW k \in Keys, NEW v \in Values[k]
  PROVE  [s EXCEPT ![k] = v] \in Settings /\ <<k, v>> \in Edits
  BY DEF Settings, Edits

LEMMA SavingStep ==
  ASSUME IInv, NEW k \in Keys, NEW v \in Values[k], NEW h \in Threads,
         SetSetting(h, k, v), UNCHANGED <<people, parties, records>>
  PROVE  IInv'
<1>1. /\ pc[h] = "idle" /\ pc' = [pc EXCEPT ![h] = "inplace"]
      /\ edit' = [edit EXCEPT ![h] = <<k, v>>] /\ rows' = [rows EXCEPT ![k] = v]
      /\ UNCHANGED <<lock, cache, then, snap, guest, host, referredBy, rewarded,
                     freeGiven, due, paid, lost, gifts>>
  BY DEF SetSetting, WriteSetting, Goto, people, parties, records
<1>2. rows' \in Settings /\ <<k, v>> \in Edits
  BY <1>1, OneSetting DEF IInv, Shape
<1>3. Shape' /\ \A g \in Threads \ {h} : Stands(g)
  BY <1>1, <1>2 DEF IInv, Shape, Stands, Labels
<1>4. pc'[h] = "inplace" /\ edit'[h] \in Edits
  BY <1>1, <1>2 DEF IInv, Shape
<1>5. ThreadOK(h)'
  BY <1>1, <1>4 DEF IInv, ThreadsInv, ThreadOK, Working, Labels
<1>6. Paying(h)' <=> Paying(h)
  BY <1>1, <1>4 DEF Paying
<1> QED  BY <1>1, <1>3, <1>4, <1>5, <1>6, Quiet

LEMMA InPlaceStep ==
  ASSUME IInv, NEW h \in Threads, InPlace(h), UNCHANGED <<people, parties, records>>
  PROVE  IInv'
<1>1. /\ pc[h] = "inplace" /\ pc' = [pc EXCEPT ![h] = "idle"]
      /\ edit' = [edit EXCEPT ![h] = None]
      /\ cache' = IF cache = None THEN None
                  ELSE [cache EXCEPT ![edit[h][1]] = edit[h][2]]
      /\ UNCHANGED <<lock, rows, then, snap, guest, host, referredBy, rewarded,
                     freeGiven, due, paid, lost, gifts>>
  BY DEF InPlace, Goto, people, parties, records
<1>2. edit[h][1] \in Keys /\ edit[h][2] \in Values[edit[h][1]]
  BY <1>1 DEF IInv, ThreadsInv, ThreadOK, Edits
<1>3. cache' \in Settings \cup {None}
  BY <1>1, <1>2, OneSetting DEF IInv, Shape
<1>4. Shape' /\ \A g \in Threads \ {h} : Stands(g)
  BY <1>1, <1>3 DEF IInv, Shape, Stands, Labels
<1>5. pc'[h] = "idle"
  BY <1>1 DEF IInv, Shape
<1>6. ThreadOK(h)'
  BY <1>1, <1>5 DEF IInv, ThreadsInv, ThreadOK, Working, Labels
<1>7. Paying(h)' <=> Paying(h)
  BY <1>1, <1>5 DEF Paying
<1> QED  BY <1>1, <1>4, <1>5, <1>6, <1>7, Quiet

(* Another process writes a setting, or the copy grows old.                 *)
LEMMA OutsideStep ==
  ASSUME IInv, rows' \in Settings,
         UNCHANGED <<lock, cache, pc, loading, people, parties, records>>
  PROVE  IInv'
<1>1. UNCHANGED <<lock, cache, pc, then, snap, edit, guest, host, referredBy, rewarded,
                  freeGiven, due, paid, lost, gifts>>
  BY DEF loading, people, parties, records
<1>2. Shape' /\ ThreadsInv'
  BY <1>1 DEF IInv, Shape, ThreadsInv, ThreadOK
<1>3. MarkInv' /\ GiftInv' /\ CommissionCap'
  BY <1>1 DEF IInv, MarkInv, GiftInv, CommissionCap, Invited
<1>4. \A u : Payers(u)' = Payers(u)
  BY <1>1 DEF Payers, Paying
<1>5. PaymentInv'
  BY <1>1, <1>4 DEF IInv, PaymentInv, PaidOnce
<1> QED  BY <1>2, <1>3, <1>5 DEF IInv

LEMMA CacheSteps ==
  ASSUME IInv, CacheNext, UNCHANGED <<people, parties, records>>
  PROVE  IInv'
<1>1. ASSUME NEW h \in Threads, Refresh(h)
      PROVE  IInv'
  BY <1>1, LoadStep DEF Refresh
<1>2. ASSUME NEW k \in Keys, NEW v \in Values[k], OtherProcess(k, v)
      PROVE  IInv'
  <2>1. rows' \in Settings
    BY <1>2, OneSetting DEF OtherProcess, WriteSetting, IInv, Shape
  <2> QED  BY <1>2, <2>1, OutsideStep DEF OtherProcess
<1>3. CASE Expire
  <2>1. rows' \in Settings
    BY <1>3 DEF Expire, IInv, Shape
  <2> QED  BY <1>3, <2>1, OutsideStep DEF Expire
<1> QED
  BY <1>1, <1>2, <1>3, SelectStep, StoreStep, InPlaceStep, SavingStep
  DEF CacheNext, CacheStep

-----------------------------------------------------------------------------
(* Invitations up to the transaction.                                       *)
LEMMA TakeRewardStep ==
  ASSUME IInv, NEW h \in Threads, NEW u \in Users, TakeReward(h, u)
  PROVE  IInv'
<1>1. /\ pc[h] = "idle" /\ lock = Nobody /\ lock' = h
      /\ referredBy[u] # None /\ u \notin rewarded
      /\ pc' = [pc EXCEPT ![h] = "reward"] /\ guest' = [guest EXCEPT ![h] = u]
      /\ host' = [host EXCEPT ![h] = referredBy[u]]
      /\ UNCHANGED <<rows, cache, then, snap, edit, referredBy, rewarded,
                     freeGiven, due, paid, lost, gifts>>
  BY DEF TakeReward, Acquire, FirstPurchase, Goto, table, loading, people, records
<1>2. referredBy[u] \in Users
  BY <1>1 DEF IInv, Shape
<1>3. Shape' /\ \A g \in Threads \ {h} : Stands(g)
  BY <1>1, <1>2 DEF IInv, Shape, Stands, Labels
<1>4. pc'[h] = "reward" /\ guest'[h] = u /\ host'[h] = referredBy[u]
  BY <1>1 DEF IInv, Shape
<1>5. ThreadOK(h)'
  BY <1>1, <1>2, <1>4 DEF IInv, ThreadsInv, ThreadOK
<1>6. ~Paying(h)' /\ ~Paying(h)
  BY <1>1, <1>4 DEF Paying, IInv, ThreadsInv, ThreadOK
<1> QED  BY <1>1, <1>3, <1>4, <1>5, <1>6, Quiet

LEMMA StartInviteStep ==
  ASSUME IInv, NEW h \in Threads, NEW u \in Users, NEW r \in Inviters, StartInvite(h, u, r)
  PROVE  IInv'
<1>1. /\ pc[h] = "idle" /\ pc' = [pc EXCEPT ![h] = "refer"]
      /\ guest' = [guest EXCEPT ![h] = u] /\ host' = [host EXCEPT ![h] = r]
      /\ UNCHANGED <<lock, rows, cache, then, snap, edit, referredBy, rewarded,
                     freeGiven, due, paid, lost, gifts>>
  BY DEF StartInvite, Goto, table, loading, people, records
<1>2. r \in Users
  BY ReferralAssumption
<1>3. Shape' /\ \A g \in Threads \ {h} : Stands(g)
  BY <1>1, <1>2 DEF IInv, Shape, Stands, Labels
<1>4. pc'[h] = "refer" /\ guest'[h] = u /\ host'[h] = r
  BY <1>1 DEF IInv, Shape
<1>5. ThreadOK(h)'
  BY <1>1, <1>2, <1>4 DEF IInv, ThreadsInv, ThreadOK
<1>6. ~Paying(h)' /\ ~Paying(h)
  BY <1>1, <1>4 DEF Paying, IInv, ThreadsInv, ThreadOK
<1> QED  BY <1>1, <1>3, <1>4, <1>5, <1>6, Quiet

LEMMA ButtonStep ==
  ASSUME IInv, NEW h \in Threads, Button(h)
  PROVE  IInv'
<1>1. /\ pc[h] \in {"look", "button"}
      /\ \E l \in {"invite", "idle"} : Continue(h, l)
      /\ UNCHANGED <<lock, rows, cache, then, snap, edit, referredBy, rewarded,
                     freeGiven, due, paid, lost, gifts>>
  BY DEF Button, CanRead, Reads, table, loading, people, records
<1>2. PICK l \in {"invite", "idle"} : Continue(h, l)
  BY <1>1
<1>3. /\ pc' = [pc EXCEPT ![h] = l]
      /\ \/ guest' = guest /\ host' = host
         \/ guest' = [guest EXCEPT ![h] = None] /\ host' = [host EXCEPT ![h] = None]
      /\ l = "invite" => guest' = guest /\ host' = host
  BY <1>2 DEF Continue, Goto, parties
<1>4. Shape' /\ \A g \in Threads \ {h} : Stands(g)
  BY <1>1, <1>3 DEF IInv, Shape, Stands, Labels
<1>5. pc'[h] = l
  BY <1>3 DEF IInv, Shape
<1>6. ThreadOK(h)'
  BY <1>1, <1>3, <1>5 DEF IInv, ThreadsInv, ThreadOK, Working, Labels
<1>7. ~Paying(h)' /\ ~Paying(h)
  BY <1>1, <1>5 DEF Paying, IInv, ThreadsInv, ThreadOK
<1> QED  BY <1>1, <1>4, <1>5, <1>6, <1>7, Quiet

LEMMA BeginInviteStep ==
  ASSUME IInv, NEW h \in Threads, BeginInvite(h)
  PROVE  IInv'
<1>1. /\ pc[h] = "invite" /\ lock = Nobody /\ lock' = h
      /\ pc' = [pc EXCEPT ![h] = "gifts"]
      /\ UNCHANGED <<rows, cache, then, snap, edit, guest, host, referredBy, rewarded,
                     freeGiven, due, paid, lost, gifts>>
  BY DEF BeginInvite, Acquire, Goto, table, loading, people, parties, records
<1>2. Shape' /\ \A g \in Threads \ {h} : Stands(g)
  BY <1>1 DEF IInv, Shape, Stands, Labels
<1>3. pc'[h] = "gifts"
  BY <1>1 DEF IInv, Shape
<1>4. ThreadOK(h)'
  BY <1>1, <1>3 DEF IInv, ThreadsInv, ThreadOK, Working, Labels
<1>5. ~Paying(h)' /\ ~Paying(h)
  BY <1>1, <1>3 DEF Paying, IInv, ThreadsInv, ThreadOK
<1> QED  BY <1>1, <1>2, <1>3, <1>4, <1>5, Quiet

(* The first referrer stays; who becomes invited has no commission yet.     *)
LEMMA ReferStep ==
  ASSUME IInv, NEW h \in Threads, Refer(h)
  PROVE  IInv'
<1> DEFINE u == guest[h]
<1>1. /\ pc[h] = "refer" /\ pc' = [pc EXCEPT ![h] = "button"]
      /\ referredBy' = [referredBy EXCEPT ![u] = IF @ = None THEN host[h] ELSE @]
      /\ UNCHANGED <<lock, rows, cache, then, snap, edit, guest, host, rewarded,
                     freeGiven, due, paid, lost, gifts>>
  BY DEF Refer, Goto, table, loading, parties, records
<1>2. u \in Users /\ host[h] \in Users /\ then[h] = "idle"
  BY <1>1 DEF IInv, ThreadsInv, ThreadOK, Working, Labels
<1> HIDE DEF u
<1>3. \A q \in Users : referredBy[q] # None => referredBy'[q] = referredBy[q]
  BY <1>1, <1>2 DEF IInv, Shape
<1>4. Shape' /\ \A g \in Threads \ {h} : Stands(g)
  BY <1>1, <1>2 DEF IInv, Shape, Stands, Labels
<1>5. pc'[h] = "button"
  BY <1>1 DEF IInv, Shape
<1>6. ThreadsInv'
  <2>1. Fair(h)
    BY <1>1, <1>3 DEF Fair
  <2>2. ThreadOK(h)'
    BY <1>1, <1>2, <1>5 DEF IInv, ThreadsInv, ThreadOK, u
  <2> QED  BY <1>4, <2>1, <2>2, OthersOK DEF ThreadsInv
<1>7. MarkInv' /\ GiftInv'
  BY <1>1, <1>3, <1>4, <1>5 DEF IInv, Shape, MarkInv, GiftInv, Stands
<1>8. PaymentInv'
  <2>1. \A q \in Users : Payers(q)' = Payers(q)
    BY <1>1, <1>2, <1>4, <1>5 DEF Payers, Paying, Stands
  <2> QED  BY <1>1, <2>1 DEF IInv, PaymentInv, PaidOnce
<1>9. CommissionCap'
  <2>1. \A r \in Users : (Invited(r) \cap due)' = Invited(r) \cap due
    <3>1. \A q \in due : q \in Users /\ referredBy'[q] = referredBy[q]
      BY <1>3 DEF IInv, MarkInv, Shape
    <3> QED  BY <1>1, <3>1 DEF Invited
  <2> QED  BY <2>1 DEF IInv, CommissionCap
<1> QED  BY <1>4, <1>6, <1>7, <1>8, <1>9 DEF IInv

-----------------------------------------------------------------------------
(* The transaction that marks the purchase.                                 *)
LEMMA CommissionStep ==
  ASSUME IInv, NEW h \in Threads, Commission(h)
  PROVE  IInv'
<1> DEFINE u == guest[h]
           r == host[h]
           on == Enabled("button") /\ Enabled("enabled")
           earns == on /\ CapLeft(r)
<1>1. /\ pc[h] = "reward" /\ lock = h /\ lock' = Nobody /\ Cached
      /\ rewarded' = IF on THEN rewarded \cup {u} ELSE rewarded
      /\ due' = IF earns THEN due \cup {u} ELSE due
      /\ Continue(h, IF earns THEN "pay" ELSE "idle")
      /\ UNCHANGED <<rows, cache, then, snap, edit, referredBy, freeGiven, paid, lost, gifts>>
  BY DEF Commission, Holds, Release, Marks, table, loading
<1>2. /\ u \in Users /\ r \in Users /\ u \notin rewarded /\ referredBy[u] = r
      /\ then[h] = "idle"
  BY <1>1 DEF IInv, ThreadsInv, ThreadOK, Working, Labels
<1>3. u \notin due /\ PaidOnce(u) /\ ~Paying(h)
  BY <1>1, <1>2 DEF IInv, MarkInv, PaymentInv, Paying
<1>4. /\ pc' = [pc EXCEPT ![h] = IF earns THEN "pay" ELSE "idle"]
      /\ \/ guest' = guest /\ host' = host
         \/ guest' = [guest EXCEPT ![h] = None] /\ host' = [host EXCEPT ![h] = None]
      /\ earns => guest' = guest /\ host' = host
  BY <1>1 DEF Continue, Goto, parties
<1>5. earns => on /\ CapLeft(r)
  OBVIOUS
<1> HIDE DEF u, r, earns, on
<1>6. Shape'
  BY <1>1, <1>2, <1>4 DEF IInv, Shape, Labels
<1>7. /\ \A g \in Threads \ {h} : Stands(g)
      /\ pc'[h] = IF earns THEN "pay" ELSE "idle"
  BY <1>1, <1>4 DEF IInv, Shape, Stands
<1>8. ThreadsInv'
  <2>1. Fair(h)
    BY <1>1 DEF Fair
  <2>2. ThreadOK(h)'
    BY <1>1, <1>2, <1>4, <1>7 DEF IInv, ThreadsInv, ThreadOK, Working, Labels, u, r
  <2> QED  BY <1>7, <2>1, <2>2, OthersOK DEF ThreadsInv
<1>9. MarkInv'
  BY <1>1, <1>2, <1>5, ReferralAssumption DEF IInv, MarkInv
<1>10. GiftInv'
  BY <1>1, <1>7 DEF IInv, GiftInv, Stands
<1>11. PaymentInv'
  <2> SUFFICES ASSUME NEW q \in Users
               PROVE  PaidOnce(q)'
    BY DEF PaymentInv
  <2>1. \A g \in Threads \ {h} : (Paying(g)' <=> Paying(g)) /\ guest'[g] = guest[g]
    BY <1>7 DEF Stands, Paying
  <2>2. CASE earns
    <3>1. Paying(h)' /\ guest'[h] = u
      BY <1>4, <1>7, <2>2 DEF Paying, u
    <3>2. CASE q = u
      <4>1. Payers(q) = {} /\ q \notin due /\ paid[q] = 0 /\ q \notin lost
        BY <1>3, <3>2 DEF PaidOnce
      <4>2. \A g \in Threads : Paying(g)' /\ guest'[g] = q <=> g = h
        BY <2>1, <3>1, <3>2, <4>1 DEF Payers
      <4>3. Payers(q)' = {h}
        BY <4>2 DEF Payers
      <4>4. q \in due' /\ paid' = paid /\ lost' = lost
        BY <1>1, <1>5, <2>2, <3>2
      <4> QED  BY <4>1, <4>3, <4>4 DEF PaidOnce
    <3>3. CASE q # u
      <4>1. Payers(q)' = Payers(q)
        BY <1>3, <2>1, <3>1, <3>3 DEF Payers
      <4> QED  BY <1>1, <3>3, <4>1 DEF IInv, PaymentInv, PaidOnce
    <3> QED  BY <3>2, <3>3
  <2>3. CASE ~earns
    <3>1. ~Paying(h)'
      BY <1>1, <1>2, <1>7, <2>3 DEF Paying
    <3>2. Payers(q)' = Payers(q)
      BY <1>3, <2>1, <3>1 DEF Payers
    <3> QED  BY <1>1, <2>3, <3>2 DEF IInv, PaymentInv, PaidOnce
  <2> QED  BY <2>2, <2>3
<1>12. CommissionCap'
  <2> SUFFICES ASSUME 0 \notin Values["cap"], NEW q \in Users
               PROVE  \E m \in Values["cap"] : Cardinality((Invited(q) \cap due)') <= m
    BY DEF CommissionCap
  <2>1. PICK m \in Values["cap"] : Cardinality(Invited(q) \cap due) <= m
    BY DEF IInv, CommissionCap
  <2>2. Invited(q)' = Invited(q)
    BY <1>1 DEF Invited
  <2>3. CASE ~earns \/ q # r
    <3>1. (Invited(q) \cap due)' = Invited(q) \cap due
      BY <1>1, <1>2, <2>2, <2>3 DEF Invited
    <3> QED  BY <2>1, <3>1
  <2>4. CASE earns /\ q = r
    <3>1. Setting("cap") \in Values["cap"] /\ Setting("cap") \in Nat
      <4>1. "cap" \in Keys /\ cache \in Settings
        BY <1>1, ReferralAssumption DEF Cached, IInv, Shape
      <4>2. cache["cap"] \in Values["cap"]
        BY <4>1 DEF Settings
      <4> QED  BY <4>1, <4>2, CacheAssumption DEF Setting
    <3>2. Cardinality(Invited(r) \cap rewarded) < Setting("cap")
      BY <1>5, <2>4, <3>1 DEF CapLeft
    <3>3. /\ IsFiniteSet(Invited(r) \cap rewarded)
          /\ Cardinality(Invited(r) \cap rewarded) \in Nat
      <4>1. Invited(r) \cap rewarded \in SUBSET Users
        BY DEF Invited
      <4> QED  BY <4>1, ReferralAssumption, FS_Subset, FS_CardinalityType
    <3>4. /\ IsFiniteSet((Invited(r) \cap rewarded) \cup {u})
          /\ Cardinality((Invited(r) \cap rewarded) \cup {u}) =
                IF u \in Invited(r) \cap rewarded
                THEN Cardinality(Invited(r) \cap rewarded)
                ELSE Cardinality(Invited(r) \cap rewarded) + 1
      BY <3>3, FS_AddElement
    <3>5. Cardinality((Invited(r) \cap rewarded) \cup {u})
             <= Cardinality(Invited(r) \cap rewarded) + 1
          /\ Cardinality((Invited(r) \cap rewarded) \cup {u}) \in Nat
      BY <3>3, <3>4
    <3>6. (Invited(q) \cap due)' \subseteq (Invited(r) \cap rewarded) \cup {u}
      BY <1>1, <2>2, <2>4 DEF IInv, MarkInv
    <3>7. /\ Cardinality((Invited(q) \cap due)') \in Nat
          /\ Cardinality((Invited(q) \cap due)')
                <= Cardinality((Invited(r) \cap rewarded) \cup {u})
      BY <3>4, <3>6, FS_Subset, FS_CardinalityType
    <3>8. Cardinality((Invited(q) \cap due)') <= Setting("cap")
      BY <3>1, <3>2, <3>3, <3>5, <3>7
    <3> QED  BY <3>1, <3>8
  <2> QED  BY <2>3, <2>4
<1> QED  BY <1>6, <1>8, <1>9, <1>10, <1>11, <1>12 DEF IInv

(* The commission reaches the wallet, or comes to nothing; or the request   *)
(* is interrupted: its thread no longer pays.                               *)
LEMMA StopsPaying ==
  ASSUME IInv, NEW h \in Threads, Paying(h), guest[h] \in Users, ~Paying(h)',
         \A g \in Threads \ {h} : Stands(g), NEW u \in Users
  PROVE  /\ Payers(u)' = IF u = guest[h] THEN {} ELSE Payers(u)
         /\ u = guest[h] => u \in due /\ paid[u] = 0 /\ u \notin lost
<1>1. h \in Payers(guest[h])
  BY DEF Payers
<1>2. /\ guest[h] \in due /\ paid[guest[h]] = 0 /\ guest[h] \notin lost
      /\ Payers(guest[h]) = {h}
  BY <1>1 DEF IInv, PaymentInv, PaidOnce
<1>3. \A g \in Threads \ {h} : (Paying(g)' <=> Paying(g)) /\ guest'[g] = guest[g]
  BY DEF Stands, Paying
<1>4. Payers(u)' = Payers(u) \ {h}
  BY <1>3 DEF Payers
<1>5. u # guest[h] => h \notin Payers(u)
  BY DEF Payers
<1> QED  BY <1>2, <1>4, <1>5

LEMMA PayStep ==
  ASSUME IInv, NEW h \in Threads, PayCommission(h)
  PROVE  IInv'
<1> DEFINE u == guest[h]
<1>1. /\ pc[h] \in {"pay", "percent"} /\ Continue(h, "idle")
      /\ UNCHANGED <<lock, rows, cache, then, snap, edit, referredBy, rewarded,
                     freeGiven, lost, gifts>>
      /\ \/ paid' = [paid EXCEPT ![u] = @ + 1] /\ due' = due
         \/ due' = due \ {u} /\ paid' = paid
  BY DEF PayCommission, CanRead, Reads, table, loading
<1>2. /\ pc' = [pc EXCEPT ![h] = "idle"] /\ guest' = [guest EXCEPT ![h] = None]
      /\ host' = [host EXCEPT ![h] = None]
  BY <1>1 DEF Continue, Goto
<1>3. u \in Users /\ then[h] = "idle" /\ Paying(h)
  BY <1>1 DEF IInv, ThreadsInv, ThreadOK, Working, Labels, Paying
<1> HIDE DEF u
<1>4. Shape'
  BY <1>1, <1>2, <1>3 DEF IInv, Shape, Labels
<1>5. pc'[h] = "idle" /\ \A g \in Threads \ {h} : Stands(g)
  BY <1>1, <1>2 DEF IInv, Shape, Stands
<1>6. ThreadsInv'
  <2>1. Fair(h)
    BY <1>1 DEF Fair
  <2>2. ThreadOK(h)'
    BY <1>1, <1>3, <1>5 DEF ThreadOK, Working, Labels
  <2> QED  BY <1>5, <2>1, <2>2, OthersOK DEF ThreadsInv
<1>7. MarkInv' /\ GiftInv'
  BY <1>1, <1>5 DEF IInv, MarkInv, GiftInv, Stands
<1>8. ~Paying(h)'
  BY <1>1, <1>3, <1>5 DEF Paying
<1>9. PaymentInv'
  <2> SUFFICES ASSUME NEW q \in Users
               PROVE  PaidOnce(q)'
    BY DEF PaymentInv
  <2>1. /\ Payers(q)' = IF q = u THEN {} ELSE Payers(q)
        /\ q = u => q \in due /\ paid[q] = 0 /\ q \notin lost
    BY <1>3, <1>5, <1>8, StopsPaying DEF u
  <2>2. CASE q = u
    BY <1>1, <1>3, <2>1, <2>2 DEF IInv, Shape, PaidOnce
  <2>3. CASE q # u
    BY <1>1, <1>3, <2>1, <2>3 DEF IInv, Shape, PaymentInv, PaidOnce
  <2> QED  BY <2>2, <2>3
<1>10. CommissionCap'
  <2> SUFFICES ASSUME 0 \notin Values["cap"], NEW q \in Users
               PROVE  \E m \in Values["cap"] : Cardinality((Invited(q) \cap due)') <= m
    BY DEF CommissionCap
  <2>1. PICK m \in Values["cap"] : Cardinality(Invited(q) \cap due) <= m
    BY DEF IInv, CommissionCap
  <2>2. (Invited(q) \cap due)' \subseteq Invited(q) \cap due
    BY <1>1 DEF Invited
  <2>3. Invited(q) \cap due \in SUBSET Users
    BY DEF Invited
  <2>4. IsFiniteSet(Invited(q) \cap due) /\ Cardinality(Invited(q) \cap due) \in Nat
    BY <2>3, ReferralAssumption, FS_Subset, FS_CardinalityType
  <2>5. /\ Cardinality((Invited(q) \cap due)') \in Nat
        /\ Cardinality((Invited(q) \cap due)') <= Cardinality(Invited(q) \cap due)
    BY <2>2, <2>4, FS_Subset, FS_CardinalityType
  <2>6. "cap" \in Keys /\ m \in Nat
    BY CacheAssumption, ReferralAssumption
  <2>7. Cardinality((Invited(q) \cap due)') <= m
    BY <2>1, <2>4, <2>5, <2>6
  <2> QED  BY <2>7
<1> QED  BY <1>4, <1>6, <1>7, <1>9, <1>10 DEF IInv

LEMMA InterruptStep ==
  ASSUME IInv, NEW h \in Threads, Interrupt(h)
  PROVE  IInv'
<1> DEFINE u == guest[h]
<1>1. /\ lock' = IF lock = h THEN Nobody ELSE lock
      /\ lost' = IF Paying(h) THEN lost \cup {u} ELSE lost
      /\ then' = [then EXCEPT ![h] = "idle"] /\ snap' = [snap EXCEPT ![h] = None]
      /\ edit' = [edit EXCEPT ![h] = None] /\ Continue(h, "idle")
      /\ UNCHANGED <<rows, cache, referredBy, rewarded, freeGiven, due, paid, gifts>>
  BY DEF Interrupt, Holds, table, people
<1>2. /\ pc' = [pc EXCEPT ![h] = "idle"] /\ guest' = [guest EXCEPT ![h] = None]
      /\ host' = [host EXCEPT ![h] = None]
  BY <1>1 DEF Continue, Goto
<1>3. Paying(h) => u \in Users
  BY DEF IInv, Shape, ThreadsInv, ThreadOK, Working, Labels, Paying
<1> HIDE DEF u
<1>4. Shape'
  BY <1>1, <1>2 DEF IInv, Shape, Labels
<1>5. /\ pc'[h] = "idle" /\ then'[h] = "idle"
      /\ \A g \in Threads \ {h} : Stands(g)
  BY <1>1, <1>2 DEF IInv, Shape, Stands
<1>6. ThreadsInv'
  <2>1. Fair(h)
    BY <1>1 DEF Fair
  <2>2. ThreadOK(h)'
    BY <1>5 DEF ThreadOK, Working, Labels
  <2> QED  BY <1>5, <2>1, <2>2, OthersOK DEF ThreadsInv
<1>7. MarkInv' /\ GiftInv'
  BY <1>1, <1>5 DEF IInv, MarkInv, GiftInv, Stands
<1>8. ~Paying(h)'
  BY <1>5 DEF Paying
<1>9. PaymentInv'
  <2> SUFFICES ASSUME NEW q \in Users
               PROVE  PaidOnce(q)'
    BY DEF PaymentInv
  <2>1. CASE Paying(h)
    <3>1. /\ Payers(q)' = IF q = u THEN {} ELSE Payers(q)
          /\ q = u => q \in due /\ paid[q] = 0 /\ q \notin lost
      BY <1>3, <1>5, <1>8, <2>1, StopsPaying DEF u
    <3> QED  BY <1>1, <1>3, <2>1, <3>1 DEF IInv, PaymentInv, PaidOnce
  <2>2. CASE ~Paying(h)
    <3>1. Payers(q)' = Payers(q)
      BY <1>5, <1>8, <2>2 DEF Payers, Stands, Paying
    <3> QED  BY <1>1, <2>2, <3>1 DEF IInv, PaymentInv, PaidOnce
  <2> QED  BY <2>1, <2>2
<1>10. CommissionCap'
  BY <1>1 DEF IInv, CommissionCap, Invited
<1> QED  BY <1>4, <1>6, <1>7, <1>9, <1>10 DEF IInv

-----------------------------------------------------------------------------
(* The gifts for an invitation; who earns the free config is marked in the  *)
(* transaction that finds it.                                               *)
LEMMA InviteGiftsStep ==
  ASSUME IInv, NEW h \in Threads, InviteGifts(h)
  PROVE  IInv'
<1> DEFINE r == host[h]
           free == EarnsFree(r)
<1>1. /\ pc[h] = "gifts" /\ lock = h /\ lock' = Nobody
      /\ freeGiven' = IF free THEN freeGiven \cup {r} ELSE freeGiven
      /\ Continue(h, IF free THEN "freebie" ELSE "idle")
      /\ UNCHANGED <<rows, cache, then, snap, edit, referredBy, rewarded, due, paid, lost,
                     gifts>>
  BY DEF InviteGifts, Holds, Release, table, loading, records
<1>2. r \in Users /\ guest[h] \in Users /\ then[h] = "idle" /\ ~Paying(h)
  BY <1>1 DEF IInv, ThreadsInv, ThreadOK, Working, Labels, Paying
<1>3. free => r \notin freeGiven
  BY DEF EarnsFree
<1>4. /\ pc' = [pc EXCEPT ![h] = IF free THEN "freebie" ELSE "idle"]
      /\ \/ guest' = guest /\ host' = host
         \/ guest' = [guest EXCEPT ![h] = None] /\ host' = [host EXCEPT ![h] = None]
      /\ free => guest' = guest /\ host' = host
  BY <1>1 DEF Continue, Goto, parties
<1> HIDE DEF r, free
<1>5. Shape'
  BY <1>1, <1>4 DEF IInv, Shape, Labels
<1>6. /\ \A g \in Threads \ {h} : Stands(g)
      /\ pc'[h] = IF free THEN "freebie" ELSE "idle"
  BY <1>1, <1>4 DEF IInv, Shape, Stands
<1>7. free => gifts[r] = 0 /\ host'[h] = r /\ \A g \in Threads : pc[g] = "freebie" => host[g] # r
  BY <1>2, <1>3, <1>4 DEF IInv, GiftInv, ThreadsInv, ThreadOK, r
<1>8. ThreadsInv'
  <2>1. Fair(h)
    BY <1>1 DEF Fair
  <2>2. ThreadOK(h)'
    BY <1>1, <1>2, <1>4, <1>6, <1>7 DEF ThreadOK, Working, Labels, r
  <2> QED  BY <1>6, <2>1, <2>2, OthersOK DEF ThreadsInv
<1>9. MarkInv'
  BY <1>1 DEF IInv, MarkInv
<1>10. GiftInv'
  BY <1>1, <1>2, <1>6, <1>7 DEF IInv, GiftInv, Stands
<1>11. PaymentInv'
  <2>1. ~Paying(h)'
    BY <1>1, <1>2, <1>6 DEF Paying
  <2>2. \A q \in Users : Payers(q)' = Payers(q)
    BY <1>2, <1>6, <2>1 DEF Payers, Stands, Paying
  <2> QED  BY <1>1, <2>2 DEF IInv, PaymentInv, PaidOnce
<1>12. CommissionCap'
  BY <1>1 DEF IInv, CommissionCap, Invited
<1> QED  BY <1>5, <1>8, <1>9, <1>10, <1>11, <1>12 DEF IInv

LEMMA FreebieStep ==
  ASSUME IInv, NEW h \in Threads, Freebie(h)
  PROVE  IInv'
<1> DEFINE r == host[h]
<1>1. /\ pc[h] = "freebie" /\ Continue(h, "idle")
      /\ gifts' = gifts \/ gifts' = [gifts EXCEPT ![r] = @ + 1]
      /\ UNCHANGED <<lock, rows, cache, then, snap, edit, referredBy, rewarded, freeGiven,
                     due, paid, lost>>
  BY DEF Freebie, table, loading, people
<1>2. r \in Users /\ gifts[r] = 0 /\ r \in freeGiven /\ then[h] = "idle" /\ ~Paying(h)
  BY <1>1 DEF IInv, ThreadsInv, ThreadOK, Working, Labels, Paying
<1>3. /\ pc' = [pc EXCEPT ![h] = "idle"] /\ guest' = [guest EXCEPT ![h] = None]
      /\ host' = [host EXCEPT ![h] = None]
  BY <1>1 DEF Continue, Goto
<1>4. \A q \in Users : gifts'[q] = gifts[q] \/ (q = r /\ gifts'[q] = 1)
  BY <1>1, <1>2 DEF IInv, Shape
<1>5. Shape'
  BY <1>1, <1>2, <1>3 DEF IInv, Shape, Labels
<1>6. pc'[h] = "idle" /\ \A g \in Threads \ {h} : Stands(g)
  BY <1>1, <1>3 DEF IInv, Shape, Stands
<1>7. ThreadsInv'
  <2>1. Fair(h)
    BY <1>1, <1>4 DEF Fair
  <2>2. ThreadOK(h)'
    BY <1>1, <1>2, <1>6 DEF ThreadOK, Working, Labels
  <2> QED  BY <1>6, <2>1, <2>2, OthersOK DEF ThreadsInv
<1> HIDE DEF r
<1>8. MarkInv'
  BY <1>1 DEF IInv, MarkInv
<1>9. GiftInv'
  BY <1>1, <1>2, <1>4, <1>6 DEF IInv, Shape, GiftInv, Stands
<1>10. PaymentInv'
  <2>1. ~Paying(h)'
    BY <1>1, <1>2, <1>6 DEF Paying
  <2>2. \A q \in Users : Payers(q)' = Payers(q)
    BY <1>2, <1>6, <2>1 DEF Payers, Stands, Paying
  <2> QED  BY <1>1, <2>2 DEF IInv, PaymentInv, PaidOnce
<1>11. CommissionCap'
  BY <1>1 DEF IInv, CommissionCap, Invited
<1> QED  BY <1>5, <1>7, <1>8, <1>9, <1>10, <1>11 DEF IInv

LEMMA NextInv ==
  ASSUME IInv, [Next]_vars
  PROVE  IInv'
<1>1. ASSUME NEW h \in Threads, Reload(h)
      PROVE  IInv'
  <2>1. /\ \/ pc[h] = "pay" /\ Load(h, "percent")
           \/ pc[h] = "button" /\ Load(h, "look")
        /\ UNCHANGED <<people, parties, records>>
    BY <1>1 DEF Reload, Reads
  <2> QED  BY <2>1, LoadStep
<1>2. CASE UNCHANGED vars
  <2>1. UNCHANGED <<lock, cache, pc, loading, people, parties, records>> /\ rows' = rows
    BY <1>2 DEF vars, cacheVars, table
  <2>2. rows' \in Settings
    BY <2>1 DEF IInv, Shape
  <2> QED  BY <2>1, <2>2, OutsideStep
<1> QED
  BY <1>1, <1>2, CacheSteps, TakeRewardStep, StartInviteStep, ButtonStep, BeginInviteStep,
     ReferStep, CommissionStep, PayStep, InterruptStep, InviteGiftsStep, FreebieStep
  DEF Next, Step, Start

LEMMA AlwaysInv == Spec => []IInv
<1>1. IInv /\ [Next]_vars => IInv'
  BY NextInv
<1>2. Init => IInv
  BY InitInv
<1> QED  BY <1>1, <1>2, PTL DEF Spec

(* However purchases, invitations and changes of the settings overlap, a    *)
(* first purchase is paid for exactly once, unless the thread that pays is  *)
(* interrupted (reward_referrer_if_first_purchase).                         *)
THEOREM PaidExactly == Spec => []CommissionExact
<1>1. IInv => CommissionExact
  <2> SUFFICES ASSUME IInv, NEW u \in Users
               PROVE  paid[u] + Cardinality(Payers(u)) + (IF u \in lost THEN 1 ELSE 0)
                      = IF u \in due THEN 1 ELSE 0
    BY DEF CommissionExact, Payers
  <2>1. Cardinality({}) = 0 /\ \A h : Cardinality({h}) = 1
    BY FS_EmptySet, FS_Singleton
  <2>2. PaidOnce(u)
    BY DEF IInv, PaymentInv
  <2>3. CASE u \notin due /\ paid[u] = 0 /\ u \notin lost /\ Payers(u) = {}
    BY <2>1, <2>3
  <2>4. CASE u \in due /\ paid[u] = 1 /\ u \notin lost /\ Payers(u) = {}
    BY <2>1, <2>4
  <2>5. CASE u \in due /\ paid[u] = 0 /\ u \in lost /\ Payers(u) = {}
    BY <2>1, <2>5
  <2>6. CASE u \in due /\ paid[u] = 0 /\ u \notin lost /\ \E h \in Threads : Payers(u) = {h}
    BY <2>1, <2>6
  <2> QED  BY <2>2, <2>3, <2>4, <2>5, <2>6 DEF PaidOnce
<1> QED  BY AlwaysInv, <1>1, PTL

(* A referrer earns no more commissions than the largest limit a setting    *)
(* ever allowed: the count is taken in the transaction that marks the       *)
(* purchase.                                                                *)
THEOREM CappedAlways == Spec => []CommissionCap
<1>1. IInv => CommissionCap
  BY DEF IInv
<1> QED  BY AlwaysInv, <1>1, PTL

(* The free config for reaching the threshold is given once.                *)
THEOREM OneFreeConfig == Spec => []FreeConfigOnce
<1>1. IInv => FreeConfigOnce
  BY DEF IInv, GiftInv, FreeConfigOnce
<1> QED  BY AlwaysInv, <1>1, PTL
===============================================================================
