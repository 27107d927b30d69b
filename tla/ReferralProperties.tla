------------------------- MODULE ReferralProperties -------------------------
(***************************************************************************)
(* What the referral schemes and the copy of the settings promise.         *)
(***************************************************************************)
EXTENDS Referral

(* Within a process a first purchase is paid for exactly once, however      *)
(* purchases, invitations and changes of the settings overlap: the mark and *)
(* the payment are two transactions, and only an interruption between them  *)
(* loses a commission.                                                      *)
CommissionExact ==
    \A u \in Users :
        paid[u] + Cardinality({h \in Threads : Paying(h) /\ guest[h] = u})
            + (IF u \in lost THEN 1 ELSE 0)
        = IF u \in due THEN 1 ELSE 0

(* A referrer earns no more commissions than the largest limit the admin    *)
(* ever set (referral_commission_max_count).                                *)
CommissionCap ==
    0 \notin Values["cap"] =>
        \A r \in Users :
            \E m \in Values["cap"] : Cardinality(Invited(r) \cap due) <= m

(* The free config for reaching the threshold is given once, though two     *)
(* invitations reach it at the same time.                                   *)
FreeConfigOnce == \A r \in Users : gifts[r] <= 1

(* Somebody holds the lock and waits for it.                                *)
Stuck == \E h \in Threads : WaitsForItself(h)

(* When nobody writes any more, the copy comes to agree with the table for  *)
(* good: a load that read old rows, or a late write into the copy, is       *)
(* repaired by the next load (unless a thread waits for itself).            *)
Agrees == cache = rows
Converges == <>Stuck \/ <>[]Agrees

(* A request ends, unless some thread waits for itself.                     *)
CallsEnd == \A h \in Threads : pc[h] # "idle" ~> (pc[h] = "idle" \/ Stuck)

(* cache_autorefresh_loop's docstring says that a read of a copy that is    *)
(* too old "ends successfully, after a wait".  Where a thread reads a       *)
(* setting it gets past that point.                                         *)
ReadsEnd ==
    \A h \in Threads, l \in {"reward", "pay", "button", "gifts"} :
        pc[h] = l ~> pc[h] # l
=============================================================================
