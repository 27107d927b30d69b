----------------------------- MODULE AtomicSale -----------------------------
(***************************************************************************)
(* What the bank of configs promises to the rest of the program: a sale     *)
(* takes all the configs of an order in one step, and only free ones.       *)
(***************************************************************************)
EXTENDS FiniteSets

CONSTANTS Configs, OrderIds, NoOrder

VARIABLES
    free,   \* configs on sale
    buyer   \* the order each sold config belongs to

vars == <<free, buyer>>

TypeOK ==
    /\ free \in SUBSET Configs
    /\ buyer \in [Configs -> OrderIds \cup {NoOrder}]

Init ==
    /\ free \in SUBSET Configs
    /\ buyer = [c \in Configs |-> NoOrder]

Sell(S, o) ==
    /\ S # {} /\ S \subseteq free
    /\ free' = free \ S
    /\ buyer' = [c \in Configs |-> IF c \in S THEN o ELSE buyer[c]]

(* The admin adds a config that was never on sale, or removes one that is.  *)
Add(c) ==
    /\ c \notin free /\ buyer[c] = NoOrder
    /\ free' = free \cup {c}
    /\ UNCHANGED buyer

Remove(c) ==
    /\ c \in free
    /\ free' = free \ {c}
    /\ UNCHANGED buyer

Next ==
    \/ \E S \in SUBSET Configs, o \in OrderIds : Sell(S, o)
    \/ \E c \in Configs : Add(c) \/ Remove(c)

Spec == Init /\ [][Next]_vars

(* A sold config stays with its order and never comes back on sale.         *)
SoldForGood ==
    [][\A c \in Configs : buyer[c] # NoOrder =>
          buyer'[c] = buyer[c] /\ c \notin free']_vars
=============================================================================
