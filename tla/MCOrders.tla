------------------------------ MODULE MCOrders ------------------------------
(* Model values and small sets for checking OrderHandlers with TLC.         *)
EXTENDS OrderProperties, TLC

CONSTANTS alice, bob, b1, b2, m1, m2, w1, w2

(* Where each handler runs. *)
MCInstOf ==
    [h \in Handlers |-> CASE h \in {b1, b2} -> "bot"
                          [] h \in {m1, m2} -> "mini"
                          [] h \in {w1, w2} -> "web"]

MCNoDeltas == {}
MCDeltas == {1}

BotSymmetry == Permutations({b1, b2})
MiniSymmetry == Permutations({m1, m2})
=============================================================================
