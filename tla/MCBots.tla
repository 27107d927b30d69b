-------------------------------- MODULE MCBots --------------------------------
(* Two reseller bots of different names, for checking ResellerBots with TLC. *)
EXTENDS ResellerBots, TLC

CONSTANTS t1, t2

MCNames == {"x", "y"}
MCNameOf == [t \in Tokens |-> IF t = t1 THEN "x" ELSE "y"]
===============================================================================
