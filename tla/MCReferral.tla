----------------------------- MODULE MCReferral -----------------------------
(* Model values and small sets for checking Referral with TLC.              *)
EXTENDS ReferralProperties, TLC

CONSTANTS h1, h2, ann, ben, cat, Bonus

(* The commission can be switched on and off; the other settings are fixed. *)
MCInitial ==
    [button |-> 1, enabled |-> 1, percent |-> 10, cap |-> 1,
     bonus |-> Bonus, bonusCap |-> 1, threshold |-> 1]

MCValues ==
    [k \in DOMAIN MCInitial |->
        IF k = "enabled" THEN {0, 1} ELSE {MCInitial[k]}]
=============================================================================
