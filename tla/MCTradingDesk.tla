---------------------------- MODULE MCTradingDesk ----------------------------
(* Instances of TradingDesk for TLC: which bot belongs to which org. *)
EXTENDS TradingDesk, TLC

CONSTANTS b1, b2, o1, o2

OneBot == b1 :> o1
OneOrg == [b \in {b1, b2} |-> o1]
TwoOrgs == b1 :> o1 @@ b2 :> o2
=============================================================================
