---------------------------- MODULE MCBotInputs ----------------------------
(* What a bot decides on: prices, over two hours of one symbol ("hours") or *)
(* the first minutes of two ("pair"; one is only watched, and a flush of    *)
(* both has a second write to fail at), or the answers of its tools.        *)
EXTENDS MarketFeed, ToolCalls, TLC

CONSTANTS ibm, hp, ShortTime, c1, c2, s1
VARIABLE part

MCStrategyOf == c1 :> s1 @@ c2 :> s1
MCDailyQuota == s1 :> 1

MCInit == Init /\ ToolsInit /\ part \in {"hours", "pair", "tools"}

MCNext ==
  /\ UNCHANGED part
  /\ \/ part = "hours" /\ Next /\ todo' \subseteq Traded /\ UNCHANGED toolVars
     \/ part = "pair" /\ Next /\ now' <= ShortTime /\ UNCHANGED toolVars
     \/ part = "tools" /\ ToolsNext /\ UNCHANGED vars

MCSpec == MCInit /\ [][MCNext]_<<part, vars, toolVars>>
=============================================================================
