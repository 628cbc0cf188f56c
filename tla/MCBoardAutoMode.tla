--------------------------- MODULE MCBoardAutoMode ---------------------------
(***************************************************************************)
(* TLC instance of BoardAutoMode: failures, switches and steps are checked *)
(* with one feature at a time, everything else also with two.              *)
(***************************************************************************)
EXTENDS BoardAutoMode

BoardInit == Init /\ (condition \cap {"fail", "toggle", "steps"} # {} => limit = 1)

BoardSpec == BoardInit /\ [][Next]_vars /\ Fairness
=============================================================================
