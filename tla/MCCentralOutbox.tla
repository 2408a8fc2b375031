--------------------------- MODULE MCCentralOutbox ---------------------------
(* An instance of CentralOutbox for TLC: a busy timeout or a restart. *)
EXTENDS CentralOutbox

OneFault == stalls + restarts <= 1
MCSpec == Init /\ [][Next /\ OneFault']_vars /\ Fairness
=============================================================================
