--------------------------- MODULE MCAlertOutbox ---------------------------
(* Instances of AlertOutbox for TLC. *)
EXTENDS AlertOutbox

OneDelay == <<1>>
=============================================================================
