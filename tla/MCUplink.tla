------------------------------ MODULE MCUplink ------------------------------
(* Uplink with one request beside the schedule loop. *)
EXTENDS Uplink

\* A job reads the settings when it begins: they change between requests.
QuietSettings == prefs' # prefs => \A p \in Jobs : ~Busy(p)
=============================================================================
