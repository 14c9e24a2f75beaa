------------------------------ MODULE MCAlerts ------------------------------
(* Instances of Alerts for TLC; the values are in the .cfg files.           *)
EXTENDS Alerts
=============================================================================
