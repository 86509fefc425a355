------------------------------ MODULE MCAlerts ------------------------------
\* Instances of Alerts: the .cfg files give the bounds.
EXTENDS Alerts
=============================================================================
