------------------------------ MODULE MCAlerts ------------------------------
EXTENDS Alerts, TLC

CONSTANTS i1, v, w, e1

MCInstances == {i1}
MCRules == {v, w}
MCOnce == {v}
MCValued == {v}
MCEvents == {e1}
=============================================================================
