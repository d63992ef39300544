------------------------------ MODULE MCComms ------------------------------
EXTENDS CommsDelivery

CONSTANTS m1, m2, pump, recovery

Messages == {m1, m2}
OneMessage == {m1}
Dispatchers == {pump, recovery}
Reconcilers == {recovery}
=============================================================================
