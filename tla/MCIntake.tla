------------------------------ MODULE MCIntake ------------------------------
\* Small sets of messages and batches for TLC.
EXTENDS Intake
CONSTANTS m1, m2, t1, t2

OneEach == {<<m1>>}
Together == {<<m1, m2>>}
=============================================================================
