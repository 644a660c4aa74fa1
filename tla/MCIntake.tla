------------------------------ MODULE MCIntake ------------------------------
EXTENDS Intake

CONSTANTS r1, r2, memo, x, y

MCRequests == {r1, r2}
MCWords == {r1}
\* The phone calls every voice note "memo".
MCMedia == [r \in {r1, r2} |-> <<memo>>]
MCAudible == {memo}
MCTexts == {x, y}
=============================================================================
