------------------------------ MODULE MCFocuser ------------------------------
EXTENDS Focuser

\* Default settings of the runs.
MCTakeUp == [maxPos |-> 1, backlash |-> 1, usteps |-> 1]
MCRoom   == [maxPos |-> 2, backlash |-> 0, usteps |-> 1]
=============================================================================
