-------------------------- MODULE MCCosimSession --------------------------
EXTENDS CosimSession

\* A plant at the lockstep period and a slower one, on periods that are no
\* whole number of cycles.
Periods == <<2, 4>>

\* A part with no brown-out level, and one whose level is above power-on.
Chips == {[por_rising |-> 4, pdr_falling |-> 3, bor |-> None],
          [por_rising |-> 3, pdr_falling |-> 2, bor |-> [falling |-> 4, rising |-> 5]]}

Budget(f, c, o) == [fuel |-> f, cycles |-> c, once |-> o]
Budgets == {Budget(4, None, FALSE), Budget(4, 5, FALSE), Budget(None, None, TRUE)}
=============================================================================
