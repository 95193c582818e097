------------------------------ MODULE MCUartRounds ------------------------------
EXTENDS UartRounds

Clocks == <<2, 3>>
Bits == <<{2, 3}, {3}>>
Texts == <<<<1>>, <<0, 1>>>>
Deadlines == <<4, 12>>
Lockups == <<{8}, {}>>
Events == {<<>>,
           <<[at |-> 9, kind |-> "cut", arg |-> 0], [at |-> 14, kind |-> "restore", arg |-> 0]>>,
           <<[at |-> 10, kind |-> "reset", arg |-> 2]>>,
           <<[at |-> 4, kind |-> "slow", arg |-> 4], [at |-> 13, kind |-> "slow", arg |-> 0]>>}
============================================================================
