----------------------------- MODULE MCLogicObserver -----------------------------
EXTENDS LogicObserver

\* Pad 1 is a marker, pad 2 an open-drain pad on a net.
MarkerPads == <<1>>
NetMembers == <<2>>
Values ==
  [p \in {1, 2} |->
     {[level |-> l, drive |-> "driven"] : l \in 0..1}
       \cup (IF p = 2 THEN {[level |-> 1, drive |-> "high_z"]} ELSE {})]
Arms == <<<<2, 1>>, <<1>>>>
\* Push capture with ticks that cost a cycle, push capture with scheduler
\* events, and a marker that must be polled.
Kinds ==
  {[poll |-> {}, ticked |-> {1}, drained |-> {}, cost |-> {0, 1}],
   [poll |-> {}, ticked |-> {}, drained |-> {1}, cost |-> {0}],
   [poll |-> {1}, ticked |-> {}, drained |-> {}, cost |-> {0, 1}]}
=============================================================================
