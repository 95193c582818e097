------------------------------- MODULE MCGpioNets -------------------------------
(* Instances of GpioNets for TLC: three nodes in a line, on two nets.       *)
EXTENDS GpioNets

TwoNetsMembers == <<{1, 2}, {2, 3}>>
TwoNetsPull == <<"Up", "Down">>
TwoNetsLatency == <<2, 2>>
Clocks == <<4, 3, 3>>
Lengths == <<1, 2, 1>>
Driven == <<{}, {"Z", "Low"}, {"Z", "High"}>>
================================================================================
