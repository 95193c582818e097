---------------------------- MODULE UsartNvicProofs ----------------------------
(****************************************************************************)
(* Proofs for UsartNvic: what the walk guarantees whatever firmware does,   *)
(* and what the event scheduler guarantees firmware that changes control    *)
(* bits only as UE does.                                                    *)
(****************************************************************************)
EXTENDS UsartNvic, TLAPS

\* Between instructions of the walk the mark is the line; inside one (before
\* its tick) a DR read may have left a mark on a line that is low by now. A
\* bit is pending because of the line or because of software, and a pend of
\* a line that has stayed low is never marked.
WalkInv ==
  mode = "walk" =>
    /\ Line => "level_pended" \in nvic
    /\ ~owed /\ "level_pended" \in nvic => Line
    /\ "ispr" \in nvic => "level_pended" \in nvic \/ soft
    /\ soft => "ispr" \in nvic /\ "level_pended" \notin nvic /\ ~Line

\* The scheduler's edge detector is never set on a low line.
EventInv == mode = "event" /\ "config" \in EventRules /\ "irq_prev" \in r => Line

\* The inductive invariant.
Inv == TypeOK /\ WalkInv /\ EventInv

\* A status read changes nothing the line depends on.
LEMMA LevelIgnoresArmed ==
  ASSUME NEW c, NEW rs
  PROVE  Level(c, rs \cup {"armed"}) <=> Level(c, rs)
  BY DEF Level, Tc

\* Nor does the edge detector.
LEMMA LevelIgnoresEdge ==
  ASSUME NEW c, NEW rs
  PROVE  /\ Level(c, rs \ {"irq_prev"}) <=> Level(c, rs)
         /\ Level(c, rs \cup {"irq_prev"}) <=> Level(c, rs)
  BY DEF Level, Tc

\* A data read can lower the line but never raise it.
LEMMA ReadOnlyLowers ==
  ASSUME NEW c, NEW rs, NEW cleared \in SUBSET {"ore", "fe", "armed", "rxne"},
         Level(c, rs \ cleared)
  PROVE  Level(c, rs)
  BY DEF Level, Tc

\* What a store or a read leaves in the edge detector is set only on a high
\* line.
LEMMA EdgeForgottenIsLevel ==
  ASSUME NEW c, NEW rs
  PROVE  /\ Level(c, EdgeForgotten(c, rs)) <=> Level(c, rs)
         /\ "irq_prev" \in EdgeForgotten(c, rs) => Level(c, EdgeForgotten(c, rs))
  BY LevelIgnoresEdge DEF EdgeForgotten

\* A service leaves the edge detector equal to the line.
LEMMA EdgeTakenIsLevel ==
  ASSUME NEW rs
  PROVE  /\ Level(cr, EdgeTaken(rs)) <=> Level(cr, rs)
         /\ "irq_prev" \in EdgeTaken(rs) <=> Level(cr, EdgeTaken(rs))
  BY LevelIgnoresEdge DEF EdgeTaken

\* reconcile_nvic_level leaves the mark equal to the line. It pends an
\* asserted line, and drops only a marked pend.
LEMMA ReconcileFollowsLine ==
  ASSUME NEW nv, NEW level \in BOOLEAN
  PROVE  /\ level => {"ispr", "level_pended"} \subseteq Reconcile(nv, level)
         /\ ~level => "level_pended" \notin Reconcile(nv, level)
         /\ ~level /\ "ispr" \in Reconcile(nv, level)
              => "ispr" \in nv /\ "level_pended" \notin nv
         /\ "ispr" \in nv /\ "level_pended" \notin nv => "ispr" \in Reconcile(nv, level)
  BY DEF Reconcile

\* The line is high or low.
LEMMA LevelBoolean ==
  ASSUME NEW c, NEW rs
  PROVE  Level(c, rs) \in BOOLEAN
  BY DEF Level

\* Every step keeps the types.
LEMMA TypePreserved == TypeOK /\ [Next]_vars => TypeOK'
<1> SUFFICES ASSUME TypeOK, [Next]_vars
             PROVE  TypeOK'
  OBVIOUS
<1> USE DEF TypeOK, Control, Regs, Nvic
<1>1. CASE Tick
  <2>1. PICK done, moves, bad \in BOOLEAN, chars \in 0..1 :
          r' = Served(done, moves, chars, bad)
    BY <1>1 DEF Tick
  <2>2. r' \subseteq Regs
    BY <2>1 DEF Served, EdgeTaken, Receive, Transmit
  <2> QED BY <1>1, <2>2, Zenon DEF Tick, Reconcile, SoftAfter
<1>2. CASE Wake
  <2>1. PICK done, moves, bad \in BOOLEAN, chars \in 0..2 :
          r' = Served(done, moves, chars, bad)
    BY <1>2 DEF Wake
  <2>2. r' \subseteq Regs
    BY <2>1 DEF Served, EdgeTaken, Receive, Transmit
  <2> QED BY <1>2, <2>2 DEF Wake, Reconcile, SoftAfter
<1>3. CASE ResetNode
  BY <1>3, Zenon DEF ResetNode
<1>4. CASE Enter
  BY <1>4, Zenon DEF Enter
<1>5. CASE ReturnFromHandler \/ Other
  BY <1>5, Zenon DEF ReturnFromHandler, Other, Executes
<1>6. CASE ReadStatus \/ ReadData
  BY <1>6, Zenon DEF ReadStatus, ReadData, Executes, EdgeForgotten, Errors
<1>7. CASE Stored /\ r' \subseteq Regs /\ cr' \subseteq Control
  BY <1>7 DEF Stored, Executes, Reconcile, SoftAfter
<1>8. CASE WriteData
  BY <1>8, <1>7 DEF WriteData, EdgeForgotten
<1>9. CASE WriteStatus
  BY <1>9, <1>7 DEF WriteStatus, EdgeForgotten
<1>10. CASE WriteRequest
  BY <1>10, <1>7 DEF WriteRequest, EdgeForgotten
<1>11. CASE WriteControl
  BY <1>11, <1>7 DEF WriteControl
<1>12. CASE WriteIser \/ WriteIspr \/ WriteIcpr
  BY <1>12, Zenon DEF WriteIser, WriteIspr, WriteIcpr, Executes
<1>13. CASE UNCHANGED vars
  BY <1>13 DEF vars
<1> QED
  BY <1>1, <1>2, <1>3, <1>4, <1>5, <1>6, <1>8, <1>9, <1>10, <1>11, <1>12, <1>13
  DEF Next, Machine, Usart, Core

\* A store reconciles the line it leaves.
LEMMA StoredKeepsWalkInv == WalkInv /\ Stored /\ TypeOK => WalkInv'
  BY ReconcileFollowsLine, LevelBoolean
  DEF WalkInv, Stored, Executes, SoftAfter, Line, TypeOK

\* Every step of the walk keeps the mark and the line together.
LEMMA WalkInvPreserved == TypeOK /\ WalkInv /\ [Next]_vars => WalkInv'
<1> SUFFICES ASSUME TypeOK, WalkInv, [Next]_vars
             PROVE  WalkInv'
  OBVIOUS
<1> USE DEF WalkInv, TypeOK, Line
<1>1. CASE Tick
  BY <1>1, ReconcileFollowsLine, LevelBoolean DEF Tick, SoftAfter
<1>2. CASE Wake
  BY <1>2 DEF Wake
<1>3. CASE ResetNode
  BY <1>3 DEF ResetNode, Level
<1>4. CASE Enter
  BY <1>4 DEF Enter
<1>5. CASE ReturnFromHandler \/ Other
  BY <1>5 DEF ReturnFromHandler, Other, Executes
<1>6. CASE ReadStatus
  BY <1>6, LevelIgnoresArmed DEF ReadStatus, Executes
<1>7. CASE ReadData
  <2>1. PICK cleared \in SUBSET {"ore", "fe", "armed", "rxne"} :
          r' = EdgeForgotten(cr, r \ cleared)
    BY <1>7, Zenon DEF ReadData, Errors
  <2>2. Line' => Line
    BY <1>7, <2>1, EdgeForgottenIsLevel, ReadOnlyLowers, Zenon DEF ReadData
  <2> QED BY <1>7, <2>2, Zenon DEF ReadData, Executes
<1>8. CASE WriteData \/ WriteStatus \/ WriteRequest \/ WriteControl
  BY <1>8, StoredKeepsWalkInv DEF WriteData, WriteStatus, WriteRequest, WriteControl
<1>9. CASE WriteIser
  BY <1>9 DEF WriteIser, Executes
<1>10. CASE WriteIspr
  BY <1>10, Zenon DEF WriteIspr, Executes
<1>11. CASE WriteIcpr
  BY <1>11 DEF WriteIcpr, Executes
<1>12. CASE UNCHANGED vars
  BY <1>12 DEF vars
<1> QED
  BY <1>1, <1>2, <1>3, <1>4, <1>5, <1>6, <1>7, <1>8, <1>9, <1>10, <1>11, <1>12
  DEF Next, Machine, Usart, Core

\* Every step under the scheduler keeps its edge detector sound.
LEMMA EventInvPreserved == TypeOK /\ EventInv /\ [Next]_vars => EventInv'
<1> SUFFICES ASSUME TypeOK, EventInv, [Next]_vars
             PROVE  EventInv'
  OBVIOUS
<1> USE DEF EventInv, TypeOK, Line
<1>1. CASE Tick
  BY <1>1 DEF Tick
<1>2. CASE Wake
  BY <1>2, EdgeTakenIsLevel DEF Wake, Served
<1>3. CASE ResetNode
  BY <1>3 DEF ResetNode
<1>4. CASE Enter \/ ReturnFromHandler \/ Other \/ WriteIser \/ WriteIspr \/ WriteIcpr
  BY <1>4 DEF Enter, ReturnFromHandler, Other, WriteIser, WriteIspr, WriteIcpr, Executes
<1>5. CASE ReadStatus
  BY <1>5, LevelIgnoresArmed DEF ReadStatus, Executes
<1>6. CASE ReadData \/ WriteData
  BY <1>6, EdgeForgottenIsLevel DEF ReadData, WriteData, Stored, Executes
<1>7. CASE WriteStatus
  BY <1>7, EdgeForgottenIsLevel DEF WriteStatus, Stored, Executes
<1>8. CASE WriteRequest
  BY <1>8, EdgeForgottenIsLevel DEF WriteRequest, Stored, Executes
<1>9. CASE WriteControl
  BY <1>9 DEF WriteControl, Stored, Executes, Keeps, Level
<1>10. CASE UNCHANGED vars
  BY <1>10 DEF vars
<1> QED
  BY <1>1, <1>2, <1>3, <1>4, <1>5, <1>6, <1>7, <1>8, <1>9, <1>10
  DEF Next, Machine, Usart, Core

\* The inductive invariant of both drivers of the USART.
THEOREM Invariance == Spec => []Inv
<1>1. Init => Inv
  BY ModesAssumption, LayoutsAssumption, Zenon
  DEF Init, Inv, TypeOK, WalkInv, EventInv, Line, Level
<1>2. Inv /\ [Next]_vars => Inv'
  BY TypePreserved, WalkInvPreserved, EventInvPreserved DEF Inv
<1> QED
  BY <1>1, <1>2, PTL DEF Spec

\* On the walk, whatever firmware does, a software pend of a low line is kept
\* until it is taken or cleared.
THEOREM SoftwarePendIsKept == Spec => []SoftwarePendKept
<1>1. Inv => SoftwarePendKept
  BY DEF Inv, WalkInv, SoftwarePendKept
<1> QED
  BY <1>1, Invariance, PTL

\* On the walk, whatever firmware does, the handler is never entered for a
\* line that has fallen and that no software pended.
THEOREM EntriesHaveACause == Spec => EntryHasCause
<1>1. Inv /\ [Next]_vars => [mode = "walk" /\ Enter => Line \/ soft]_vars
  BY DEF Inv, WalkInv, Enter, CanTake
<1> QED
  BY <1>1, Invariance, PTL DEF Spec, EntryHasCause

\* A rise is pended as it happens: by the reconciliation of a tick or a store,
\* or under the scheduler because the edge detector was clear.
LEMMA RisePends ==
  ASSUME "config" \in EventRules, Inv, [Next]_vars, ~Line, Line'
  PROVE  "ispr" \in nvic'
<1> USE DEF Inv, TypeOK, Line
<1>1. CASE Tick
  BY <1>1, ReconcileFollowsLine, LevelBoolean, Zenon DEF Tick
<1>2. CASE Wake
  <2>1. PICK done, moves, bad \in BOOLEAN, chars \in 0..2 :
          r' = Served(done, moves, chars, bad)
    BY <1>2 DEF Wake
  <2>2. "irq_prev" \in r'
    BY <1>2, <2>1, EdgeTakenIsLevel DEF Wake, Served
  <2>3. Rising(r')
    BY <1>2, <2>2 DEF Wake, EventInv, Rising
  <2> QED BY <1>2, <2>3, ReconcileFollowsLine, Zenon DEF Wake
<1>3. CASE ResetNode
  BY <1>3 DEF ResetNode, Level
<1>4. CASE Enter \/ ReturnFromHandler \/ Other \/ WriteIser \/ WriteIspr \/ WriteIcpr
  BY <1>4 DEF Enter, ReturnFromHandler, Other, WriteIser, WriteIspr, WriteIcpr
<1>5. CASE ReadStatus
  BY <1>5, LevelIgnoresArmed DEF ReadStatus
<1>6. CASE ReadData
  <2>1. PICK cleared \in SUBSET {"ore", "fe", "armed", "rxne"} :
          r' = EdgeForgotten(cr, r \ cleared)
    BY <1>6, Zenon DEF ReadData, Errors
  <2> QED BY <1>6, <2>1, EdgeForgottenIsLevel, ReadOnlyLowers DEF ReadData
<1>7. CASE Stored
  BY <1>7, ReconcileFollowsLine, LevelBoolean, Zenon DEF Stored
<1>8. CASE UNCHANGED vars
  BY <1>8 DEF vars
<1> QED
  BY <1>1, <1>2, <1>3, <1>4, <1>5, <1>6, <1>7, <1>8
  DEF Next, Machine, Usart, Core, WriteData, WriteStatus, WriteRequest, WriteControl

\* Every rise of the line reaches the NVIC on the walk, and under the
\* scheduler when control bits change only as UE does.
THEOREM RisesReachTheNvic ==
  ASSUME "config" \in EventRules
  PROVE  Spec => RiseReachesNvic
<1>1. Inv /\ [Next]_vars => [~Line /\ Line' => "ispr" \in nvic']_vars
  BY RisePends
<1> QED
  BY <1>1, Invariance, PTL DEF Spec, RiseReachesNvic
============================================================================
