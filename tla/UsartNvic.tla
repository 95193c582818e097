------------------------------- MODULE UsartNvic -------------------------------
(****************************************************************************)
(* One timed USART and its NVIC line: TimedRegs, the register accesses of   *)
(* firmware, the service that moves characters, and the reconciliation that *)
(* keeps the pending bit in step with the interrupt line.                   *)
(*                                                                          *)
(* Registers are sets of the bits that are set. The wire is abstract: a     *)
(* service may find that the shifter is done and that up to two characters  *)
(* have arrived. The core takes one enabled pending interrupt before an     *)
(* instruction; what its instructions access is chosen freely.              *)
(*                                                                          *)
(* The machine drives a USART in one of two ways. On the per-cycle walk it  *)
(* is ticked after every instruction and its line is reconciled then. Under *)
(* the event scheduler it is serviced by its own wakes, and only a rising   *)
(* edge of the line reaches the NVIC; its firmware may keep rules: "drain", *)
(* the handler returns only once the line is low; "config", control bits    *)
(* change only as UE does; "icpr", ICPR is not written.                     *)
(****************************************************************************)
EXTENDS Naturals, FiniteSets

CONSTANTS Modes,         \* a subset of {"walk", "event"}
          Layouts,       \* a subset of {"F1", "V2"}, the register layouts
          MaxBits,       \* bound: control bits one store changes
          EventRules     \* bound: the rules firmware keeps under the scheduler

ASSUME ModesAssumption == Modes \subseteq {"walk", "event"}
ASSUME LayoutsAssumption == Layouts \subseteq {"F1", "V2"}

VARIABLES mode, layout,
          cr,            \* control bits: UE, TE, RXNEIE, TXEIE, TCIE, EIE
          r,             \* TimedRegs
          nvic,          \* the line's bits in iser, ispr and level_pended
          active,        \* its handler is running
          owed,          \* walk: the tick of this instruction is still to come
          soft           \* history: software pended a low line, still low since

vars == <<mode, layout, cr, r, nvic, active, owed, soft>>

Control == {"ue", "te", "rxneie", "txeie", "tcie", "eie"}
Cr3 == {"eie"}                     \* the other bits are in CR1
Regs == {"tdr", "tx_active", "tc_cleared", "rxne", "ore", "fe", "armed", "irq_prev"}
Nvic == {"iser", "ispr", "level_pended"}
Errors == {"ore", "fe"}

----------------------------------------------------------------------------
(* TimedRegs and the line                                                   *)

Tc(rs) == rs \cap {"tdr", "tx_active", "tc_cleared"} = {}

\* TimedRegs::level under UE, the USART's interrupt line.
Level(c, rs) ==
  /\ "ue" \in c
  /\ \/ "rxneie" \in c /\ ("rxne" \in rs \/ "ore" \in rs)
     \/ "txeie" \in c /\ "tdr" \notin rs
     \/ "tcie" \in c /\ Tc(rs)
     \/ "eie" \in c /\ ("fe" \in rs \/ "ore" \in rs)

Line == Level(cr, r)

\* Mutant: a fall between two services goes unnoticed.
EdgeRemembered(c, rs) == rs
\* irq_prev &= level
EdgeForgotten(c, rs) == IF Level(c, rs) THEN rs ELSE rs \ {"irq_prev"}

\* Mutant: a deasserted line un-pends whoever pended.
ReconcileUnmarked(nv, level) ==
  IF level THEN nv \cup {"ispr", "level_pended"} ELSE nv \ {"ispr", "level_pended"}
\* Mutant: a deasserted line withdraws its mark, not its pend.
ReconcilePendsOnly(nv, level) ==
  IF level THEN nv \cup {"ispr", "level_pended"} ELSE nv \ {"level_pended"}
\* reconcile_nvic_level: an asserted line pends and marks; a deasserted one
\* un-pends only what a line pended.
Reconcile(nv, level) ==
  IF level THEN nv \cup {"ispr", "level_pended"}
  ELSE IF "level_pended" \in nv THEN nv \ {"ispr", "level_pended"}
  ELSE nv

----------------------------------------------------------------------------
(* Service: timed_service                                                   *)

\* The transmit half: a finished character frees the shifter; a waiting TDR
\* moves in when its cycle has come.
Transmit(rs, done, moves) ==
  LET freed == IF done THEN rs \ {"tx_active", "tc_cleared"} ELSE rs
  IN  IF moves THEN (freed \ {"tdr"})
                      \cup (IF {"ue", "te"} \subseteq cr THEN {"tx_active"} ELSE {})
      ELSE freed

\* receive_due and what the service makes of it: at most one character is
\* loaded, every other one is an overrun. F1 error flags are those of the
\* loaded character, V2 ones are sticky.
Receive(rs, chars, bad) ==
  LET loads == chars > 0 /\ "rxne" \notin rs
      lost  == chars > (IF loads THEN 1 ELSE 0)
      flags == IF ~loads THEN rs
               ELSE (IF layout = "F1" THEN rs \ {"fe"} ELSE rs)
                      \cup {"rxne"} \cup (IF bad THEN {"fe"} ELSE {})
  IN  IF lost THEN flags \cup {"ore"} ELSE flags

EdgeTaken(rs) == IF Level(cr, rs) THEN rs \cup {"irq_prev"} ELSE rs \ {"irq_prev"}

\* What one service can do to the registers.
Served(done, moves, chars, bad) ==
  EdgeTaken(Receive(Transmit(r, done, moves), chars, bad))

CanServe(done, moves, chars) ==
  /\ done => "tx_active" \in r
  /\ moves => "tdr" \in r /\ (done \/ "tx_active" \notin r)
  /\ chars > 0 => "ue" \in cr

\* The pending bit is written only when the line rises between two services.
Rising(rs) == "irq_prev" \in rs /\ "irq_prev" \notin r

SoftAfter(level) == soft /\ ~level

----------------------------------------------------------------------------
Init ==
  /\ mode \in Modes
  /\ layout \in Layouts
  /\ cr = {} /\ r = {} /\ nvic = {}
  /\ active = FALSE /\ owed = FALSE /\ soft = FALSE

----------------------------------------------------------------------------
(* The machine                                                              *)

\* Mutant: the walk leaves a line that stays high alone.
TickOnRise ==
  /\ mode = "walk" /\ owed
  /\ \E done, moves, bad \in BOOLEAN, chars \in 0..1 :
       /\ CanServe(done, moves, chars)
       /\ r' = Served(done, moves, chars, bad)
  /\ nvic' = IF Line /\ Level(cr, r') THEN nvic ELSE Reconcile(nvic, Level(cr, r'))
  /\ soft' = SoftAfter(Level(cr, r'))
  /\ owed' = FALSE
  /\ UNCHANGED <<mode, layout, cr, active>>
\* The walk: tick services the USART and reconciles its line, both ways.
Tick ==
  /\ mode = "walk" /\ owed
  /\ \E done, moves, bad \in BOOLEAN, chars \in 0..1 :
       /\ CanServe(done, moves, chars)
       /\ r' = Served(done, moves, chars, bad)
  /\ nvic' = Reconcile(nvic, Level(cr, r'))
  /\ soft' = SoftAfter(Level(cr, r'))
  /\ owed' = FALSE
  /\ UNCHANGED <<mode, layout, cr, active>>

\* The scheduler: on_event services the USART; apply_event_result pends and
\* marks the line on a rising edge and otherwise leaves the NVIC alone. A
\* wake may find nothing to do: a false start, a character cut on the wire,
\* or work that an earlier wake did.
Wake ==
  /\ mode = "event"
  /\ \E done, moves, bad \in BOOLEAN, chars \in 0..2 :
       /\ CanServe(done, moves, chars)
       /\ r' = Served(done, moves, chars, bad)
  /\ nvic' = IF Rising(r') THEN Reconcile(nvic, TRUE) ELSE nvic
  /\ soft' = SoftAfter(Level(cr, r'))
  /\ UNCHANGED <<mode, layout, cr, active, owed>>

\* reset_node: the NVIC, every USART register and the core.
ResetNode ==
  /\ ~owed
  /\ cr' = {} /\ r' = {} /\ nvic' = {}
  /\ active' = FALSE /\ soft' = FALSE
  /\ UNCHANGED <<mode, layout, owed>>

----------------------------------------------------------------------------
(* The core                                                                 *)

Keeps(rule) == mode = "event" /\ rule \in EventRules

CanTake == {"iser", "ispr"} \subseteq nvic /\ ~active

\* An instruction, when no interrupt is taken before it.
Executes ==
  /\ ~owed /\ ~CanTake
  /\ owed' = (mode = "walk")
  /\ UNCHANGED <<mode, layout>>

\* Exception entry: clear_nvic_pending leaves level_pended as it is.
Enter ==
  /\ ~owed /\ CanTake
  /\ nvic' = nvic \ {"ispr"}
  /\ active' = TRUE
  /\ soft' = FALSE
  /\ owed' = (mode = "walk")
  /\ UNCHANGED <<mode, layout, cr, r>>

ReturnFromHandler ==
  /\ Executes
  /\ active /\ active' = FALSE
  /\ Keeps("drain") => ~Line
  /\ UNCHANGED <<cr, r, nvic, soft>>

\* An instruction that touches neither the USART nor the NVIC.
Other ==
  /\ Executes
  /\ UNCHANGED <<cr, r, nvic, active, soft>>

\* A read of SR with an error flag set arms the clearing DR read (F1 only).
ReadStatus ==
  /\ Executes
  /\ r' = IF layout = "F1" /\ r \cap Errors # {} THEN r \cup {"armed"} ELSE r
  /\ UNCHANGED <<cr, nvic, active, soft>>

\* A read of DR clears RXNE, and after an armed SR read the error flags. The
\* bus does not reconcile the line after it: reads_can_deassert_irq is false.
ReadData ==
  /\ Executes
  /\ LET cleared == IF "armed" \in r /\ layout = "F1"
                      THEN Errors \cup {"armed", "rxne"} ELSE {"rxne"}
     IN  r' = EdgeForgotten(cr, r \ cleared)
  /\ UNCHANGED <<cr, nvic, active, soft>>

\* Every store to the USART ends in reconcile_irq_levels_after_write.
Stored ==
  /\ Executes
  /\ nvic' = Reconcile(nvic, Level(cr', r'))
  /\ soft' = SoftAfter(Level(cr', r'))
  /\ UNCHANGED active

\* A store to DR (TDR) fills TDR when the transmitter is enabled.
WriteData ==
  /\ r' = EdgeForgotten(cr, IF {"ue", "te"} \subseteq cr
                              THEN (r \cup {"tdr"}) \ {"tc_cleared"} ELSE r)
  /\ UNCHANGED cr
  /\ Stored

\* F1: RXNE and TC of SR are cleared by writing 0, TC only when it is set.
WriteStatus ==
  /\ layout = "F1"
  /\ \E zeroes \in SUBSET {"rxne", "tc"} :
       LET cleared == IF "rxne" \in zeroes THEN r \ {"rxne"} ELSE r
       IN  r' = EdgeForgotten(cr, IF "tc" \in zeroes /\ Tc(cleared)
                                    THEN cleared \cup {"tc_cleared"} ELSE cleared)
  /\ UNCHANGED cr
  /\ Stored

\* V2: ICR clears error flags and TC, RQR flushes RDR or TDR.
WriteRequest ==
  /\ layout = "V2"
  /\ \E bits \in SUBSET {"ore", "fe"}, tc \in BOOLEAN, flush \in SUBSET {"rxne", "tdr"} :
       /\ bits \cup (IF tc THEN {"tc"} ELSE {}) = {} \/ flush = {}
       /\ r' = EdgeForgotten(cr, (r \ (bits \cup flush))
                                   \cup (IF tc THEN {"tc_cleared"} ELSE {}))
  /\ UNCHANGED cr
  /\ Stored

\* A store to CR1 or CR3. Clearing UE resets TimedRegs; nothing else here
\* touches irq_prev.
WriteControl ==
  /\ \E c \in SUBSET Control :
       /\ c \ Cr3 = cr \ Cr3 \/ c \cap Cr3 = cr \cap Cr3
       /\ Cardinality((c \ cr) \cup (cr \ c)) <= MaxBits
       /\ Keeps("config") => "ue" \notin cr \cap c
       /\ cr' = c
  /\ r' = IF "ue" \in cr' THEN r ELSE {}
  /\ Stored

\* Stores to the NVIC.
WriteIser ==
  /\ Executes
  /\ nvic' \in {nvic \cup {"iser"}, nvic \ {"iser"}}
  /\ UNCHANGED <<cr, r, active, soft>>

WriteIspr ==
  /\ Executes
  /\ nvic' = nvic \cup {"ispr"}
  /\ soft' = ~Line
  /\ UNCHANGED <<cr, r, active>>

WriteIcpr ==
  /\ Executes
  /\ ~Keeps("icpr")
  /\ nvic' = nvic \ {"ispr"}
  /\ soft' = FALSE
  /\ UNCHANGED <<cr, r, active>>

----------------------------------------------------------------------------
Machine == Tick \/ Wake \/ ResetNode
Usart == ReadStatus \/ ReadData \/ WriteData \/ WriteStatus \/ WriteRequest \/ WriteControl
Core == Enter \/ ReturnFromHandler \/ Other \/ WriteIser \/ WriteIspr \/ WriteIcpr
Next == Machine \/ Usart \/ Core

Spec == Init /\ [][Next]_vars

\* The core keeps stepping, the walk ticks after each step, and an event that
\* is due (a shifter that is done, a TDR that may move) is served.
Due == Wake /\ \/ "tx_active" \in r /\ "tx_active" \notin r'
               \/ "tdr" \in r /\ "tdr" \notin r'
FairSpec == Spec /\ WF_vars(Tick) /\ WF_vars(Enter) /\ WF_vars(Other) /\ WF_vars(Due)

----------------------------------------------------------------------------
\* Only the walk owes a tick between two instructions (tick_peripherals_phase1).
TypeOK ==
  /\ mode \in {"walk", "event"} /\ layout \in {"F1", "V2"}
  /\ cr \subseteq Control /\ r \subseteq Regs /\ nvic \subseteq Nvic
  /\ active \in BOOLEAN /\ owed \in BOOLEAN /\ soft \in BOOLEAN
  /\ mode = "event" => ~owed

\* A software pend of a low line is taken once: while the line stays low the
\* bit stays pending until the handler is entered or firmware clears it
\* (NvicState::level_pended, reconcile_nvic_level). On the walk.
SoftwarePendKept == mode = "walk" /\ soft => "ispr" \in nvic

\* The handler is entered for a cause: the line is high, or software pended
\* it. Firmware that cleared the status flag in the handler is not re-entered
\* for the same event (reconcile_nvic_level). On the walk.
EntryHasCause == [][mode = "walk" /\ Enter => Line \/ soft]_vars

\* Every rise of the line reaches the NVIC, whatever made it rise: a service,
\* or a store (timed_service: raised on each rising edge of the line).
RiseReachesNvic == [][~Line /\ Line' => "ispr" \in nvic']_vars

\* A line that stays asserted and enabled is served: its handler is entered
\* (irq_line_level: asserted means pended).
AssertedLineServed ==
  (Line /\ "iser" \in nvic) ~> (~Line \/ "iser" \notin nvic \/ active)
============================================================================
