-------------------------------- MODULE Rtc ---------------------------------
(***************************************************************************)
(* The real-time clock of student-distrib:                                 *)
(*   rtc_driver.c  rtc_open, rtc_close, rtc_read, rtc_write                 *)
(*   interrupts.c  RTC_init, handle_RTC (IRQ8)                              *)
(*   syscalls.c    the read/write dispatch that reaches them                *)
(*   i8259.c       enable_irq, send_eoi: the path of IRQ8 through the PICs  *)
(* One RTC chip serves every terminal: rtc_open and rtc_write program its   *)
(* single rate register, and handle_RTC increments the virtual interrupt   *)
(* counter of every terminal.  rtc_read, run by the process on the         *)
(* scheduled terminal, busy-waits with interrupts on until its terminal's  *)
(* counter is non-zero, so the timer may schedule other terminals while it *)
(* waits.  Each terminal runs one process here (its top of stack); the     *)
(* processes themselves and the fd slot search are Kernel's and FdTable's. *)
(* IRQ8 reaches the CPU through the slave PIC (line 0) cascaded on line 2  *)
(* of the master; the RTC holds its line up until register C is read, and *)
(* a PIC line in service blocks itself and the lines below it until an    *)
(* EOI for it.  PIC registers are sets of line numbers (bit n = line n).  *)
(***************************************************************************)
EXTENDS Integers, FiniteSets

CONSTANTS
  NumTerminals,   \* NUM_TERMINALS
  BootRate,       \* the rate register as the firmware leaves it
  Freqs,          \* the frequencies programs pass to rtc_write
  CounterCap      \* where the virtual counters are capped, see HandleRTC

ASSUME /\ NumTerminals \in 1 .. 3
       /\ BootRate \in 1 .. 15
       /\ Freqs \subseteq Int
       /\ CounterCap \in Nat \ {0}

Terminals == 0 .. NumTerminals - 1
MAX_RTC_RATE == 32768
FAILURE == -1
OPEN_RATE == 15             \* rtc_open's rate: 2 Hz
PICs == {"master", "slave"}
IRQ0 == 0
IRQ1 == 1
IRQ2 == 2
IRQ8 == 8

VARIABLES
  rate,                   \* the RTC's rate register (low 4 bits of reg A)
  rtc_running,            \* rtc_running[t]: the frequency t last wrote
  rtc_virtual_interupt,   \* per-terminal interrupt counters
  opened,                 \* the process on t holds an rtc descriptor
  pc,                     \* where the process on t is in rtc_read
  current_process,        \* the terminal the timer last scheduled
  fresh,                  \* ghost: an RTC interrupt came since t's reset
  rtc_line,               \* the RTC asserts IRQ8 (register C flag set)
  irr,                    \* the slave PIC latched the edge on its line 0
  isr                     \* the in-service registers of the two PICs

pic == <<rtc_line, irr, isr>>

vars == <<rate, rtc_running, rtc_virtual_interupt, opened, pc,
          current_process, fresh, pic>>

TypeOK ==
  /\ rate \in 1 .. 15
  /\ rtc_running \in [Terminals -> Freqs \cup {2}]
  /\ rtc_virtual_interupt \in [Terminals -> 0 .. CounterCap]
  /\ opened \in [Terminals -> BOOLEAN]
  /\ pc \in [Terminals -> {"user", "reset", "wait"}]
  /\ current_process \in Terminals
  /\ fresh \in [Terminals -> BOOLEAN]
  /\ rtc_line \in BOOLEAN
  /\ irr \in BOOLEAN
  /\ isr \in [PICs -> SUBSET (0 .. 7)]

(* RTC_init: rtc_running[t] = 2 and zero counters; the rate is left as it *)
(* was.  Every terminal runs a process, none holds the RTC.               *)
Init ==
  /\ rate = BootRate
  /\ rtc_running = [t \in Terminals |-> 2]
  /\ rtc_virtual_interupt = [t \in Terminals |-> 0]
  /\ opened = [t \in Terminals |-> FALSE]
  /\ pc = [t \in Terminals |-> "user"]
  /\ current_process = 0
  /\ fresh = [t \in Terminals |-> FALSE]
  /\ rtc_line = FALSE
  /\ irr = FALSE
  /\ isr = [p \in PICs |-> {}]

(* rtc_write's loop: mask runs over 2, 4, .. MAX_RTC_RATE while rate      *)
(* counts down from 0x0F; a mask equal to the frequency breaks out, and   *)
(* reaching MAX_RTC_RATE without a match fails.                           *)
RECURSIVE RateLoop(_, _, _)
RateLoop(f, mask, r) ==
  CASE mask = f            -> r
    [] mask = MAX_RTC_RATE -> FAILURE
    [] OTHER               -> RateLoop(f, 2 * mask, r - 1)

RateOf(f) == RateLoop(f, 2, 15)

(* The counters handle_RTC increments. *)
IncrementedScheduled == {current_process}

Incremented == Terminals

ReadResetKept(c) == c

(* rtc_read's rtc_virtual_interupt[cip] = 0, before and after the wait. *)
ReadResetValue(c) == 0

-----------------------------------------------------------------------------
(* The process on the scheduled terminal cp, in user mode. *)
Running(cp) == current_process = cp /\ pc[cp] = "user"

(* open("rtc") reaching rtc_open: a second open by the same process fails *)
(* and changes nothing; else the slot is taken and the rate set to 2 Hz.  *)
RtcOpen(cp) ==
  /\ Running(cp)
  /\ ~opened[cp]
  /\ opened' = [opened EXCEPT ![cp] = TRUE]
  /\ rate' = OPEN_RATE
  /\ UNCHANGED <<rtc_running, rtc_virtual_interupt, pc, current_process, fresh, pic>>

(* close(fd) of the rtc descriptor: rtc_close frees the slot. *)
RtcClose(cp) ==
  /\ Running(cp)
  /\ opened[cp]
  /\ opened' = [opened EXCEPT ![cp] = FALSE]
  /\ UNCHANGED <<rate, rtc_running, rtc_virtual_interupt, pc, current_process,
                 fresh, pic>>

(* write(fd, &f, 4) on the rtc descriptor: rtc_write.  A frequency that is *)
(* not a power of two up to MAX_RTC_RATE fails and changes nothing.        *)
RtcWrite(cp, f) ==
  /\ Running(cp)
  /\ opened[cp]
  /\ RateOf(f) # FAILURE
  /\ rtc_running' = [rtc_running EXCEPT ![cp] = f]
  /\ rtc_virtual_interupt' = [rtc_virtual_interupt EXCEPT ![cp] = 0]
  /\ rate' = RateOf(f)
  /\ UNCHANGED <<opened, pc, current_process, fresh, pic>>

(* read(fd, ..) on the rtc descriptor: rtc_read takes cip = current_process *)
(* and executes sti(); from here on every interrupt may come.               *)
RtcReadBegin(cp) ==
  /\ Running(cp)
  /\ opened[cp]
  /\ pc' = [pc EXCEPT ![cp] = "reset"]
  /\ UNCHANGED <<rate, rtc_running, rtc_virtual_interupt, opened,
                 current_process, fresh, pic>>

(* rtc_virtual_interupt[cip] = 0, once the process runs again. *)
RtcReadReset(cp) ==
  /\ current_process = cp /\ pc[cp] = "reset"
  /\ rtc_virtual_interupt' = [rtc_virtual_interupt EXCEPT ![cp] = ReadResetValue(@)]
  /\ pc' = [pc EXCEPT ![cp] = "wait"]
  /\ fresh' = [fresh EXCEPT ![cp] = FALSE]
  /\ UNCHANGED <<rate, rtc_running, opened, current_process, pic>>

(* The wait loop sees rtc_virtual_interupt[cip] >= 1: reset, cli, return 0. *)
RtcReadReturn(cp) ==
  /\ current_process = cp /\ pc[cp] = "wait"
  /\ rtc_virtual_interupt[cp] >= 1
  /\ rtc_virtual_interupt' = [rtc_virtual_interupt EXCEPT ![cp] = 0]
  /\ pc' = [pc EXCEPT ![cp] = "user"]
  /\ UNCHANGED <<rate, rtc_running, opened, current_process, fresh,
                 pic>>

(* A PIC line n: line n of the master for n < 8, else line n - 8 of the  *)
(* slave.                                                                 *)
Line(n) == IF n < 8 THEN <<"master", n>> ELSE <<"slave", n - 8>>

(* enable_irq: inb(port) & ~(1 << irq_num), irq_num - 8 on the slave.     *)
EnableIrq(m, irq_num) ==
  [m EXCEPT ![Line(irq_num)[1]] = @ \ {Line(irq_num)[2]}]

(* The masks after boot: initialize_IDT writes 0xFD to the master and     *)
(* 0xFF to the slave, then PIT_init, keyboard_init and RTC_init unmask    *)
(* IRQ0, IRQ1, IRQ2 and IRQ8.  Nothing masks a line again.                *)
imr ==
  LET idt == [p \in PICs |-> IF p = "master" THEN (0 .. 7) \ {1} ELSE 0 .. 7]
  IN EnableIrq(EnableIrq(EnableIrq(EnableIrq(idt, IRQ0), IRQ1), IRQ2), IRQ8)

SendEoiSlaveOnly(s, irq_num) ==
  IF irq_num < 8 THEN [s EXCEPT !["master"] = @ \ {irq_num % 8}]
  ELSE [s EXCEPT !["slave"] = @ \ {irq_num - 8}]

(* send_eoi: a specific EOI (EOI | line) to the master for IRQ0-7; for    *)
(* the slave's lines one for the cascade line 2 of the master, then one   *)
(* for line irq_num - 8 of the slave.                                     *)
SendEoi(s, irq_num) ==
  IF irq_num < 8 THEN [s EXCEPT !["master"] = @ \ {irq_num % 8}]
  ELSE [s EXCEPT !["master"] = @ \ {IRQ2}, !["slave"] = @ \ {irq_num - 8}]

(* A line is taken when it is unmasked and neither it nor a line above it *)
(* (a lower number) is in service on its PIC.                             *)
Open(p, n) == n \notin imr[p] /\ \A k \in 0 .. n : k \notin isr[p]

(* The RTC's periodic flag: with register C read it raises IRQ8 again,   *)
(* an edge the slave PIC latches.  While the line is up nothing new comes. *)
RtcPeriod ==
  /\ ~rtc_line
  /\ rtc_line' = TRUE
  /\ irr' = TRUE
  /\ UNCHANGED <<rate, rtc_running, rtc_virtual_interupt, opened, pc,
                 current_process, fresh, isr>>

(* Reading register C lowers the RTC's line. *)
ReadRegC(line) == FALSE

(* handle_RTC: the slave passes IRQ8 through its line 0 to the master's   *)
(* line 2 and both lines go in service.  Every counter of Incremented     *)
(* goes up by one (the code only compares a counter with 1 and resets it  *)
(* to 0, so counts above CounterCap behave alike and are kept there);     *)
(* then send_eoi(IRQ8) and the read of register C.                        *)
HandleRTC ==
  /\ irr
  /\ Open("slave", 0) /\ Open("master", IRQ2)
  /\ rtc_virtual_interupt' =
       [t \in Terminals |->
          IF t \in Incremented /\ rtc_virtual_interupt[t] < CounterCap
          THEN rtc_virtual_interupt[t] + 1 ELSE rtc_virtual_interupt[t]]
  /\ fresh' = [t \in Terminals |->
                 fresh[t] \/ (t \in Incremented /\ pc[t] = "wait")]
  /\ irr' = FALSE
  /\ isr' = SendEoi([isr EXCEPT !["master"] = @ \cup {IRQ2}, !["slave"] = @ \cup {0}],
                    IRQ8)
  /\ rtc_line' = ReadRegC(rtc_line)
  /\ UNCHANGED <<rate, rtc_running, opened, pc, current_process>>

NextTerminalUnwrapped(t) == t + 1

(* timer_handler's next_process = (current_process + 1) % NUM_TERMINALS. *)
NextTerminal(t) == (t + 1) % NumTerminals

(* timer_handler with every terminal running: the next one, round robin. *)
Tick ==
  /\ current_process' = NextTerminal(current_process)
  /\ UNCHANGED <<rate, rtc_running, rtc_virtual_interupt, opened, pc, fresh,
                 pic>>

Next ==
  \/ \E cp \in Terminals :
       \/ RtcOpen(cp) \/ RtcClose(cp)
       \/ \E f \in Freqs : RtcWrite(cp, f)
       \/ RtcReadBegin(cp) \/ RtcReadReset(cp) \/ RtcReadReturn(cp)
  \/ RtcPeriod
  \/ HandleRTC
  \/ Tick

(* The timer and the RTC interrupt periodically whenever interrupts are on, *)
(* which they are in user mode and in rtc_read, and the RTC raises its     *)
(* flag again each period once register C is read.  A process moves only  *)
(* while its terminal is scheduled, which the ticks keep undoing: strong   *)
(* fairness.                                                               *)
Fairness ==
  /\ WF_vars(Tick)
  /\ WF_vars(RtcPeriod)
  /\ WF_vars(HandleRTC)
  /\ \A cp \in Terminals : SF_vars(RtcReadReset(cp)) /\ SF_vars(RtcReadReturn(cp))

Spec == Init /\ [][Next]_vars /\ Fairness

-----------------------------------------------------------------------------
(* Properties *)

(* rtc_read returns only after an RTC interrupt that came after it reset  *)
(* its terminal's counter: a count left from before the read, or from     *)
(* another terminal's activity, never ends the wait.                      *)
RtcReadFresh ==
  [][\A t \in Terminals : pc[t] = "wait" /\ pc'[t] = "user" => fresh[t]]_vars

(* Every rtc_read that has begun returns, although the timer moves the    *)
(* CPU to other terminals while it waits.                                 *)
RtcReadReturns ==
  \A t \in Terminals : pc[t] = "reset" ~> pc[t] = "user"

(* Every IRQ8 the RTC raises is taken by handle_RTC and the line lowered: *)
(* the masks set at boot let it through both PICs, and each handle_RTC    *)
(* leaves neither PIC's line in service, so the clock keeps ticking.      *)
RtcInterruptServiced == rtc_line ~> ~rtc_line
=============================================================================
