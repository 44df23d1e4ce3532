----------------------------- MODULE Exceptions -----------------------------
(***************************************************************************)
(* CPU exceptions in student-distrib, from the fault to the value the      *)
(* parent's execute returns:                                               *)
(*   interrupts.c          initialize_IDT, create_idt_entry                *)
(*   exception-handlers.c  the 32 exception handlers                       *)
(*   syscalls.c            do_call, halt, execute's HALTED path            *)
(* One terminal's chain of nested executes is a sequence: every program    *)
(* but the last is blocked in execute, and the last runs in user mode or   *)
(* is stuck in a handler that loops for ever.  The scheduler, the PCBs and *)
(* the fd tables are in Kernel and FdTable; halt's effect on them is left  *)
(* out here.                                                               *)
(***************************************************************************)
EXTENDS Integers, Sequences

CONSTANTS
  MaxDepth,   \* bound on nested executes (MAX_PROCESSES bounds it in the code)
  Statuses,   \* the statuses a program passes to halt
  SoftInts    \* the vectors a program raises with an int instruction

ASSUME /\ MaxDepth \in Nat \ {0}
       /\ Statuses \subseteq 0 .. 255
       /\ SoftInts \subseteq 0 .. 31

DPL_KERNEL == 0
DPL_USER == 3
CPL_USER == 3               \* user programs run in ring 3 (USER_CS)
GP == 13                    \* general protection fault
EXCEPTION_STATUS == 256     \* the status the halting handlers pass
NoReturn == -1              \* no execute has returned yet

(* The handler initialize_IDT installs for exception vector v. *)
HandlerNames ==
  <<"div_zero", "debug", "nonmaskable_interrupt", "breakpoint", "overflow",
    "bound_range_exceeded", "invalid_opcode", "device_not_available",
    "double_fault", "coprocessor_segment_overrun", "invalid_TSS",
    "segment_not_present", "stack_segment_fault", "general_protection_fault",
    "page_fault", "reserved", "x87_floating_point", "alignment_check",
    "machine_check", "SIMD_floating_point", "virtualization",
    "reserved", "reserved", "reserved", "reserved", "reserved", "reserved",
    "reserved", "reserved", "reserved", "security", "reserved">>

(* create_idt_entry: the type field of the gate is size, reserved1,       *)
(* reserved2, reserved3 read as bits 3..0, so 1,1,1,0 is 0xE, a 32-bit    *)
(* interrupt gate, which clears IF on entry.                              *)
CreateIdtEntry(dpl) ==
  [dpl |-> dpl, present |-> 1, type |-> 1 * 8 + 1 * 4 + 1 * 2 + 0]

(* initialize_IDT: the exceptions at kernel privilege, the timer,         *)
(* keyboard and RTC interrupts and the system call at user privilege.     *)
idt ==
  [v \in (0 .. 31) \cup {\h20, \h21, \h28, \h80} |->
     IF v < 32
     THEN [gate |-> CreateIdtEntry(DPL_KERNEL), handler |-> HandlerNames[v + 1]]
     ELSE [gate |-> CreateIdtEntry(DPL_USER), handler |-> "device_or_system_call"]]

(* The handlers that end with do_call(SYS_HALT, 256, 0, 0); every other   *)
(* handler prints and then loops in while(1){}.                           *)
HaltingHandlers ==
  {"div_zero", "overflow", "bound_range_exceeded", "invalid_opcode",
   "page_fault", "general_protection_fault", "stack_segment_fault"}

VARIABLES
  procs,      \* the terminal's programs, outermost first: "blocked" in
              \* execute, "user", or "spin" (in a handler's while(1){})
  returned,   \* execute_return as the caller of the last execute got it
  killed      \* ghost: that execute's child was ended by an exception

vars == <<procs, returned, killed>>

TypeOK ==
  /\ procs \in Seq({"blocked", "user", "spin"})
  /\ Len(procs) \in 1 .. MaxDepth
  /\ returned \in {NoReturn} \cup 0 .. 255
  /\ killed \in BOOLEAN

(* The base shell runs. *)
Init ==
  /\ procs = <<"user">>
  /\ returned = NoReturn
  /\ killed = FALSE

Running == procs[Len(procs)] = "user"

(* execute(command) succeeds: the caller blocks in it and the child runs. *)
Execute ==
  /\ Running
  /\ Len(procs) < MaxDepth
  /\ procs' = Append([procs EXCEPT ![Len(procs)] = "blocked"], "user")
  /\ returned' = NoReturn
  /\ killed' = FALSE

(* halt(uint8_t status) keeps the low byte, and the movb into a zeroed    *)
(* eax hands that byte to execute as execute_return.                      *)
HaltValue(status) == status % 256

(***************************************************************************)
(* halt(status) by the running program (exc FALSE) or by a handler (exc    *)
(* TRUE), then the HALTED path of the parent's execute: it returns         *)
(* execute_return to the parent, or, when the parent is the sentinel,      *)
(* executes a new shell.                                                   *)
(***************************************************************************)
Halt(status, exc) ==
  IF Len(procs) = 1
  THEN /\ procs' = <<"user">>
       /\ returned' = NoReturn
       /\ killed' = FALSE
  ELSE /\ procs' = [SubSeq(procs, 1, Len(procs) - 1) EXCEPT ![Len(procs) - 1] = "user"]
       /\ returned' = HaltValue(status)
       /\ killed' = exc

(* do_call(call, arg0, ...): int $0x80 from the handler, in ring 0, goes  *)
(* through the user-privilege system call gate to halt(arg0).             *)
DoCall(arg0) == Halt(arg0, TRUE)

(* The handler of vector v runs through its interrupt gate: a halting     *)
(* handler calls do_call(SYS_HALT, 256, 0, 0); any other loops for ever   *)
(* with IF clear.                                                         *)
Dispatch(v) ==
  IF idt[v].handler \in HaltingHandlers
  THEN DoCall(EXCEPTION_STATUS)
  ELSE /\ procs' = [procs EXCEPT ![Len(procs)] = "spin"]
       /\ UNCHANGED <<returned, killed>>

(* The program calls halt(status). *)
HaltCall(status) ==
  /\ Running
  /\ Halt(status, FALSE)

(* The CPU raises exception v while the program runs. *)
Fault(v) ==
  /\ Running
  /\ Dispatch(v)

(* The program executes int n: a gate of higher privilege than the        *)
(* program's raises a general protection fault instead.                   *)
SoftwareInt(n) ==
  /\ Running
  /\ Dispatch(IF idt[n].gate.dpl < CPL_USER THEN GP ELSE n)

Next ==
  \/ Execute
  \/ \E s \in Statuses : HaltCall(s)
  \/ \E v \in 0 .. 31 : Fault(v)
  \/ \E n \in SoftInts : SoftwareInt(n)

Spec == Init /\ [][Next]_vars

-----------------------------------------------------------------------------
(* Properties *)

(* A parent whose child was ended by an exception handler gets 256 from  *)
(* execute, the out-of-band status that tells "killed by an exception"    *)
(* apart from every status a program can pass to halt (spec: halt).  The  *)
(* handlers pass 256 to halt, whose parameter is a uint8_t.               *)
ExceptionStatusReported == killed => returned = EXCEPTION_STATUS
=============================================================================
