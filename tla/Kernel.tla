------------------------------- MODULE Kernel -------------------------------
(***************************************************************************)
(* Process lifecycle and preemptive scheduler of student-distrib:          *)
(*   process_control.c  PCB table (create_new_pcb, destroy_pcb)            *)
(*   syscalls.c         execute, halt, schedule, deschedule                *)
(*   interrupts.c       timer_handler (round robin over terminal stacks)   *)
(*   terminal.c         terminal_switch (Alt+F1..F3 from the keyboard IRQ) *)
(*                                                                         *)
(* Code state is kept under the names of the C globals.  Two further       *)
(* variables describe the machine rather than a C global:                  *)
(*   cpu   the kernel stack (activity) the CPU is really executing; an     *)
(*         activity is named by the pid whose kernel stack it runs on, and *)
(*         0 names the sentinel's HALTED path that relaunches a shell;     *)
(*   mode  what each activity is doing, and irq the tick values saved by   *)
(*         the terminal_switch wait loops nested on its stack.             *)
(* ctx[t][i] is what timer_handler saved in schedule_esp/ebp/tss[t][i]:    *)
(* None when schedule_ebp[t][i] = 0, else the activity whose stack esp     *)
(* points into, the mode it was in, and whether it is still current (the  *)
(* activity has not run since the save).                                   *)
(***************************************************************************)
EXTENDS Integers, Sequences, FiniteSets, FiniteSetsExt, SequencesExt

CONSTANTS
  NumTerminals,       \* NUM_TERMINALS
  MaxProcesses,       \* MAX_PROCESSES; the tables have MaxProcesses + 1 slots
  InitTerminals,      \* terminals 0 .. InitTerminals-1 already run a shell
  MaxSwitches,        \* bound on Alt+Fn presses that reach terminal_switch
  BackgroundExecute,  \* may execute run while current_process # current_terminal
  PreemptRelaunch,    \* may an interrupt hit halt's path between sti() and execute
  EarlyNewSwitch,     \* may Alt+Fn launch a terminal before the running one was saved
  None                \* model value: an empty saved-context slot

ASSUME /\ NumTerminals \in 1 .. 3
       /\ MaxProcesses \in 1 .. 6
       /\ InitTerminals \in 1 .. NumTerminals
       /\ InitTerminals <= MaxProcesses
       /\ MaxSwitches \in Nat
       /\ BackgroundExecute \in BOOLEAN
       /\ PreemptRelaunch \in BOOLEAN
       /\ EarlyNewSwitch \in BOOLEAN

SENTINEL_PROCESS == 0
Terminals == 0 .. NumTerminals - 1
Pids == 0 .. MaxProcesses
Slots == 0 .. MaxProcesses
Modes == {"free", "user", "blocked", "abandoned", "relaunch"}
Context == [act : Pids, mode : Modes, fresh : BOOLEAN]

VARIABLES
  pid,                  \* control_blocks[i].pid  (i, or -1 when free)
  parent,               \* control_blocks[i].parent
  stack_pos,            \* control_blocks[i].stack_pos: the caller's stack
  num_active_processes,
  current_pid,
  current_terminal,     \* terminal on the screen
  current_process,      \* terminal whose stack timer_handler last scheduled
  terminal_request,
  schedule_tick,
  terminal_running,
  schedule_top,
  schedule_stack,
  ctx,                  \* schedule_esp/ebp/tss, see above
  vid_real,             \* process_tables[VID_IDX] maps the real VIDEO page
  cpu, mode, irq,       \* machine state, see above
  switches              \* Alt+Fn presses so far (bounded by MaxSwitches)

vars == <<pid, parent, stack_pos, num_active_processes, current_pid,
          current_terminal, current_process, terminal_request, schedule_tick,
          terminal_running, schedule_top, schedule_stack, ctx, vid_real,
          cpu, mode, irq, switches>>

LivePids == {p \in 1 .. MaxProcesses : pid[p] = p}
FreePids == {p \in 1 .. MaxProcesses : pid[p] = -1}

(* An activity the timer or the keyboard may interrupt: user code and the  *)
(* busy-wait loops run with IF set; the HALTED path only if PreemptRelaunch. *)
Interruptible(a) == mode[a] = "user" \/ (mode[a] = "relaunch" /\ PreemptRelaunch)

(* An activity that may issue a system call: user code, no wait loop open. *)
UserMode(a) == a # SENTINEL_PROCESS /\ mode[a] = "user" /\ irq[a] = <<>>

(* The activity a runs again: contexts it saved earlier no longer describe it. *)
Resumed(c, a) ==
  [t \in Terminals |-> [i \in Slots |->
      IF c[t][i] # None /\ c[t][i].act = a
      THEN [c[t][i] EXCEPT !.fresh = FALSE] ELSE c[t][i]]]

TypeOK ==
  /\ pid \in [Pids -> Pids \cup {-1}]
  /\ parent \in [Pids -> Pids]
  /\ stack_pos \in [Pids -> Pids]
  /\ num_active_processes \in 0 .. MaxProcesses
  /\ current_pid \in Pids
  /\ current_terminal \in Terminals
  /\ current_process \in Terminals
  /\ terminal_request \in Terminals \cup {-1}
  /\ schedule_tick \in {0, 1}
  /\ terminal_running \in [Terminals -> {0, 1}]
  /\ schedule_top \in [Terminals -> 0 .. MaxProcesses + 1]
  /\ schedule_stack \in [Terminals -> [Slots -> Pids]]
  /\ ctx \in [Terminals -> [Slots -> Context \cup {None}]]
  /\ vid_real \in BOOLEAN
  /\ cpu \in Pids
  /\ mode \in [Pids -> Modes]
  /\ irq \in [Pids -> Seq({0, 1})]
  /\ switches \in 0 .. MaxSwitches

(***************************************************************************)
(* Boot (kernel.c, outside src/): process_control_block_init and           *)
(* first_process_init make pid 0 the sentinel, terminal_open and PIT_init  *)
(* clear the scheduler, and the sentinel executes the first shell.  With   *)
(* InitTerminals > 1 the state is the one reached after Alt+F2/F3 launched *)
(* the other shells and each has since been switched away from once.      *)
(***************************************************************************)
Init ==
  LET k == InitTerminals IN
  /\ pid = [p \in Pids |-> IF p <= k THEN p ELSE -1]
  /\ parent = [p \in Pids |-> SENTINEL_PROCESS]
  /\ stack_pos = [p \in Pids |-> SENTINEL_PROCESS]
  /\ num_active_processes = k
  /\ current_pid = 1
  /\ current_terminal = 0
  /\ current_process = 0
  /\ terminal_request = -1
  /\ schedule_tick = 0
  /\ terminal_running = [t \in Terminals |-> IF t < k THEN 1 ELSE 0]
  /\ schedule_top = [t \in Terminals |-> IF t < k THEN 1 ELSE 0]
  /\ schedule_stack = [t \in Terminals |-> [i \in Slots |->
                          IF i = 0 /\ t < k THEN t + 1 ELSE 0]]
  /\ ctx = [t \in Terminals |-> [i \in Slots |->
              IF i = 0 /\ t < k /\ k > 1
              THEN [act |-> t + 1, mode |-> "user", fresh |-> t # 0]
              ELSE None]]
  /\ vid_real = TRUE
  /\ cpu = 1
  /\ mode = [p \in Pids |-> IF p \in 1 .. k THEN "user" ELSE "free"]
  /\ irq = [p \in Pids |-> <<>>]
  /\ switches = 0

(* create_new_pcb: the lowest free slot 1..MAX_PROCESSES.                  *)
NewPid == Min(FreePids)

create_new_pcb(par) ==
  /\ FreePids # {}
  /\ pid' = [pid EXCEPT ![NewPid] = NewPid]
  /\ parent' = [parent EXCEPT ![NewPid] = par]
  /\ num_active_processes' = num_active_processes + 1

destroy_pcb(p) ==
  /\ pid' = [pid EXCEPT ![p] = -1]
  /\ num_active_processes' = num_active_processes - 1

(* schedule(): push on the stack of current_terminal, the terminal on the  *)
(* screen when execute runs.                                               *)
schedule(p, term) ==
  /\ schedule_top' = [schedule_top EXCEPT ![term] = @ + 1]
  /\ schedule_stack' = [schedule_stack EXCEPT ![term][schedule_top[term]] = p]

(* Mutant: deschedule() popping the terminal on the screen.                *)
deschedule_displayed ==
  /\ schedule_top' = [schedule_top EXCEPT ![current_terminal] = @ - 1]
  /\ schedule_stack' = [schedule_stack EXCEPT
                          ![current_terminal][schedule_top[current_terminal] - 1] = 0]

(* deschedule(): pop the stack of the terminal last SCHEDULED.             *)
deschedule ==
  /\ schedule_top' = [schedule_top EXCEPT ![current_process] = @ - 1]
  /\ schedule_stack' = [schedule_stack EXCEPT
                          ![current_process][schedule_top[current_process] - 1] = 0]

(* Mutant: execute without "current_pid = create_new_pcb(...)".            *)
LaunchKeepPid(caller, callerMode, par, term) ==
  /\ create_new_pcb(par)
  /\ stack_pos' = [stack_pos EXCEPT ![NewPid] = caller]
  /\ current_pid' = par
  /\ vid_real' = TRUE
  /\ terminal_running' = [terminal_running EXCEPT ![term] = 1]
  /\ schedule(NewPid, term)
  /\ cpu' = NewPid
  /\ mode' = [mode EXCEPT ![caller] = callerMode, ![NewPid] = "user"]
  /\ irq' = [irq EXCEPT ![NewPid] = <<>>]

(***************************************************************************)
(* The part of execute after its checks passed: create the PCB with parent *)
(* par (the current_pid of the moment), record the caller's stack, map the *)
(* program and the real video page, mark terminal term (current_terminal)  *)
(* running, schedule() and iret into the child.  The calling activity is   *)
(* left in callerMode.                                                     *)
(* A failed check returns -1 without a change of scheduler state.          *)
(***************************************************************************)
Launch(caller, callerMode, par, term) ==
  /\ create_new_pcb(par)
  /\ stack_pos' = [stack_pos EXCEPT ![NewPid] = caller]
  /\ current_pid' = NewPid
  /\ vid_real' = TRUE
  /\ terminal_running' = [terminal_running EXCEPT ![term] = 1]
  /\ schedule(NewPid, term)
  /\ cpu' = NewPid
  /\ mode' = [mode EXCEPT ![caller] = callerMode, ![NewPid] = "user"]
  /\ irq' = [irq EXCEPT ![NewPid] = <<>>]

(* execute(command) issued by the running user program.                    *)
Execute ==
  /\ UserMode(cpu)
  /\ BackgroundExecute \/ current_process = current_terminal
  /\ num_active_processes < MaxProcesses
  /\ Launch(cpu, "blocked", current_pid, current_terminal)
  /\ UNCHANGED <<current_terminal, current_process, terminal_request,
                 schedule_tick, ctx, switches>>

(***************************************************************************)
(* halt(status), called by the program or by an exception handler that     *)
(* halts (divide error, overflow, bound, opcode, page fault, GPF, stack    *)
(* segment): destroy the PCB of current_pid, make its parent current, jump *)
(* to HALTED on the stack saved in stack_pos, deschedule() and sti().  The *)
(* execute of a sentinel child then relaunches a shell (activity 0); any   *)
(* other execute returns to its caller.  deschedule() of an empty stack    *)
(* writes schedule_stack[t][-1]; the model has no step from such a state.  *)
(* A base shell exits in the background only if BackgroundExecute, since   *)
(* its relaunch is an execute.                                             *)
(***************************************************************************)
Halt ==
  /\ UserMode(cpu)
  /\ schedule_top[current_process] > 0
  /\ \/ parent[current_pid] # SENTINEL_PROCESS
     \/ BackgroundExecute
     \/ current_process = current_terminal
  /\ LET c == current_pid
         par == parent[c]
         back == IF par = SENTINEL_PROCESS THEN SENTINEL_PROCESS ELSE stack_pos[c]
     IN /\ destroy_pcb(c)
        /\ current_pid' = par
        /\ deschedule
        /\ ctx' = Resumed([ctx EXCEPT ![current_process][schedule_top[current_process] - 1]
                                       = None], back)
        /\ cpu' = back
        /\ mode' = [mode EXCEPT ![cpu] = "free",
                                ![back] = IF par = SENTINEL_PROCESS THEN "relaunch"
                                          ELSE "user"]
  /\ UNCHANGED <<parent, stack_pos, current_terminal, current_process,
                 terminal_request, schedule_tick, terminal_running, vid_real,
                 irq, switches>>

(* The HALTED path of a sentinel child: current_pid is SENTINEL_PROCESS,   *)
(* so it calls execute("shell") with the sentinel as parent.               *)
Relaunch ==
  /\ mode[cpu] = "relaunch"
  /\ current_pid = SENTINEL_PROCESS
  /\ num_active_processes < MaxProcesses
  /\ Launch(cpu, "free", SENTINEL_PROCESS, current_terminal)
  /\ UNCHANGED <<current_terminal, current_process, terminal_request,
                 schedule_tick, ctx, switches>>

(***************************************************************************)
(* terminal_switch(num) from the keyboard interrupt: the early returns for *)
(* num = current_terminal and for a full PCB table with num not running    *)
(* change nothing and are left out.                                        *)
(***************************************************************************)
SwitchAllowed(num) ==
  /\ switches < MaxSwitches
  /\ Interruptible(cpu)
  /\ num # current_terminal
  /\ num_active_processes < MaxProcesses \/ terminal_running[num] = 1

(* num already runs: post terminal_request, remember schedule_tick, sti()  *)
(* and spin until timer_handler has toggled it.                            *)
SwitchToRunning(num) ==
  /\ SwitchAllowed(num)
  /\ terminal_running[num] = 1
  /\ switches' = switches + 1
  /\ current_terminal' = num
  /\ terminal_request' = num
  /\ irq' = [irq EXCEPT ![cpu] = Append(@, schedule_tick)]
  /\ UNCHANGED <<pid, parent, stack_pos, num_active_processes, current_pid,
                 current_process, schedule_tick, terminal_running, schedule_top,
                 schedule_stack, ctx, vid_real, cpu, mode>>

(* num runs nothing yet: current_pid := SENTINEL_PROCESS, current_process  *)
(* := num and execute("shell") from inside the interrupt.  That execute    *)
(* never returns, so the interrupted activity is abandoned.  Unless       *)
(* EarlyNewSwitch, the key press comes after timer_handler has saved a     *)
(* context in the top slot of current_process at least once.               *)
SwitchToNew(num) ==
  /\ SwitchAllowed(num)
  /\ terminal_running[num] = 0
  /\ \/ EarlyNewSwitch
     \/ /\ schedule_top[current_process] > 0
        /\ ctx[current_process][schedule_top[current_process] - 1] # None
  /\ switches' = switches + 1
  /\ current_terminal' = num
  /\ current_process' = num
  /\ Launch(cpu, "abandoned", SENTINEL_PROCESS, num)
  /\ UNCHANGED <<terminal_request, schedule_tick, ctx>>

(* The wait loop of terminal_switch sees schedule_tick changed: cli, sti,  *)
(* return SUCCESS, and the interrupt returns to what it interrupted.       *)
SwitchWaitExit ==
  /\ irq[cpu] # <<>>
  /\ Last(irq[cpu]) # schedule_tick
  /\ irq' = [irq EXCEPT ![cpu] = Front(@)]
  /\ UNCHANGED <<pid, parent, stack_pos, num_active_processes, current_pid,
                 current_terminal, current_process, terminal_request,
                 schedule_tick, terminal_running, schedule_top, schedule_stack,
                 ctx, vid_real, cpu, mode, switches>>

(* Mutant: the search starts at current_process instead of the one after. *)
NextProcessFromCurrent(cp) ==
  (cp + Min({k \in 0 .. NumTerminals - 1 : schedule_top[(cp + k) % NumTerminals] # 0}))
    % NumTerminals

(* The round-robin search of timer_handler: the first terminal after cp    *)
(* whose stack is not empty (cp itself last).                              *)
NextProcess(cp) ==
  (cp + Min({k \in 1 .. NumTerminals : schedule_top[(cp + k) % NumTerminals] # 0}))
    % NumTerminals

(* timer_handler's save of the running context into the top slot of cp.   *)
SaveContext(cp) ==
  IF schedule_top[cp] # 0
  THEN [ctx EXCEPT ![cp][schedule_top[cp] - 1] =
          [act |-> cpu, mode |-> mode[cpu], fresh |-> TRUE]]
  ELSE ctx

(* Mutant: the video page chosen by the terminal scheduled before.        *)
VideoIsRealPrevious(next) == current_process = current_terminal

(* timer_handler maps VIDEO when the restored terminal is displayed.       *)
VideoIsReal(next) == next = current_terminal

(* The toggle of schedule_tick at the end of timer_handler.               *)
toggled(tick) == IF tick = 0 THEN 1 ELSE 0

(***************************************************************************)
(* timer_handler: save the running context in the top slot of the stack   *)
(* of current_process, pick the next terminal (the request, else round     *)
(* robin), and if its top slot holds a saved context (schedule_ebp # 0)    *)
(* restore it: current_pid := top pid, the program page and the video page *)
(* (real screen iff it is current_terminal).  Toggle schedule_tick.  When  *)
(* every stack is empty and no request is posted the search loops forever  *)
(* with interrupts off; the model has no step there.                       *)
(***************************************************************************)
Timer ==
  /\ Interruptible(cpu)
  /\ terminal_request # -1 \/ \E t \in Terminals : schedule_top[t] # 0
  /\ LET cp == current_process
         saved == SaveContext(cp)
         next == IF terminal_request = -1 THEN NextProcess(cp) ELSE terminal_request
         top == schedule_top[next] - 1
         c == IF top >= 0 THEN saved[next][top] ELSE None
     IN /\ current_process' = next
        /\ terminal_request' = -1
        /\ schedule_tick' = toggled(schedule_tick)
        /\ current_pid' = IF c = None THEN current_pid ELSE schedule_stack[next][top]
        /\ cpu' = IF c = None THEN cpu ELSE c.act
        /\ mode' = IF c = None THEN mode ELSE [mode EXCEPT ![c.act] = c.mode]
        /\ ctx' = IF c = None THEN saved ELSE Resumed(saved, c.act)
        /\ vid_real' = IF c = None THEN vid_real ELSE VideoIsReal(next)
  /\ UNCHANGED <<pid, parent, stack_pos, num_active_processes, current_terminal,
                 terminal_running, schedule_top, schedule_stack, irq, switches>>

Next ==
  \/ Execute
  \/ Halt
  \/ Relaunch
  \/ \E num \in Terminals : SwitchToRunning(num) \/ SwitchToNew(num)
  \/ SwitchWaitExit
  \/ Timer

(* The PIT fires every 10 ms and is taken whenever interrupts are enabled, *)
(* so a program cannot halt and relaunch (interrupts off) forever ahead of *)
(* it; the HALTED path runs on to execute; a wait loop that is scheduled   *)
(* repeatedly with its condition true observes it (it spins for a whole    *)
(* time slice).                                                            *)
Fairness ==
  /\ SF_vars(Timer)
  /\ WF_vars(Relaunch)
  /\ SF_vars(SwitchWaitExit)

Spec == Init /\ [][Next]_vars /\ Fairness

-----------------------------------------------------------------------------
(* Positions <<t, i>> of the terminal stacks that hold pid p.              *)
StackPositions(p) ==
  {ti \in Terminals \X Slots : ti[2] < schedule_top[ti[1]] /\ schedule_stack[ti[1]][ti[2]] = p}

(***************************************************************************)
(* The per-terminal stacks that schedule() pushes and deschedule() pops    *)
(* describe the process tree of the PCB table: each stack is a chain of    *)
(* live processes from a child of the sentinel upwards, every live process *)
(* sits at exactly one position, and num_active_processes counts them (so  *)
(* execute's MAX_PROCESSES check keeps create_new_pcb from failing).        *)
(***************************************************************************)
StacksMatchTree ==
  /\ \A t \in Terminals :
       /\ schedule_top[t] \in 0 .. MaxProcesses
       /\ \A i \in 0 .. schedule_top[t] - 1 :
            LET p == schedule_stack[t][i] IN
            /\ p \in LivePids
            /\ parent[p] = IF i = 0 THEN SENTINEL_PROCESS ELSE schedule_stack[t][i - 1]
  /\ \A p \in LivePids : Cardinality(StackPositions(p)) = 1
  /\ num_active_processes = Cardinality(LivePids)

(***************************************************************************)
(* Whenever a user program (or a syscall wait loop of it) is running, the  *)
(* kernel's current_pid names that program, and it is the top of the      *)
(* stack of current_process, the terminal timer_handler will save it to.   *)
(***************************************************************************)
RunningProcessKnown ==
  mode[cpu] = "user" =>
    /\ current_pid = cpu
    /\ schedule_top[current_process] > 0
    /\ schedule_stack[current_process][schedule_top[current_process] - 1] = cpu

(***************************************************************************)
(* The scheduler's ordering guarantee: the saved context at the top of     *)
(* every terminal not currently scheduled was written by timer_handler     *)
(* when that terminal's top process last left the CPU, so restoring it     *)
(* resumes that process where it stopped.                                  *)
(***************************************************************************)
SavedContextsCurrent ==
  \A t \in Terminals \ {current_process} :
    schedule_top[t] > 0 =>
      LET c == ctx[t][schedule_top[t] - 1] IN
      /\ c # None
      /\ c.fresh
      /\ c.act = schedule_stack[t][schedule_top[t] - 1]

(***************************************************************************)
(* A running user program writes to the real screen exactly when its       *)
(* terminal is the one displayed: the video page that execute and          *)
(* timer_handler map (VIDEO, else the terminal's backing page) follows the *)
(* terminal of the process.                                                *)
(***************************************************************************)
VideoWindowCorrect ==
  UserMode(cpu) => (vid_real <=> current_process = current_terminal)

(* Whenever the timer may fire, its round-robin search finds a non-empty   *)
(* stack or a posted request, instead of looping with interrupts off.      *)
SchedulerSearchTerminates ==
  Interruptible(cpu) => terminal_request # -1 \/ \E t \in Terminals : schedule_top[t] # 0

(* Every terminal with a process on its stack is scheduled again and again. *)
EveryTerminalServed ==
  \A t \in Terminals : []<>(schedule_top[t] = 0 \/ current_process = t)

(* A terminal_switch wait loop (Alt+Fn to a running terminal) returns.     *)
SwitchReturns ==
  \A a \in Pids : irq[a] # <<>> ~> irq[a] = <<>>

(***************************************************************************)
(* Kernel implements the abstract scheduler of module Scheduler: the       *)
(* scheduled terminal is current_process, the terminals with processes are *)
(* those with a non-empty stack, and the request is terminal_request.  So  *)
(* every timer_handler choice is the request or the round-robin successor *)
(* among non-empty stacks, a request never names an empty terminal, only  *)
(* the new-terminal Alt+Fn moves current_process outside a tick, only the *)
(* scheduled terminal's stack empties (halt of its base shell) and is      *)
(* refilled, and under the timer's fairness no non-empty terminal starves. *)
(***************************************************************************)
Sched == INSTANCE Scheduler WITH
           scheduled <- current_process,
           running <- {t \in Terminals : schedule_top[t] # 0},
           request <- terminal_request

SchedulerRefined == Sched!Spec
====
