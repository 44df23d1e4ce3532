# TLA+ models of student-distrib

student-distrib is a single-CPU x86 kernel with three virtual terminals. Each terminal
hosts a nested stack of user processes. The sources are in `src/student-distrib/`. This
directory holds TLA+ modules that model the kernel's concurrent control: interrupts
preempting kernel and user code. It also holds the TLC configurations that check them.

## 1. The system: parts, state, interactions

| Part | Source | State | Operations |
|---|---|---|---|
| PCB table | `process_control.c` | `control_blocks[7]` (pid, parent, fd_table[8], stack_pos, esp, args), `num_active_processes`, `current_pid` | `process_control_block_init`, `first_process_init`, `create_new_pcb`, `destroy_pcb`, `load_pcb`, `clear_args` |
| Process lifecycle | `syscalls.c` | per-terminal `schedule_stack[3][7]`, `schedule_top[3]`, saved `schedule_esp/ebp/tss`, `terminal_running[3]`, paging tables | `execute`, `halt` (jumps to `HALTED` inside the parent's `execute`), `schedule`, `deschedule`, `getargs`, `vidmap` |
| Scheduler | `interrupts.c` | `current_process` (scheduled terminal), `terminal_request`, `schedule_tick` | `timer_handler` (save top context of `current_process`, pick the request or the next non-empty stack round robin, restore, remap program/video page, toggle tick) |
| Terminal switch | `terminal.c`, `keyboard.c` | `current_terminal` (displayed), video backing pages, cursor | `terminal_switch` from Alt+F1..F3 inside the keyboard interrupt: it either posts a request and spins until the tick toggles, or launches a shell on a new terminal |
| Syscall dispatch, fd tables | `syscalls.c` | fd_table slots 0..7 per PCB | `read`, `write`, `open`, `close` (checks, then the driver's table) |
| File system | `filesystem_driver.c` | read-only image, fd slots | `file_open/close/read`, `directory_open/close/read`, `read_dentry_*`, `read_data` |
| RTC | `rtc_driver.c`, `interrupts.c` | hardware rate (global), `rtc_running[3]`, `rtc_virtual_interupt[3]` | `rtc_open/close/read/write`, `handle_RTC` |
| Terminal line | `terminal.c`, `keyboard.c` | `return_switch[3]`, `read_buffer[3]`, keyboard buffer | `terminal_read` (spins on `return_switch`), `terminal_return` (ENTER), `terminal_write` |
| IDT, PIC, exceptions | `interrupts.c`, `i8259.c`, `exception-handlers.c` | static IDT, IRQ masks | gates, EOI. Seven exception handlers halt the program with status 256; the others spin |

How the parts interact:
- Every IDT gate is an interrupt gate, so a system call runs with interrupts off.
- Interrupts come back on in user code and at every `sti()` of the kernel:
  - the busy-wait loops of `terminal_read` (terminal.c:224), `rtc_read`
    (rtc_driver.c:131) and `terminal_switch` (terminal.c:55);
  - `execute`'s HALTED path (syscalls.c:329) and the end of `terminal_switch`
    (terminal.c:72);
  - `terminal_write`, around `next_line` (terminal.c:184) and at its end after
    `send_eoi(IRQ1)` (terminal.c:194). `keyboard_insert` and `keyboard_backspace` call it
    before they update `bufferIDX` and `bufferSIZE`, so another key or a tick can
    arrive in the middle of a keyboard handler;
  - the ends of `terminal_read` (terminal.c:242), `rtc_open` (rtc_driver.c:89) and
    `rtc_close` (rtc_driver.c:115), just before they return to the caller.
- The timer can switch terminals, and a key can be handled, only at those points.
  Kernel models the waits and the HALTED window; LineDiscipline models the window
  inside the keyboard handlers. The others fall just before a return to user mode,
  or inside output that changes no modelled state.
- `execute` and `halt` are synchronous. `halt` jumps back into the parent's `execute`
  frame on the stack saved in `stack_pos`.
- A child of the sentinel (pid 0) is a terminal's base shell. When it halts, the HALTED
  path executes a new shell.

Hard behaviours:
- the two stack indices: `schedule` pushes on `current_terminal`, `deschedule` pops
  `current_process`;
- a keyboard interrupt that launches a shell and never returns;
- the `sti()` window before a relaunch;
- the `sti()` inside a keyboard handler's echo, before its index update;
- a wait loop that compares a 0/1 toggle;
- fd-slot searches that fall back to fd 0;
- argument copies without a terminator.

## 2. Modules

### Kernel.tla: process lifecycle and scheduler

**Variables that are C globals** (same names): `pid`, `parent`, `stack_pos`,
`num_active_processes`, `current_pid`, `current_terminal`, `current_process`,
`terminal_request`, `schedule_tick`, `terminal_running`, `schedule_top`,
`schedule_stack`.

**Variables that abstract the data:**
- `ctx[t][i]` stands for `schedule_esp/ebp/tss[t][i]`. It is `None` when
  `schedule_ebp` is 0; otherwise it names the activity saved there, its mode, and
  whether the save is still current.
- `vid_real` says whether `process_tables[VID_IDX]` maps the real `VIDEO` page.

**Variables for the machine, which C does not name:**
- `cpu`: the kernel stack the CPU is really running on. An activity is named by the
  pid whose stack it uses; 0 names the sentinel's HALTED relaunch path.
- `mode`: what each activity is doing. The values are `user`, `blocked` in `execute`,
  `abandoned` by a terminal launch, `relaunch` and `free`.
- `irq[a]`: the stack of `schedule_tick` values read by the `terminal_switch` wait
  loops nested on activity `a`.

With these variables the model can state that the kernel's belief (`current_pid`,
stack tops) matches what actually runs.

**Actions:**

| Action | Code |
|---|---|
| `Execute` | the `execute` system call: `num_active_processes` check, `create_new_pcb`, `schedule()`, video mapping, `terminal_running` (helper `Launch`) |
| `Halt` | `halt` and the HALTED path up to `sti()`: `destroy_pcb`, `current_pid := parent`, jump to `stack_pos`, `deschedule()`. Halting exception handlers take the same path |
| `Relaunch` | `execute("shell")` of the HALTED path when `current_pid` is the sentinel |
| `SwitchToRunning(num)` | the two branches of `terminal_switch` |
| `SwitchToNew(num)` | (see above) |
| `SwitchWaitExit` | the wait loop ends |
| `Timer` | `timer_handler`, with helpers `SaveContext`, `NextProcess`, `VideoIsReal`, `toggled` |

Failed checks in `execute` (bad file, table full), and the early returns of
`terminal_switch`, change no scheduler state. They are stuttering steps and are not
modelled.

**Constants:**
- `NumTerminals`, `MaxProcesses` and `InitTerminals` (how many shells run initially).
- `MaxSwitches`: a bound on Alt+Fn presses.
- Three environment switches. Each names a timing that one of the bugs below needs:
  - `BackgroundExecute`: `execute`, or a base shell's exit, runs while another terminal
    is displayed.
  - `PreemptRelaunch`: an interrupt lands in the HALTED path's `sti()` window.
  - `EarlyNewSwitch`: Alt+Fn launches a terminal before the running process was ever
    saved by the timer.

  The passing runs set all three to FALSE. A violation run shows what the first
  two break. `EarlyNewSwitch = TRUE` breaks `StacksMatchTree`: timer_handler finds
  the new terminal's slot unsaved (`schedule_ebp` 0) and restores nothing, so the new
  shell keeps running under terminal 0, and its child's halt pops terminal 0's shell.
  This is recorded as the hazard at `interrupts.c:296`; it has no run of its own,
  because the project keeps at most twelve runs. With `BackgroundExecute` the same trace also breaks `VideoWindowCorrect`
  (`execute` maps the real screen for a background child); only the
  `StacksMatchTree` failure is kept as a run.

**Fairness:**
- `SF(Timer)`. The PIT fires every 10 ms and the interrupt is taken whenever
  interrupts are enabled. Interrupts are enabled infinitely often, but not
  continuously: halt and relaunch run with interrupts off. So weak fairness would
  let a program exit and relaunch forever ahead of the tick.
- `WF(Relaunch)`. The HALTED path simply runs on.
- `SF(SwitchWaitExit)`. A wait loop that gets the CPU while its condition holds
  spins for a whole slice and observes it.

**Properties:**

| Property | Kind | Statement |
|---|---|---|
| `TypeOK` | type | every variable has its type, and every stack index stays in `0 .. MAX_PROCESSES + 1` (a `deschedule` of the wrong terminal drives one below 0) |
| `StacksMatchTree` | invariant | each stack is a parent chain of live processes from a sentinel child; every live process is at exactly one stack position; `num_active_processes` counts them |
| `RunningProcessKnown` | invariant | when a user program runs, `current_pid` names it and it is the top of `current_process`'s stack |
| `SavedContextsCurrent` | invariant, not in a run | the spec's ordering guarantee: the top slot of every terminal that is not scheduled holds a context, saved when that top process last left the CPU. Only a terminal launched by Alt+Fn can break it, and kernel_running launches none, so it would hold there vacuously. With `InitTerminals = 1` and `MaxSwitches = 2` TLC breaks it: execute, a tick, then Alt+F2 launches terminal 1 from inside the keyboard interrupt, and terminal 0's top slot keeps a context its process has run past (terminal.c:70). This configuration is not among the runs below, and the case is listed as a hazard |
| `VideoWindowCorrect` | invariant | a running program maps the real screen iff its terminal is displayed |
| `SchedulerSearchTerminates` | invariant | whenever the timer can fire, its search finds a non-empty stack or a request |
| `SchedulerRefined` | refinement | Kernel implements `Scheduler!Spec` (next section) |
| `EveryTerminalServed` | liveness | every terminal with a process is scheduled infinitely often |
| `SwitchReturns` | liveness | every `terminal_switch` wait loop returns |

### Scheduler.tla: what the scheduler promises

An abstract specification with three variables:
- `scheduled`: the terminal holding the CPU slot;
- `running`: the terminals with processes;
- `request`: a pending Alt+Fn request.

Its actions:
- `Tick` schedules the request, or else `Successor(scheduled)`. The successor is the
  terminal in `running` at the least cyclic `Distance`; this reference is written
  independently of `timer_handler`'s loop. A tick never schedules a terminal without
  processes.
- `Request(t)` may name only a terminal with processes.
- `Launch(t)` starts a terminal without processes and schedules it at once.
- `Exit` empties only the scheduled terminal, and `Restart` refills only that terminal.
- `WF(Tick)`: the timer keeps firing.

Kernel instantiates it as `Sched == INSTANCE Scheduler WITH scheduled <- current_process,
running <- {t : schedule_top[t] # 0}, request <- terminal_request`. It checks
`SchedulerRefined == Sched!Spec` in kernel_running and kernel_boot. Under this mapping:
- `Timer` is `Tick`;
- `SwitchToRunning` is `Request`;
- `SwitchToNew` is `Launch`;
- a `Halt` that empties a stack is `Exit`;
- a `Relaunch` is `Restart`;
- every other step is a stutter.

The refinement is checked in the two passing configurations, where
`BackgroundExecute`, `PreemptRelaunch` and `EarlyNewSwitch` are FALSE. The violation
runs, which set them, are about other properties. Two mutants break the refinement:
- A round-robin search that starts at `current_process` turns a tick into a stutter.
  This breaks `WF(Tick)`.
- A `deschedule` of the displayed terminal empties a terminal other than the scheduled
  one. This breaks the step relation.

### FdTable.tla: fd tables and file system calls

The fd table of every control block (`control_blocks[p].fd_table`), and the calls that
change it. Each handler starts with `cli()` and touches only `current_pid`'s table, so
one terminal's process chain is enough; the interleaving with the scheduler is Kernel's.

- State: `fd_table[p][i]` is a record of the operations table (`stdin`, `stdout`,
  `file`, `dir`, `rtc` or `NULL`) and `flags`; `inode` and `file_position` are data and
  are left out. `pid`, `parent`, `current_pid` and `num_active_processes` are the C
  globals. The ghost `owned[p][i]` says slot i was filled by the process that now has
  pid p.
- `Open(kind)`: `open` switches on the dentry's type (`Kinds`) to `file_open`,
  `directory_open` or `rtc_open`. Their slot searches are `SearchFromZero` (file, rtc:
  a full table yields fd 0, since `open` starts at 0 and the `i == FDT_SIZE` test is
  dead) and `SearchChecked` (directory: a full table fails). `rtc_open` also refuses a
  second rtc fd (`RtcOpen`).
- `Close(fd)`: the range and NULL checks of `close`, then `file_close`,
  `directory_close` or `rtc_close` (`CloseRefused`, `AfterClose`).
- `Read(fd)`: only `directory_read` changes the table; it counts `flags` down to 0.
  `write` changes no table state and is not an action.
- `Execute(kind, ok)`: the `num_active_processes` check; `open`, `read` and `close` of
  the program in the caller's table (`ProgramTable`); then, for a file with the ELF
  magic (`ok`), `create_new_pcb`, which resets slots 2.. only (`ResetTable`).
  `Relaunch` is the sentinel's `execute("shell")` after the last shell halts.
- `Halt`: `destroy_pcb`, back to the parent. `pcb_close` is an empty stub, so the
  table is left as it is.

| Property | Kind | Statement |
|---|---|---|
| `TypeOK` | invariant | types; `create_new_pcb` never fails under `execute`'s check |
| `NoInheritedDescriptor` | invariant | no live process holds in slots 2.. a descriptor an earlier process with its pid opened |
| `FreeIffNull` | invariant | a slot has `flags = -1` exactly when its operations pointer is NULL, despite the directory countdown |
| `ExecuteKeepsCallerFds` | action | `execute` leaves the caller's slots 2.. as they were |
| `StdStreamsIntact` | invariant | every control block keeps stdin at fd 0 and stdout at fd 1 (violated) |

### ProcessArgs.tla: program arguments

`control_blocks[p].args` as a sequence of `ArgsBufferSize` characters, where the C
string ends at the first `NUL`. A command is a program name of `ProgLen` characters and,
when it has arguments, a space and a tail over the model values `Chars`.

- `Execute(tail)`/`Relaunch`: `execute`'s process-count and `EXEC_BUFFER_SIZE` checks,
  then `create_new_pcb`, whose `clear_args` runs while `current_pid` is still the
  caller, then the child's buffer: `clear_args` for no tail, else
  `strncpy(args, tail, strlen(tail))`, which writes no NUL (`CopyTail`).
- `GetArgs(nbytes)`: the successful case of `getargs` (`0 < strlen(args) <= nbytes`);
  it copies, writes a NUL at `buf[strlen]` and calls `clear_args`. Its failures change
  nothing.
- `Halt`: `destroy_pcb`; the buffer is left as it is.
- Ghost: `pending[p]` says p was started with a tail that it has not read yet.
- Three departures from the spec were seen while building the module. They are
  listed as hazards without a run:
  - `create_new_pcb`'s `clear_args` clears the caller's unread arguments.
  - `getargs` with `strlen(args) == nbytes` writes its NUL one byte past `nbytes`.
  - `strncpy` writes no terminator, so a stale longer tail shows through. TLC found
    the trace `execute("ls ab")`, halt without `getargs`, `execute("ls a")` under the
    same pid, after which `getargs` returns `ab`. The property that found it needed a
    ghost of every `getargs` result. It was retired in favour of `file_read_tail`, whose bug loses file data.

| Property | Kind | Statement |
|---|---|---|
| `TypeOK` | invariant | types; `create_new_pcb` never fails under `execute`'s check |
| `ArgsTerminated` | invariant | every buffer holds a NUL, so `strlen` stays inside it |
| `ArgsConsumedOnce` | invariant | a live process that has read its arguments, or was given none, finds the buffer empty |

### FileRead.tla: reading a regular file

A program has opened a file. It calls `read(fd, buf, n)` until the call returns 0.
`read`'s checks pass for an open file, so each call is `file_read`, that is
`read_data(fd, file_position, buf, n)`.
- The file is one inode of `FileLen` bytes, stored in data blocks of `BlockSize` bytes
  (`FILE_SIZE`).
- Byte k of the file is the number k. The inode lists its blocks in reverse order
  (`DataBlocks`), so a byte read from the wrong offset or the wrong block shows.
- `ReadData` is `read_data`'s early returns: an empty file, and a position past the
  end. `CopyLoop` is its copy loop, a recursive operator with the code's tests in
  order:
  1. the requested length is reached;
  2. `i == num` (it copies one more byte);
  3. `file_position + i >= num` returns 0, with file_position unchanged;
  4. otherwise it copies the byte and moves to the next data block at a multiple of
     `FILE_SIZE`.
- `Read(n)` keeps the bytes the call reports and stops at a return of 0. Ghosts: `got`
  (bytes received) and `done`.

| Property | Kind | Statement |
|---|---|---|
| `ReadsWholeFile` | invariant | a program that read until 0 has received the whole file in order (violated) |

The module has only the violation run, where the program stops by design
(`CHECK_DEADLOCK FALSE`). Its first read crosses a block boundary and delivers the
right bytes. The second read reaches the end inside the loop and returns 0.

### LineDiscipline.tla: keyboard line editor and terminal_read

Per terminal, the keyboard buffer (`buffer`, `bufferIDX`, `bufferSIZE` in `keyboard.c`,
in their C layout `0 .. MAX_BUFFER_SIZE-1`), the history ring (`history`,
`historyIDX`, `historyBASE`, `historySIZE`), and the `read_buffer` and `return_switch`
of `terminal.c`. Keys act on `current_terminal`; a read belongs to `current_process`.

- One action per key `handle_keyboard_input` acts on, with its early returns:
  `Insert(c)` (`keyboard_insert` behind the full-line check), `Backspace`,
  `LeftArrow`, `RightArrow`, `CtrlL`, `UpHistory`/`DownHistory` (with
  `copy_to_history` and the reload of the buffer), `Enter` and `Display` (Alt+Fn,
  which the code decodes only after the full-line check).
- `Enter` is the whole ENTER branch: `copy_to_history` and
  `increment_history_indices` for a non-empty line, the NL at `buffer[SIZE]`,
  `terminal_return` (`keyboard_read` into `read_buffer[current_terminal]` and
  `set_return_switch(0)` when that switch is on), then `clear_keyboard_buffer`.
- `keyboard_insert` and `keyboard_backspace` are two steps each, split where
  `terminal_write` sends `send_eoi(IRQ1)` and executes `sti()`:
  - `Insert(c)` and `Backspace` shift the buffer and store or remove the character,
    then push `"insert"` or `"backspace"` on `pending[cp]`, the kernel stack of the
    running process;
  - `WriteReturn` is the innermost pending handler returning from `terminal_write`. It
    moves `bufferIDX` and `bufferSIZE` of `current_terminal` as it is at that moment,
    which the C code reads again.
  - `WindowIrqs` says what may arrive in the window. `"key"` lets every key action run
    on top of a pending handler (`KeyAllowed`), up to `MaxNest` nested handlers.
    `"tick"` lets `Schedule` move the CPU to another process, whose handler then
    waits until that process runs again. A process inside a handler does not read.
  - up/down_history also end with `terminal_write`, but they change nothing after it,
    so they stay one step.
- `ReadStart(n)`/`ReadReturn` are `terminal_read` before and after its wait:
  the switch of `current_process` goes on; after it is seen off, `read_buffer[cip]
  [nbytes-1] = NUL`, the scan for NL and `strncpy`. `Schedule` is a timer tick.
- Kernel owns the processes; here each terminal keeps its processes, so the history
  of `displayed_pid` is kept per terminal and `execute`'s buffer clearing is left out.
- Ghost: `released[t]` is the line whose ENTER on terminal t released its reader;
  `enters` counts ENTER presses up to the bound `MaxEnters`.

| Property | Kind | Statement |
|---|---|---|
| `TypeOK` | invariant | types; history indices stay inside the ring |
| `LineWellFormed` | invariant | whenever no keyboard handler is inside `terminal_write`, each keyboard buffer is `bufferSIZE` characters, at most `MAX_CHARACTERS`, then NULs, with the cursor inside |
| `HistoryBrowsesEntries` | invariant | every history slot browsing reaches, other than the base, holds an entered line |
| `ReadDeliversOwnLine` | action | a `terminal_read` whose count fits its buffer returns the line whose ENTER on its own terminal woke it, ending in NL |

The count `terminal_read` returns is not bounded by `nbytes`: a line of `nbytes-1` or
more characters loses its NL to the terminator and the scan leaves the row. This is
listed as a hazard; `ReadDeliversOwnLine` judges only counts inside the buffer.

### Rtc.tla: the real-time clock

One RTC chip and, per terminal, `rtc_running[t]`, the counter `rtc_virtual_interupt[t]`,
whether the process on t holds an rtc descriptor, and where it is in `rtc_read`
(`pc[t]`: user, after `sti()`, waiting). `current_process` is the scheduled terminal.

- `RtcOpen`, `RtcClose`, `RtcWrite(f)`: `rtc_open` (second open refused; rate 15,
  2 Hz), `rtc_close`, `rtc_write` (the rate loop, then `rtc_running`, the counter reset
  and the rate register). A failing `rtc_write` changes nothing and is not an action.
- `rtc_read` is three steps: `RtcReadBegin` (`cip = current_process; sti()`),
  `RtcReadReset` (`rtc_virtual_interupt[cip] = 0`) and `RtcReadReturn` (the wait
  sees a count, resets it and returns). A process moves only while its terminal is
  scheduled.
- `HandleRTC` increments every terminal's counter. The code only compares a counter
  with 1 and resets it, so counts are capped at `CounterCap` without changing any
  guard. `Tick` is `timer_handler`'s round robin over running terminals.
- `RateOf` is the `rtc_write` loop as the recursive operator `RateLoop`.
- Ghost: `fresh[t]` says an RTC interrupt came while t's read was waiting.
- The PIC path of IRQ8 (`i8259.c`):
  - `imr` holds the masks `initialize_IDT` writes (0xFD and 0xFF), opened by the
    boot-time `enable_irq` calls of `PIT_init`, `keyboard_init` and `RTC_init`
    (`EnableIrq`, with `irq_num - 8` on the slave). Nothing masks a line again.
  - `isr` holds the two in-service registers, and `irr` the slave's latched request.
  - `rtc_line` is the RTC's IRQ8 output. It stays up until register C is read.
  - `RtcPeriod` raises the line again once it is down.
  - `HandleRTC` is taken only if slave line 0 and master line 2 are unmasked and no
    line at or above them is in service. It puts both lines in service, increments
    the counters, applies `send_eoi(IRQ8)` (`SendEoi`: specific EOIs for master line 2
    and slave line 0) and reads register C (`ReadRegC`).
  - The timer's and keyboard's own EOIs are sent inside atomic handlers, so they are
    left out.
- Fairness:
  - weak on `Tick`, `RtcPeriod` and `HandleRTC`, because the interrupts are periodic
    and interrupts are on in user mode and in `rtc_read`;
  - strong on each terminal's read steps, which are enabled only while the terminal
    is scheduled.

| Property | Kind | Statement |
|---|---|---|
| `TypeOK` | invariant | types; the scheduled terminal is a terminal |
| `RtcReadFresh` | action | a read returns only after an interrupt that came after it reset its counter |
| `RtcReadReturns` | temporal | every read that has begun returns |
| `RtcInterruptServiced` | temporal | every IRQ8 the RTC raises is taken and its line lowered: the boot masks let it through both PICs and `handle_RTC` leaves no line in service. A `send_eoi` that omits the master's cascade EOI breaks it |

No property checks `RateLoop` against the chip. A reference written from the same loop
would only repeat it. On the MC146818, rates 1 and 2 run at 256 and 128 Hz, not at the
32768 and 16384 Hz that `rtc_write` accepts for them. That is a hardware fact outside
the program, recorded as a hazard.

The rate register is global, so one terminal's `rtc_open` or `rtc_write` changes the
rate every other terminal's read waits at. `rtc_running`, which stores each terminal's
frequency, is never read. The spec promises per-terminal counters, not per-terminal
rates, so this is a hazard with a note rather than a property.

### Exceptions.tla: the IDT and the exception handlers

Sources: `initialize_IDT` and `create_idt_entry` (interrupts.c), the 32 handlers of
exception-handlers.c, and `do_call`, `halt` and `execute`'s HALTED path (syscalls.c).

- `idt` is the table `initialize_IDT` builds, vector to handler and gate.
  - `HandlerNames` lists the handler of each of vectors 0..31, reserved ones included.
  - `CreateIdtEntry` gives the gate's privilege and its type bits. They read 0xE, an
    interrupt gate.
  - The exceptions are at `DPL_KERNEL`. The timer, keyboard, RTC and system-call
    vectors are at `DPL_USER`.
- `HaltingHandlers` are the seven handlers that end with `do_call(SYS_HALT, 256, 0, 0)`.
  The other fifteen loop in `while(1){}`.
- State: `procs` is one terminal's chain of nested executes, outermost first. Each
  entry is `"blocked"` in execute, `"user"`, or `"spin"` in a looping handler.
  `returned` is the `execute_return` the last parent got. `killed` is a ghost: the
  child it reports on was ended by an exception.
- Actions:
  - `Execute`;
  - `HaltCall(s)`, the program's own `halt`;
  - `Fault(v)`, the CPU raising vector v;
  - `SoftwareInt(n)`, the program's `int n`. A kernel-privilege gate turns it into a
    general protection fault, so `int $14` from a program ends in
    `exception_general_protection_fault`.
- `Dispatch(v)` runs v's handler. A halting one goes through `DoCall` to `Halt`: the
  parent resumes and gets `HaltValue(256)`, since `halt` takes a `uint8_t`. Any other
  handler leaves the program spinning.
- `ExceptionStatusReported`: a parent whose child was killed by an exception gets 256
  from execute, as the spec's `halt` promises. `MCExceptions.cfg` checks it alone, and
  TLC breaks it in three steps: the parent gets 0. This configuration is not among the
  runs in section 3. The case is recorded as a hazard at exception-handlers.c:18.
- `MCExceptions.cfg`: `MaxDepth = 2` (a shell and its child), statuses {0, 1},
  software interrupts {0, 14}. It has `CHECK_DEADLOCK FALSE` because a looping
  handler with IF clear really stops the machine.

### Planned work (later sittings, in this order)

1. A run for the `terminal_read` count overrun, and `execute`'s clearing of the
   displayed terminal's keyboard buffer composed with LineDiscipline.

## 3. Runs

| Run | Config | Expect | What it shows |
|---|---|---|---|
| kernel_running | `MCKernel.cfg` | pass | See below |
| kernel_boot | `MCKernelBoot.cfg` | pass | See below |
| kernel_background_stack | `MCKernelBackground.cfg` | violation of `StacksMatchTree` | After a tick to terminal 1, an execute while terminal 0 is displayed pushes the child on terminal 0's stack |
| kernel_relaunch_window | `MCKernelRelaunch.cfg` | violation of `SchedulerSearchTerminates` | The only shell exits. In the `sti()` window every stack is empty, and a tick would spin with interrupts off |
| kernel_two_terminals | `MCKernelTwo.cfg` | violation of `SwitchReturns` | See below |
| fdtable | `MCFdTable.cfg` | pass | See below |
| fdtable_std_streams | `MCFdTableStd.cfg` | violation of `StdStreamsIntact` | The shell opens two files, filling a four-slot table, then runs a program: `execute`'s `open` of the program writes over fd 0 and `close(0)` is refused |
| process_args | `MCProcessArgs.cfg` | pass | See below |
| line_discipline | `MCLineDiscipline.cfg` | pass | See below |
| rtc | `MCRtc.cfg` | pass | See below |
| line_window | `MCLineWindow.cfg` | violation of `LineWellFormed` | See below |
| file_read_tail | `MCFileRead.cfg` | violation of `ReadsWholeFile` | A five-byte file is read three bytes at a time. The first read returns bytes 0..2. The second copies bytes 3 and 4, then returns 0, so the program stops without them |

**kernel_running** (all three shells running, 44,502 states).
- Actions: execute up to the table limit, exits and relaunches, three Alt+Fn presses
  between running terminals with nesting, and ticks.
- Every invariant holds, every terminal is served, and every switch wait returns.
  The kernel implements the abstract `Scheduler`.
  With three running terminals, the waiting process is resumed after an odd number
  of ticks.

**kernel_boot** (from one shell, 143,930 states).
- Alt+Fn launches terminals 1 and 2 after the first tick.
- The process tree, `current_pid` and the video page stay consistent, and every
  terminal is served. Launches included, the kernel implements the abstract `Scheduler`.

**kernel_two_terminals.** This is a lasso trace. The process interrupted on terminal 0
waits for the tick to change. With two running terminals it is resumed every second
tick, so it always sees the same parity and never returns.

**fdtable** (`MaxProcesses = 2`, `FdtSize = 4`, `DirEntries = 1`; 74,400 states).
- Actions: every kind of open, close and read of fds 0..4, execute of every kind of
  name with and without the magic, halt, and the sentinel's relaunch.
- `FdtSize = 4` keeps the code's loops (they depend on `FDT_SIZE` only) and lets two
  opens fill slots 2..3, so the full-table cases happen. `DirEntries = 1` lets one read
  exhaust a directory. Two processes let a pid be freed with files open and reused.

**process_args** (`MaxProcesses = 3`, `ArgsBufferSize = 3`, `ExecBufferSize = 6`,
`ProgLen = 2`, two characters, `nbytes` 0..3; 205 states).
- The sizes keep the code's relation: the longest tail `execute` accepts
  (`EXEC_BUFFER_SIZE - ProgLen - 2`, 125 in the code, 2 here) is shorter than the buffer
  (1024 in the code, 3 here). Tails one longer than the buffer are offered too, and
  the length check must refuse them.
- Three processes let a child with arguments start a grandchild. Two-character tails
  let a longer stale tail outlive a shorter new one, which `ArgsConsumedOnce` must
  tolerate only in a process that has not yet read its arguments.

**line_discipline** (`NumTerminals = 2`, `MaxBufferSize = 3`, `NumHistory = 2`,
`MaxEnters = 2`, one character, `WindowIrqs = {}`, `MaxNest = 1`; 9,337,104 states,
about a minute and a half).
- No interrupt arrives while a keyboard handler echoes. The run checks the line editor
  on that condition. line_window shows what happens without it.
- Two terminals let the displayed terminal differ from the scheduled one, which is
  where `terminal_return` and `terminal_read` disagree on whose buffer they use.
- A three-byte buffer holds two characters, so insertion in the middle, the full-line
  check and a line that overruns a short read all happen. `nbytes` ranges over 1..3.
- Two history slots and two ENTERs fill the ring and wrap `historyBASE`, so both early
  returns of `up_history` and `down_history` are reached. `MaxEnters` is the only cap:
  without it the two per-terminal rings multiply beyond reach.

**line_window** (`WindowIrqs = {"key", "tick"}`, `MaxNest = 2`, otherwise as
line_discipline). This is a three-step trace:
- a key's `keyboard_insert` stores `a` and echoes it;
- in the echo's window, Ctrl+L clears the line;
- the first handler returns and sets `bufferIDX` and `bufferSIZE` to 1 over an empty
  buffer.
Two nested inserts, or a history recall in the window, push `bufferSIZE` past
`MAX_CHARACTERS` instead. After that, the `== MAX_CHARACTERS` test never refuses a key,
and inserts write past the 128-byte row.

**rtc** (`NumTerminals = 2`, `BootRate = 6`, frequencies {2, 1000, 1024, 8192, 32768},
`CounterCap = 2`; 60,744 states).
- Two terminals let a read wait while the other terminal runs, opens and programs
  the RTC.
- The frequencies are a failing one, both ends of the loop (2 and 32768 Hz), and the
  firmware's 1024 Hz.
- 8192 Hz is a rate in the middle of the loop.
- The RTC interrupt, its EOIs and the register C read happen between every pair of
  read steps, so the liveness properties see the PIC state after every interrupt.

**Bounds:**
- `MaxProcesses = 4` allows a two-deep nesting on one terminal beside the other shells,
  and a full table.
- `MaxSwitches = 3` allows a nested switch and switches in both directions.
- Three terminals are the code's `NUM_TERMINALS`. The two-terminal run is the smallest
  scenario that exposes the parity bug.
- The Kernel, FdTable and ProcessArgs passing runs finish in under 30 s each; line_discipline takes about a minute and a half.

## 4. What is not modelled, and why

- Scancode translation (a key is a character or an action), VGA output and the cursor
  are data transformations or I/O. They involve no concurrency.
- The cursor itself is not modelled, and its one real hazard is recorded without a
  property. `screen_x`/`screen_y`, `putc` and `next_line` are in `lib.c`, which is not
  part of the repository. `timer_handler` remaps `video_mem` to a background terminal
  (interrupts.c:307) but keeps a single global cursor. `terminal_write` opens an
  interrupt window around `next_line` (terminal.c:185). So output can continue at
  another terminal's cursor position.
- The PIC's initialisation words (`i8259_init`) are not modelled, and `disable_irq` is
  never called. Only the masks and the in-service bits on IRQ8's path are in Rtc.
- Page-table bit layouts, and the file system image layout (`read_dentry_*`, the dentry
  walk of `directory_read`). FdTable keeps the fd-slot bookkeeping, and FileRead keeps
  `read_data`'s block walk over one file.
- The assembly linkage (`system_call`, the interrupt wrappers that set `last_esp`, and
  `kernel.c`) is not in `src/`:
  - the model assumes user code runs with interrupts enabled (`UserMode`). The
    `iret` of `execute` pops the EFLAGS that `pushf` saved (syscalls.c:305), inside a
    system call entered through an interrupt gate, so IF is clear there. User code runs
    with IF set only if the `system_call` linkage sets it, and that code is not in
    `src/`;
  - boot is represented by `Init`.
- The fifteen exception handlers that loop for ever are deliberate placeholders (spec
  §9). Exceptions models such a loop as a state with no further step. No property
  asks for progress past it, because the spec sanctions it. It is recorded as a hazard:
  the interrupt gate has cleared IF, so the whole machine stops, not only the program.
