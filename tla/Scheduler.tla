------------------------------ MODULE Scheduler -------------------------------
(***************************************************************************)
(* What the timer-driven scheduler of student-distrib promises, with the   *)
(* processes, contexts and page tables left out: which terminal is         *)
(* scheduled, which terminals have processes, and a pending Alt+Fn         *)
(* request.  Kernel implements it (Kernel!SchedulerRefined):               *)
(*   - a tick schedules the requested terminal, else the next terminal     *)
(*     round robin that has processes, and never one without;              *)
(*   - a request names a terminal that has processes;                      *)
(*   - only a newly launched terminal is scheduled other than by a tick;   *)
(*   - only the scheduled terminal loses its last process, and it alone    *)
(*     gets one back (the relaunched shell).                               *)
(***************************************************************************)
EXTENDS Integers

CONSTANT NumTerminals

Terminals == 0 .. NumTerminals - 1
NoRequest == -1

VARIABLES
  scheduled,   \* the terminal whose process holds the CPU slot
  running,     \* the terminals that have at least one process
  request      \* a terminal an Alt+Fn asked the next tick for, or NoRequest

vars == <<scheduled, running, request>>

TypeOK ==
  /\ scheduled \in Terminals
  /\ running \subseteq Terminals
  /\ request \in Terminals \cup {NoRequest}

Init ==
  /\ scheduled = 0
  /\ running \subseteq Terminals /\ 0 \in running
  /\ request = NoRequest

(* How many steps after s, going round the terminals, t comes; s itself   *)
(* comes last, after NumTerminals steps.                                  *)
Distance(s, t) == IF t = s THEN NumTerminals ELSE (t - s + NumTerminals) % NumTerminals

(* The terminal with processes that round robin reaches first after s.   *)
Successor(s) == CHOOSE t \in running : \A u \in running : Distance(s, t) <= Distance(s, u)

(* A timer tick. *)
Tick ==
  /\ request # NoRequest \/ running # {}
  /\ scheduled' = IF request = NoRequest THEN Successor(scheduled) ELSE request
  /\ scheduled' \in running
  /\ request' = NoRequest
  /\ UNCHANGED running

(* Alt+Fn to a terminal that has processes posts a request. *)
Request(t) ==
  /\ t \in running
  /\ request' = t
  /\ UNCHANGED <<scheduled, running>>

(* Alt+Fn to a terminal without processes starts its shell and schedules *)
(* it at once.                                                            *)
Launch(t) ==
  /\ t \notin running
  /\ running' = running \cup {t}
  /\ scheduled' = t
  /\ UNCHANGED request

(* The last process of the scheduled terminal halts. *)
Exit ==
  /\ scheduled \in running
  /\ running' = running \ {scheduled}
  /\ UNCHANGED <<scheduled, request>>

(* The scheduled terminal, left without processes, gets its shell back. *)
Restart ==
  /\ scheduled \notin running
  /\ running' = running \cup {scheduled}
  /\ UNCHANGED <<scheduled, request>>

Next ==
  \/ Tick
  \/ Exit
  \/ Restart
  \/ \E t \in Terminals : Request(t) \/ Launch(t)

(* The timer keeps firing: a terminal with processes is never left       *)
(* unscheduled for ever.                                                 *)
Spec == Init /\ [][Next]_vars /\ WF_vars(Tick)
==============================================================================
