----------------------------- MODULE JobCounter -----------------------------
(***************************************************************************)
(* The countdown of src/src/parallel/job_counter.c, on which one thread    *)
(* waits for the jobs it has handed out.  All of job_counter_finish_one,   *)
(* its signal included, happens under the counter's mutex and is one step. *)
(***************************************************************************)
EXTENDS Integers

VARIABLES
  count,    \* counter->count
  sleeping  \* the waiter is asleep in job_counter_wait

counterVars == <<count, sleeping>>

CounterTypeOK == count \in Int /\ sleeping \in BOOLEAN

CounterInit == count = 0 /\ sleeping = FALSE

\* Mutant: the counter is started when the first job is already counted off.
BeginLow(n) == n > 0 /\ count' = n - 1 /\ sleeping' = FALSE

\* job_counter_init and job_counter_begin, called for n > 0 jobs.
Begin(n) == n > 0 /\ count' = n /\ sleeping' = FALSE

\* Mutant: the last job forgets to wake the waiter.
FinishSilently ==
  /\ count > 0
  /\ count' = count - 1
  /\ UNCHANGED sleeping

\* job_counter_finish_one, whose assertion count > 0 must hold.
FinishOne ==
  /\ count > 0
  /\ count' = count - 1
  /\ sleeping' = (sleeping /\ count' > 0)

\* job_counter_wait: fall asleep, wake for no reason, or be done waiting.
WaitSleeps ==
  /\ ~sleeping /\ count > 0
  /\ sleeping' = TRUE
  /\ UNCHANGED count

WaitWakes ==
  /\ sleeping
  /\ sleeping' = FALSE
  /\ UNCHANGED count

\* Mutant: a thread that has been woken does not test the count again.
WaitEndsEarly ==
  /\ ~sleeping
  /\ UNCHANGED counterVars

\* job_counter_destroy comes next; it sets the count to 0, which it is.
WaitEnds ==
  /\ ~sleeping /\ count <= 0
  /\ UNCHANGED counterVars
=============================================================================
