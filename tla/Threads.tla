------------------------------- MODULE Threads --------------------------------
(***************************************************************************)
(* How a thread comes to run its function (src/src/os/thread.c).  The      *)
(* creator puts function and data into a block of memory, and it is the    *)
(* new thread that frees the block, unless there is no new thread.  The    *)
(* creator does not wait: the thread may run before create_thread returns. *)
(***************************************************************************)
EXTENDS Naturals

CONSTANT Thread  \* the threads somebody wants: those of the pool

VARIABLES
  thread,  \* where each of them is
  arg      \* its ThreadArg: "none", "owned", "freed", or "damaged" by misuse

threadVars == <<thread, arg>>

ThreadsInit ==
  /\ thread = [t \in Thread |-> "wanted"]
  /\ arg = [t \in Thread |-> "none"]

Becomes(t, from, to) == thread[t] = from /\ thread' = [thread EXCEPT ![t] = to]

\* A block that is read or freed has to be there.
Uses(t, after) ==
  arg' = [arg EXCEPT ![t] = IF arg[t] = "owned" THEN after ELSE "damaged"]

\* create_thread: the block is filled ...
FillsArg(t) ==
  /\ Becomes(t, "wanted", "creating")
  /\ arg' = [arg EXCEPT ![t] = "owned"]

\* Mutant: the creator frees the block it has handed over.
CreatorFrees(t) == Becomes(t, "creating", "starting") /\ Uses(t, "freed")

\* ... and handed to CreateThread, which may fail.
ThreadIsCreated(t) == Becomes(t, "creating", "starting") /\ UNCHANGED arg

CreationFails(t) == Becomes(t, "creating", "missing") /\ Uses(t, "freed")

\* win32_thread copies the block ...
CopiesArg(t) == Becomes(t, "starting", "copied") /\ Uses(t, "owned")

\* ... frees it and calls the function.
FreesArg(t) == Becomes(t, "copied", "running") /\ Uses(t, "freed")

ThreadStarts(t) ==
  \/ FillsArg(t) \/ ThreadIsCreated(t) \/ CreationFails(t)
  \/ CopiesArg(t) \/ FreesArg(t)

-----------------------------------------------------------------------------
\* Nobody reads or frees a block that is not there, and no block is left behind
\* by a thread that runs or by one that could not be created.
ArgsAreFreedOnce ==
  \A t \in Thread :
    /\ arg[t] # "damaged"
    /\ thread[t] \in {"running", "missing"} => arg[t] = "freed"
===============================================================================
