-------------------------------- MODULE Clock ---------------------------------
(***************************************************************************)
(* get_current_time of src/src/os/time.c, called by several threads        *)
(* without a lock: the first call asks for the frequency of the counter    *)
(* and notes that it has.                                                  *)
(*                                                                         *)
(* freq and init are plain static variables: in C the threads race on      *)
(* them.  The model is of the build the Makefile makes, by gcc without     *)
(* optimization for Windows: it keeps the two stores and the two loads in  *)
(* the order of the text, and so do the processors it is for (x86).  A     *)
(* compiler or a processor that changed the order would do what the mutant *)
(* does.                                                                   *)
(***************************************************************************)
EXTENDS Naturals

CONSTANT Caller  \* the threads that ask for the time

VARIABLES
  freq,  \* the frequency: 0 until it has been asked for
  init,  \* it has been
  clock  \* where each thread is in get_current_time

clockVars == <<freq, init, clock>>

Frequency == 1

ClockInit ==
  /\ freq = 0 /\ init = FALSE
  /\ clock = [t \in Caller |-> "outside"]

InClock(t, from, to) == clock[t] = from /\ clock' = [clock EXCEPT ![t] = to]

\* The flag is read.
AsksForTime(t) ==
  /\ InClock(t, "outside", IF init THEN "dividing" ELSE "querying")
  /\ UNCHANGED <<freq, init>>

\* Mutant: the flag is set first.
FlagsFirst(t) ==
  \/ /\ InClock(t, "querying", "marking")
     /\ init' = TRUE /\ UNCHANGED freq
  \/ /\ InClock(t, "marking", "dividing")
     /\ freq' = Frequency /\ UNCHANGED init

\* The frequency is queried, then the flag is set.
LearnsFrequency(t) ==
  \/ /\ InClock(t, "querying", "marking")
     /\ freq' = Frequency /\ UNCHANGED init
  \/ /\ InClock(t, "marking", "dividing")
     /\ init' = TRUE /\ UNCHANGED freq

\* The counter is divided by the frequency.
TellsTime(t) ==
  /\ InClock(t, "dividing", "outside")
  /\ UNCHANGED <<freq, init>>

TimeStep(t) == AsksForTime(t) \/ LearnsFrequency(t) \/ TellsTime(t)

-----------------------------------------------------------------------------
\* Whichever thread was the first to ask, and however far it has come: none
\* divides by a frequency that is not known yet.
FrequencyIsKnown == \A t \in Caller : clock[t] = "dividing" => freq # 0
===============================================================================
