-------------------------------- MODULE Baton --------------------------------
(***************************************************************************)
(* What the interpreter's global lock promises, without its mutexes and    *)
(* conditions: one thread at a time has it, and a thread that gave it up   *)
(* because another asked for it owes the others a turn. It neither takes   *)
(* the lock again nor goes on with anything else until another thread has  *)
(* had it, save for a spurious wake-up of its condition variable.          *)
(***************************************************************************)
CONSTANTS Threads, None

VARIABLES
  owner,  \* the thread that has the lock, or None
  last,   \* the thread that had it last, or None
  owed    \* the threads that wait for another one's turn

vars == <<owner, last, owed>>

Init == owner \in Threads /\ last = owner /\ owed = {}

\* Whoever takes the lock pays what all the others owe.
Take(t) ==
  /\ owner = None /\ t \notin owed
  /\ owner' = t /\ last' = t /\ owed' = {}

Release ==
  /\ owner # None
  /\ owner' = None
  /\ UNCHANGED <<last, owed>>

\* Nobody had the lock since t gave it up.
Yield(t) ==
  /\ owner = None /\ last = t
  /\ owed' = owed \cup {t}
  /\ UNCHANGED <<owner, last>>

WakeSpuriously(t) ==
  /\ t \in owed
  /\ owed' = owed \ {t}
  /\ UNCHANGED <<owner, last>>

\* The child of a fork has a new lock.
Fork ==
  /\ owner # None
  /\ owner' = None /\ last' = None /\ owed' = {}

Next ==
  \/ Release \/ Fork
  \/ \E t \in Threads : Take(t) \/ Yield(t) \/ WakeSpuriously(t)

\* The turn that is owed is taken.
TurnTaken == owed # {} /\ \E t \in Threads : Take(t)

Safety == Init /\ [][Next]_vars

Spec == Safety /\ WF_vars(TurnTaken)
==============================================================================
