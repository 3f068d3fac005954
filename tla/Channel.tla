------------------------------- MODULE Channel -------------------------------
(***************************************************************************)
(* What both queues of the interpreter promise whoever hands something     *)
(* over by them, without lists, rings, positions or locks: what is put in  *)
(* is taken out once and in order, each put and each take at one moment,   *)
(* however many threads are in the middle of theirs, and no more waits     *)
(* than there is room for.                                                 *)
(***************************************************************************)
EXTENDS Naturals, Sequences

CONSTANTS
  Payload,  \* what may be handed over
  Capacity  \* how much can wait

VARIABLES
  given,  \* what was put in, in order
  queue,  \* what waits, the oldest first
  taken   \* what was taken out, in order

vars == <<given, queue, taken>>

Init == given = <<>> /\ queue = <<>> /\ taken = <<>>

Put(p) ==
  /\ Len(queue) < Capacity
  /\ given' = Append(given, p)
  /\ queue' = Append(queue, p)
  /\ UNCHANGED taken

Take ==
  /\ queue # <<>>
  /\ taken' = Append(taken, Head(queue))
  /\ queue' = Tail(queue)
  /\ UNCHANGED given

Next == Take \/ \E p \in Payload : Put(p)

Safety == Init /\ [][Next]_vars

\* What waits is not left there for ever.
Spec == Safety /\ WF_vars(Take)
==============================================================================
