---------------------------- MODULE OutboxQueue ----------------------------
(***************************************************************************)
(* What the outbox promises to the code that writes events: an event stays *)
(* queued until it is settled, it is settled as delivered only if the      *)
(* consumer took it, and a settled event changes only by an operator's     *)
(* command.  The consumer may take an event any number of times, also      *)
(* after it was settled (at-least-once delivery).                          *)
(***************************************************************************)
CONSTANT Events

VARIABLES
  state,  \* of each event
  taken   \* events the consumer took at least once

queueVars == <<state, taken>>

States == {"absent", "queued", "delivered", "failed", "purged"}

Init ==
  /\ state = [e \in Events |-> "absent"]
  /\ taken = {}

Move(e, from, to) ==
  /\ state[e] = from
  /\ state' = [state EXCEPT ![e] = to]
  /\ UNCHANGED taken

Enqueue(e) == Move(e, "absent", "queued")

Deliver(e) == e \in taken /\ Move(e, "queued", "delivered")

Fail(e) == Move(e, "queued", "failed")

Take(e) ==
  /\ state[e] # "absent"
  /\ taken' = taken \cup {e}
  /\ UNCHANGED state

MoveAll(events, to) ==
  /\ \A e \in events : state[e] \notin {"absent", "purged"}
  /\ state' = [e \in Events |-> IF e \in events THEN to ELSE state[e]]
  /\ UNCHANGED taken

Next ==
  \/ \E e \in Events : Enqueue(e) \/ Deliver(e) \/ Fail(e) \/ Take(e)
  \/ \E events \in SUBSET Events :
       MoveAll(events, "queued") \/ MoveAll(events, "purged")

Spec == Init /\ [][Next]_queueVars
============================================================================
