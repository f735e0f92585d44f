------------------------------- MODULE Outbox -------------------------------
(***************************************************************************)
(* What the outbox promises to those who write events into it, whatever    *)
(* number of workers read it: an event that was appended is processed, and *)
(* only once.                                                              *)
(***************************************************************************)
EXTENDS Integers

CONSTANT Events

VARIABLES
  pending,     \* appended and not processed
  processings  \* how often each event was processed

outboxVars == <<pending, processings>>

OutboxInit ==
  /\ pending = {}
  /\ processings = [e \in Events |-> 0]

Append(e) ==
  /\ e \notin pending
  /\ processings[e] = 0
  /\ pending' = pending \cup {e}
  /\ UNCHANGED processings

Process(S) ==
  /\ S # {}
  /\ S \subseteq pending
  /\ pending' = pending \ S
  /\ processings' = [e \in Events |-> IF e \in S THEN processings[e] + 1 ELSE processings[e]]

ProcessWith(e) == \E S \in SUBSET Events : e \in S /\ Process(S)

OutboxNext == \E e \in Events : Append(e) \/ ProcessWith(e)

OutboxSpec ==
  /\ OutboxInit
  /\ [][OutboxNext]_outboxVars
  /\ \A e \in Events : WF_outboxVars(ProcessWith(e))
=============================================================================
