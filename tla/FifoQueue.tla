----------------------------- MODULE FifoQueue -----------------------------
(***************************************************************************)
(* What one direction of the message bus promises, whatever array it is    *)
(* kept in: a bounded queue of messages.  A message put in while there is  *)
(* room is taken out at most once; the head may be taken, or the first     *)
(* message of one channel, so that messages of a channel never overtake    *)
(* one another.                                                            *)
(***************************************************************************)
EXTENDS Integers, Sequences, SequencesExt

CONSTANTS Capacity,        \* messages the queue holds at most
          Message,         \* the messages
          Channel(_)       \* the channel a message is addressed to

VARIABLES queue,           \* the messages waiting, oldest first
          taken            \* the messages handed out so far, in order

vars == <<queue, taken>>

Init == queue = <<>> /\ taken = <<>>

(* A message is put in once, so it can be handed out once. *)
Put == /\ Len(queue) < Capacity
       /\ queue' # <<>>
       /\ Front(queue') = queue
       /\ Last(queue') \in Message \ (Range(queue) \union Range(taken))
       /\ UNCHANGED taken

(* Position i is the oldest message of its channel. *)
FirstOfChannel(i) == \A j \in 1 .. i - 1 : Channel(queue[j]) # Channel(queue[i])

Take == \E i \in 1 .. Len(queue) :
          /\ FirstOfChannel(i)
          /\ queue' = RemoveAt(queue, i)
          /\ taken' = Append(taken, queue[i])

Next == Put \/ Take

Spec == Init /\ [][Next]_vars
=============================================================================
