-------------------------------- MODULE Fifo --------------------------------
(* What a communication pipe promises its two threads: a bounded queue that  *)
(* neither loses, repeats, reorders nor overwrites what the writer put in.   *)
EXTENDS Naturals, Sequences

CONSTANTS Item,      \* what the writer may put in the pipe
          Capacity   \* how many items the pipe holds before its writer waits

VARIABLES queue,     \* the items put and not yet got, oldest first
          taken      \* what the last Get returned

fifoVars == <<queue, taken>>

FifoInit ==
  /\ queue = <<>>
  /\ taken \in Item

Put(x) ==
  /\ Len(queue) < Capacity
  /\ queue' = Append(queue, x)
  /\ UNCHANGED taken

Get ==
  /\ queue # <<>>
  /\ taken' = Head(queue)
  /\ queue' = Tail(queue)

FifoNext == Get \/ \E x \in Item : Put(x)

FifoSpec == FifoInit /\ [][FifoNext]_fifoVars
=============================================================================
