----------------------------- MODULE BoundedFifo -----------------------------
(***************************************************************************)
(* What BlockQueue promises its users: a FIFO of at most Size elements     *)
(* that can be closed.  A reader is told the end only when the queue is    *)
(* closed and drained, and the queue is reopened only after every reader   *)
(* has been told.                                                          *)
(***************************************************************************)
EXTENDS Naturals, Sequences

CONSTANTS Size, Elements, Readers

VARIABLES
  fifo,      (* the elements, oldest first                                 *)
  closed,    (* nothing more will be put                                   *)
  ended      (* readers that have been told the end                        *)

Init == fifo = << >> /\ closed = FALSE /\ ended = {}

Put(e) ==
  /\ ~ closed /\ Len(fifo) < Size
  /\ fifo' = Append(fifo, e)
  /\ UNCHANGED <<closed, ended>>

Get(r) ==
  /\ r \notin ended /\ fifo # << >>
  /\ fifo' = Tail(fifo)
  /\ UNCHANGED <<closed, ended>>

Close ==
  /\ closed' = TRUE
  /\ UNCHANGED <<fifo, ended>>

End(r) ==
  /\ closed /\ fifo = << >>
  /\ ended' = ended \cup {r}
  /\ UNCHANGED <<fifo, closed>>

Reopen ==
  /\ ended = Readers
  /\ closed' = FALSE /\ ended' = {}
  /\ UNCHANGED fifo

Next ==
  \/ \E e \in Elements : Put(e)
  \/ \E r \in Readers : Get(r) \/ End(r)
  \/ Close \/ Reopen

Spec == Init /\ [][Next]_<<fifo, closed, ended>>
=============================================================================
