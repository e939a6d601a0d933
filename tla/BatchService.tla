---------------------------- MODULE BatchService ----------------------------
(***************************************************************************)
(* What the JsonRpcMuxer promises its clients, without its threads, locks  *)
(* and lists: a batch is refused or accepted; the requests of an accepted  *)
(* batch are started in order, at most Limit of all batches at a time, and *)
(* those of a sequential batch one after the other; it is answered once,   *)
(* when all of its requests are finished.  Closing the service starts      *)
(* nothing new and excuses it from finishing what it accepted.             *)
(***************************************************************************)
EXTENDS Naturals, FiniteSets

CONSTANTS Batch, Limit, MaxLength

VARIABLES status,    \* of a batch: unsent, refused, accepted, answered
          parallel,  \* may its requests be executed side by side
          size,      \* the number of its requests
          started,   \* the number of its requests that were started
          finished,  \* the requests <<b, i>> that were executed
          closed

vars == <<status, parallel, size, started, finished, closed>>

Running == {j \in Batch \X (1 .. MaxLength) : j[2] <= started[j[1]]} \ finished

Init ==
  /\ status = [b \in Batch |-> "unsent"]
  /\ parallel = [b \in Batch |-> FALSE]
  /\ size = [b \in Batch |-> 0]
  /\ started = [b \in Batch |-> 0]
  /\ finished = {}
  /\ closed = FALSE

Refuse(b) ==
  /\ status[b] = "unsent"
  /\ status' = [status EXCEPT ![b] = "refused"]
  /\ UNCHANGED <<parallel, size, started, finished, closed>>

\* The request reached the service: its mode and length are known
Receive(b, p, n) ==
  /\ status[b] = "unsent"
  /\ size[b] = 0
  /\ parallel' = [parallel EXCEPT ![b] = p]
  /\ size' = [size EXCEPT ![b] = n]
  /\ UNCHANGED <<status, started, finished, closed>>

Accept(b) ==
  /\ ~closed
  /\ status[b] = "unsent"
  /\ size[b] > 0
  /\ status' = [status EXCEPT ![b] = "accepted"]
  /\ UNCHANGED <<parallel, size, started, finished, closed>>

Start(b) ==
  /\ ~closed
  /\ status[b] = "accepted"
  /\ started[b] < size[b]
  /\ ~parallel[b] => \A i \in 1 .. started[b] : <<b, i>> \in finished
  /\ Cardinality(Running) < Limit
  /\ started' = [started EXCEPT ![b] = @ + 1]
  /\ UNCHANGED <<status, parallel, size, finished, closed>>

Finish(b, i) ==
  /\ status[b] = "accepted"
  /\ <<b, i>> \in Running
  /\ finished' = finished \cup {<<b, i>>}
  /\ UNCHANGED <<status, parallel, size, started, closed>>

Answer(b) ==
  /\ status[b] = "accepted"
  /\ closed \/ \A i \in 1 .. size[b] : <<b, i>> \in finished
  /\ status' = [status EXCEPT ![b] = "answered"]
  /\ UNCHANGED <<parallel, size, started, finished, closed>>

Close ==
  /\ ~closed
  /\ closed' = TRUE
  /\ UNCHANGED <<status, parallel, size, started, finished>>

Next ==
  \/ \E b \in Batch :
       \/ Refuse(b) \/ Accept(b) \/ Start(b) \/ Answer(b)
       \/ \E p \in BOOLEAN, n \in 1 .. MaxLength : Receive(b, p, n)
       \/ \E i \in 1 .. MaxLength : Finish(b, i)
  \/ Close

Spec == Init /\ [][Next]_vars
=============================================================================
