------------------------------- MODULE Reactor -------------------------------
(***************************************************************************)
(* The reactor of ReactorServer: one selector thread reads and writes the   *)
(* channels of all connections (ConnectionHandler), a pool of threads runs  *)
(* their protocol tasks (ProtocolTask), one at a time for each connection.  *)
(* A frame is its number in what the client sends; how the tokenizer cuts    *)
(* the bytes into frames is left out.  A partial write leaves the rest of    *)
(* the buffer in front of the others: nothing changes at this grain.         *)
(***************************************************************************)
EXTENDS Naturals, Sequences, SequencesExt

CONSTANTS Users,    \* the connections, one for each user
          Threads,  \* of the pool
          None

VARIABLES
  input,    \* frames in the channel, from the client
  buffers,  \* frames in the tokenizer
  executor, \* tasks queued for the pool
  open,     \* the channel is open and the key valid; else shouldClose
  interest, \* the key is interested in OP_WRITE
  out,      \* _outData
  received, \* what the client has got
  task,     \* the task a thread of the pool runs or wants to run
  pc        \* where it is

channelVars == <<input, buffers, open, received>>
poolVars == <<task, pc>>

ReactorInit(frames) ==
  /\ input = [u \in Users |-> [i \in 1..frames[u] |-> i]]
  /\ buffers = [u \in Users |-> <<>>]
  /\ executor = <<>>
  /\ open = [u \in Users |-> TRUE]
  /\ interest = [u \in Users |-> FALSE]
  /\ out = [u \in Users |-> <<>>]
  /\ received = [u \in Users |-> <<>>]
  /\ task = [t \in Threads |-> None]
  /\ pc = [t \in Threads |-> "idle"]

(* The selector thread reads some frames: to the tokenizer, then a task for  *)
(* the pool.                                                                  *)
Read(u) ==
  /\ open[u] /\ input[u] # <<>>
  /\ \E n \in 1..Len(input[u]) :
       /\ buffers' = [buffers EXCEPT ![u] = @ \o SubSeq(input[u], 1, n)]
       /\ input' = [input EXCEPT ![u] = SubSeq(@, n + 1, Len(@))]
  /\ executor' = Append(executor, u)
  /\ UNCHANGED <<open, interest, out, received, poolVars>>

(* The connection breaks: the key is cancelled, the protocol told to close. *)
ReadEnd(u) ==
  /\ open[u]
  /\ open' = [open EXCEPT ![u] = FALSE]
  /\ UNCHANGED <<input, buffers, executor, interest, out, received, poolVars>>

(* Mutant: the selector stops watching for writing after each write. *)
WriteOnce(u) ==
  /\ open[u] /\ interest[u] /\ out[u] # <<>>
  /\ received' = [received EXCEPT ![u] = Append(@, Head(out[u]))]
  /\ out' = [out EXCEPT ![u] = Tail(@)]
  /\ interest' = [interest EXCEPT ![u] = FALSE]
  /\ UNCHANGED <<input, buffers, executor, open, poolVars>>

(* write(): the next buffer, or back to reading only when there is none. *)
Write(u) ==
  /\ open[u] /\ interest[u]
  /\ IF out[u] = <<>>
     THEN interest' = [interest EXCEPT ![u] = FALSE] /\ UNCHANGED <<out, received>>
     ELSE /\ received' = [received EXCEPT ![u] = Append(@, Head(out[u]))]
          /\ out' = [out EXCEPT ![u] = Tail(@)]
          /\ UNCHANGED interest
  /\ UNCHANGED <<input, buffers, executor, open, poolVars>>

(* A thread of the pool takes the next task, ... *)
TakeTask(t) ==
  /\ pc[t] = "idle" /\ executor # <<>>
  /\ executor' = Tail(executor)
  /\ task' = [task EXCEPT ![t] = Head(executor)]
  /\ pc' = [pc EXCEPT ![t] = "enter"]
  /\ UNCHANGED <<channelVars, interest, out>>

(* Mutant: run() is not synchronized. *)
EnterAny(t) ==
  /\ pc[t] = "enter"
  /\ pc' = [pc EXCEPT ![t] = "run"]
  /\ UNCHANGED <<channelVars, executor, interest, out, task>>

(* ... and enters its synchronized run(). *)
Enter(t) ==
  /\ pc[t] = "enter"
  /\ \A s \in Threads \ {t} : task[s] = task[t] => pc[s] = "enter"
  /\ pc' = [pc EXCEPT ![t] = "run"]
  /\ UNCHANGED <<channelVars, executor, interest, out, task>>

(* run() has no more messages and returns. *)
RunEnd(t) ==
  /\ pc[t] = "run" /\ buffers[task[t]] = <<>>
  /\ pc' = [pc EXCEPT ![t] = "idle"]
  /\ task' = [task EXCEPT ![t] = None]
  /\ UNCHANGED <<channelVars, executor, interest, out>>
=============================================================================
