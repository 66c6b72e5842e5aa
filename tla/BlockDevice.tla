---------------------------- MODULE BlockDevice ----------------------------
(***************************************************************************)
(* What an io_channel promises its callers: one value per block, reads     *)
(* that return the last value written, and a flush after which nothing     *)
(* written before it can be lost.  There is no cache here.                 *)
(*                                                                         *)
(* dur[b] is the set of values that block b may hold after a crash: the    *)
(* value at the last successful flush and every value handed to a write    *)
(* since.  A request works through its blocks in pieces, as a multi-block  *)
(* request does; todo is the set of blocks it has not dealt with yet.      *)
(***************************************************************************)
CONSTANTS Blocks,     \* block numbers
          Values,     \* contents of a block
          Blank,      \* the value of a buffer no request uses
          Threads     \* the callers

VARIABLES mem,        \* [Blocks -> Values], what a read returns
          dur,        \* [Blocks -> SUBSET Values], what may survive a crash
          op,         \* the request each thread is in
          todo,       \* blocks the request has not dealt with
          out,        \* the caller's buffer
          ret         \* the outcome of the thread's last request

dvars == <<mem, dur, op, todo, out, ret>>

DInit == /\ mem \in [Blocks -> Values]
         /\ dur = [b \in Blocks |-> {mem[b]}]
         /\ op = [t \in Threads |-> "idle"]
         /\ todo = [t \in Threads |-> {}]
         /\ out = [t \in Threads |-> [b \in Blocks |-> Blank]]
         /\ ret = [t \in Threads |-> "ok"]

\* A request for some blocks begins; a write's data may become durable at
\* any moment from here on.
Begin(t) ==
  /\ op[t] = "idle"
  /\ \E k \in {"read", "write", "flush"} :
       /\ op' = [op EXCEPT ![t] = k]
       /\ \E S \in SUBSET Blocks :
            /\ todo' = [todo EXCEPT ![t] = S]
            /\ \E d \in [Blocks -> Values] :
                 /\ out' = [out EXCEPT ![t] = d]
                 /\ dur' = [b \in Blocks |-> IF k = "write" /\ b \in S
                                             THEN dur[b] \cup {d[b]} ELSE dur[b]]
  /\ ret' = [ret EXCEPT ![t] = "ok"]
  /\ UNCHANGED mem

\* Some of the blocks asked for are copied into the buffer.
ReadSome(t, T) ==
  /\ op[t] = "read"
  /\ out' = [out EXCEPT ![t] = [b \in Blocks |-> IF b \in T THEN mem[b] ELSE @[b]]]
  /\ todo' = [todo EXCEPT ![t] = @ \ T]
  /\ UNCHANGED <<mem, dur, op, ret>>

\* Some of the blocks take their new value; those in D are finished.
WriteSome(t, T, D) ==
  /\ op[t] = "write"
  /\ mem' = [b \in Blocks |-> IF b \in T THEN out[t][b] ELSE mem[b]]
  /\ todo' = [todo EXCEPT ![t] = @ \ D]
  /\ UNCHANGED <<dur, op, out, ret>>

\* Everything written so far is made durable.
Sync(t) ==
  /\ op[t] = "flush"
  /\ dur' = [b \in Blocks |-> {mem[b]}]
  /\ todo' = [todo EXCEPT ![t] = {}]
  /\ UNCHANGED <<mem, op, out, ret>>

\* A request returns; it may only report success when nothing is left to do.
End(t, r) ==
  /\ op[t] # "idle"
  /\ r = "ok" => todo[t] = {}
  /\ op' = [op EXCEPT ![t] = "idle"]
  /\ todo' = [todo EXCEPT ![t] = {}]
  /\ out' = [out EXCEPT ![t] = [b \in Blocks |-> Blank]]
  /\ ret' = [ret EXCEPT ![t] = r]
  /\ UNCHANGED <<mem, dur>>

\* A call without effect on the data returns.
Other(t, r) ==
  /\ op[t] = "idle"
  /\ ret' = [ret EXCEPT ![t] = r]
  /\ UNCHANGED <<mem, dur, op, todo, out>>

\* The process dies, or the machine does.  In the second case what came back
\* after the reboot is what is on the medium.
Crash ==
  /\ mem' \in [Blocks -> Values]
  /\ \A b \in Blocks : mem'[b] \in dur[b]
  /\ \/ dur' = dur
     \/ dur' = [b \in Blocks |-> {mem'[b]}]
  /\ op' = [t \in Threads |-> "idle"]
  /\ todo' = [t \in Threads |-> {}]
  /\ out' = [t \in Threads |-> [b \in Blocks |-> Blank]]
  /\ ret' = [t \in Threads |-> "ok"]

DNext ==
  \/ \E t \in Threads :
       \/ Begin(t)
       \/ \E T \in SUBSET todo[t] : ReadSome(t, T)
       \/ \E T \in SUBSET todo[t] : \E D \in SUBSET T : WriteSome(t, T, D)
       \/ Sync(t)
       \/ \E r \in {"ok", "err"} : End(t, r) \/ Other(t, r)
  \/ Crash

DSpec == DInit /\ [][DNext]_dvars
=============================================================================
