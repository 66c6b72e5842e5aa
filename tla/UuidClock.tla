------------------------------ MODULE UuidClock ------------------------------
(***************************************************************************)
(* Time based UUIDs (lib/uuid/gen_uuid.c, misc/uuidd.c).  get_clock keeps  *)
(* the last time stamp in a state file that all processes share, under an  *)
(* fcntl lock, which belongs to the process.  A time stamp is a time of    *)
(* day plus an adjustment that counts the UUIDs of one tick; a clock that  *)
(* goes back changes the clock sequence.  Clients ask uuidd for a range of *)
(* time stamps and fall back on get_clock when it does not answer.         *)
(* One tick stands for a microsecond.                                      *)
(***************************************************************************)
EXTENDS Integers, FiniteSets

CONSTANTS
    Callers,        \* threads that call uuid_generate_time
    Uuidd,          \* the daemon, a single thread
    ProcessOf,      \* the process of each thread
    NoProcess,      \* nobody holds the lock
    PerTick,        \* time stamps in a tick, and MAX_ADJUSTMENT: 10
    BulkSize,       \* time stamps in a reply of the daemon: 1000
    ClockSeqs,      \* clock sequences: 2^14
    LastTick,       \* bound on the time of day
    MaxCalls,       \* bound on the calls
    MaxSetBacks     \* bound on how often the clock is set back

Stampers == Callers \cup {Uuidd}

ASSUME UuidAssumption ==
    /\ Uuidd \notin Callers /\ NoProcess \notin {ProcessOf[t] : t \in Stampers}
    /\ PerTick \in Nat \ {0, 1} /\ BulkSize \in Nat \ {0} /\ ClockSeqs \in Nat \ {0}
    /\ LastTick \in Nat /\ MaxCalls \in Nat /\ MaxSetBacks \in Nat

VARIABLES
    tod,        \* gettimeofday
    stateFile,  \* clock.txt: {} or one record
    locker,     \* the process that holds the lock on it
    thread,     \* what each thread is doing
    issued,     \* time stamps and clock sequences handed out
    twice,      \* those handed out twice
    brim,       \* those that are one more than their tick has room for
    calls, setBacks

uuidVars == <<tod, stateFile, locker, thread, issued, twice, brim, calls, setBacks>>

\* "changes" is history: how often the clock sequence has changed so far.
ClockState(seq, last, adj, changes) ==
    [seq |-> seq, last |-> last, adj |-> adj, changes |-> changes]

NoState == ClockState(0, 0, 0, 0)

\* A thread outside get_clock: "left" time stamps from uu on are its own.
Outside == [pc |-> "idle", left |-> 0, uu |-> 0, seq |-> 0, num |-> 0, state |-> NoState,
            client |-> Uuidd]

UuidInit ==
    /\ tod = 1
    /\ stateFile = {}
    /\ locker = NoProcess
    /\ thread = [t \in Stampers |-> Outside]
    /\ issued = {} /\ twice = {} /\ brim = {}
    /\ calls = 0 /\ setBacks = 0

-----------------------------------------------------------------------------
(* get_clock *)

\* The lock is had, which a thread of the process that has it already has too.
Lock(t) == locker \in {NoProcess, ProcessOf[t]} /\ locker' = ProcessOf[t]

\* What is read under the lock, or made up when there is nothing to read.
StateRead ==
    IF stateFile = {} THEN {ClockState(seq, 0, 0, 0) : seq \in {0, ClockSeqs - 1}} ELSE stateFile

\* The state after one pass of try_again at the time now, if it ends the loop.
Stamped_SameSequence(s, now) ==
    IF now < s.last THEN {ClockState(s.seq, now, 0, s.changes)}
    ELSE IF now > s.last THEN {ClockState(s.seq, now, 0, s.changes)}
    ELSE IF s.adj >= PerTick THEN {}
    ELSE {[s EXCEPT !.adj = @ + 1]}

Stamped(s, now) ==
    IF now < s.last THEN {ClockState((s.seq + 1) % ClockSeqs, now, 0, s.changes + 1)}
    ELSE IF now > s.last THEN {ClockState(s.seq, now, 0, s.changes)}
    ELSE IF s.adj >= PerTick THEN {}
    ELSE {[s EXCEPT !.adj = @ + 1]}

\* The last of num time stamps is what the state remembers.
Reserved(s, num) ==
    IF num > 1
    THEN [s EXCEPT !.last = @ + (s.adj + num - 1) \div PerTick,
                   !.adj = (s.adj + num - 1) % PerTick]
    ELSE s

TryAgain(t) ==
    /\ thread[t].pc = "try"
    /\ \E n \in Stamped(thread[t].state, tod) :
        LET uu == tod * PerTick + n.adj
        IN  /\ thread' = [thread EXCEPT ![t].pc = "stamped", ![t].uu = uu, ![t].seq = n.seq,
                                        ![t].state = Reserved(n, thread[t].num)]
            /\ brim' = IF n.adj = PerTick /\ thread[t].num <= 1
                       THEN brim \cup {<<uu, n.seq>>} ELSE brim
    /\ UNCHANGED <<tod, stateFile, locker, issued, twice, calls, setBacks>>

-----------------------------------------------------------------------------
(* uuid_generate_time *)

Uuid(t) == <<thread[t].uu, thread[t].seq>>

Hand(u) ==
    /\ issued' = issued \cup {u}
    /\ twice' = IF u \in issued THEN twice \cup {u} ELSE twice

\* The state is written and the lock of the process released.  The daemon has
\* an answer now; any other thread returns.
WriteState(t) ==
    /\ thread[t].pc = "stamped"
    /\ stateFile' = {thread[t].state}
    /\ locker' = IF locker = ProcessOf[t] THEN NoProcess ELSE locker
    /\ IF t = Uuidd
       THEN thread' = [thread EXCEPT ![t].pc = "done", ![t].state = NoState]
            /\ UNCHANGED <<issued, twice>>
       ELSE thread' = [thread EXCEPT ![t] = Outside] /\ Hand(Uuid(t))
    /\ UNCHANGED <<tod, brim, calls, setBacks>>

\* The next of a range that is not too old; old ones are thrown away.
FromRange(t) ==
    /\ thread[t].pc = "idle" /\ thread[t].left > 0 /\ calls < MaxCalls
    /\ Hand(<<thread[t].uu + 1, thread[t].seq>>)
    /\ thread' = [thread EXCEPT ![t].uu = @ + 1, ![t].left = @ - 1]
    /\ calls' = calls + 1
    /\ UNCHANGED <<tod, stateFile, locker, brim, setBacks>>

Ask(t) ==
    /\ t \in Callers /\ thread[t].pc = "idle" /\ calls < MaxCalls
    /\ thread' = [thread EXCEPT ![t] = [Outside EXCEPT !.pc = "asking"]]
    /\ calls' = calls + 1
    /\ UNCHANGED <<tod, stateFile, locker, issued, twice, brim, setBacks>>

\* The daemon cannot be reached, or the answer does not come.
NoAnswer(t) ==
    /\ thread[t].pc \in {"asking", "asked"}
    /\ thread' = [thread EXCEPT ![t].pc = "alone"]
    /\ UNCHANGED <<tod, stateFile, locker, issued, twice, brim, calls, setBacks>>

uuid__generate_time(t) ==
    /\ thread[t].pc = "alone"
    /\ Lock(t)
    /\ \E s \in StateRead :
        thread' = [thread EXCEPT ![t].pc = "try", ![t].num = 0, ![t].state = s]
    /\ UNCHANGED <<tod, stateFile, issued, twice, brim, calls, setBacks>>

-----------------------------------------------------------------------------
(* server_loop *)

\* A client is accepted; a bulk request is for BulkSize, the other for one.
Accept(t) ==
    /\ thread[Uuidd].pc = "idle" /\ thread[t].pc = "asking"
    /\ Lock(Uuidd)
    /\ \E num \in {1, BulkSize}, s \in StateRead :
        thread' = [thread EXCEPT ![t].pc = "asked",
                                 ![Uuidd] = [Outside EXCEPT !.pc = "try", !.num = num, !.state = s,
                                                            !.client = t]]
    /\ UNCHANGED <<tod, stateFile, issued, twice, brim, calls, setBacks>>

\* The client has the first of the range, and keeps the others.
Reply ==
    LET d == thread[Uuidd]
        waiting == thread[d.client].pc = "asked"
    IN  /\ d.pc = "done"
        /\ thread' = [t \in Stampers |->
                        IF t = Uuidd THEN Outside
                        ELSE IF t = d.client /\ waiting
                        THEN [Outside EXCEPT !.left = d.num - 1, !.uu = d.uu, !.seq = d.seq]
                        ELSE thread[t]]
        /\ IF waiting THEN Hand(Uuid(Uuidd)) ELSE UNCHANGED <<issued, twice>>
        /\ UNCHANGED <<tod, stateFile, locker, brim, calls, setBacks>>

-----------------------------------------------------------------------------
\* A process dies; the kernel releases its lock.
Killed(t) ==
    /\ thread[t].pc \in {"try", "stamped"}
    /\ thread' = [u \in Stampers |-> IF ProcessOf[u] = ProcessOf[t] THEN Outside ELSE thread[u]]
    /\ locker' = IF locker = ProcessOf[t] THEN NoProcess ELSE locker
    /\ UNCHANGED <<tod, stateFile, issued, twice, brim, calls, setBacks>>

TickTock ==
    /\ tod < LastTick
    /\ tod' = tod + 1
    /\ UNCHANGED <<stateFile, locker, thread, issued, twice, brim, calls, setBacks>>

SetBack ==
    /\ setBacks < MaxSetBacks
    /\ tod' \in 1 .. tod - 1
    /\ setBacks' = setBacks + 1
    /\ UNCHANGED <<stateFile, locker, thread, issued, twice, brim, calls>>

UuidNext ==
    \/ \E t \in Stampers :
        TryAgain(t) \/ WriteState(t) \/ Killed(t)
    \/ \E t \in Callers :
        FromRange(t) \/ Ask(t) \/ NoAnswer(t) \/ uuid__generate_time(t) \/ Accept(t)
    \/ Reply \/ TickTock \/ SetBack

UuidSpec == UuidInit /\ [][UuidNext]_uuidVars

-----------------------------------------------------------------------------
\* No two callers, of whatever processes, ever get the same UUID, whether they
\* get it from the daemon, from a range of the daemon or from the state file,
\* while the clock stands still or is set back and processes are killed, until
\* every clock sequence has been used.  The exception are the time stamps of
\* adjustment MAX_ADJUSTMENT, which equal the first of the next tick.
NeverTwice == (\A s \in stateFile : s.changes < ClockSeqs) => twice \subseteq brim

=============================================================================
