----------------------------- MODULE SharedProofs -----------------------------
(***************************************************************************)
(* Threads and processes that share their state: the threads that read the *)
(* bitmaps together read every group, for every number of groups and       *)
(* threads and every size of a flex group; and no time based UUID is       *)
(* handed out twice, for every number of callers, size of a reply of the   *)
(* daemon, sequence of clock times and kills, until the clock sequences    *)
(* run out, when no two threads share a process.                           *)
(***************************************************************************)
EXTENDS BitmapThreads, UuidClock, FiniteSetTheorems, TLAPS

-----------------------------------------------------------------------------
(* Reading the bitmaps (BitmapThreads).                                    *)

\* The call after its arguments have been looked at, and the groups of thread t
Dividing == call.pc # "none"
InThreads == Threaded(call.num, call.average)
From(t) == GrpStart(t, call.average)
To(t) == IF InThreads THEN GrpEnd(t, call.num, call.average, call.groups) ELSE call.groups - 1

Calls == [pc : {"none", "create", "alone", "join", "out", "returned"}, groups : Nat, num : Nat,
          average : Nat, retval : 0 .. 2, cache : {"on", "off"}, map : BOOLEAN]
Readers == [at : Nat, to : Int, pc : {"read", "insert", "inserting", "done"},
            seen : SUBSET Nat, retval : {0, 2}]

ThreadsTyped ==
    /\ call \in Calls /\ bitmap \subseteq Nat
    /\ reader \in [DOMAIN reader -> Readers]

\* The division of the groups
Quotient ==
    Dividing => call.groups >= 1 /\ call.num >= 1 /\ call.num <= call.groups
                /\ call.average * call.num <= call.groups

\* The threads are created in turn, all of them unless one cannot be.
Created ==
    /\ call.pc = "none" => DOMAIN reader = {}
    /\ call.pc = "create" => InThreads /\ call.retval = 0
                             /\ \E k \in 0 .. call.num - 1 : DOMAIN reader = 0 .. k - 1
    /\ call.pc = "alone" => ~InThreads /\ DOMAIN reader = {0} /\ call.retval = 0
    /\ call.pc = "join" /\ call.retval = 0 => InThreads /\ DOMAIN reader = 0 .. call.num - 1
    /\ DOMAIN reader \subseteq 0 .. call.num - 1

\* What thread t has read is in the bitmap, and what it has seen is the bitmap.
Progress(t) ==
    /\ reader[t].to = To(t) /\ From(t) <= reader[t].at
    /\ \A g \in From(t) .. reader[t].at - 1 : g \in bitmap
    /\ reader[t].pc \in {"insert", "inserting"} => reader[t].at <= reader[t].to
    /\ reader[t].pc = "inserting" => reader[t].seen = bitmap
    /\ reader[t].pc = "done" /\ reader[t].retval = 0 => reader[t].at > reader[t].to

\* One thread at a time is changing the bitmap.
Mutex ==
    \A t, u \in DOMAIN reader :
        reader[t].pc = "inserting" =>
            /\ call.pc = "alone" \/ holder = t
            /\ reader[u].pc = "inserting" => t = u

\* When all of them have been joined
Joined ==
    /\ call.pc \in {"create", "alone", "join"} => call.map = TRUE
    /\ call.pc \in {"out", "returned"} =>
          \A t \in DOMAIN reader : reader[t].pc = "done"
    /\ call.pc \in {"out", "returned"} /\ call.retval = 0 /\ reader # <<>> =>
          /\ call.map = TRUE
          /\ \A t \in DOMAIN reader : reader[t].retval = 0
          /\ DOMAIN reader = IF InThreads THEN 0 .. call.num - 1 ELSE {0}
    /\ call.pc = "returned" /\ call.retval # 0 => call.map = FALSE

ThreadsInv ==
    /\ Quotient /\ Created /\ Mutex /\ Joined
    /\ bitmap \subseteq 0 .. call.groups - 1
    /\ \A t \in DOMAIN reader : Progress(t)

-----------------------------------------------------------------------------
(* Arithmetic of the division                                              *)

LEMMA ProductGrows ==
    ASSUME NEW a \in Nat, NEW x \in Int, NEW y \in Int, x <= y
    PROVE  a * x <= a * y
OBVIOUS

LEMMA QuotientBelow ==
    ASSUME NEW n \in Nat, NEW d \in Nat \ {0}
    PROVE  /\ n \div d \in Nat /\ (n \div d) * d \in Nat
           /\ (n \div d) * d <= n /\ n < (n \div d) * d + d
OBVIOUS

\* No more groups are given out than there are.
LEMMA AverageFits ==
    ASSUME NEW groups \in Nat, NEW num \in Nat \ {0}, NEW flex \in Nat \ {0}
    PROVE  /\ AverageGroup(groups, num, flex) \in Nat
           /\ AverageGroup(groups, num, flex) * num <= groups
<1> DEFINE q == groups \div num
           a == (q \div flex) * flex
<1>1. q \in Nat /\ q * num <= groups
  BY QuotientBelow
<1>2. a \in Nat /\ a <= q
  BY <1>1, QuotientBelow
<1>3. a * num \in Nat /\ q * num \in Nat /\ num * a <= num * q
  BY <1>1, <1>2, ProductGrows
<1>4. a * num <= groups
  BY <1>1, <1>2, <1>3
<1> QED
  BY <1>2, <1>4 DEF AverageGroup

\* The range of thread i, by where the one before it ends
LEMMA Ranges ==
    ASSUME NEW groups \in Nat \ {0}, NEW num \in Nat \ {0}, NEW average \in Nat,
           average * num <= groups, NEW i \in 0 .. num - 1
    PROVE  /\ GrpStart(i, average) \in Nat /\ GrpEnd(i, num, average, groups) \in Int
           /\ GrpEnd(i, num, average, groups) <= groups - 1
           /\ average * i \in Nat /\ average * (i + 1) \in Nat
<1>1. average * i \in Nat /\ average * (i + 1) \in Nat /\ average * (num - 1) \in Nat
  OBVIOUS
<1>2. i < num - 1 => average * (i + 1) <= average * (num - 1)
  BY ProductGrows
<1>3. average * (num - 1) <= groups - 1
  <2>1. CASE average = 0
    BY <2>1
  <2>2. CASE average > 0
    BY <2>2
  <2> QED BY <2>1, <2>2
<1> QED
  BY <1>1, <1>2, <1>3 DEF GrpStart, GrpEnd

\* Every group has exactly one thread.
OneThread(groups, num, average, g) ==
    \E i \in 0 .. num - 1 : \A j \in 0 .. num - 1 :
        g \in GrpStart(j, average) .. GrpEnd(j, num, average, groups) <=> j = i

LEMMA Division ==
    ASSUME NEW groups \in Nat \ {0}, NEW num \in Nat \ {0}, NEW average \in Nat,
           average * num <= groups, NEW g \in 0 .. groups - 1
    PROVE  OneThread(groups, num, average, g)
<1> DEFINE Has(j) == g \in GrpStart(j, average) .. GrpEnd(j, num, average, groups)
<1>1. ASSUME NEW i \in 0 .. num - 1, NEW j \in 0 .. num - 1, i < j, Has(i) PROVE ~Has(j)
  <2>1. average * (i + 1) <= average * j
    BY <1>1, ProductGrows
  <2>2. average * (i + 1) \in Nat /\ average * j \in Nat
    OBVIOUS
  <2> QED BY <1>1, <2>1, <2>2 DEF GrpStart, GrpEnd
<1>2. \E i \in 0 .. num - 1 : Has(i)
  <2>1. CASE g > average * (num - 1)
    <3>1. average * (num - 1) \in Nat
      OBVIOUS
    <3> QED BY <2>1, <3>1 DEF GrpStart, GrpEnd
  <2>2. CASE g = 0
    <3>1. average * 1 \in Nat
      OBVIOUS
    <3> QED BY <2>2, <3>1 DEF GrpStart, GrpEnd
  <2>3. CASE g > 0 /\ g <= average * (num - 1)
    <3> DEFINE q == (g - 1) \div average
    <3>1. average > 0
      BY <2>3
    <3>2. q \in Nat /\ q * average <= g - 1 /\ g - 1 < q * average + average
      BY <2>3, <3>1, QuotientBelow
    <3> HIDE DEF q
    <3>3. average * q = q * average /\ average * (q + 1) = q * average + average /\ q * average \in Nat
      BY <3>2
    <3>4. q < num - 1
      <4>1. SUFFICES ASSUME q >= num - 1 PROVE FALSE
        BY <3>2
      <4>2. average * (num - 1) <= average * q
        BY <3>2, <4>1, ProductGrows
      <4>3. average * (num - 1) \in Nat
        OBVIOUS
      <4> QED BY <2>3, <3>2, <3>3, <4>2, <4>3
    <3> QED BY <3>2, <3>3, <3>4 DEF GrpStart, GrpEnd
  <2>4. average * (num - 1) \in Nat
    OBVIOUS
  <2> QED BY <2>1, <2>2, <2>3, <2>4
<1> HIDE DEF Has
<1>3. PICK i \in 0 .. num - 1 : Has(i)
  BY <1>2
<1>4. ASSUME NEW j \in 0 .. num - 1 PROVE Has(j) <=> j = i
  <2>1. CASE j < i
    BY <1>1, <1>3, <2>1
  <2>2. CASE i < j
    BY <1>1, <1>3, <2>2
  <2> QED BY <1>3, <2>1, <2>2
<1> QED
  BY <1>4 DEF Has, OneThread

LEMMA DividedByQuotient == ThreadsTyped /\ Quotient => GroupsDivided
<1> SUFFICES ASSUME ThreadsTyped, Quotient, call.pc \notin {"none", "alone"},
                    NEW g \in 0 .. call.groups - 1
             PROVE  Cardinality({i \in 0 .. call.num - 1 :
                        g \in GrpStart(i, call.average)
                              .. GrpEnd(i, call.num, call.average, call.groups)}) = 1
  BY DEF GroupsDivided
<1> DEFINE groups == call.groups
           num == call.num
           average == call.average
           Has(j) == g \in GrpStart(j, average) .. GrpEnd(j, num, average, groups)
<1>1. /\ groups \in Nat \ {0} /\ num \in Nat \ {0} /\ average \in Nat
      /\ average * num <= groups
  BY DEF ThreadsTyped, Calls, Quotient, Dividing
<1> HIDE DEF groups, num, average
<1>2. PICK i \in 0 .. num - 1 : \A j \in 0 .. num - 1 : Has(j) <=> j = i
  <2>1. g \in 0 .. groups - 1
    BY DEF groups
  <2>2. OneThread(groups, num, average, g)
    BY <1>1, <2>1, Division
  <2> QED BY <2>2 DEF OneThread
<1> HIDE DEF Has
<1>3. {j \in 0 .. num - 1 : Has(j)} = {i}
  BY <1>2
<1>4. Cardinality({j \in 0 .. num - 1 : Has(j)}) = 1
  BY <1>3, FS_Singleton
<1> QED
  BY <1>4 DEF Has, groups, num, average

-----------------------------------------------------------------------------
(* Types                                                                   *)

LEMMA EmptyReaders == DOMAIN <<>> = {}
OBVIOUS

LEMMA InitThreads == ThreadsInit => ThreadsTyped /\ ThreadsInv
<1> SUFFICES ASSUME ThreadsInit PROVE ThreadsTyped /\ ThreadsInv
  OBVIOUS
<1>1. DOMAIN reader = {} /\ reader \in [DOMAIN reader -> Readers]
  BY EmptyReaders DEF ThreadsInit
<1>2. call \in Calls /\ call.pc = "none"
  BY DEF ThreadsInit, NoCall, Calls
<1>3. bitmap = {}
  BY DEF ThreadsInit
<1> QED
  BY <1>1, <1>2, <1>3
  DEF ThreadsTyped, ThreadsInv, Quotient, Dividing, Created, Mutex, Joined, Calls

\* The call divides the groups, and reads them itself when it cannot.
LEMMA BeginThreads ==
    ASSUME ThreadsTyped, ThreadsInv, NEW groups \in 1 .. MostGroups, NEW threads \in 1 .. MostThreads,
           NEW flex \in FlexSizes, ext2fs_rw_bitmaps(groups, threads, flex)
    PROVE  ThreadsTyped' /\ ThreadsInv'
<1> DEFINE num == IF threads > groups THEN groups ELSE threads
           average == AverageGroup(groups, num, flex)
<1>1. num \in Nat \ {0} /\ num <= groups /\ groups \in Nat \ {0} /\ flex \in Nat \ {0}
  BY ThreadsAssumption
<1>2. average \in Nat /\ average * num <= groups
  BY <1>1, AverageFits
<1> HIDE DEF num, average
<1>3. /\ call' = [NoCall EXCEPT !.groups = groups, !.num = num, !.average = average, !.map = TRUE,
                                !.pc = IF Threaded(num, average) THEN "create" ELSE "alone",
                                !.cache = IF Threaded(num, average) THEN "off" ELSE "on"]
      /\ bitmap' = {}
      /\ reader' = IF Threaded(num, average) THEN <<>> ELSE [t \in {0} |-> Reader(0, groups - 1)]
  BY DEF ext2fs_rw_bitmaps, num, average
<1>4. /\ call'.groups = groups /\ call'.num = num /\ call'.average = average /\ call'.map = TRUE
      /\ call'.pc = IF Threaded(num, average) THEN "create" ELSE "alone"
      /\ call'.retval = 0 /\ call' \in Calls
  <2>1. call' = [pc |-> IF Threaded(num, average) THEN "create" ELSE "alone", groups |-> groups,
                 num |-> num, average |-> average, retval |-> 0,
                 cache |-> IF Threaded(num, average) THEN "off" ELSE "on", map |-> TRUE]
    BY <1>3 DEF NoCall
  <2>2. call' \in Calls
    BY <1>1, <1>2, <2>1 DEF Calls
  <2> QED BY <2>1, <2>2
<1>5. InThreads' <=> Threaded(num, average)
  BY <1>4 DEF InThreads
<1>6. CASE Threaded(num, average)
  <2>1. DOMAIN reader' = {} /\ reader' \in [DOMAIN reader' -> Readers]
    BY <1>3, <1>6, EmptyReaders
  <2>2. \E k \in 0 .. num - 1 : DOMAIN reader' = 0 .. k - 1
    <3>1. 0 .. (0 - 1) = {} /\ 0 \in 0 .. num - 1
      BY <1>1
    <3> QED BY <2>1, <3>1
  <2> QED
    BY <1>1, <1>2, <1>3, <1>4, <1>5, <1>6, <2>1, <2>2
    DEF ThreadsTyped, ThreadsInv, Quotient, Dividing, Created, Mutex, Joined
<1>7. CASE ~Threaded(num, average)
  <2>1. DOMAIN reader' = {0} /\ reader'[0] = Reader(0, groups - 1)
    BY <1>3, <1>7
  <2>2. reader' \in [DOMAIN reader' -> Readers]
    BY <1>1, <1>3, <1>7, <2>1 DEF Reader, Readers
  <2>3. Progress(0)'
    BY <1>1, <1>4, <1>5, <1>7, <2>1 DEF Progress, From, To, GrpStart, Reader
  <2> QED
    BY <1>1, <1>2, <1>3, <1>4, <1>5, <1>7, <2>1, <2>2, <2>3
    DEF ThreadsTyped, ThreadsInv, Quotient, Dividing, Created, Mutex, Joined, Reader
<1> QED BY <1>6, <1>7

LEMMA CallStep ==
    ASSUME NEW c \in Calls, NEW pc \in {"create", "join", "out", "returned"}, NEW retval \in 0 .. 2
    PROVE  [c EXCEPT !.pc = pc, !.retval = retval] \in Calls
BY DEF Calls

\* Creating, joining and ending: the bitmap stays as it is.
LEMMA CreateThreads ==
    ASSUME ThreadsTyped, ThreadsInv, CreateThread
    PROVE  ThreadsTyped' /\ ThreadsInv'
<1> DEFINE i == Cardinality(DOMAIN reader)
<1>1. call.pc = "create" /\ InThreads /\ call.retval = 0 /\ bitmap' = bitmap /\ holder' = holder
  BY DEF CreateThread, ThreadsInv, Created
<1>2. PICK k \in 0 .. call.num - 1 : DOMAIN reader = 0 .. k - 1
  BY <1>1 DEF ThreadsInv, Created
<1>3. i = k
  <2>1. k \in Int /\ k - 1 \in Int /\ k >= 0
    BY DEF ThreadsTyped, Calls
  <2>2. Cardinality(0 .. k - 1) = IF 0 > k - 1 THEN 0 ELSE k - 1 - 0 + 1
    BY <2>1, FS_Interval
  <2> QED BY <1>2, <2>1, <2>2
<1> HIDE DEF i
<1>4. /\ call \in Calls /\ call.groups \in Nat \ {0} /\ call.num \in Nat \ {0} /\ call.average \in Nat
      /\ call.average * call.num <= call.groups /\ call.map = TRUE
  BY <1>1 DEF ThreadsTyped, ThreadsInv, Quotient, Dividing, Calls, Joined
<1>5. CASE /\ reader' = [t \in 0 .. i |-> IF t < i THEN reader[t]
                                          ELSE Reader(GrpStart(i, call.average),
                                                      GrpEnd(i, call.num, call.average, call.groups))]
           /\ call' = IF i + 1 = call.num THEN [call EXCEPT !.pc = "join"] ELSE call
  <2>1. DOMAIN reader' = 0 .. k /\ \A t \in 0 .. k - 1 : reader'[t] = reader[t]
    BY <1>2, <1>3, <1>5
  <2>2. reader'[k] = Reader(GrpStart(k, call.average), GrpEnd(k, call.num, call.average, call.groups))
    BY <1>2, <1>3, <1>5
  <2>3. /\ call' \in Calls /\ call'.groups = call.groups /\ call'.num = call.num
        /\ call'.average = call.average /\ call'.map = TRUE /\ call'.retval = 0
        /\ call'.pc = IF k + 1 = call.num THEN "join" ELSE "create"
    BY <1>1, <1>3, <1>4, <1>5 DEF Calls
  <2>4. InThreads' /\ \A t : From(t)' = From(t) /\ To(t)' = To(t)
    BY <1>1, <2>3 DEF InThreads, From, To
  <2>5. /\ GrpStart(k, call.average) \in Nat
        /\ GrpEnd(k, call.num, call.average, call.groups) \in Int
    BY <1>2, <1>4, Ranges
  <2>6. reader' \in [DOMAIN reader' -> Readers]
    <3>1. \A t \in 0 .. k - 1 : reader[t] \in Readers
      BY <1>2 DEF ThreadsTyped
    <3>2. reader'[k] \in Readers
      BY <2>2, <2>5 DEF Reader, Readers
    <3>3. \A t \in 0 .. k : reader'[t] \in Readers
      BY <1>2, <2>1, <3>1, <3>2
    <3> QED BY <1>3, <1>5, <2>1, <3>3
  <2>7. \A t \in DOMAIN reader' : Progress(t)'
    <3>1. Progress(k)'
      BY <1>1, <2>2, <2>4, <2>5 DEF Progress, From, To, Reader
    <3>2. ASSUME NEW t \in 0 .. k - 1 PROVE Progress(t)'
      BY <1>1, <1>2, <2>1, <2>4 DEF Progress, ThreadsInv
    <3> QED BY <1>2, <2>1, <3>1, <3>2
  <2>8. Mutex'
    BY <1>1, <1>2, <2>1, <2>2, <2>3 DEF ThreadsInv, Mutex, Reader
  <2>9. Created'
    <3>1. 0 .. (k + 1) - 1 = 0 .. k /\ (k + 1 = call.num \/ k + 1 \in 0 .. call.num - 1)
      BY <1>2, <1>4
    <3>2. 0 .. k \subseteq 0 .. call.num - 1 /\ (k + 1 = call.num => 0 .. k = 0 .. call.num - 1)
      BY <1>2, <1>4
    <3> HIDE DEF i
    <3> QED BY <2>1, <2>3, <2>4, <3>1, <3>2 DEF Created
  <2> QED
    BY <1>1, <1>4, <2>3, <2>6, <2>7, <2>8, <2>9
    DEF ThreadsTyped, ThreadsInv, Quotient, Dividing, Joined
<1>6. CASE call' = [call EXCEPT !.pc = "join", !.retval = 1] /\ reader' = reader
  <2>1. /\ call' \in Calls /\ call'.groups = call.groups /\ call'.num = call.num
        /\ call'.average = call.average /\ call'.map = TRUE /\ call'.retval = 1
        /\ call'.pc = "join"
    <3>1. call' \in Calls
      <4>1. 1 \in 0 .. 2 /\ "join" \in {"create", "join", "out", "returned"}
        OBVIOUS
      <4> QED BY <1>4, <1>6, <4>1, CallStep
    <3> QED BY <1>4, <1>6, <3>1 DEF Calls
  <2>2. InThreads' /\ \A t : From(t)' = From(t) /\ To(t)' = To(t)
    BY <1>1, <2>1 DEF InThreads, From, To
  <2>3. \A t \in DOMAIN reader : Progress(t)'
    BY <1>1, <1>6, <2>2 DEF ThreadsInv, Progress
  <2> QED
    BY <1>1, <1>4, <1>6, <2>1, <2>2, <2>3
    DEF ThreadsTyped, ThreadsInv, Quotient, Dividing, Joined, Mutex, Created
<1> QED
  BY <1>1, <1>5, <1>6 DEF CreateThread, i

LEMMA EndThreads ==
    ASSUME ThreadsTyped, ThreadsInv, NoMemory \/ Join \/ Out
    PROVE  ThreadsTyped' /\ ThreadsInv'
<1>1. reader' = reader /\ bitmap' = bitmap /\ holder' = holder
  BY DEF NoMemory, Join, Out
<1>2. /\ call' \in Calls /\ call'.groups = call.groups /\ call'.num = call.num
      /\ call'.average = call.average
      /\ call.pc \in {"create", "join", "alone", "out"} /\ call'.pc \in {"out", "returned"}
  <2>1. call \in Calls
    BY DEF ThreadsTyped
  <2>2. CASE NoMemory
    <3> DEFINE map == FALSE
    <3>1. map \in BOOLEAN /\ call.pc = "create"
      BY <2>2 DEF NoMemory
    <3>2. \/ call' = [call EXCEPT !.pc = "out", !.map = map]
          \/ call' = [call EXCEPT !.pc = "returned", !.retval = 1, !.map = map]
      BY <2>2 DEF NoMemory
    <3> HIDE DEF map
    <3>3. CASE call' = [call EXCEPT !.pc = "out", !.map = map]
      BY <2>1, <3>1, <3>3 DEF Calls
    <3>4. CASE call' = [call EXCEPT !.pc = "returned", !.retval = 1, !.map = map]
      <4>1. call' \in Calls
        <5> DEFINE c == [call EXCEPT !.pc = "returned", !.retval = 1]
        <5>1. c \in Calls
          <6>1. 1 \in 0 .. 2 /\ "returned" \in {"create", "join", "out", "returned"}
            OBVIOUS
          <6> QED BY <2>1, <6>1, CallStep
        <5>2. call' = [c EXCEPT !.map = map]
          BY <3>4
        <5> HIDE DEF c
        <5> QED BY <3>1, <5>1, <5>2 DEF Calls
      <4> QED BY <2>1, <3>1, <3>4, <4>1 DEF Calls
    <3> QED BY <3>2, <3>3, <3>4
  <2>3. CASE Join
    <3> DEFINE failed == {t \in DOMAIN reader : reader[t].retval # 0}
               retval == IF call.retval = 0 /\ failed # {} THEN 2 ELSE call.retval
    <3>1. retval \in 0 .. 2
      BY <2>1 DEF Calls
    <3>2. call' = [call EXCEPT !.pc = "out", !.retval = retval] /\ call.pc \in {"join", "alone"}
      BY <2>1, <2>3 DEF Join
    <3> HIDE DEF retval
    <3> QED BY <2>1, <3>1, <3>2, CallStep DEF Calls
  <2>4. CASE Out
    <3> DEFINE map == call.map /\ call.retval = 0
    <3>1. map \in BOOLEAN
      OBVIOUS
    <3>2. call' = [call EXCEPT !.pc = "returned", !.cache = "on", !.map = map] /\ call.pc = "out"
      BY <2>4 DEF Out
    <3> HIDE DEF map
    <3> QED BY <2>1, <3>1, <3>2 DEF Calls
  <2> QED BY <2>2, <2>3, <2>4
<1>3. (InThreads' <=> InThreads) /\ \A t : From(t)' = From(t) /\ To(t)' = To(t)
  BY <1>2 DEF InThreads, From, To
<1>4. \A t \in DOMAIN reader : Progress(t)'
  BY <1>1, <1>3 DEF ThreadsInv, Progress
<1>5. \A t \in DOMAIN reader : reader[t].pc = "done"
  <2>1. CASE NoMemory
    BY <2>1, EmptyReaders DEF NoMemory
  <2>2. CASE Join
    BY <2>2 DEF Join
  <2>3. CASE Out
    BY <2>3 DEF Out, ThreadsInv, Joined
  <2> QED BY <2>1, <2>2, <2>3
<1>6. Joined'
  <2>1. CASE NoMemory
    <3>1. reader' = <<>> /\ (call'.pc = "returned" /\ call'.retval # 0 => call'.map = FALSE)
      BY <1>1, <2>1 DEF NoMemory, ThreadsTyped, Calls
    <3> QED BY <1>1, <1>2, <1>5, <3>1 DEF Joined
  <2>2. CASE Join
    <3>1. call'.pc = "out" /\ call'.map = TRUE
      BY <2>2 DEF Join, ThreadsTyped, Calls, ThreadsInv, Joined
    <3>2. call'.retval = 0 => call.retval = 0 /\ \A t \in DOMAIN reader : reader[t].retval = 0
      BY <2>2 DEF Join, ThreadsTyped, Calls
    <3>3. call'.retval = 0 => DOMAIN reader = IF InThreads THEN 0 .. call.num - 1 ELSE {0}
      BY <2>2, <3>2 DEF Join, ThreadsInv, Created
    <3> QED BY <1>1, <1>2, <1>3, <1>5, <3>1, <3>2, <3>3 DEF Joined
  <2>3. CASE Out
    <3>1. call'.pc = "returned" /\ call'.retval = call.retval /\ call.pc = "out"
      BY <2>3 DEF Out, ThreadsTyped, Calls
    <3>2. call.retval # 0 => call'.map = FALSE
      BY <2>3 DEF Out, ThreadsTyped, Calls
    <3>3. call.retval = 0 /\ call.map = TRUE => call'.map = TRUE
      BY <2>3 DEF Out, ThreadsTyped, Calls
    <3> QED BY <1>1, <1>2, <1>3, <1>5, <3>1, <3>2, <3>3 DEF Joined, ThreadsInv
  <2> QED BY <2>1, <2>2, <2>3
<1>7. Created'
  BY <1>1, <1>2 DEF ThreadsInv, Created
<1>8. Mutex'
  BY <1>1, <1>5 DEF Mutex
<1> QED
  BY <1>1, <1>2, <1>4, <1>6, <1>7, <1>8 DEF ThreadsTyped, ThreadsInv, Quotient, Dividing

-----------------------------------------------------------------------------
(* Steps of a thread                                                       *)

\* What a step of thread t leaves to be shown about the others
LEMMA OtherThreads ==
    ASSUME ThreadsTyped, ThreadsInv, NEW t \in DOMAIN reader, NEW r \in Readers,
           reader' = [reader EXCEPT ![t] = r], call' = call, reader[t].pc # "done",
           bitmap' \subseteq 0 .. call.groups - 1, Progress(t)', Mutex',
           \A u \in DOMAIN reader : u # t => Progress(u)'
    PROVE  ThreadsTyped' /\ ThreadsInv'
<1>1. DOMAIN reader' = DOMAIN reader /\ reader' \in [DOMAIN reader -> Readers]
  BY DEF ThreadsTyped
<1>2. (InThreads' <=> InThreads) /\ call.pc \notin {"out", "returned"}
  BY DEF InThreads, ThreadsInv, Joined
<1>3. bitmap' \subseteq Nat
  BY DEF ThreadsTyped, Calls
<1>4. Created' /\ Quotient' /\ Joined'
  BY <1>1, <1>2 DEF ThreadsInv, Created, Quotient, Dividing, Joined
<1>5. \A u \in DOMAIN reader' : Progress(u)'
  BY <1>1
<1> QED
  BY <1>1, <1>3, <1>4, <1>5 DEF ThreadsTyped, ThreadsInv

LEMMA ReadGroups ==
    ASSUME ThreadsTyped, ThreadsInv, NEW t \in DOMAIN reader, ReadGroup(t)
    PROVE  ThreadsTyped' /\ ThreadsInv'
<1>1. reader[t] \in Readers /\ reader[t].pc = "read" /\ Progress(t) /\ DOMAIN reader' = DOMAIN reader
  BY DEF ReadGroup, ThreadsTyped, ThreadsInv
<1>2. PICK next \in IF reader[t].at > reader[t].to THEN {"done"} ELSE {"insert", "failed"} :
        reader' = [reader EXCEPT ![t].pc = IF next = "failed" THEN "done" ELSE next,
                                 ![t].retval = IF next = "failed" THEN 2 ELSE 0]
  BY DEF ReadGroup
<1> DEFINE pc == IF next = "failed" THEN "done" ELSE next
           retval == IF next = "failed" THEN 2 ELSE 0
           r == [reader[t] EXCEPT !.pc = pc, !.retval = retval]
<1>3. /\ pc \in {"done", "insert"} /\ retval \in {0, 2}
      /\ pc = "insert" => reader[t].at <= reader[t].to
      /\ pc = "done" /\ retval = 0 => reader[t].at > reader[t].to
  BY <1>1, <1>2 DEF Readers
<1>4. reader' = [reader EXCEPT ![t] = r]
  BY <1>2
<1> HIDE DEF pc, retval
<1>5. r \in Readers /\ r.at = reader[t].at /\ r.to = reader[t].to /\ r.pc = pc /\ r.retval = retval
  BY <1>1, <1>3 DEF Readers
<1> HIDE DEF r
<1>6. /\ reader'[t] = r /\ \A u \in DOMAIN reader : u # t => reader'[u] = reader[u]
      /\ call' = call /\ bitmap' = bitmap /\ holder' = holder
  BY <1>4 DEF ReadGroup, ThreadsTyped
<1>7. \A u : From(u)' = From(u) /\ To(u)' = To(u)
  BY <1>6 DEF From, To, InThreads
<1>8. Progress(t)'
  BY <1>1, <1>3, <1>5, <1>6, <1>7 DEF Progress
<1>9. \A u \in DOMAIN reader : u # t => Progress(u)'
  BY <1>6, <1>7 DEF ThreadsInv, Progress
<1>10. Mutex'
  <2>1. r.pc # "inserting"
    BY <1>3, <1>5
  <2> QED BY <1>1, <1>6, <2>1 DEF ThreadsInv, Mutex
<1> QED
  BY <1>1, <1>4, <1>5, <1>6, <1>8, <1>9, <1>10, OtherThreads DEF ThreadsInv

\* The mutex is free, or there is only the caller.
LEMMA InsertsBegin ==
    ASSUME ThreadsTyped, ThreadsInv, NEW t \in DOMAIN reader, InsertBegins(t)
    PROVE  ThreadsTyped' /\ ThreadsInv'
<1> DEFINE r == [reader[t] EXCEPT !.pc = "inserting", !.seen = bitmap]
<1>1. /\ reader[t] \in Readers /\ reader[t].pc = "insert" /\ Progress(t) /\ DOMAIN reader' = DOMAIN reader
      /\ bitmap \subseteq Nat
  BY DEF InsertBegins, ThreadsTyped, ThreadsInv
<1>2. reader' = [reader EXCEPT ![t] = r]
  BY DEF InsertBegins
<1>3. /\ r \in Readers /\ r.at = reader[t].at /\ r.to = reader[t].to /\ r.pc = "inserting"
      /\ r.seen = bitmap
  BY <1>1 DEF Readers
<1> HIDE DEF r
<1>4. /\ reader'[t] = r /\ \A u \in DOMAIN reader : u # t => reader'[u] = reader[u]
      /\ call' = call /\ bitmap' = bitmap
  BY <1>2 DEF InsertBegins, ThreadsTyped
<1>5. \A u : From(u)' = From(u) /\ To(u)' = To(u)
  BY <1>4 DEF From, To, InThreads
<1>6. Progress(t)'
  BY <1>1, <1>3, <1>4, <1>5 DEF Progress
<1>7. \A u \in DOMAIN reader : u # t => Progress(u)'
  BY <1>4, <1>5 DEF ThreadsInv, Progress
<1>8. Mutex'
  <2>1. CASE call.pc = "alone"
    <3>1. DOMAIN reader = {0}
      BY <2>1 DEF ThreadsInv, Created
    <3> QED BY <1>1, <1>4, <2>1, <3>1 DEF Mutex
  <2>2. CASE call.pc # "alone"
    <3>1. holder = -1 /\ holder' = t
      BY <2>2 DEF InsertBegins, Takes
    <3>2. t \in Nat /\ \A u \in DOMAIN reader : u \in Nat
      BY DEF ThreadsInv, Created, ThreadsTyped, Calls
    <3>3. \A u \in DOMAIN reader : reader[u].pc # "inserting"
      BY <2>2, <3>1, <3>2 DEF ThreadsInv, Mutex
    <3> QED BY <1>1, <1>4, <3>1, <3>3 DEF Mutex
  <2> QED BY <2>1, <2>2
<1> QED
  BY <1>1, <1>2, <1>3, <1>4, <1>6, <1>7, <1>8, OtherThreads DEF ThreadsInv

\* The thread has seen the bitmap as it still is: no insertion is lost.
LEMMA InsertsEnd ==
    ASSUME ThreadsTyped, ThreadsInv, NEW t \in DOMAIN reader, InsertEnds(t)
    PROVE  ThreadsTyped' /\ ThreadsInv'
<1> DEFINE r == Reader(reader[t].at + 1, reader[t].to)
<1>1. /\ reader[t] \in Readers /\ reader[t].pc = "inserting" /\ Progress(t) /\ DOMAIN reader' = DOMAIN reader
  BY DEF InsertEnds, ThreadsTyped, ThreadsInv
<1>2. reader' = [reader EXCEPT ![t] = r]
  BY DEF InsertEnds
<1>3. /\ r \in Readers /\ r.at = reader[t].at + 1 /\ r.to = reader[t].to /\ r.pc = "read"
  BY <1>1 DEF Readers, Reader
<1> HIDE DEF r
<1>4. /\ reader'[t] = r /\ \A u \in DOMAIN reader : u # t => reader'[u] = reader[u]
      /\ call' = call /\ bitmap' = bitmap \cup {reader[t].at}
  BY <1>1, <1>2 DEF InsertEnds, ThreadsTyped, Progress
<1>5. \A u : From(u)' = From(u) /\ To(u)' = To(u)
  BY <1>4 DEF From, To, InThreads
<1>6. \A u \in DOMAIN reader : u # t => reader[u].pc # "inserting"
  BY <1>1 DEF ThreadsInv, Mutex
<1>7. To(t) <= call.groups - 1 /\ From(t) \in Nat
  <2>1. t \in 0 .. call.num - 1 /\ call.pc # "none"
    BY DEF ThreadsInv, Created
  <2>2. /\ call.groups \in Nat \ {0} /\ call.num \in Nat \ {0} /\ call.average \in Nat
        /\ call.average * call.num <= call.groups
    BY <2>1 DEF ThreadsTyped, Calls, ThreadsInv, Quotient, Dividing
  <2> DEFINE groups == call.groups
             num == call.num
             average == call.average
  <2> HIDE DEF groups, num, average
  <2>3. /\ groups \in Nat \ {0} /\ num \in Nat \ {0} /\ average \in Nat
        /\ average * num <= groups /\ t \in 0 .. num - 1
    BY <2>1, <2>2 DEF groups, num, average
  <2>4. /\ GrpStart(t, average) \in Nat /\ GrpEnd(t, num, average, groups) <= groups - 1
    BY <2>3, Ranges
  <2> QED BY <2>3, <2>4 DEF To, From, groups, num, average
<1>8. bitmap' \subseteq 0 .. call.groups - 1
  <2>1. reader[t].at \in Nat /\ reader[t].at <= reader[t].to /\ reader[t].to = To(t)
    BY <1>1 DEF Progress, Readers
  <2>2. To(t) \in Int /\ call.groups \in Nat
    BY <1>1, <2>1 DEF Readers, ThreadsTyped, Calls
  <2>3. reader[t].at \in 0 .. call.groups - 1
    BY <1>7, <2>1, <2>2
  <2>4. bitmap \subseteq 0 .. call.groups - 1
    BY DEF ThreadsInv
  <2> QED BY <1>4, <2>3, <2>4, Zenon
<1>9. Progress(t)'
  BY <1>1, <1>3, <1>4, <1>5, <1>7 DEF Progress, Readers
<1>10. \A u \in DOMAIN reader : u # t => Progress(u)'
  BY <1>4, <1>5, <1>6 DEF ThreadsInv, Progress
<1>11. Mutex'
  BY <1>1, <1>3, <1>4, <1>6 DEF Mutex
<1> QED
  BY <1>1, <1>2, <1>3, <1>4, <1>8, <1>9, <1>10, <1>11, OtherThreads DEF ThreadsInv

-----------------------------------------------------------------------------
LEMMA ThreadsStep ==
    ThreadsTyped /\ ThreadsInv /\ [ThreadsNext]_threadsVars => ThreadsTyped' /\ ThreadsInv'
<1> SUFFICES ASSUME ThreadsTyped, ThreadsInv, [ThreadsNext]_threadsVars
             PROVE  ThreadsTyped' /\ ThreadsInv'
  OBVIOUS
<1>1. CASE UNCHANGED threadsVars
  BY <1>1 DEF threadsVars, ThreadsTyped, ThreadsInv, Quotient, Dividing, Created, InThreads, Mutex,
              Joined, Progress, From, To
<1> QED
  BY <1>1, BeginThreads, CreateThreads, EndThreads, ReadGroups, InsertsBegin, InsertsEnd DEF ThreadsNext

\* A call that has returned with success and a bitmap has every group in it.
LEMMA AllGroupsRead == ThreadsTyped /\ ThreadsInv => AllGroupsOrNoMap
<1> SUFFICES ASSUME ThreadsTyped, ThreadsInv, call.pc = "returned"
             PROVE  /\ call.retval = 0 /\ reader # <<>> => call.map /\ bitmap = 0 .. call.groups - 1
                    /\ call.retval # 0 => ~call.map
  BY DEF AllGroupsOrNoMap
<1>1. call.retval # 0 => ~call.map
  BY DEF ThreadsInv, Joined
<1>2. ASSUME call.retval = 0, reader # <<>> PROVE call.map /\ bitmap = 0 .. call.groups - 1
  <2>1. /\ call.map /\ bitmap \subseteq 0 .. call.groups - 1
        /\ DOMAIN reader = IF InThreads THEN 0 .. call.num - 1 ELSE {0}
    BY <1>2 DEF ThreadsInv, Joined
  <2>2. \A t \in DOMAIN reader : reader[t] \in Readers /\ Progress(t) /\ reader[t].at > reader[t].to
    BY <1>2 DEF ThreadsInv, Joined, ThreadsTyped, Progress
  <2>3. /\ call.groups \in Nat \ {0} /\ call.num \in Nat \ {0} /\ call.average \in Nat
        /\ call.average * call.num <= call.groups
    BY DEF ThreadsTyped, Calls, ThreadsInv, Quotient, Dividing
  <2>4. ASSUME NEW g \in 0 .. call.groups - 1 PROVE g \in bitmap
    <3>1. CASE InThreads
      <4>1. OneThread(call.groups, call.num, call.average, g)
        BY <2>3, Division
      <4>2. PICK i \in 0 .. call.num - 1 : g \in From(i) .. To(i)
        BY <3>1, <4>1 DEF OneThread, From, To
      <4>3. From(i) \in Nat /\ To(i) \in Int
        BY <2>3, <3>1, Ranges DEF From, To
      <4> QED BY <2>1, <2>2, <3>1, <4>2, <4>3 DEF Progress, Readers
    <3>2. CASE ~InThreads
      <4>1. From(0) = 0 /\ To(0) = call.groups - 1
        BY <3>2 DEF From, To, GrpStart
      <4> QED BY <2>1, <2>2, <2>3, <3>2, <4>1 DEF Progress, Readers
    <3> QED BY <3>1, <3>2
  <2> QED BY <2>1, <2>4
<1> QED BY <1>1, <1>2

\* The threads of ext2fs_rw_bitmaps share out the groups so that each has
\* exactly one reader, and together insert all of them into the bitmap or leave
\* none, for every number of groups and threads and every size of a flex group,
\* whichever reads and pthread_create calls fail: the mutex keeps every
\* insertion.
THEOREM ThreadsReadAllGroups == ThreadsSpec => []ThreadsCorrect
<1>1. ThreadsTyped /\ ThreadsInv => ThreadsCorrect
  BY AllGroupsRead, DividedByQuotient DEF ThreadsCorrect, ThreadsInv
<1> QED
  BY <1>1, InitThreads, ThreadsStep, PTL DEF ThreadsSpec

-----------------------------------------------------------------------------
(* Time based UUIDs (UuidClock).                                           *)

\* Every thread is a process of its own: a lock keeps the others out.
OwnProcesses == \A t, u \in Stampers : ProcessOf[t] = ProcessOf[u] => t = u

States == [seq : 0 .. ClockSeqs - 1, last : Nat, adj : 0 .. PerTick, changes : Nat]
Threads == [pc : {"idle", "asking", "asked", "alone", "try", "stamped", "done"}, left : Int,
            uu : Nat, seq : 0 .. ClockSeqs - 1, num : Nat, state : States, client : Stampers]
Uuids == Nat \X (0 .. ClockSeqs - 1)

UuidTyped ==
    /\ tod \in Nat \ {0}
    /\ stateFile \in SUBSET States /\ \A s, r \in stateFile : s = r
    /\ thread \in [Stampers -> Threads]
    /\ issued \subseteq Uuids /\ brim \subseteq Uuids

\* One thread at a time is between the lock and the write of the state.
Exclusive ==
    \A t \in Stampers : thread[t].pc \in {"try", "stamped"} <=> locker = ProcessOf[t]

\* The UUIDs that t may still hand out
Count(num) == IF num > 1 THEN num ELSE 1
Span(first, count, seq) == (first .. first + count - 1) \X {seq}

Own(t) ==
    IF thread[t].pc = "idle" THEN Span(thread[t].uu + 1, thread[t].left, thread[t].seq)
    ELSE IF thread[t].pc \in {"stamped", "done"}
    THEN Span(thread[t].uu, Count(thread[t].num), thread[t].seq)
    ELSE {}

\* The last time stamp that a state remembers
Top(s) == s.last * PerTick + s.adj

\* The UUID u is not newer than the state s: of the same clock sequence and not
\* above its time stamp, or of a sequence some changes back.
Covers(s, u) ==
    \E k \in 0 .. s.changes : /\ (u[2] + k) % ClockSeqs = s.seq
                              /\ k = 0 => u[1] <= Top(s)

\* A state that has used up its tick has been noted.
Noted(s) == s.adj = PerTick => <<Top(s), s.seq>> \in brim

Fresh(s) == s.changes < ClockSeqs

\* What is in the file covers all that was written to it before.
FileCovers ==
    /\ stateFile = {} => issued = {} /\ \A t \in Stampers : thread[t].pc # "stamped" => Own(t) = {}
    /\ \A s \in stateFile :
         /\ Noted(s)
         /\ Fresh(s) => /\ \A u \in issued : Covers(s, u)
                        /\ \A t \in Stampers :
                             thread[t].pc # "stamped" => \A u \in Own(t) : Covers(s, u)

\* A thread works on the state that is in the file, or one it has made up.
TriesLatest(t) ==
    thread[t].pc = "try" =>
        IF stateFile = {} THEN thread[t].state.last = 0 /\ thread[t].state.adj = 0
        ELSE thread[t].state \in stateFile

StampedCovers(t) ==
    thread[t].pc = "stamped" =>
        /\ Noted(thread[t].state)
        /\ \A s \in stateFile : s.changes <= thread[t].state.changes
        /\ Fresh(thread[t].state) =>
             /\ \A u \in Own(t) : Covers(thread[t].state, u)
             /\ \A s \in stateFile : \A u \in Uuids : Covers(s, u) => Covers(thread[t].state, u)

\* What a thread may hand out is nobody else's.
Reserve(t) == Own(t) \cap issued \subseteq brim
Apart(t, u) == Own(t) \cap Own(u) \subseteq brim

Usable == \A s \in stateFile : Fresh(s)
Valid(t) == thread[t].pc = "stamped" => Fresh(thread[t].state)

Separate ==
    Usable => \A t \in Stampers :
                  Valid(t) => /\ Reserve(t)
                              /\ \A u \in Stampers : t # u /\ Valid(u) => Apart(t, u)

UuidInv ==
    /\ UuidTyped /\ Exclusive /\ FileCovers
    /\ \A t \in Stampers : TriesLatest(t) /\ StampedCovers(t)
    /\ Separate
    /\ Usable => twice \subseteq brim

-----------------------------------------------------------------------------
(* Arithmetic of the clock sequences                                       *)

LEMMA OneTurn ==
    ASSUME NEW c \in Nat \ {0}, NEW x \in 0 .. 2 * c - 1
    PROVE  x % c = IF x < c THEN x ELSE x - c
<1>1. x < c => x % c = x
  OBVIOUS
<1>2. ~(x < c) => x % c = x - c
  OBVIOUS
<1> QED BY <1>1, <1>2

LEMMA Remainder ==
    ASSUME NEW x \in Nat, NEW c \in Nat \ {0}
    PROVE  /\ x % c \in 0 .. c - 1 /\ x \div c \in Nat /\ (x \div c) * c \in Nat
           /\ x - (x \div c) * c = x % c
OBVIOUS

LEMMA Distributes ==
    ASSUME NEW x \in Nat, NEW y \in Nat, NEW c \in Nat
    PROVE  (x + y) * c = x * c + y * c
OBVIOUS

\* Counting on from a number counted to
LEMMA NextTurn ==
    ASSUME NEW c \in Nat \ {0}, NEW q \in 0 .. c - 1, NEW k \in 0 .. c - 1
    PROVE  (((q + k) % c) + 1) % c = (q + k + 1) % c
<1>1. PICK x \in 0 .. 2 * c - 1 : x = q + k
  OBVIOUS
<1>2. PICK y \in 0 .. 2 * c - 1 : y = q + k + 1
  OBVIOUS
<1>3. x % c = IF x < c THEN x ELSE x - c
  BY OneTurn
<1>4. y % c = IF y < c THEN y ELSE y - c
  BY OneTurn
<1>5. PICK z \in 0 .. 2 * c - 1 : z = (x % c) + 1
  BY <1>3
<1>6. z % c = IF z < c THEN z ELSE z - c
  BY OneTurn
<1>7. z % c = y % c
  BY <1>1, <1>2, <1>3, <1>4, <1>5, <1>6
<1> QED BY <1>1, <1>2, <1>5, <1>7

\* Less than a turn further is elsewhere.
LEMMA NotATurn ==
    ASSUME NEW c \in Nat \ {0}, NEW q \in 0 .. c - 1, NEW k \in 1 .. c - 1
    PROVE  (q + k) % c # q
<1>1. PICK x \in 0 .. 2 * c - 1 : x = q + k
  OBVIOUS
<1>2. x % c = IF x < c THEN x ELSE x - c
  BY OneTurn
<1> QED BY <1>1, <1>2

LEMMA Constants ==
    /\ ClockSeqs \in Nat \ {0} /\ PerTick \in Nat \ {0, 1} /\ BulkSize \in Nat \ {0}
    /\ Uuidd \in Stampers /\ Callers \subseteq Stampers
    /\ \A t \in Stampers : ProcessOf[t] # NoProcess
BY UuidAssumption DEF Stampers

-----------------------------------------------------------------------------
(* One pass of get_clock                                                   *)

\* What try_again makes of a state
LEMMA StampedMeans ==
    ASSUME NEW s \in States, NEW now \in Nat \ {0}, NEW n \in Stamped(s, now)
    PROVE  /\ n \in States /\ n.last = now
           /\ \/ /\ n.seq = (s.seq + 1) % ClockSeqs /\ n.changes = s.changes + 1
              \/ /\ n.seq = s.seq /\ n.changes = s.changes
                 /\ \/ now > s.last /\ n.adj = 0
                    \/ now = s.last /\ n.adj = s.adj + 1
<1>1. CASE now < s.last
  <2>1. (s.seq + 1) % ClockSeqs \in 0 .. ClockSeqs - 1
    BY Constants DEF States
  <2>2. n = ClockState((s.seq + 1) % ClockSeqs, now, 0, s.changes + 1)
    BY <1>1 DEF Stamped
  <2> QED BY <2>1, <2>2, Constants DEF ClockState, States
<1>2. CASE now > s.last
  <2>1. n = ClockState(s.seq, now, 0, s.changes)
    BY <1>2 DEF Stamped, States
  <2> QED BY <1>2, <2>1, Constants DEF ClockState, States
<1>3. CASE now = s.last
  <2>1. ~(s.adj >= PerTick) /\ n = [s EXCEPT !.adj = @ + 1]
    BY <1>3 DEF Stamped, States
  <2> QED BY <1>3, <2>1, Constants DEF States
<1> QED BY <1>1, <1>2, <1>3 DEF States

\* What the reservation of num time stamps makes of it
LEMMA ReservedMeans ==
    ASSUME NEW n \in States, NEW num \in Nat
    PROVE  LET r == Reserved(n, num) IN
           /\ r \in States /\ r.seq = n.seq /\ r.changes = n.changes
           /\ Top(r) = Top(n) + Count(num) - 1
           /\ r.adj = PerTick => num <= 1 /\ r = n
<1>1. CASE num > 1
  <2> DEFINE x == n.adj + num - 1
             r == Reserved(n, num)
  <2>1. r = [n EXCEPT !.last = @ + x \div PerTick, !.adj = x % PerTick]
    BY <1>1 DEF Reserved
  <2>2. x \in Nat /\ PerTick \in Nat \ {0}
    BY <1>1, Constants DEF States
  <2> HIDE DEF x
  <2>3. PICK d \in Nat, m \in 0 .. PerTick - 1 :
          /\ d = x \div PerTick /\ m = x % PerTick
          /\ d * PerTick \in Nat /\ d * PerTick + m = x
    <3>1. /\ x % PerTick \in 0 .. PerTick - 1 /\ x \div PerTick \in Nat
          /\ (x \div PerTick) * PerTick \in Nat /\ x - (x \div PerTick) * PerTick = x % PerTick
      BY <2>2, Remainder
    <3> QED BY <2>2, <3>1
  <2>4. r = [n EXCEPT !.last = @ + d, !.adj = m]
    BY <2>1, <2>3
  <2>5. r \in States /\ r.seq = n.seq /\ r.changes = n.changes
        /\ r.last = n.last + d /\ r.adj = m /\ n.last \in Nat
    <3>1. n.last \in Nat /\ n.last + d \in Nat /\ m \in 0 .. PerTick
      BY <2>2 DEF States
    <3> HIDE DEF r
    <3> QED BY <2>4, <3>1 DEF States
  <2>6. (n.last + d) * PerTick = n.last * PerTick + d * PerTick
    BY <2>2, <2>5, Distributes
  <2>7. n.last * PerTick \in Nat
    BY <2>2, <2>5
  <2>8. Top(r) = n.last * PerTick + x
    BY <2>2, <2>3, <2>5, <2>6, <2>7 DEF Top
  <2>9. Top(r) = Top(n) + Count(num) - 1
    BY <1>1, <2>2, <2>7, <2>8 DEF Top, Count, x, States
  <2> QED BY <2>2, <2>5, <2>9
<1>2. CASE ~(num > 1)
  <2>1. Top(n) \in Nat
    BY Constants DEF Top, States
  <2> QED BY <1>2, <2>1 DEF Reserved, Count
<1> QED BY <1>1, <1>2

LEMMA TopType == ASSUME NEW s \in States PROVE Top(s) \in Nat
  BY Constants DEF Top, States

\* A state with the time stamps that get_clock has taken from s at the time now
\* covers what s does, and them; and of what s covers they have at most its own
\* time stamp, if that was one more than its tick had room for.
LEMMA TakenCovers ==
    ASSUME NEW s \in States, NEW now \in Nat \ {0}, NEW n \in Stamped(s, now), NEW num \in Nat,
           NEW r, r = Reserved(n, num), NEW uu, uu = now * PerTick + n.adj
    PROVE  /\ r \in States /\ uu \in Nat /\ uu = Top(n) /\ r.seq = n.seq
           /\ s.changes <= r.changes
           /\ r.adj = PerTick => n.adj = PerTick /\ num <= 1 /\ Top(r) = uu
           /\ Fresh(r) =>
                /\ Fresh(s)
                /\ \A u \in Uuids : Covers(s, u) => Covers(r, u)
                /\ \A u \in Span(uu, Count(num), n.seq) :
                     /\ u \in Uuids /\ Covers(r, u)
                     /\ Covers(s, u) => s.adj = PerTick /\ u = <<Top(s), s.seq>>
<1>1. /\ n \in States /\ n.last = now
      /\ \/ /\ n.seq = (s.seq + 1) % ClockSeqs /\ n.changes = s.changes + 1
         \/ /\ n.seq = s.seq /\ n.changes = s.changes
            /\ \/ now > s.last /\ n.adj = 0
               \/ now = s.last /\ n.adj = s.adj + 1
  BY StampedMeans
<1>2. /\ r \in States /\ r.seq = n.seq /\ r.changes = n.changes
      /\ Top(r) = Top(n) + Count(num) - 1
      /\ r.adj = PerTick => num <= 1 /\ r = n
  BY <1>1, ReservedMeans
<1>3. uu = Top(n) /\ uu \in Nat /\ Top(r) \in Nat /\ Top(s) \in Nat /\ Top(n) \in Nat
  BY <1>1, <1>2, TopType DEF Top
<1>4. s.changes \in Nat /\ s.seq \in 0 .. ClockSeqs - 1 /\ n.seq \in 0 .. ClockSeqs - 1
      /\ Count(num) \in Nat \ {0}
  BY <1>1 DEF States, Count
<1>5. ASSUME Fresh(r) PROVE Fresh(s) /\ s.changes < ClockSeqs
  BY <1>1, <1>2, <1>4, <1>5, Constants DEF Fresh
<1>6. n.seq = s.seq /\ n.changes = s.changes => uu >= Top(s) /\ (uu = Top(s) => s.adj = PerTick)
  <2>1. s.last \in Nat /\ s.adj \in 0 .. PerTick /\ PerTick \in Nat \ {0}
    BY Constants DEF States
  <2>2. ASSUME now > s.last, n.adj = 0
        PROVE  uu >= Top(s) /\ (uu = Top(s) => s.adj = PerTick)
    <3>1. PICK d \in Nat : now = s.last + 1 + d
      <4>1. now - s.last - 1 \in Nat /\ now = s.last + 1 + (now - s.last - 1)
        BY <2>1, <2>2
      <4> QED BY <4>1
    <3>2. (s.last + (1 + d)) * PerTick = s.last * PerTick + (1 + d) * PerTick
      BY <2>1, Distributes
    <3>3. (1 + d) * PerTick = 1 * PerTick + d * PerTick
      BY <2>1, Distributes
    <3>4. s.last * PerTick \in Nat /\ d * PerTick \in Nat
      BY <2>1
    <3>5. now * PerTick = s.last * PerTick + PerTick + d * PerTick
      <4>1. now = s.last + (1 + d)
        BY <2>1, <3>1
      <4>2. now * PerTick = s.last * PerTick + (1 * PerTick + d * PerTick)
        BY <3>2, <3>3, <4>1
      <4> QED BY <2>1, <3>4, <4>2
    <3>6. PICK a \in Nat, b \in Nat : a = s.last * PerTick /\ b = d * PerTick
      BY <3>4
    <3>7. uu = a + PerTick + b + 0
      BY <2>2, <3>5, <3>6
    <3>8. Top(s) = a + s.adj
      BY <3>6 DEF Top
    <3> QED BY <2>1, <3>7, <3>8
  <2>3. ASSUME now = s.last, n.adj = s.adj + 1
        PROVE  uu >= Top(s) /\ uu # Top(s)
    <3>1. s.last * PerTick \in Nat
      BY <2>1
    <3> QED BY <2>1, <2>3, <3>1 DEF Top
  <2>4. n.changes = s.changes => ~(n.changes = s.changes + 1)
    BY <1>4
  <2> QED BY <1>1, <2>2, <2>3, <2>4
<1>7. ASSUME Fresh(r), NEW u \in Uuids, NEW k \in 0 .. s.changes,
             (u[2] + k) % ClockSeqs = s.seq, k = 0 => u[1] <= Top(s)
      PROVE  /\ Covers(r, u)
             /\ u[2] = n.seq /\ u[1] >= uu => s.adj = PerTick /\ u = <<Top(s), s.seq>>
  <2>1. u[1] \in Nat /\ u[2] \in 0 .. ClockSeqs - 1 /\ u = <<u[1], u[2]>>
    BY DEF Uuids
  <2>2. k \in 0 .. ClockSeqs - 1
    BY <1>4, <1>5, <1>7, Constants
  <2>3. CASE n.seq = (s.seq + 1) % ClockSeqs /\ n.changes = s.changes + 1
    <3>1. k + 1 \in 1 .. ClockSeqs - 1 /\ k + 1 \in 0 .. r.changes /\ k + 1 # 0
      BY <1>2, <1>4, <1>7, <2>2, <2>3, Constants DEF Fresh
    <3>2. (u[2] + k + 1) % ClockSeqs = n.seq
      BY <1>7, <2>1, <2>2, <2>3, NextTurn, Constants
    <3>3. PICK m \in 1 .. ClockSeqs - 1 : m = k + 1
      BY <3>1
    <3>4. u[2] + m = u[2] + k + 1
      BY <2>1, <3>3
    <3>5. (u[2] + m) % ClockSeqs = n.seq
      BY <3>2, <3>4
    <3>6. Covers(r, u)
      BY <1>2, <3>1, <3>3, <3>5 DEF Covers
    <3>7. u[2] # n.seq
      BY <2>1, <3>5, NotATurn, Constants
    <3> QED BY <3>6, <3>7
  <2>4. CASE n.seq = s.seq /\ n.changes = s.changes
    <3>1. uu >= Top(s) /\ (uu = Top(s) => s.adj = PerTick)
      BY <1>6, <2>4
    <3>2. Top(r) >= uu
      BY <1>2, <1>3, <1>4
    <3>3. Covers(r, u)
      BY <1>2, <1>3, <1>7, <2>1, <2>4, <3>1, <3>2 DEF Covers
    <3>4. ASSUME u[2] = n.seq, u[1] >= uu PROVE s.adj = PerTick /\ u = <<Top(s), s.seq>>
      <4>1. k = 0
        <5>1. CASE k # 0
          <6>1. k \in 1 .. ClockSeqs - 1
            BY <2>2, <5>1
          <6> QED BY <1>7, <2>1, <2>4, <3>4, <6>1, NotATurn, Constants
        <5> QED BY <5>1
      <4>2. u[1] = Top(s) /\ uu = Top(s)
        BY <1>3, <1>7, <2>1, <3>1, <3>4, <4>1
      <4> QED BY <2>1, <2>4, <3>1, <3>4, <4>2
    <3> QED BY <3>3, <3>4
  <2> QED BY <1>1, <2>3, <2>4
<1>8. ASSUME Fresh(r), NEW u \in Span(uu, Count(num), n.seq)
      PROVE  /\ u \in Uuids /\ Covers(r, u)
             /\ Covers(s, u) => s.adj = PerTick /\ u = <<Top(s), s.seq>>
  <2>1. u[1] \in uu .. uu + Count(num) - 1 /\ u[2] = n.seq /\ u = <<u[1], u[2]>>
    BY <1>8 DEF Span
  <2>2. u \in Uuids /\ u[1] >= uu /\ u[1] <= Top(r)
    BY <1>2, <1>3, <1>4, <2>1 DEF Uuids
  <2>3. (u[2] + 0) % ClockSeqs = r.seq
    <3>1. u[2] + 0 = n.seq
      BY <1>4, <2>1
    <3>2. PICK q \in 0 .. 2 * ClockSeqs - 1 : q = n.seq /\ q < ClockSeqs
      BY <1>4, Constants
    <3>3. n.seq % ClockSeqs = n.seq
      BY <3>2, OneTurn, Constants
    <3> QED BY <1>2, <3>1, <3>3
  <2>4. Covers(r, u)
    <3>1. 0 \in 0 .. r.changes
      BY <1>2 DEF States
    <3> QED BY <2>2, <2>3, <3>1 DEF Covers
  <2> QED BY <1>7, <1>8, <2>1, <2>2, <2>4 DEF Covers
<1> QED
  <2>1. s.changes <= r.changes
    BY <1>1, <1>2, <1>4
  <2>2. Fresh(r) => \A u \in Uuids : Covers(s, u) => Covers(r, u)
    BY <1>7 DEF Covers
  <2> QED BY <1>1, <1>2, <1>3, <1>5, <1>8, <2>1, <2>2

-----------------------------------------------------------------------------
(* Types and the lock                                                      *)

LEMMA OutsideType == Outside \in Threads /\ NoState \in States
<1>1. 0 \in 0 .. ClockSeqs - 1 /\ 0 \in 0 .. PerTick /\ Uuidd \in Stampers
  BY Constants
<1> QED BY <1>1 DEF Outside, Threads, States, NoState, ClockState

LEMMA OwnType ==
    ASSUME NEW t \in Stampers, thread[t] \in Threads PROVE Own(t) \subseteq Uuids
<1>1. /\ thread[t].uu \in Nat /\ thread[t].left \in Int /\ thread[t].num \in Nat
      /\ thread[t].seq \in 0 .. ClockSeqs - 1
  BY DEF Threads
<1>2. Count(thread[t].num) \in Nat \ {0}
  BY <1>1 DEF Count
<1> QED BY <1>1, <1>2 DEF Own, Span, Uuids

LEMMA StateReadType ==
    ASSUME UuidTyped, NEW s \in StateRead
    PROVE  /\ s \in States
           /\ IF stateFile = {} THEN s.last = 0 /\ s.adj = 0 ELSE s \in stateFile
<1>1. CASE stateFile = {}
  <2>1. PICK seq \in {0, ClockSeqs - 1} : s = ClockState(seq, 0, 0, 0)
    BY <1>1 DEF StateRead
  <2>2. seq \in 0 .. ClockSeqs - 1 /\ 0 \in 0 .. PerTick
    BY <2>1, Constants
  <2> QED BY <1>1, <2>1, <2>2 DEF ClockState, States
<1> QED BY <1>1 DEF StateRead, UuidTyped

LEMMA InitUuid == UuidInit => UuidInv
<1> SUFFICES ASSUME UuidInit PROVE UuidInv
  OBVIOUS
<1>1. \A t \in Stampers : thread[t] = Outside
  BY DEF UuidInit
<1>2. UuidTyped
  BY OutsideType DEF UuidInit, UuidTyped
<1>3. \A t \in Stampers : Own(t) = {}
  BY <1>1 DEF Own, Span, Outside
<1>4. Exclusive
  BY <1>1, Constants DEF UuidInit, Exclusive, Outside
<1>5. \A t \in Stampers : thread[t].pc = "idle"
  BY <1>1 DEF Outside
<1> QED BY <1>2, <1>3, <1>4, <1>5 DEF UuidInit, UuidInv, FileCovers, TriesLatest, StampedCovers,
                                      Separate, Reserve, Apart, Usable

\* Who changes nothing that is about t
LEMMA SameThread ==
    ASSUME NEW t, thread'[t] = thread[t]
    PROVE  Own(t)' = Own(t) /\ Valid(t)' = Valid(t)
BY DEF Own, Valid

-----------------------------------------------------------------------------
(* Steps that give nobody a UUID                                           *)

\* Nobody has more to hand out, and what is being written stays or is lost.
Idles ==
    /\ UNCHANGED <<stateFile, issued, twice, brim>>
    /\ \A t \in Stampers :
         /\ \/ Own(t)' = {}
            \/ Own(t)' = Own(t) /\ (thread[t].pc = "stamped" => thread'[t] = thread[t])
         /\ thread'[t].pc = "stamped" => thread'[t] = thread[t]
         /\ TriesLatest(t)'

LEMMA IdleSteps ==
    ASSUME UuidInv, UuidTyped', Exclusive', Idles
    PROVE  UuidInv'
<1>1. stateFile' = stateFile /\ issued' = issued /\ twice' = twice /\ brim' = brim
  BY DEF Idles
<1>2. \A s, u : (Covers(s, u)' <=> Covers(s, u)) /\ (Fresh(s)' <=> Fresh(s)) /\ (Noted(s)' <=> Noted(s))
  BY <1>1 DEF Covers, Fresh, Noted, Top
<1>3. FileCovers'
  <2>1. ASSUME NEW t \in Stampers, thread'[t].pc # "stamped", Own(t)' # {}
        PROVE  thread[t].pc # "stamped" /\ Own(t)' = Own(t)
    BY <2>1 DEF Idles
  <2>2. ASSUME stateFile' = {}
        PROVE  issued' = {} /\ \A t \in Stampers : thread'[t].pc # "stamped" => Own(t)' = {}
    BY <1>1, <2>1, <2>2 DEF UuidInv, FileCovers
  <2>3. ASSUME NEW s \in stateFile, Fresh(s), NEW t \in Stampers, thread'[t].pc # "stamped",
               NEW u \in Own(t)'
        PROVE  Covers(s, u)
    BY <2>1, <2>3 DEF UuidInv, FileCovers
  <2>4. \A s \in stateFile : Noted(s) /\ (Fresh(s) => \A u \in issued : Covers(s, u))
    BY DEF UuidInv, FileCovers
  <2> QED BY <1>1, <1>2, <2>2, <2>3, <2>4 DEF FileCovers
<1>4. ASSUME NEW t \in Stampers PROVE StampedCovers(t)'
  <2> SUFFICES ASSUME thread'[t].pc = "stamped" PROVE StampedCovers(t)'
    BY DEF StampedCovers
  <2>1. thread'[t] = thread[t]
    BY DEF Idles
  <2>2. Own(t)' = Own(t) /\ StampedCovers(t)
    BY <2>1, SameThread DEF UuidInv
  <2> QED BY <1>1, <1>2, <2>1, <2>2 DEF StampedCovers
<1>5. Usable' <=> Usable
  BY <1>1 DEF Usable, Fresh
<1>6. ASSUME NEW t \in Stampers, Valid(t)', Own(t)' # {} PROVE Valid(t) /\ Own(t)' = Own(t)
  BY <1>6 DEF Idles, Valid
<1>7. Separate'
  <2> SUFFICES ASSUME Usable, NEW t \in Stampers, Valid(t)'
               PROVE  Reserve(t)' /\ \A u \in Stampers : t # u /\ Valid(u)' => Apart(t, u)'
    BY <1>5 DEF Separate
  <2>1. CASE Own(t)' = {}
    BY <2>1 DEF Reserve, Apart
  <2>2. CASE Own(t)' # {}
    <3>1. Valid(t) /\ Own(t)' = Own(t)
      BY <1>6, <2>2
    <3>2. Reserve(t)' /\ \A u \in Stampers : t # u /\ Valid(u) => Apart(t, u)
      BY <1>1, <3>1 DEF UuidInv, Separate, Reserve
    <3>3. ASSUME NEW u \in Stampers, t # u, Valid(u)' PROVE Apart(t, u)'
      BY <1>1, <1>6, <3>1, <3>2, <3>3 DEF Apart
    <3> QED BY <3>2, <3>3
  <2> QED BY <2>1, <2>2
<1>8. \A t \in Stampers : TriesLatest(t)'
  BY DEF Idles
<1> QED BY <1>1, <1>3, <1>4, <1>5, <1>7, <1>8 DEF UuidInv

LEMMA TickSteps ==
    ASSUME UuidInv, TickTock \/ SetBack \/ UNCHANGED uuidVars
    PROVE  UuidInv'
<1>1. /\ UNCHANGED <<stateFile, locker, thread, issued, twice, brim>>
      /\ tod' \in Nat \ {0}
  BY DEF TickTock, SetBack, uuidVars, UuidInv, UuidTyped
<1>2. UuidTyped' /\ Exclusive'
  BY <1>1 DEF UuidInv, UuidTyped, Exclusive
<1>3. \A t \in Stampers : Own(t)' = Own(t) /\ TriesLatest(t)'
  BY <1>1, SameThread DEF UuidInv, TriesLatest
<1>4. Idles
  BY <1>1, <1>3 DEF Idles
<1> QED BY <1>2, <1>4, IdleSteps

\* A step of t that leaves the others alone and the lock as it is
LEMMA AskSteps ==
    ASSUME UuidInv, NEW t \in Callers, Ask(t) \/ NoAnswer(t)
    PROVE  UuidInv'
<1>1. /\ t \in Stampers /\ thread \in [Stampers -> Threads]
      /\ UNCHANGED <<tod, stateFile, locker, issued, twice, brim>>
  BY Constants DEF Ask, NoAnswer, UuidInv, UuidTyped
<1>2. /\ thread'[t] \in Threads /\ thread[t].pc \notin {"try", "stamped", "done"}
      /\ thread'[t].pc \in {"asking", "alone"}
  <2>1. CASE Ask(t)
    <3>1. thread'[t] = [Outside EXCEPT !.pc = "asking"]
      BY <1>1, <2>1 DEF Ask
    <3> QED BY <2>1, <3>1, OutsideType DEF Ask, Threads, Outside
  <2>2. CASE NoAnswer(t)
    BY <1>1, <2>2 DEF NoAnswer, Threads
  <2> QED BY <2>1, <2>2
<1>3. thread' \in [Stampers -> Threads] /\ \A u \in Stampers : u # t => thread'[u] = thread[u]
  BY <1>1, <1>2 DEF Ask, NoAnswer
<1>4. UuidTyped' /\ Exclusive'
  BY <1>1, <1>2, <1>3 DEF UuidInv, UuidTyped, Exclusive
<1>5. Own(t)' = {} /\ TriesLatest(t)'
  BY <1>2 DEF Own, TriesLatest
<1>6. \A u \in Stampers : u # t => Own(u)' = Own(u) /\ TriesLatest(u)'
  BY <1>1, <1>3, SameThread DEF UuidInv, TriesLatest
<1>7. Idles
  BY <1>1, <1>2, <1>3, <1>5, <1>6 DEF Idles
<1> QED BY <1>4, <1>7, IdleSteps

\* A thread that has the lock was the only one to take it.
LEMMA LockIsFree ==
    ASSUME UuidInv, OwnProcesses, NEW t \in Stampers, thread[t].pc \notin {"try", "stamped"}, Lock(t)
    PROVE  /\ locker' = ProcessOf[t]
           /\ \A u \in Stampers : thread[u].pc \notin {"try", "stamped"}
           /\ \A u \in Stampers : u # t => locker' # ProcessOf[u]
<1>1. locker = NoProcess
  BY DEF UuidInv, Exclusive, Lock
<1> QED BY <1>1, Constants DEF UuidInv, Exclusive, Lock, OwnProcesses

LEMMA LockSteps ==
    ASSUME UuidInv, OwnProcesses, NEW t \in Callers, uuid__generate_time(t) \/ Accept(t)
    PROVE  UuidInv'
<1> DEFINE l == IF thread[t].pc = "alone" THEN t ELSE Uuidd
<1>1. /\ t \in Stampers /\ l \in Stampers /\ Uuidd # t /\ thread \in [Stampers -> Threads]
      /\ UNCHANGED <<tod, stateFile, issued, twice, brim>>
  BY Constants, UuidAssumption DEF uuid__generate_time, Accept, UuidInv, UuidTyped
<1>2. PICK s \in StateRead :
        /\ thread' \in [Stampers -> Threads] /\ thread'[l].pc = "try" /\ thread'[l].state = s
        /\ l # t => thread'[t].pc = "asked"
        /\ \A u \in Stampers \ {t, l} : thread'[u] = thread[u]
        /\ thread[l].pc \in {"alone", "idle"} /\ thread[t].pc \in {"alone", "asking"}
        /\ Lock(l)
  <2>1. CASE uuid__generate_time(t)
    <3>1. PICK s \in StateRead :
            thread' = [thread EXCEPT ![t].pc = "try", ![t].num = 0, ![t].state = s]
      BY <2>1 DEF uuid__generate_time
    <3>2. s \in States
      BY StateReadType DEF UuidInv
    <3>3. l = t /\ Lock(t) /\ thread[t].pc = "alone"
      BY <2>1 DEF uuid__generate_time
    <3>4. thread'[t] \in Threads /\ thread'[t].pc = "try" /\ thread'[t].state = s
      <4> DEFINE a == [thread EXCEPT ![t].pc = "try"]
                 b == [a EXCEPT ![t].num = 0]
                 c == [b EXCEPT ![t].state = s]
      <4>1. a \in [Stampers -> Threads] /\ a[t].pc = "try"
        BY <1>1 DEF Threads
      <4>2. thread' = c
        BY <3>1
      <4> HIDE DEF a
      <4>3. b \in [Stampers -> Threads] /\ b[t].pc = "try"
        BY <1>1, <4>1 DEF Threads
      <4> HIDE DEF b
      <4>4. c \in [Stampers -> Threads] /\ c[t].pc = "try" /\ c[t].state = s
        BY <1>1, <3>2, <4>3 DEF Threads
      <4> QED BY <1>1, <4>2, <4>4
    <3>5. thread' \in [Stampers -> Threads] /\ \A u \in Stampers \ {t} : thread'[u] = thread[u]
      BY <1>1, <3>1, <3>4
    <3> QED BY <3>3, <3>4, <3>5
  <2>2. CASE Accept(t)
    <3>1. PICK num \in {1, BulkSize}, s \in StateRead :
            thread' = [thread EXCEPT ![t].pc = "asked",
                                     ![Uuidd] = [Outside EXCEPT !.pc = "try", !.num = num,
                                                                !.state = s, !.client = t]]
      BY <2>2 DEF Accept
    <3>2. s \in States /\ num \in Nat
      BY <3>1, StateReadType, Constants DEF UuidInv
    <3>3. l = Uuidd /\ Lock(Uuidd) /\ thread[t].pc = "asking" /\ thread[Uuidd].pc = "idle"
      BY <2>2 DEF Accept
    <3>4. thread'[t] \in Threads /\ thread'[t].pc = "asked"
      BY <1>1, <3>1 DEF Threads
    <3>5. thread'[Uuidd] = [Outside EXCEPT !.pc = "try", !.num = num, !.state = s, !.client = t]
      BY <1>1, <3>1, <3>3
    <3>6. thread'[Uuidd] \in Threads /\ thread'[Uuidd].pc = "try" /\ thread'[Uuidd].state = s
      BY <1>1, <3>2, <3>5, OutsideType DEF Threads, Outside
    <3>7. thread' \in [Stampers -> Threads]
          /\ \A u \in Stampers \ {t, Uuidd} : thread'[u] = thread[u]
      BY <1>1, <3>1, <3>3, <3>4, <3>6
    <3> QED BY <3>3, <3>4, <3>6, <3>7
  <2> QED BY <2>1, <2>2
<1> HIDE DEF l
<1>3. /\ locker' = ProcessOf[l]
      /\ \A u \in Stampers : thread[u].pc \notin {"try", "stamped"}
      /\ \A u \in Stampers : u # l => locker' # ProcessOf[u]
  BY <1>1, <1>2, LockIsFree
<1>4. UuidTyped'
  BY <1>1, <1>2 DEF UuidInv, UuidTyped
<1>5. ASSUME NEW u \in Stampers
      PROVE  /\ thread'[u].pc \in {"try", "stamped"} <=> u = l
             /\ thread'[u].pc # "stamped"
             /\ thread[u].pc # "stamped"
             /\ Own(u)' = {} \/ Own(u)' = Own(u)
  <2>1. CASE u = l
    BY <1>2, <1>3, <2>1 DEF Own
  <2>2. CASE u = t /\ u # l
    BY <1>2, <1>3, <2>2 DEF Own
  <2>3. CASE u \notin {t, l}
    <3>1. thread'[u] = thread[u] /\ Own(u)' = Own(u)
      BY <1>2, <2>3, SameThread
    <3> QED BY <1>3, <2>3, <3>1
  <2> QED BY <2>1, <2>2, <2>3
<1>6. Exclusive'
  BY <1>1, <1>3, <1>5 DEF Exclusive
<1>7. ASSUME NEW u \in Stampers PROVE TriesLatest(u)'
  <2>1. IF stateFile = {} THEN s.last = 0 /\ s.adj = 0 ELSE s \in stateFile
    BY StateReadType DEF UuidInv
  <2> QED BY <1>1, <1>2, <1>5, <2>1 DEF TriesLatest
<1>8. Idles
  BY <1>1, <1>5, <1>7 DEF Idles
<1> QED BY <1>4, <1>6, <1>8, IdleSteps

LEMMA KillSteps ==
    ASSUME UuidInv, OwnProcesses, NEW t \in Stampers, Killed(t)
    PROVE  UuidInv'
<1>1. /\ thread \in [Stampers -> Threads] /\ UNCHANGED <<tod, stateFile, issued, twice, brim>>
      /\ thread[t].pc \in {"try", "stamped"}
  BY DEF Killed, UuidInv, UuidTyped
<1>2. \A u \in Stampers : thread'[u] = IF u = t THEN Outside ELSE thread[u]
  BY DEF Killed, OwnProcesses
<1>3. thread' \in [Stampers -> Threads]
  BY <1>1, <1>2, OutsideType DEF Killed
<1>4. locker = ProcessOf[t] /\ locker' = NoProcess
  <2>1. locker = ProcessOf[t]
    BY <1>1 DEF UuidInv, Exclusive
  <2> QED BY <2>1 DEF Killed
<1>5. UuidTyped'
  BY <1>1, <1>3 DEF UuidInv, UuidTyped
<1>6. \A u \in Stampers : u # t => thread[u].pc \notin {"try", "stamped"}
  BY <1>4 DEF UuidInv, Exclusive, OwnProcesses
<1>7. thread'[t].pc = "idle" /\ Own(t)' = {}
  BY <1>2 DEF Own, Span, Outside
<1>8. \A u \in Stampers : thread'[u].pc \notin {"try", "stamped"}
  BY <1>2, <1>6, <1>7
<1>9. Exclusive'
  BY <1>4, <1>8, Constants DEF Exclusive
<1>10. \A u \in Stampers : TriesLatest(u)'
  BY <1>8 DEF TriesLatest
<1>11. \A u \in Stampers : u # t => Own(u)' = Own(u) /\ thread'[u] = thread[u]
  BY <1>2, SameThread
<1>12. \A u \in Stampers :
         /\ Own(u)' = {} \/ (Own(u)' = Own(u) /\ (thread[u].pc = "stamped" => thread'[u] = thread[u]))
         /\ thread'[u].pc # "stamped" /\ TriesLatest(u)'
  BY <1>7, <1>8, <1>10, <1>11
<1>13. Idles
  BY <1>1, <1>12 DEF Idles
<1> QED BY <1>5, <1>9, <1>13, IdleSteps

-----------------------------------------------------------------------------
(* try_again                                                               *)

\* The thread that has taken time stamps
LEMMA TakesType ==
    ASSUME thread \in [Stampers -> Threads], NEW t \in Stampers, NEW uu \in Nat,
           NEW seq \in 0 .. ClockSeqs - 1, NEW r \in States,
           thread' = [thread EXCEPT ![t].pc = "stamped", ![t].uu = uu, ![t].seq = seq, ![t].state = r]
    PROVE  /\ thread' \in [Stampers -> Threads]
           /\ \A v \in Stampers : v # t => thread'[v] = thread[v]
           /\ thread'[t].pc = "stamped" /\ thread'[t].uu = uu /\ thread'[t].seq = seq
           /\ thread'[t].state = r /\ thread'[t].num = thread[t].num
<1> DEFINE a == [thread EXCEPT ![t].pc = "stamped"]
           b == [a EXCEPT ![t].uu = uu]
           c == [b EXCEPT ![t].seq = seq]
           d == [c EXCEPT ![t].state = r]
<1>1. a \in [Stampers -> Threads] /\ a[t].pc = "stamped" /\ a[t].num = thread[t].num
      /\ \A v \in Stampers : v # t => a[v] = thread[v]
  BY DEF Threads
<1>2. thread' = d
  OBVIOUS
<1> HIDE DEF a
<1>3. b \in [Stampers -> Threads] /\ b[t].pc = a[t].pc /\ b[t].num = a[t].num /\ b[t].uu = uu
      /\ \A v \in Stampers : v # t => b[v] = a[v]
  BY <1>1, ZenonT(60) DEF Threads
<1> HIDE DEF b
<1>4. c \in [Stampers -> Threads] /\ c[t].pc = b[t].pc /\ c[t].num = b[t].num /\ c[t].uu = b[t].uu
      /\ c[t].seq = seq /\ \A v \in Stampers : v # t => c[v] = b[v]
  <2>1. b[t] \in Threads /\ c[t] = [b[t] EXCEPT !.seq = seq]
        /\ \A v \in Stampers : v # t => c[v] = b[v]
    BY <1>3
  <2>2. c[t] \in Threads /\ c[t].pc = b[t].pc /\ c[t].num = b[t].num /\ c[t].uu = b[t].uu
        /\ c[t].seq = seq
    BY <2>1 DEF Threads
  <2> QED BY <1>3, <2>1, <2>2
<1> HIDE DEF c
<1>5. d \in [Stampers -> Threads] /\ d[t].pc = c[t].pc /\ d[t].num = c[t].num /\ d[t].uu = c[t].uu
      /\ d[t].seq = c[t].seq /\ d[t].state = r /\ \A v \in Stampers : v # t => d[v] = c[v]
  <2>1. c[t] \in Threads /\ d[t] = [c[t] EXCEPT !.state = r]
        /\ \A v \in Stampers : v # t => d[v] = c[v]
    BY <1>4
  <2>2. d[t] \in Threads /\ d[t].pc = c[t].pc /\ d[t].num = c[t].num /\ d[t].uu = c[t].uu
        /\ d[t].seq = c[t].seq /\ d[t].state = r
    BY <2>1 DEF Threads
  <2> QED BY <1>4, <2>1, <2>2
<1> QED BY <1>1, <1>2, <1>3, <1>4, <1>5

LEMMA TrySteps ==
    ASSUME UuidInv, OwnProcesses, NEW t \in Stampers, TryAgain(t)
    PROVE  UuidInv'
<1>1. PICK s, num : s = thread[t].state /\ num = thread[t].num
  OBVIOUS
<1>2. PICK n \in Stamped(s, tod) :
        LET uu == tod * PerTick + n.adj
        IN  /\ thread' = [thread EXCEPT ![t].pc = "stamped", ![t].uu = uu, ![t].seq = n.seq,
                                        ![t].state = Reserved(n, num)]
            /\ brim' = IF n.adj = PerTick /\ num <= 1 THEN brim \cup {<<uu, n.seq>>} ELSE brim
  BY <1>1 DEF TryAgain
<1>3. PICK uu, r : uu = tod * PerTick + n.adj /\ r = Reserved(n, num)
  OBVIOUS
<1>4. /\ thread[t].pc = "try" /\ UNCHANGED <<tod, stateFile, locker, issued, twice>>
      /\ thread \in [Stampers -> Threads] /\ tod \in Nat \ {0}
  BY DEF TryAgain, UuidInv, UuidTyped
<1>5. s \in States /\ num \in Nat
  BY <1>1, <1>4 DEF Threads
<1>6. /\ r \in States /\ uu \in Nat /\ uu = Top(n) /\ r.seq = n.seq
      /\ s.changes <= r.changes
      /\ r.adj = PerTick => n.adj = PerTick /\ num <= 1 /\ Top(r) = uu
      /\ Fresh(r) =>
           /\ Fresh(s)
           /\ \A u \in Uuids : Covers(s, u) => Covers(r, u)
           /\ \A u \in Span(uu, Count(num), n.seq) :
                /\ u \in Uuids /\ Covers(r, u)
                /\ Covers(s, u) => s.adj = PerTick /\ u = <<Top(s), s.seq>>
  BY <1>4, <1>5, <1>3, TakenCovers
<1>7. n.seq \in 0 .. ClockSeqs - 1
  BY <1>6 DEF States
<1>8. /\ thread' \in [Stampers -> Threads]
      /\ \A v \in Stampers : v # t => thread'[v] = thread[v]
      /\ thread'[t].pc = "stamped" /\ thread'[t].uu = uu /\ thread'[t].seq = n.seq
      /\ thread'[t].state = r /\ thread'[t].num = num
  <2>1. thread' = [thread EXCEPT ![t].pc = "stamped", ![t].uu = uu, ![t].seq = n.seq, ![t].state = r]
    BY <1>2, <1>3, Zenon
  <2>2. thread \in [Stampers -> Threads] /\ uu \in Nat /\ r \in States
    BY <1>4, <1>6
  <2>3. /\ thread' \in [Stampers -> Threads]
        /\ \A v \in Stampers : v # t => thread'[v] = thread[v]
        /\ thread'[t].pc = "stamped" /\ thread'[t].uu = uu /\ thread'[t].seq = n.seq
        /\ thread'[t].state = r /\ thread'[t].num = thread[t].num
    BY <2>1, <2>2, <1>7, TakesType
  <2> QED BY <1>1, <2>3
<1>9. brim' \subseteq Uuids /\ brim \subseteq brim'
      /\ (n.adj = PerTick /\ num <= 1 => <<uu, n.seq>> \in brim')
  <2>1. brim' = IF n.adj = PerTick /\ num <= 1 THEN brim \cup {<<uu, n.seq>>} ELSE brim
    BY <1>2, <1>3
  <2>2. <<uu, n.seq>> \in Uuids
    BY <1>6, <1>7 DEF Uuids
  <2> QED BY <2>1, <2>2 DEF UuidInv, UuidTyped
<1>10. UuidTyped'
  BY <1>4, <1>8, <1>9 DEF UuidInv, UuidTyped
<1>11. Exclusive'
  BY <1>4, <1>8 DEF UuidInv, Exclusive
<1>12. ASSUME NEW v \in Stampers, v # t
       PROVE  /\ thread'[v] = thread[v] /\ Own(v)' = Own(v)
              /\ thread[v].pc \notin {"try", "stamped"}
  BY <1>4, <1>8, <1>12, SameThread DEF UuidInv, Exclusive, OwnProcesses
<1>13. Own(t)' = Span(uu, Count(num), n.seq)
  BY <1>8 DEF Own
<1>14. \A x, u : (Covers(x, u)' <=> Covers(x, u)) /\ (Fresh(x)' <=> Fresh(x)) /\ (Noted(x) => Noted(x)')
  BY <1>9 DEF Covers, Fresh, Noted, Top
<1>15. FileCovers'
  <2>1. ASSUME stateFile' = {}
        PROVE  issued' = {} /\ \A v \in Stampers : thread'[v].pc # "stamped" => Own(v)' = {}
    BY <1>4, <1>8, <1>12, <2>1 DEF UuidInv, FileCovers
  <2>2. ASSUME NEW x \in stateFile, Fresh(x), NEW v \in Stampers, thread'[v].pc # "stamped",
               NEW u \in Own(v)'
        PROVE  Covers(x, u)
    BY <1>8, <1>12, <2>2 DEF UuidInv, FileCovers
  <2>3. \A x \in stateFile : Noted(x) /\ (Fresh(x) => \A u \in issued : Covers(x, u))
    BY DEF UuidInv, FileCovers
  <2> QED BY <1>4, <1>14, <2>1, <2>2, <2>3 DEF FileCovers
<1>16. stateFile = {} \/ (s \in stateFile /\ \A x \in stateFile : x = s)
  BY <1>1, <1>4 DEF UuidInv, TriesLatest, UuidTyped
<1>17. ASSUME NEW v \in Stampers PROVE TriesLatest(v)' /\ StampedCovers(v)'
  <2>1. CASE v = t
    <3>1. Noted(r)'
      BY <1>6, <1>9 DEF Noted, Top
    <3>2. \A x \in stateFile : x.changes <= r.changes
      BY <1>6, <1>16
    <3>3. Fresh(r) => /\ \A u \in Own(t)' : Covers(r, u)
                      /\ \A x \in stateFile : \A u \in Uuids : Covers(x, u) => Covers(r, u)
      BY <1>6, <1>13, <1>16
    <3> QED BY <1>4, <1>8, <1>14, <2>1, <3>1, <3>2, <3>3 DEF TriesLatest, StampedCovers
  <2>2. CASE v # t
    BY <1>12, <2>2 DEF TriesLatest, StampedCovers
  <2> QED BY <2>1, <2>2
<1>18. Usable' <=> Usable
  BY <1>4 DEF Usable, Fresh
\* What the time stamps taken have in common with those taken before
<1>19. ASSUME Fresh(r), NEW u \in Own(t)',
              u \in issued \/ \E v \in Stampers : v # t /\ u \in Own(v)
       PROVE  u \in brim
  <2>1. s \in stateFile /\ Fresh(s)
    BY <1>6, <1>12, <1>16, <1>19 DEF UuidInv, FileCovers
  <2>2. Noted(s) /\ Covers(s, u)
    BY <1>12, <1>19, <2>1 DEF UuidInv, FileCovers
  <2>3. s.adj = PerTick /\ u = <<Top(s), s.seq>>
    BY <1>6, <1>13, <1>19, <2>2
  <2> QED BY <2>2, <2>3 DEF Noted
<1>20. Separate'
  <2> SUFFICES ASSUME Usable, NEW v \in Stampers, Valid(v)'
               PROVE  Reserve(v)' /\ \A w \in Stampers : v # w /\ Valid(w)' => Apart(v, w)'
    BY <1>18 DEF Separate
  <2>1. Valid(t)' => Fresh(r)
    BY <1>8 DEF Valid, Fresh
  <2>2. CASE v = t
    <3>1. Reserve(v)'
      BY <1>4, <1>9, <1>19, <2>1, <2>2 DEF Reserve
    <3>2. ASSUME NEW w \in Stampers, v # w PROVE Apart(v, w)'
      BY <1>9, <1>12, <1>19, <2>1, <2>2, <3>2 DEF Apart
    <3> QED BY <3>1, <3>2
  <2>3. CASE v # t
    <3>1. Valid(v) /\ Own(v)' = Own(v)
      BY <1>12, <2>3 DEF Valid
    <3>2. Reserve(v) /\ \A w \in Stampers : v # w /\ Valid(w) => Apart(v, w)
      BY <3>1 DEF UuidInv, Separate
    <3>3. Reserve(v)'
      BY <1>4, <1>9, <3>1, <3>2 DEF Reserve
    <3>4. ASSUME NEW w \in Stampers, v # w, Valid(w)' PROVE Apart(v, w)'
      <4>1. CASE w = t
        BY <1>9, <1>19, <2>1, <2>3, <3>1, <3>4, <4>1 DEF Apart
      <4>2. CASE w # t
        <5>1. Valid(w) /\ Own(w)' = Own(w)
          BY <1>12, <4>2 DEF Valid
        <5> QED BY <1>9, <3>1, <3>2, <3>4, <5>1 DEF Apart
      <4> QED BY <4>1, <4>2
    <3> QED BY <3>3, <3>4
  <2> QED BY <2>2, <2>3
<1>21. Usable' => twice' \subseteq brim'
  BY <1>4, <1>9, <1>18 DEF UuidInv
<1> QED BY <1>10, <1>11, <1>15, <1>17, <1>20, <1>21 DEF UuidInv

-----------------------------------------------------------------------------
(* Steps that hand UUIDs out, or on                                        *)

\* Some of what t may hand out, "out", is handed out, and the rest is left to h.
Hands(t, h, out) ==
    /\ out \subseteq Own(t) /\ issued' = issued \cup out
    /\ twice' \subseteq twice \cup (out \cap issued) /\ brim' = brim
    /\ Own(h)' \subseteq Own(t) \ out
    /\ \A v \in Stampers \ {h} :
         \/ Own(v)' = {}
         \/ /\ v # t /\ Own(v)' = Own(v)
            /\ thread[v].pc = "stamped" => thread'[v] = thread[v]

\* The state is in the file already, or is written now.
Writes(t) ==
    \/ /\ stateFile' = stateFile /\ thread[t].pc # "stamped"
       /\ \A v \in Stampers : thread'[v].pc = "stamped" => thread'[v] = thread[v]
    \/ /\ stateFile' = {thread[t].state} /\ thread[t].pc = "stamped"
       /\ \A v \in Stampers : thread'[v].pc # "stamped"
       /\ \A v \in Stampers \ {t} : thread[v].pc # "stamped"

LEMMA HandSteps ==
    ASSUME UuidInv, UuidTyped', Exclusive', NEW t \in Stampers, NEW h \in Stampers, NEW out,
           Hands(t, h, out), Writes(t), \A v \in Stampers : TriesLatest(v)'
    PROVE  UuidInv'
<1>1. \A x, u : (Covers(x, u)' <=> Covers(x, u)) /\ (Fresh(x)' <=> Fresh(x)) /\ (Noted(x)' <=> Noted(x))
  BY DEF Hands, Covers, Fresh, Noted, Top
<1>2. thread \in [Stampers -> Threads] /\ issued \subseteq Uuids
      /\ \A v \in Stampers : Own(v) \subseteq Uuids
  BY OwnType DEF UuidInv, UuidTyped
<1>3. ASSUME Usable' PROVE Usable /\ Valid(t)
  <2>1. CASE stateFile' = stateFile /\ thread[t].pc # "stamped"
    BY <1>3, <2>1 DEF Usable, Fresh, Valid
  <2>2. CASE stateFile' = {thread[t].state} /\ thread[t].pc = "stamped"
    <3>1. Fresh(thread[t].state)
      BY <1>3, <2>2 DEF Usable, Fresh
    <3>2. thread[t].state \in States /\ stateFile \subseteq States
      BY <1>2 DEF UuidInv, UuidTyped, Threads
    <3>3. \A s \in stateFile : Fresh(s)
      BY <2>2, <3>1, <3>2, Constants DEF UuidInv, StampedCovers, Fresh, States
    <3> QED BY <3>1, <3>3 DEF Usable, Valid
  <2> QED BY <2>1, <2>2 DEF Writes
<1>4. ASSUME NEW v \in Stampers, v # h, Valid(v)', Own(v)' # {}
      PROVE  v # t /\ Own(v)' = Own(v) /\ Valid(v)
  BY <1>4 DEF Hands, Valid
<1>5. ASSUME NEW x \in stateFile', Fresh(x)
      PROVE  /\ \A u \in issued \cup Own(t) : Covers(x, u)
             /\ \A v \in Stampers : v # t /\ (thread[v].pc # "stamped" \/ stateFile' # stateFile) =>
                    \A u \in Own(v) : Covers(x, u)
  <2>1. CASE stateFile' = stateFile /\ thread[t].pc # "stamped"
    BY <1>5, <2>1 DEF UuidInv, FileCovers
  <2>2. CASE /\ stateFile' = {thread[t].state} /\ thread[t].pc = "stamped"
             /\ \A v \in Stampers \ {t} : thread[v].pc # "stamped"
    <3>1. x = thread[t].state /\ Fresh(thread[t].state)
      BY <1>5, <2>2
    <3>2. /\ \A u \in Own(t) : Covers(x, u)
          /\ \A s \in stateFile : \A u \in Uuids : Covers(s, u) => Covers(x, u)
      BY <2>2, <3>1 DEF UuidInv, StampedCovers
    <3>3. \A s \in stateFile : Fresh(s)
      <4>1. thread[t].state \in States /\ stateFile \subseteq States
        BY <1>2 DEF UuidInv, UuidTyped, Threads
      <4> QED BY <2>2, <3>1, <4>1, Constants DEF UuidInv, StampedCovers, Fresh, States
    <3>4. CASE stateFile = {}
      BY <2>2, <3>2, <3>4 DEF UuidInv, FileCovers
    <3>5. CASE stateFile # {}
      <4>1. PICK s \in stateFile : TRUE
        BY <3>5
      <4>2. /\ \A u \in issued : Covers(s, u)
            /\ \A v \in Stampers : v # t => \A u \in Own(v) : Covers(s, u)
        BY <2>2, <3>3, <4>1 DEF UuidInv, FileCovers
      <4> QED BY <1>2, <3>2, <4>1, <4>2
    <3> QED BY <3>4, <3>5
  <2> QED BY <2>1, <2>2 DEF Writes
<1>6. \A x \in stateFile' : Noted(x)
  BY DEF Writes, UuidInv, FileCovers, StampedCovers
<1>7. FileCovers'
  <2>1. ASSUME stateFile' = {}
        PROVE  issued' = {} /\ \A v \in Stampers : thread'[v].pc # "stamped" => Own(v)' = {}
    <3>1. stateFile = {} /\ thread[t].pc # "stamped"
      BY <2>1 DEF Writes
    <3>2. issued = {} /\ Own(t) = {}
      BY <3>1 DEF UuidInv, FileCovers
    <3>3. ASSUME NEW v \in Stampers, thread'[v].pc # "stamped" PROVE Own(v)' = {}
      BY <3>1, <3>2, <3>3 DEF UuidInv, FileCovers, Hands
    <3> QED BY <3>2, <3>3 DEF Hands
  <2>2. ASSUME NEW x \in stateFile', Fresh(x)
        PROVE  /\ \A u \in issued' : Covers(x, u)
               /\ \A v \in Stampers : thread'[v].pc # "stamped" => \A u \in Own(v)' : Covers(x, u)
    <3>1. \A u \in issued' : Covers(x, u)
      BY <1>5, <2>2 DEF Hands
    <3>2. ASSUME NEW v \in Stampers, thread'[v].pc # "stamped", NEW u \in Own(v)' PROVE Covers(x, u)
      <4>1. CASE v = h
        BY <1>5, <2>2, <3>2, <4>1 DEF Hands
      <4>2. CASE v # h
        <5>1. v # t /\ Own(v)' = Own(v) /\ (thread[v].pc = "stamped" => thread'[v] = thread[v])
          BY <3>2, <4>2 DEF Hands
        <5>2. thread[v].pc # "stamped"
          BY <3>2, <5>1
        <5> QED BY <1>5, <2>2, <3>2, <5>1, <5>2
      <4> QED BY <4>1, <4>2
    <3> QED BY <3>1, <3>2
  <2> QED BY <1>1, <1>6, <2>1, <2>2 DEF FileCovers
<1>8. ASSUME NEW v \in Stampers PROVE StampedCovers(v)'
  <2> SUFFICES ASSUME thread'[v].pc = "stamped" PROVE StampedCovers(v)'
    BY DEF StampedCovers
  <2>1. thread'[v] = thread[v] /\ stateFile' = stateFile
    BY DEF Writes
  <2>2. Own(v)' = Own(v) /\ StampedCovers(v)
    BY <2>1, SameThread DEF UuidInv
  <2> QED BY <1>1, <2>1, <2>2 DEF StampedCovers
<1>9. Separate'
  <2> SUFFICES ASSUME Usable', NEW v \in Stampers, Valid(v)', Own(v)' # {}
               PROVE  Reserve(v)' /\ \A w \in Stampers : v # w /\ Valid(w)' => Apart(v, w)'
    BY DEF Separate, Reserve, Apart
  <2>1. /\ Reserve(t) /\ \A w \in Stampers : t # w /\ Valid(w) => Apart(t, w)
        /\ issued' = issued \cup out /\ out \subseteq Own(t) /\ brim' = brim
    BY <1>3 DEF UuidInv, Separate, Hands
  <2>2. CASE v = h
    <3>1. Own(v)' \subseteq Own(t) \ out
      BY <2>2 DEF Hands
    <3>2. Reserve(v)'
      BY <2>1, <3>1 DEF Reserve
    <3>3. ASSUME NEW w \in Stampers, v # w, Valid(w)' PROVE Apart(v, w)'
      BY <1>4, <2>1, <2>2, <3>1, <3>3 DEF Apart
    <3> QED BY <3>2, <3>3
  <2>3. CASE v # h
    <3>1. v # t /\ Own(v)' = Own(v) /\ Valid(v)
      BY <1>4, <2>3
    <3>2. Reserve(v) /\ \A w \in Stampers : v # w /\ Valid(w) => Apart(v, w)
      BY <1>3, <3>1 DEF UuidInv, Separate
    <3>3. Apart(v, t)
      BY <1>3, <3>1, <3>2
    <3>4. Reserve(v)'
      BY <2>1, <3>1, <3>2, <3>3 DEF Reserve, Apart
    <3>5. ASSUME NEW w \in Stampers, v # w, Valid(w)' PROVE Apart(v, w)'
      <4>1. CASE w = h
        <5>1. Own(w)' \subseteq Own(t)
          BY <4>1 DEF Hands
        <5> QED BY <2>1, <3>1, <3>3, <5>1 DEF Apart
      <4>2. CASE w # h /\ Own(w)' # {}
        BY <1>4, <2>1, <3>1, <3>2, <3>5, <4>2 DEF Apart
      <4> QED BY <4>1, <4>2 DEF Apart
    <3> QED BY <3>4, <3>5
  <2> QED BY <2>2, <2>3
<1>10. Usable' => twice' \subseteq brim'
  <2> SUFFICES ASSUME Usable' PROVE twice' \subseteq brim
    BY DEF Hands
  <2>1. Reserve(t) /\ twice \subseteq brim
    BY <1>3 DEF UuidInv, Separate
  <2> QED BY <2>1 DEF Hands, Reserve
<1> QED BY <1>7, <1>8, <1>9, <1>10 DEF UuidInv

LEMMA WriteSteps ==
    ASSUME UuidInv, OwnProcesses, NEW t \in Stampers, WriteState(t)
    PROVE  UuidInv'
<1>1. /\ thread[t].pc = "stamped" /\ thread \in [Stampers -> Threads] /\ thread[t].state \in States
      /\ stateFile' = {thread[t].state} /\ UNCHANGED <<tod, brim>>
  BY DEF WriteState, UuidInv, UuidTyped, Threads
<1>2. locker = ProcessOf[t] /\ locker' = NoProcess
  <2>1. locker = ProcessOf[t]
    BY <1>1 DEF UuidInv, Exclusive
  <2> QED BY <2>1 DEF WriteState
<1>3. \A v \in Stampers \ {t} : thread[v].pc \notin {"try", "stamped"}
  BY <1>2 DEF UuidInv, Exclusive, OwnProcesses
<1>4. /\ thread' \in [Stampers -> Threads] /\ thread'[t].pc \in {"idle", "done"}
      /\ \A v \in Stampers \ {t} : thread'[v] = thread[v]
      /\ \E out \in {{}, {Uuid(t)}} :
           /\ issued' = issued \cup out /\ twice' = twice \cup (out \cap issued)
           /\ Own(t)' \subseteq Own(t) \ out
  <2>1. CASE t = Uuidd
    <3> DEFINE a == [thread EXCEPT ![t].pc = "done"]
    <3>1. thread' = [a EXCEPT ![t].state = NoState] /\ issued' = issued /\ twice' = twice
      BY <2>1 DEF WriteState
    <3>2. a \in [Stampers -> Threads] /\ a[t].pc = "done" /\ a[t].uu = thread[t].uu
          /\ a[t].num = thread[t].num /\ a[t].seq = thread[t].seq
          /\ \A v \in Stampers \ {t} : a[v] = thread[v]
      BY <1>1 DEF Threads
    <3> HIDE DEF a
    <3>3. thread' \in [Stampers -> Threads] /\ \A v \in Stampers \ {t} : thread'[v] = a[v]
      BY <3>1, <3>2, OutsideType DEF Threads
    <3>4. thread'[t].pc = a[t].pc /\ thread'[t].uu = a[t].uu /\ thread'[t].num = a[t].num
          /\ thread'[t].seq = a[t].seq
      BY <3>1, <3>2
    <3>5. Own(t)' = Own(t)
      BY <1>1, <3>2, <3>4 DEF Own
    <3> QED BY <3>1, <3>2, <3>3, <3>4, <3>5
  <2>2. CASE t # Uuidd
    <3>1. thread' = [thread EXCEPT ![t] = Outside] /\ Hand(Uuid(t))
      BY <2>2 DEF WriteState
    <3>2. /\ thread' \in [Stampers -> Threads] /\ thread'[t] = Outside
          /\ \A v \in Stampers \ {t} : thread'[v] = thread[v]
      BY <1>1, <3>1, OutsideType
    <3>3. thread'[t].pc = "idle" /\ Own(t)' = {}
      BY <3>2 DEF Outside, Own, Span
    <3>4. issued' = issued \cup {Uuid(t)} /\ twice' = twice \cup ({Uuid(t)} \cap issued)
      BY <3>1 DEF Hand
    <3> QED BY <3>2, <3>3, <3>4
  <2> QED BY <2>1, <2>2
<1>5. PICK out \in {{}, {Uuid(t)}} :
        /\ issued' = issued \cup out /\ twice' = twice \cup (out \cap issued)
        /\ Own(t)' \subseteq Own(t) \ out
  BY <1>4
<1>6. Own(t) \subseteq Uuids /\ Uuid(t) \in Own(t)
  <2>1. Own(t) \subseteq Uuids /\ thread[t].uu \in Nat /\ thread[t].num \in Nat
    BY <1>1, OwnType DEF Threads
  <2>2. Count(thread[t].num) \in Nat \ {0}
    BY <2>1 DEF Count
  <2> QED BY <1>1, <2>1, <2>2 DEF Own, Span, Uuid
<1>7. UuidTyped'
  BY <1>1, <1>4, <1>5, <1>6 DEF UuidInv, UuidTyped
<1>8. \A v \in Stampers : thread'[v].pc \notin {"try", "stamped"}
  BY <1>3, <1>4
<1>9. Exclusive' /\ \A v \in Stampers : TriesLatest(v)'
  BY <1>2, <1>8, Constants DEF Exclusive, TriesLatest
<1>10. \A v \in Stampers \ {t} : v # t /\ Own(v)' = Own(v) /\ thread'[v] = thread[v]
  BY <1>4, SameThread
<1>11. Hands(t, t, out)
  BY <1>1, <1>5, <1>6, <1>10 DEF Hands
<1>12. Writes(t)
  BY <1>1, <1>3, <1>8 DEF Writes
<1> QED BY <1>7, <1>9, <1>11, <1>12, HandSteps

LEMMA RangeSteps ==
    ASSUME UuidInv, NEW t \in Callers, FromRange(t)
    PROVE  UuidInv'
<1>1. /\ t \in Stampers /\ thread \in [Stampers -> Threads] /\ thread[t].pc = "idle"
      /\ thread[t].left > 0 /\ UNCHANGED <<tod, stateFile, locker, brim>>
      /\ thread[t].left \in Int /\ thread[t].uu \in Nat /\ thread[t].seq \in 0 .. ClockSeqs - 1
  BY Constants DEF FromRange, UuidInv, UuidTyped, Threads
<1>2. PICK u : u = <<thread[t].uu + 1, thread[t].seq>>
  OBVIOUS
<1>3. issued' = issued \cup {u} /\ twice' = twice \cup ({u} \cap issued)
  BY <1>2 DEF FromRange, Hand
<1>4. /\ thread' \in [Stampers -> Threads]
      /\ \A v \in Stampers \ {t} : thread'[v] = thread[v]
      /\ thread'[t].pc = "idle" /\ thread'[t].uu = thread[t].uu + 1
      /\ thread'[t].left = thread[t].left - 1 /\ thread'[t].seq = thread[t].seq
  <2> DEFINE a == [thread EXCEPT ![t].uu = @ + 1]
  <2>1. a \in [Stampers -> Threads] /\ a[t].pc = "idle" /\ a[t].uu = thread[t].uu + 1
        /\ a[t].left = thread[t].left /\ a[t].seq = thread[t].seq
        /\ \A v \in Stampers \ {t} : a[v] = thread[v]
    BY <1>1 DEF Threads
  <2>2. thread' = [a EXCEPT ![t].left = @ - 1]
    BY DEF FromRange
  <2> HIDE DEF a
  <2>3. thread' \in [Stampers -> Threads] /\ \A v \in Stampers \ {t} : thread'[v] = a[v]
    BY <1>1, <2>1, <2>2 DEF Threads
  <2>4. thread'[t].pc = a[t].pc /\ thread'[t].uu = a[t].uu /\ thread'[t].seq = a[t].seq
        /\ thread'[t].left = a[t].left - 1
    BY <1>1, <2>1, <2>2
  <2> QED BY <2>1, <2>3, <2>4
<1>5. u \in Own(t) /\ Own(t) \subseteq Uuids
  BY <1>1, <1>2, OwnType DEF Own, Span
<1>6. Own(t)' \subseteq Own(t) \ {u}
  <2>1. Own(t)' = Span(thread[t].uu + 1 + 1, thread[t].left - 1, thread[t].seq)
    BY <1>4 DEF Own
  <2>2. Own(t) = Span(thread[t].uu + 1, thread[t].left, thread[t].seq)
    BY <1>1 DEF Own
  <2> QED BY <1>1, <1>2, <2>1, <2>2 DEF Span
<1>7. UuidTyped' /\ Exclusive'
  BY <1>1, <1>3, <1>4, <1>5 DEF UuidInv, UuidTyped, Exclusive
<1>8. \A v \in Stampers : TriesLatest(v)'
  BY <1>1, <1>4 DEF UuidInv, TriesLatest
<1>9. \A v \in Stampers \ {t} : v # t /\ Own(v)' = Own(v) /\ thread'[v] = thread[v]
  BY <1>4, SameThread
<1>10. Hands(t, t, {u}) /\ Writes(t)
  BY <1>1, <1>3, <1>4, <1>5, <1>6, <1>9 DEF Hands, Writes
<1> QED BY <1>1, <1>7, <1>8, <1>10, HandSteps

LEMMA ReplySteps ==
    ASSUME UuidInv, Reply
    PROVE  UuidInv'
<1>1. PICK d, c : d = thread[Uuidd] /\ c = d.client
  OBVIOUS
<1>2. /\ Uuidd \in Stampers /\ thread \in [Stampers -> Threads] /\ d \in Threads /\ c \in Stampers
      /\ d.pc = "done" /\ UNCHANGED <<tod, stateFile, locker, brim>>
      /\ d.num \in Nat /\ d.uu \in Nat /\ d.seq \in 0 .. ClockSeqs - 1
  BY <1>1, Constants DEF Reply, UuidInv, UuidTyped, Threads
<1>3. PICK h \in Stampers, out \in {{}, {Uuid(Uuidd)}} :
        /\ h # Uuidd => thread[h].pc = "asked"
        /\ issued' = issued \cup out /\ twice' = twice \cup (out \cap issued)
        /\ thread' \in [Stampers -> Threads] /\ thread'[h].pc = "idle" /\ thread'[Uuidd].pc = "idle"
        /\ Own(Uuidd)' = {} /\ \A v \in Stampers \ {h, Uuidd} : thread'[v] = thread[v]
        /\ h = Uuidd \/ (Own(h)' = Span(d.uu + 1, d.num - 1, d.seq) /\ out = {Uuid(Uuidd)})
  <2>1. thread'[Uuidd] = Outside
    BY <1>2 DEF Reply
  <2>2. thread'[Uuidd].pc = "idle" /\ Own(Uuidd)' = {} /\ thread'[Uuidd] \in Threads
    BY <2>1, OutsideType DEF Outside, Own, Span
  <2>3. CASE thread[c].pc = "asked"
    <3> DEFINE o == [Outside EXCEPT !.left = d.num - 1, !.uu = d.uu, !.seq = d.seq]
    <3>1. c # Uuidd
      BY <1>1, <1>2, <2>3
    <3>2. o \in Threads /\ o.pc = "idle" /\ o.left = d.num - 1 /\ o.uu = d.uu /\ o.seq = d.seq
      <4>1. d.num - 1 \in Int
        BY <1>2
      <4>2. o \in Threads /\ o.pc = Outside.pc
            /\ o.left = d.num - 1 /\ o.uu = d.uu /\ o.seq = d.seq
        BY <1>2, <4>1, OutsideType DEF Threads
      <4> QED BY <4>2 DEF Outside
    <3>3. thread' = [t \in Stampers |-> IF t = Uuidd THEN Outside
                                        ELSE IF t = c THEN o ELSE thread[t]]
          /\ Hand(Uuid(Uuidd))
      BY <1>1, <2>3 DEF Reply
    <3> HIDE DEF o
    <3>4. thread' \in [Stampers -> Threads] /\ thread'[c] = o
          /\ \A v \in Stampers \ {c, Uuidd} : thread'[v] = thread[v]
      BY <1>2, <3>1, <3>2, <3>3, OutsideType
    <3>5. Own(c)' = Span(d.uu + 1, d.num - 1, d.seq)
      BY <3>2, <3>4 DEF Own
    <3>6. issued' = issued \cup {Uuid(Uuidd)} /\ twice' = twice \cup ({Uuid(Uuidd)} \cap issued)
      BY <3>3 DEF Hand
    <3> QED BY <1>2, <2>2, <2>3, <3>2, <3>4, <3>5, <3>6
  <2>4. CASE thread[c].pc # "asked"
    <3>1. thread' = [t \in Stampers |-> IF t = Uuidd THEN Outside ELSE thread[t]]
          /\ issued' = issued /\ twice' = twice
      BY <1>1, <2>4 DEF Reply
    <3>2. thread' \in [Stampers -> Threads] /\ \A v \in Stampers \ {Uuidd} : thread'[v] = thread[v]
      BY <1>2, <3>1, OutsideType
    <3> QED BY <1>2, <2>2, <3>1, <3>2
  <2> QED BY <2>3, <2>4
<1>4. /\ Own(Uuidd) = Span(d.uu, Count(d.num), d.seq) /\ Own(Uuidd) \subseteq Uuids
      /\ Uuid(Uuidd) = <<d.uu, d.seq>>
  BY <1>1, <1>2, OwnType DEF Own, Uuid
<1>5. out \subseteq Own(Uuidd) /\ Own(h)' \subseteq Own(Uuidd) \ out
  BY <1>2, <1>3, <1>4 DEF Span, Count
<1>6. UuidTyped'
  BY <1>2, <1>3, <1>4, <1>5 DEF UuidInv, UuidTyped
<1>7. \A v \in Stampers \ {h} : Own(v)' = {} \/ (v # Uuidd /\ Own(v)' = Own(v) /\ thread'[v] = thread[v])
  BY <1>3, SameThread
<1>8. \A v \in Stampers : \/ thread'[v] = thread[v]
                          \/ thread'[v].pc = "idle" /\ thread[v].pc \in {"asked", "done"}
  BY <1>1, <1>2, <1>3
<1>9. Exclusive' /\ \A v \in Stampers : TriesLatest(v)'
  BY <1>2, <1>8 DEF UuidInv, Exclusive, TriesLatest
<1>10. Hands(Uuidd, h, out)
  BY <1>2, <1>3, <1>5, <1>7 DEF Hands
<1>11. Writes(Uuidd)
  BY <1>1, <1>2, <1>8 DEF Writes
<1> QED BY <1>2, <1>6, <1>9, <1>10, <1>11, HandSteps

-----------------------------------------------------------------------------
LEMMA UuidStep == ASSUME OwnProcesses, UuidInv, [UuidNext]_uuidVars PROVE UuidInv'
BY TickSteps, AskSteps, LockSteps, KillSteps, TrySteps, WriteSteps, RangeSteps, ReplySteps
   DEF UuidNext

\* No UUID is handed out twice before the clock sequences run out, by whichever
\* threads of whichever processes, the daemon or the state file, unless its
\* time stamp is the one too many of a tick (MAX_ADJUSTMENT in get_clock): for
\* every number of callers, size of a bulk reply, time of day and kill.  The
\* threads are processes of their own, as fcntl locks need.
THEOREM NoUuidTwice == ASSUME OwnProcesses PROVE UuidSpec => []NeverTwice
<1>1. UuidInv => NeverTwice
  BY DEF UuidInv, NeverTwice, Usable, Fresh
<1>2. UuidInv /\ [UuidNext]_uuidVars => UuidInv'
  BY UuidStep
<1> QED BY <1>1, <1>2, InitUuid, PTL DEF UuidSpec
=============================================================================
