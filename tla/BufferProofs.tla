----------------------------- MODULE BufferProofs -----------------------------
(***************************************************************************)
(* RawTransactionsService: whatever flushes race, fail or wait, every item *)
(* answered with 202 is held once and settled once, and the counter of the *)
(* flush slots, by which both drains decide, is right.                     *)
(***************************************************************************)
EXTENDS IngestBuffer, FiniteSetTheorems, SequenceTheorems, TLAPS

Task == [task : {"takeSlot", "splice"}, owner : Owner]
Svc == [buffer : Seq(Item), timer : BOOLEAN, immediates : Nat, active : Nat,
        waiters : Seq(Owner), stopped : BOOLEAN, micro : Seq(Task)]

\* The flushes of a service, but for those that wait for their microtask.
Splicing(m) == {n \in DOMAIN m : m[n].task = "splice"}
Net(s) == s.active - Cardinality(Splicing(s.micro))

\* A slot is held by every insert in flight and every report of a failed one.
OpenReports == reporting["nobody"] + reporting["destroy"] + reporting["clear"]
Balanced == IsFiniteSet(flights) /\ Net(svc) = Cardinality(flights) + OpenReports

\* Somebody will flush the buffer, and somebody will wake the waiters.
Served(s) ==
    /\ s.buffer # <<>> => s.timer \/ s.immediates > 0 \/ s.active > 0 \/ s.micro # <<>>
    /\ s.waiters # <<>> => s.active > 0 \/ s.micro # <<>>
WorkIsServed == Served(svc)

\* No item twice in memory, and none that was not accepted.
Apart ==
    /\ IsInjective(svc.buffer)
    /\ \A f \in flights : /\ f.batch # <<>> /\ IsInjective(f.batch)
                          /\ Range(f.batch) \cap Range(svc.buffer) = {}
    /\ \A f, g \in flights : f # g => Range(f.batch) \cap Range(g.batch) = {}
    /\ InMemory \subseteq accepted

\* A malformed body in flight is still to be reported, or was.
Accounted ==
    /\ NothingVanishes
    /\ \A f \in flights : Range(f.batch) \cap Malformed \subseteq f.bad \cup discarded

\* The owners of the calls that wait for a slot, or for their microtask.
Awaiting(s) == Range(s.waiters) \cup {e.owner : e \in Range(s.micro)}

\* Until it is stopped, shutdown has no call under way, and a drain that ended
\* after that leaves nothing behind.
Stopping ==
    /\ ~svc.stopped => /\ drain["destroy"] = "off" /\ reporting["destroy"] = 0
                       /\ "destroy" \notin Awaiting(svc)
                       /\ \A f \in flights : f.owner # "destroy"
    /\ drain["destroy"] = "drained" =>
         svc.buffer = <<>> /\ flights = {} /\ \A o \in Owner : reporting[o] = 0

BufferInv == Balanced /\ WorkIsServed /\ Apart /\ Accounted /\ Stopping

----------------------------------------------------------------------------
(* Sequences.                                                              *)

LEMMA AppendRange ==
    ASSUME NEW S, NEW s \in Seq(S), NEW e \in S
    PROVE  /\ Range(Append(s, e)) = Range(s) \cup {e}
           /\ IsInjective(s) /\ e \notin Range(s) => IsInjective(Append(s, e))
<1>1. /\ DOMAIN s = 1..Len(s) /\ Len(s) \in Nat
      /\ DOMAIN Append(s, e) = 1..(Len(s) + 1)
      /\ \A i \in 1..Len(s) : Append(s, e)[i] = s[i]
      /\ Append(s, e)[Len(s) + 1] = e
  BY AppendProperties, LenProperties
<1>2. 1..(Len(s) + 1) = 1..Len(s) \cup {Len(s) + 1}
  BY <1>1
<1>3. Range(Append(s, e)) = Range(s) \cup {e}
  BY <1>1, <1>2 DEF Range
<1>4. ASSUME IsInjective(s), e \notin Range(s)
      PROVE  IsInjective(Append(s, e))
  BY <1>1, <1>2, <1>4 DEF IsInjective, Range
<1> QED
  BY <1>3, <1>4

LEMMA ConcatInjective ==
    ASSUME NEW S, NEW s \in Seq(S), NEW t \in Seq(S), IsInjective(s), IsInjective(t),
           Range(s) \cap Range(t) = {}
    PROVE  IsInjective(s \o t)
<1>1. /\ DOMAIN s = 1..Len(s) /\ Len(s) \in Nat
      /\ DOMAIN t = 1..Len(t) /\ Len(t) \in Nat
      /\ DOMAIN (s \o t) = 1..(Len(s) + Len(t))
      /\ \A i \in 1..(Len(s) + Len(t)) :
           (s \o t)[i] = IF i <= Len(s) THEN s[i] ELSE t[i - Len(s)]
  BY ConcatProperties, LenProperties
<1> SUFFICES ASSUME NEW i \in 1..(Len(s) + Len(t)), NEW j \in 1..(Len(s) + Len(t)),
                    (s \o t)[i] = (s \o t)[j]
             PROVE  i = j
  BY <1>1 DEF IsInjective
<1>2. CASE i <= Len(s) /\ j <= Len(s)
  <2>1. i \in DOMAIN s /\ j \in DOMAIN s /\ s[i] = s[j]
    BY <1>1, <1>2
  <2> QED
    BY <2>1 DEF IsInjective
<1>3. CASE i > Len(s) /\ j > Len(s)
  <2>1. i - Len(s) \in DOMAIN t /\ j - Len(s) \in DOMAIN t /\ t[i - Len(s)] = t[j - Len(s)]
    BY <1>1, <1>3
  <2>2. i - Len(s) = j - Len(s)
    BY <2>1 DEF IsInjective
  <2> QED
    BY <1>1, <2>2
<1>4. CASE i <= Len(s) /\ j > Len(s)
  <2>1. i \in DOMAIN s /\ j - Len(s) \in DOMAIN t /\ s[i] = t[j - Len(s)]
    BY <1>1, <1>4
  <2> QED
    BY <2>1 DEF Range
<1>5. CASE i > Len(s) /\ j <= Len(s)
  <2>1. j \in DOMAIN s /\ i - Len(s) \in DOMAIN t /\ s[j] = t[i - Len(s)]
    BY <1>1, <1>5
  <2> QED
    BY <2>1 DEF Range
<1> QED
  BY <1>1, <1>2, <1>3, <1>4, <1>5

\* A sequence cut in two.
LEMMA SplitRange ==
    ASSUME NEW S, NEW s \in Seq(S), NEW n \in 0..Len(s)
    PROVE  LET a == SubSeq(s, 1, n)
               b == SubSeq(s, n + 1, Len(s))
           IN  /\ a \in Seq(S) /\ b \in Seq(S) /\ Len(a) = n
               /\ Range(s) = Range(a) \cup Range(b)
               /\ IsInjective(s) =>
                    /\ IsInjective(a) /\ IsInjective(b)
                    /\ Range(a) \cap Range(b) = {}
<1> DEFINE a == SubSeq(s, 1, n)
           b == SubSeq(s, n + 1, Len(s))
<1>1. DOMAIN s = 1..Len(s) /\ Len(s) \in Nat /\ \A i \in 1..Len(s) : s[i] \in S
  BY LenProperties
<1>2. a \in Seq(S) /\ Len(a) = n /\ \A i \in 1..n : a[i] = s[i]
  <2>1. \A i \in 1..n : s[i] \in S
    BY <1>1
  <2> QED
    BY <1>1, <2>1, SubSeqProperties
<1>3. b \in Seq(S) /\ Len(b) = Len(s) - n /\ \A i \in 1..(Len(s) - n) : b[i] = s[n + i]
  <2>1. \A i \in (n + 1)..Len(s) : s[i] \in S
    BY <1>1
  <2>2. /\ b \in Seq(S)
        /\ Len(b) = IF n + 1 <= Len(s) THEN Len(s) - (n + 1) + 1 ELSE 0
        /\ \A i \in 1..(Len(s) - (n + 1) + 1) : b[i] = s[(n + 1) + i - 1]
    BY <1>1, <2>1, SubSeqProperties
  <2> QED
    BY <1>1, <2>2
<1>4. DOMAIN a = 1..n /\ DOMAIN b = 1..(Len(s) - n)
  BY <1>2, <1>3, LenProperties
<1> HIDE DEF a, b
<1>5. Range(s) = Range(a) \cup Range(b)
  <2>1. Range(a) \subseteq Range(s) /\ Range(b) \subseteq Range(s)
    <3>1. \A i \in 1..n : i \in DOMAIN s
      BY <1>1
    <3>2. \A i \in 1..(Len(s) - n) : n + i \in DOMAIN s
      BY <1>1
    <3> QED
      BY <1>2, <1>3, <1>4, <3>1, <3>2 DEF Range
  <2>2. ASSUME NEW i \in DOMAIN s PROVE s[i] \in Range(a) \cup Range(b)
    <3>1. CASE i <= n
      BY <1>1, <1>2, <1>4, <3>1 DEF Range
    <3>2. CASE i > n
      <4>1. i - n \in 1..(Len(s) - n) /\ b[i - n] = s[n + (i - n)] /\ n + (i - n) = i
        BY <1>1, <1>3, <3>2
      <4> QED
        BY <1>4, <4>1 DEF Range
    <3> QED
      BY <1>1, <3>1, <3>2
  <2> QED
    BY <2>1, <2>2 DEF Range
<1>6. ASSUME IsInjective(s)
      PROVE  IsInjective(a) /\ IsInjective(b) /\ Range(a) \cap Range(b) = {}
  <2>1. \A i, j \in 1..Len(s) : s[i] = s[j] => i = j
    BY <1>1, <1>6 DEF IsInjective
  <2>2. IsInjective(a)
    BY <1>1, <1>2, <1>4, <2>1 DEF IsInjective
  <2>3. IsInjective(b)
    <3> SUFFICES ASSUME NEW i \in 1..(Len(s) - n), NEW j \in 1..(Len(s) - n), b[i] = b[j]
                 PROVE  i = j
      BY <1>4 DEF IsInjective
    <3>1. n + i \in 1..Len(s) /\ n + j \in 1..Len(s) /\ s[n + i] = s[n + j]
      BY <1>1, <1>3
    <3>2. n + i = n + j
      BY <2>1, <3>1
    <3> QED
      BY <1>1, <3>2
  <2>4. ASSUME NEW x \in Range(a), x \in Range(b)
        PROVE  FALSE
    <3>1. PICK i \in 1..n : x = s[i]
      BY <1>2, <1>4 DEF Range
    <3>2. PICK j \in 1..(Len(s) - n) : x = s[n + j]
      BY <1>3, <1>4, <2>4 DEF Range
    <3>3. i \in 1..Len(s) /\ n + j \in 1..Len(s)
      BY <1>1
    <3>4. i = n + j
      BY <2>1, <3>1, <3>2, <3>3
    <3> QED
      BY <1>1, <3>4
  <2> QED
    BY <2>2, <2>3, <2>4
<1> QED
  BY <1>2, <1>3, <1>5, <1>6 DEF a, b

\* Without repetition a sequence is as long as its range is large.
LEMMA InjectiveLength ==
    ASSUME NEW S, NEW s \in Seq(S), IsInjective(s)
    PROVE  Len(s) = Cardinality(Range(s))
<1>1. DOMAIN s = 1..Len(s) /\ Len(s) \in Nat /\ s \in [1..Len(s) -> Range(s)]
  BY LenProperties DEF Range
<1>2. s \in Bijection(1..Len(s), Range(s))
  BY <1>1 DEF Bijection, Injection, Surjection, Range
<1> QED
  BY <1>1, <1>2, FS_CountingElements DEF ExistsBijection

----------------------------------------------------------------------------
(* The microtasks that are flushes.                                        *)

LEMMA SplicingFinite ==
    ASSUME NEW m \in Seq(Task)
    PROVE  /\ IsFiniteSet(Splicing(m)) /\ Cardinality(Splicing(m)) \in Nat
           /\ Splicing(m) \subseteq 1..Len(m)
<1>1. Splicing(m) \in SUBSET (1..Len(m)) /\ Len(m) \in Nat
  BY LenProperties DEF Splicing
<1>2. IsFiniteSet(1..Len(m))
  BY <1>1, FS_Interval
<1>3. IsFiniteSet(Splicing(m))
  BY <1>1, <1>2, FS_Subset
<1> QED
  BY <1>1, <1>3, FS_CardinalityType

LEMMA SplicingAppend ==
    ASSUME NEW m \in Seq(Task), NEW e \in Task
    PROVE  Cardinality(Splicing(Append(m, e))) =
             IF e.task = "splice" THEN Cardinality(Splicing(m)) + 1 ELSE Cardinality(Splicing(m))
<1>1. /\ DOMAIN m = 1..Len(m) /\ Len(m) \in Nat
      /\ DOMAIN Append(m, e) = 1..(Len(m) + 1)
      /\ \A i \in 1..Len(m) : Append(m, e)[i] = m[i]
      /\ Append(m, e)[Len(m) + 1] = e
  BY AppendProperties, LenProperties
<1>2. 1..(Len(m) + 1) = 1..Len(m) \cup {Len(m) + 1} /\ Len(m) + 1 \notin 1..Len(m)
  BY <1>1
<1>3. CASE e.task = "splice"
  <2>1. Splicing(Append(m, e)) = Splicing(m) \cup {Len(m) + 1} /\ Len(m) + 1 \notin Splicing(m)
    BY <1>1, <1>2, <1>3 DEF Splicing
  <2> QED
    BY <1>3, <2>1, SplicingFinite, FS_AddElement
<1>4. CASE e.task # "splice"
  BY <1>1, <1>2, <1>4 DEF Splicing
<1> QED
  BY <1>3, <1>4

LEMMA SplicingTail ==
    ASSUME NEW m \in Seq(Task), m # <<>>
    PROVE  /\ Tail(m) \in Seq(Task) /\ Head(m) \in Task
           /\ Cardinality(Splicing(Tail(m))) =
                IF Head(m).task = "splice" THEN Cardinality(Splicing(m)) - 1
                ELSE Cardinality(Splicing(m))
<1>1. /\ Tail(m) \in Seq(Task) /\ Head(m) \in Task /\ Head(m) = m[1]
      /\ Len(m) \in Nat \ {0} /\ Len(Tail(m)) = Len(m) - 1
      /\ \A i \in 1..(Len(m) - 1) : Tail(m)[i] = m[i + 1]
      /\ DOMAIN m = 1..Len(m) /\ DOMAIN Tail(m) = 1..(Len(m) - 1)
  BY HeadTailProperties, LenProperties, EmptySeq
<1> DEFINE T == Splicing(Tail(m))
           R == Splicing(m) \ {1}
           g == [i \in T |-> i + 1]
<1>2. T \subseteq 1..(Len(m) - 1) /\ R \subseteq 2..Len(m)
  BY <1>1 DEF Splicing
<1>3. \A i \in T : i + 1 \in R
  BY <1>1 DEF Splicing
<1>4. \A k \in R : k - 1 \in T /\ (k - 1) + 1 = k
  BY <1>1 DEF Splicing
<1>5. IsFiniteSet(T) /\ IsFiniteSet(Splicing(m))
  BY <1>1, SplicingFinite
<1>6. 1 \in Splicing(m) <=> Head(m).task = "splice"
  BY <1>1 DEF Splicing
<1> HIDE DEF T
<1>7. g \in Bijection(T, R)
  <2> HIDE DEF R
  <2>1. g \in [T -> R]
    BY <1>3
  <2>2. IsInjective(g)
    BY <1>1, <1>2 DEF IsInjective
  <2>3. \A k \in R : \E i \in T : g[i] = k
    BY <1>4
  <2> QED
    BY <2>1, <2>2, <2>3 DEF Bijection, Injection, Surjection
<1>8. Cardinality(R) = Cardinality(T)
  <2> HIDE DEF R, g
  <2> QED
    BY <1>5, <1>7, FS_Bijection DEF ExistsBijection
<1>9. Cardinality(R) = IF 1 \in Splicing(m) THEN Cardinality(Splicing(m)) - 1
                       ELSE Cardinality(Splicing(m))
  BY <1>5, FS_RemoveElement
<1> QED
  BY <1>1, <1>6, <1>8, <1>9 DEF T

----------------------------------------------------------------------------
(* The synchronous pieces.                                                 *)

\* A flush that waits for its microtask, or for a slot, holds none yet.
LEMMA AcquireEffect ==
    ASSUME NEW s \in Svc, NEW o \in Owner
    PROVE  LET t == acquireFlushSlot(s, o)
           IN  /\ t \in Svc /\ Net(t) = Net(s) /\ Served(t)
               /\ t.buffer = s.buffer /\ t.stopped = s.stopped
<1> DEFINE e == [task |-> "splice", owner |-> o]
           t == acquireFlushSlot(s, o)
<1>0. /\ s.micro \in Seq(Task) /\ s.waiters \in Seq(Owner) /\ s.active \in Nat
      /\ FlushConcurrency \in Nat \ {0} /\ e \in Task
  BY BufferAssumption DEF Svc, Task
<1>1. CASE s.active < FlushConcurrency
  <2>1. t = [s EXCEPT !.active = @ + 1, !.micro = Append(@, e)]
    BY <1>1 DEF acquireFlushSlot
  <2>2. Append(s.micro, e) \in Seq(Task) /\ Append(s.micro, e) # <<>>
    BY <1>0, AppendProperties
  <2>3. /\ t \in Svc /\ t.buffer = s.buffer /\ t.stopped = s.stopped
        /\ t.active = s.active + 1 /\ t.micro = Append(s.micro, e)
    <3> DEFINE M == Append(s.micro, e)
               n == s.active + 1
    <3>1. t = [s EXCEPT !.active = n, !.micro = M]
      BY <2>1
    <3>2. n \in Nat /\ M \in Seq(Task)
      BY <1>0, <2>2
    <3> HIDE DEF e, M, n, t
    <3>3. /\ t \in Svc /\ t.buffer = s.buffer /\ t.stopped = s.stopped
          /\ t.active = n /\ t.micro = M
      BY <3>1, <3>2 DEF Svc
    <3> QED
      BY <3>3 DEF M, n
  <2>4. Cardinality(Splicing(t.micro)) = Cardinality(Splicing(s.micro)) + 1
    BY <1>0, <2>3, SplicingAppend
  <2>5. Cardinality(Splicing(s.micro)) \in Nat
    BY <1>0, SplicingFinite
  <2> HIDE DEF t, e
  <2>6. Net(t) = Net(s)
    BY <1>0, <2>3, <2>4, <2>5 DEF Net
  <2> QED
    BY <2>2, <2>3, <2>6 DEF t, Served
<1>2. CASE ~(s.active < FlushConcurrency)
  <2>1. t = [s EXCEPT !.waiters = Append(@, o)]
    BY <1>2 DEF acquireFlushSlot
  <2>2. Append(s.waiters, o) \in Seq(Owner)
    BY <1>0, AppendProperties
  <2>3. /\ t \in Svc /\ t.buffer = s.buffer /\ t.stopped = s.stopped
        /\ t.active = s.active /\ t.micro = s.micro
    BY <1>0, <2>1, <2>2 DEF Svc
  <2>4. s.active > 0
    BY <1>0, <1>2
  <2> HIDE DEF t
  <2> QED
    BY <2>3, <2>4 DEF t, Served, Net
<1> QED
  BY <1>1, <1>2

LEMMA ScheduleEffect ==
    ASSUME NEW s \in Svc, NEW o \in Owner
    PROVE  LET t == scheduleFlush(s, o)
           IN  /\ t \in Svc /\ Net(t) = Net(s)
               /\ Served(s) \/ s.buffer # <<>> => Served(t)
               /\ t.buffer = s.buffer /\ t.stopped = s.stopped
<1> DEFINE u == [s EXCEPT !.timer = FALSE]
<1>1. /\ u \in Svc /\ u.buffer = s.buffer /\ u.stopped = s.stopped
      /\ u.active = s.active /\ u.micro = s.micro /\ u.waiters = s.waiters
  BY DEF Svc
<1>2. scheduleFlush(s, o) = IF u.buffer = <<>> THEN u ELSE acquireFlushSlot(u, o)
  BY DEF scheduleFlush
<1> HIDE DEF u
<1>3. CASE s.buffer = <<>>
  BY <1>1, <1>2, <1>3 DEF Net, Served
<1>4. CASE s.buffer # <<>>
  <2>1. scheduleFlush(s, o) = acquireFlushSlot(u, o)
    BY <1>1, <1>2, <1>4
  <2>2. Net(u) = Net(s)
    BY <1>1 DEF Net
  <2> QED
    BY <1>1, <2>1, <2>2, AcquireEffect
<1> QED
  BY <1>3, <1>4

\* The finally block gives one slot back and leaves nothing stranded.
LEMMA FinishedEffect ==
    ASSUME NEW s \in Svc, s.active > 0
    PROVE  LET t == Finished(s)
           IN  /\ t \in Svc /\ Net(t) = Net(s) - 1 /\ Served(t)
               /\ t.buffer = s.buffer /\ t.stopped = s.stopped
<1> DEFINE r == releaseFlushSlot(s)
           u == [s EXCEPT !.active = IF @ > 0 THEN @ - 1 ELSE 0]
           e == [task |-> "takeSlot", owner |-> Head(u.waiters)]
<1>0. /\ s.micro \in Seq(Task) /\ s.waiters \in Seq(Owner) /\ s.active \in Nat
      /\ BatchSize \in Nat \ {0} /\ s.buffer \in Seq(Item)
      /\ Cardinality(Splicing(s.micro)) \in Nat
  BY BufferAssumption, SplicingFinite DEF Svc
<1>1. /\ u \in Svc /\ u.buffer = s.buffer /\ u.stopped = s.stopped
      /\ u.active = s.active - 1 /\ u.micro = s.micro /\ u.waiters = s.waiters
  <2> DEFINE n == s.active - 1
  <2>1. u = [s EXCEPT !.active = n] /\ n \in Nat
    BY <1>0
  <2> HIDE DEF u, n
  <2>2. /\ u \in Svc /\ u.buffer = s.buffer /\ u.stopped = s.stopped
        /\ u.active = n /\ u.micro = s.micro /\ u.waiters = s.waiters
    BY <2>1 DEF Svc
  <2> QED
    BY <2>2 DEF n
<1>2. r = IF u.waiters = <<>> THEN u
          ELSE [u EXCEPT !.waiters = Tail(@), !.micro = Append(@, e)]
  BY DEF releaseFlushSlot
<1>3. /\ r \in Svc /\ r.buffer = s.buffer /\ r.stopped = s.stopped /\ r.active = s.active - 1
      /\ Cardinality(Splicing(r.micro)) = Cardinality(Splicing(s.micro))
      /\ r.waiters # <<>> => r.micro # <<>>
  <2>1. CASE s.waiters = <<>>
    <3> HIDE DEF u, r
    <3> QED
      BY <1>1, <1>2, <2>1
  <2>2. CASE s.waiters # <<>>
    <3>1. Head(s.waiters) \in Owner /\ Tail(s.waiters) \in Seq(Owner)
      BY <1>0, <2>2, HeadTailProperties
    <3>2. e \in Task /\ e.task = "takeSlot"
      BY <1>1, <3>1 DEF Task
    <3> HIDE DEF u, e
    <3>3. Append(s.micro, e) \in Seq(Task) /\ Append(s.micro, e) # <<>>
      BY <1>0, <3>2, AppendProperties
    <3>4. r = [u EXCEPT !.waiters = Tail(s.waiters), !.micro = Append(s.micro, e)]
      BY <1>1, <1>2, <2>2
    <3> HIDE DEF r
    <3>5. /\ r \in Svc /\ r.buffer = s.buffer /\ r.stopped = s.stopped
          /\ r.active = s.active - 1 /\ r.micro = Append(s.micro, e)
      BY <1>1, <3>1, <3>3, <3>4 DEF Svc
    <3>6. Cardinality(Splicing(Append(s.micro, e))) = Cardinality(Splicing(s.micro))
      BY <1>0, <3>2, SplicingAppend
    <3> QED
      BY <3>3, <3>5, <3>6
  <2> QED
    BY <2>1, <2>2
<1>4. Finished(s) = IF Len(r.buffer) >= BatchSize THEN scheduleFlush(r, "nobody")
                    ELSE IF r.buffer # <<>> THEN ensureFlushTimer(r) ELSE r
  BY DEF Finished
<1> HIDE DEF r, u, e
<1>5. Net(r) = Net(s) - 1
  BY <1>0, <1>3 DEF Net
<1>6. CASE Len(r.buffer) >= BatchSize
  <2>1. r.buffer # <<>>
    BY <1>0, <1>3, <1>6, EmptySeq
  <2>2. "nobody" \in Owner
    BY DEF Owner
  <2> QED
    BY <1>3, <1>4, <1>5, <1>6, <2>1, <2>2, ScheduleEffect
<1>7. CASE ~(Len(r.buffer) >= BatchSize) /\ r.buffer # <<>>
  <2> DEFINE t == [r EXCEPT !.timer = TRUE]
  <2>1. Finished(s) = t
    BY <1>4, <1>7 DEF ensureFlushTimer
  <2>2. /\ t \in Svc /\ t.buffer = r.buffer /\ t.stopped = r.stopped /\ t.timer
        /\ t.active = r.active /\ t.micro = r.micro /\ t.waiters = r.waiters
    BY <1>3 DEF Svc
  <2> HIDE DEF t
  <2> QED
    BY <1>3, <1>5, <2>1, <2>2 DEF Net, Served
<1>8. CASE ~(Len(r.buffer) >= BatchSize) /\ r.buffer = <<>>
  BY <1>3, <1>4, <1>5, <1>8 DEF Served
<1> QED
  BY <1>6, <1>7, <1>8

----------------------------------------------------------------------------
(* What each step does to the service.                                     *)

Typed == TypeOK /\ svc \in Svc

LEMMA TypeIsSvc == TypeOK => Typed
  BY DEF TypeOK, Typed, Svc, Task

\* The slots in use, as numbers.
LEMMA Slots ==
    ASSUME Typed, Balanced
    PROVE  /\ IsFiniteSet(flights) /\ Cardinality(flights) \in Nat
           /\ \A o \in Owner : reporting[o] \in Nat /\ reporting[o] <= OpenReports
           /\ OpenReports \in Nat
           /\ svc.active \in Nat /\ svc.micro \in Seq(Task)
           /\ Cardinality(Splicing(svc.micro)) \in Nat
           /\ svc.active = Cardinality(flights) + OpenReports + Cardinality(Splicing(svc.micro))
           /\ flights # {} => svc.active > 0
           /\ OpenReports > 0 => svc.active > 0
<1>1. IsFiniteSet(flights) /\ Cardinality(flights) \in Nat
  BY FS_CardinalityType DEF Balanced
<1>2. reporting["nobody"] \in Nat /\ reporting["destroy"] \in Nat /\ reporting["clear"] \in Nat
  BY DEF Typed, TypeOK, Owner, Drainer
<1>3. OpenReports \in Nat /\ \A o \in Owner : reporting[o] \in Nat /\ reporting[o] <= OpenReports
  BY <1>2 DEF OpenReports, Owner, Drainer
<1>4. svc.active \in Nat /\ svc.micro \in Seq(Task)
  BY DEF Typed, Svc
<1>5. Cardinality(Splicing(svc.micro)) \in Nat
  BY <1>4, SplicingFinite
<1>6. svc.active = Cardinality(flights) + OpenReports + Cardinality(Splicing(svc.micro))
  BY <1>1, <1>3, <1>4, <1>5 DEF Balanced, Net
<1>7. flights # {} => Cardinality(flights) # 0
  BY <1>1, FS_EmptySet
<1> QED
  BY <1>1, <1>3, <1>4, <1>5, <1>6, <1>7

LEMMA NoSlotNoWork ==
    ASSUME Typed, Balanced, svc.active = 0
    PROVE  flights = {} /\ \A o \in Owner : reporting[o] = 0
<1>1. /\ OpenReports \in Nat /\ ~(OpenReports > 0)
      /\ \A o \in Owner : reporting[o] \in Nat /\ reporting[o] <= OpenReports
      /\ flights = {}
  BY Slots
<1>2. OpenReports = 0
  BY <1>1
<1> QED
  BY <1>1, <1>2

\* A step that leaves flights and reports alone, and a service as good as it was.
Stays(s) ==
    /\ s \in Svc /\ Net(s) = Net(svc) /\ Served(s)
    /\ s.buffer = svc.buffer /\ (svc.stopped => s.stopped)

LEMMA CallbackSteps ==
    ASSUME Typed, WorkIsServed, TimerFires \/ ImmediateRuns \/ TakesSlot
    PROVE  Stays(svc') /\ UNCHANGED <<flights, reporting>>
<1>0. svc \in Svc /\ Served(svc) /\ "nobody" \in Owner
  BY DEF Typed, WorkIsServed, Owner
<1>1. CASE TimerFires
  BY <1>0, <1>1, ScheduleEffect DEF TimerFires, Stays
<1>2. CASE ImmediateRuns
  <2> DEFINE n == svc.immediates - 1
             s == [svc EXCEPT !.immediates = n]
  <2>1. svc' = scheduleFlush(s, "nobody") /\ n \in Nat
    BY <1>0, <1>2 DEF ImmediateRuns, Svc
  <2> HIDE DEF n
  <2>2. /\ s \in Svc /\ s.buffer = svc.buffer /\ s.stopped = svc.stopped
        /\ s.active = svc.active /\ s.micro = svc.micro /\ s.waiters = svc.waiters
    BY <1>0, <2>1 DEF Svc
  <2> HIDE DEF s
  <2>3. Net(s) = Net(svc) /\ (Served(s) \/ s.buffer # <<>>)
    BY <1>0, <2>2 DEF Net, Served
  <2> QED
    BY <1>0, <1>2, <2>1, <2>2, <2>3, ScheduleEffect DEF ImmediateRuns, Stays
<1>3. CASE TakesSlot
  <2> DEFINE e == [Head(svc.micro) EXCEPT !.task = "splice"]
             M == Append(Tail(svc.micro), e)
             n == svc.active + 1
  <2>0. svc.micro \in Seq(Task) /\ svc.micro # <<>> /\ Head(svc.micro).task = "takeSlot"
        /\ svc.active \in Nat
    BY <1>0, <1>3 DEF TakesSlot, Svc
  <2>1. /\ Tail(svc.micro) \in Seq(Task) /\ Head(svc.micro) \in Task
        /\ Cardinality(Splicing(Tail(svc.micro))) = Cardinality(Splicing(svc.micro))
    BY <2>0, SplicingTail
  <2>2. e \in Task /\ e.task = "splice"
    BY <2>1 DEF Task
  <2>3. svc' = [svc EXCEPT !.active = n, !.micro = M]
    BY <1>3 DEF TakesSlot
  <2> HIDE DEF e
  <2>4. M \in Seq(Task) /\ M # <<>>
    BY <2>1, <2>2, AppendProperties
  <2>5. Cardinality(Splicing(M)) = Cardinality(Splicing(svc.micro)) + 1
    BY <2>1, <2>2, SplicingAppend
  <2>6. Cardinality(Splicing(svc.micro)) \in Nat /\ n \in Nat /\ n > 0
    BY <2>0, SplicingFinite
  <2> HIDE DEF M
  <2>7. /\ svc' \in Svc /\ svc'.buffer = svc.buffer /\ svc'.stopped = svc.stopped
        /\ svc'.active = n /\ svc'.micro = M
    <3> HIDE DEF n
    <3> QED
      BY <1>0, <2>3, <2>4, <2>6 DEF Svc
  <2>8. Net(svc') = Net(svc)
    BY <2>0, <2>5, <2>6, <2>7 DEF Net
  <2>9. Served(svc')
    BY <2>4, <2>6, <2>7 DEF Served
  <2> QED
    BY <1>3, <2>7, <2>8, <2>9 DEF TakesSlot, Stays
<1> QED
  BY <1>1, <1>2, <1>3

LEMMA DrainLoopStep ==
    ASSUME Typed, WorkIsServed, NEW d \in Drainer, NEW s \in {svc, [svc EXCEPT !.stopped = TRUE, !.timer = FALSE]},
           DrainLoop(d, s)
    PROVE  /\ Stays(svc') /\ s.stopped = svc'.stopped
           /\ drain'[d] \in {"drained", "sleeping", "awaiting"}
           /\ \A c \in Drainer \ {d} : drain'[c] = drain[c]
           /\ drain'[d] = "drained" => svc.buffer = <<>> /\ svc.active = 0
           /\ drain' \in [Drainer -> {"off", "awaiting", "sleeping", "drained", "done"}]
<1>0. svc \in Svc /\ Served(svc) /\ d \in Owner
  BY DEF Typed, WorkIsServed, Owner
<1>1. /\ s \in Svc /\ s.buffer = svc.buffer /\ (svc.stopped => s.stopped)
      /\ s.active = svc.active /\ s.micro = svc.micro /\ s.waiters = svc.waiters
  BY <1>0 DEF Svc
<1>2. Net(s) = Net(svc) /\ (Served(s) \/ s.buffer # <<>>)
  BY <1>0, <1>1 DEF Net, Served
<1>3. drain \in [Drainer -> {"off", "awaiting", "sleeping", "drained", "done"}]
  BY DEF Typed, TypeOK
<1>4. CASE Drained(s)
  <2>1. svc' = s /\ drain' = [drain EXCEPT ![d] = "drained"] /\ s.buffer = <<>> /\ s.active = 0
    BY <1>4 DEF DrainLoop, Drained
  <2> QED
    BY <1>1, <1>2, <1>3, <2>1 DEF Stays
<1>5. CASE ~Drained(s)
  <2>1. svc' = scheduleFlush(s, d)
        /\ drain' = [drain EXCEPT ![d] = IF s.buffer = <<>> THEN "sleeping" ELSE "awaiting"]
    BY <1>5 DEF DrainLoop
  <2>2. Stays(svc') /\ s.stopped = svc'.stopped
    BY <1>0, <1>1, <1>2, <2>1, ScheduleEffect DEF Stays
  <2> QED
    BY <1>3, <2>1, <2>2
<1> QED
  BY <1>4, <1>5

LEMMA DrainSteps ==
    ASSUME Typed, WorkIsServed, onModuleDestroy \/ clearAll \/ \E d \in Drainer : DrainWakes(d)
    PROVE  Stays(svc') /\ UNCHANGED <<flights, reporting>>
<1>1. CASE onModuleDestroy
  BY <1>1, DrainLoopStep DEF onModuleDestroy, Drainer
<1>2. CASE clearAll
  BY <1>2, DrainLoopStep DEF clearAll, Drainer
<1>3. ASSUME NEW d \in Drainer, DrainWakes(d)
      PROVE  Stays(svc') /\ UNCHANGED <<flights, reporting>>
  BY <1>3, DrainLoopStep DEF DrainWakes
<1> QED
  BY <1>1, <1>2, <1>3

\* The service after a splice: one microtask less, the front of the buffer gone.
LEMMA SpliceEffect ==
    ASSUME Typed, Balanced, TaskAtHead
    PROVE  /\ AfterSplice \in Svc /\ AfterSplice.stopped = svc.stopped
           /\ Net(AfterSplice) = Net(svc) + 1 /\ AfterSplice.active > 0
           /\ Splice \in Seq(Item) /\ AfterSplice.buffer \in Seq(Item)
           /\ Head(svc.micro).owner \in Owner
           /\ Range(svc.buffer) = Range(Splice) \cup Range(AfterSplice.buffer)
           /\ svc.buffer # <<>> => Splice # <<>>
           /\ svc.buffer = <<>> => AfterSplice.buffer = <<>>
           /\ IsInjective(svc.buffer) =>
                /\ IsInjective(Splice) /\ IsInjective(AfterSplice.buffer)
                /\ Range(Splice) \cap Range(AfterSplice.buffer) = {}
<1> DEFINE n == Len(Splice)
           B == SubSeq(svc.buffer, n + 1, Len(svc.buffer))
           M == Tail(svc.micro)
<1>0. /\ svc \in Svc /\ svc.micro \in Seq(Task) /\ svc.micro # <<>> /\ svc.buffer \in Seq(Item)
      /\ Head(svc.micro).task = "splice" /\ svc.active \in Nat /\ BatchSize \in Nat \ {0}
      /\ Len(svc.buffer) \in Nat
  BY BufferAssumption, EmptySeq DEF Typed, Svc, TaskAtHead
<1>1. /\ M \in Seq(Task) /\ Head(svc.micro) \in Task
      /\ Cardinality(Splicing(M)) = Cardinality(Splicing(svc.micro)) - 1
  BY <1>0, SplicingTail
<1>2. svc.active > 0
  <2>1. Cardinality(Splicing(M)) \in Nat /\ Cardinality(Splicing(svc.micro)) \in Nat
    BY <1>0, <1>1, SplicingFinite
  <2> QED
    BY <1>1, <2>1, Slots
<1>3. Splice = SubSeq(svc.buffer, 1, n) /\ n \in 0..Len(svc.buffer)
      /\ (svc.buffer # <<>> => n > 0)
  <2>1. CASE Len(svc.buffer) < BatchSize
    <3>1. Splice = svc.buffer
      BY <2>1 DEF Splice
    <3>2. SubSeq(svc.buffer, 1, Len(svc.buffer)) = svc.buffer
      BY <1>0, SubSeqFull
    <3> QED
      BY <1>0, <3>1, <3>2, EmptySeq
  <2>2. CASE ~(Len(svc.buffer) < BatchSize)
    <3>1. Splice = SubSeq(svc.buffer, 1, BatchSize)
      BY <2>2 DEF Splice
    <3>2. BatchSize \in 0..Len(svc.buffer)
      BY <1>0, <2>2
    <3>3. Len(Splice) = BatchSize
      BY <1>0, <3>1, <3>2, SplitRange
    <3> QED
      BY <1>0, <3>1, <3>2, <3>3
  <2> QED
    BY <2>1, <2>2
<1>4. /\ Splice \in Seq(Item) /\ B \in Seq(Item)
      /\ Range(svc.buffer) = Range(Splice) \cup Range(B)
      /\ IsInjective(svc.buffer) =>
           /\ IsInjective(Splice) /\ IsInjective(B)
           /\ Range(Splice) \cap Range(B) = {}
  <2> HIDE DEF n
  <2> QED
    BY <1>0, <1>3, SplitRange
<1>5. svc.buffer = <<>> => B = <<>>
  <2> SUFFICES ASSUME svc.buffer = <<>> PROVE B = <<>>
    OBVIOUS
  <2>1. Len(svc.buffer) = 0
    BY EmptySeq
  <2> QED
    BY <1>3, <2>1, SubSeqEmpty
<1>6. svc.buffer # <<>> => Splice # <<>>
  BY <1>3, EmptySeq
<1>7. AfterSplice = [svc EXCEPT !.micro = M, !.buffer = B]
  BY DEF AfterSplice
<1> HIDE DEF B, M, n
<1>8. /\ AfterSplice \in Svc /\ AfterSplice.stopped = svc.stopped
      /\ AfterSplice.active = svc.active /\ AfterSplice.micro = M /\ AfterSplice.buffer = B
  BY <1>0, <1>1, <1>4, <1>7 DEF Svc
<1>9. Net(AfterSplice) = Net(svc) + 1
  <2>1. Cardinality(Splicing(svc.micro)) \in Nat
    BY <1>0, SplicingFinite
  <2> QED
    BY <1>0, <1>1, <1>8, <2>1 DEF Net
<1>10. Head(svc.micro).owner \in Owner
  BY <1>1 DEF Task
<1> QED
  BY <1>2, <1>4, <1>5, <1>6, <1>8, <1>9, <1>10

LEMMA StaysBalanced ==
    ASSUME Balanced, Stays(svc'), UNCHANGED <<flights, reporting>>
    PROVE  svc' \in Svc /\ Balanced' /\ WorkIsServed'
  BY DEF Balanced, Stays, WorkIsServed, OpenReports, Net

LEMMA OneReport ==
    ASSUME Typed, NEW o \in Owner, NEW n \in {-1, 1}, reporting' = [reporting EXCEPT ![o] = @ + n]
    PROVE  OpenReports' = OpenReports + n
<1>1. \A r \in Owner : reporting[r] \in Nat /\ reporting'[r] = IF r = o THEN reporting[r] + n ELSE reporting[r]
  BY DEF Typed, TypeOK
<1>2. o \in {"nobody", "destroy", "clear"} /\ "nobody" \in Owner /\ "destroy" \in Owner /\ "clear" \in Owner
  BY DEF Owner, Drainer
<1> QED
  BY <1>1, <1>2 DEF OpenReports

LEMMA NonEmptyRange ==
    ASSUME NEW S, NEW s \in Seq(S), s # <<>>
    PROVE  Range(s) # {}
<1>1. 1 \in DOMAIN s
  BY EmptySeq, LenProperties
<1> QED
  BY <1>1 DEF Range

LEMMA EnqueueEffect ==
    ASSUME Typed, Balanced, WorkIsServed, NEW i \in Item, enqueueRaw(i)
    PROVE  /\ svc' \in Svc /\ Balanced' /\ WorkIsServed'
           /\ svc'.buffer = Append(svc.buffer, i) /\ svc'.stopped = svc.stopped
           /\ Awaiting(svc') = Awaiting(svc)
<1> DEFINE B == Append(svc.buffer, i)
           s == [svc EXCEPT !.buffer = B]
           n == svc.immediates + 1
<1>0. svc \in Svc /\ svc.buffer \in Seq(Item) /\ svc.immediates \in Nat
  BY DEF Typed, Svc
<1>1. B \in Seq(Item) /\ n \in Nat /\ n > 0
  BY <1>0, AppendProperties
<1>2. svc' = IF Len(s.buffer) >= BatchSize THEN [s EXCEPT !.immediates = @ + 1] ELSE [s EXCEPT !.timer = TRUE]
  BY DEF enqueueRaw, ensureFlushTimer
<1> HIDE DEF B
<1>3. /\ s \in Svc /\ s.buffer = B /\ s.stopped = svc.stopped /\ s.immediates = svc.immediates
      /\ s.active = svc.active /\ s.micro = svc.micro /\ s.waiters = svc.waiters
  BY <1>0, <1>1 DEF Svc
<1> HIDE DEF s
<1>4. svc' = [s EXCEPT !.immediates = n] \/ svc' = [s EXCEPT !.timer = TRUE]
  BY <1>2, <1>3
<1> HIDE DEF n
<1>5. /\ svc' \in Svc /\ svc'.buffer = B /\ svc'.stopped = svc.stopped
      /\ svc'.active = svc.active /\ svc'.micro = svc.micro /\ svc'.waiters = svc.waiters
      /\ svc'.immediates = n \/ svc'.timer
  BY <1>1, <1>3, <1>4 DEF Svc
<1>6. WorkIsServed'
  BY <1>1, <1>5 DEF WorkIsServed, Served
<1>7. Balanced'
  BY <1>5 DEF Balanced, Net, OpenReports, enqueueRaw
<1> QED
  BY <1>5, <1>6, <1>7 DEF B, Awaiting

LEMMA SplicesEffect ==
    ASSUME Typed, Balanced, Apart, Splices
    PROVE  /\ svc' \in Svc /\ Balanced' /\ WorkIsServed'
           /\ svc' = AfterSplice /\ UNCHANGED reporting
           /\ \E f \in Flight : /\ f.batch = Splice /\ f.bad = Range(Splice) \cap Malformed
                              /\ flights' = flights \cup {f} /\ f \notin flights
<1> DEFINE f == [batch |-> Splice, bad |-> Range(Splice) \cap Malformed, owner |-> Head(svc.micro).owner]
<1>0. TaskAtHead /\ svc.buffer # <<>> /\ svc' = AfterSplice /\ flights' = flights \cup {f} /\ UNCHANGED reporting
  BY DEF Splices
<1>1. /\ AfterSplice \in Svc /\ Net(AfterSplice) = Net(svc) + 1 /\ AfterSplice.active > 0
      /\ Splice \in Seq(Item) /\ Splice # <<>> /\ Head(svc.micro).owner \in Owner
      /\ Range(Splice) \subseteq Range(svc.buffer)
  BY <1>0, SpliceEffect
<1>2. f \in Flight /\ f.batch = Splice /\ f.bad = Range(Splice) \cap Malformed
  BY <1>1 DEF Flight
<1> HIDE DEF f
<1>3. f \notin flights
  <2>1. Range(Splice) # {}
    BY <1>1, NonEmptyRange
  <2> QED
    BY <1>1, <1>2, <2>1 DEF Apart
<1>4. Balanced'
  <2>1. IsFiniteSet(flights') /\ Cardinality(flights') = Cardinality(flights) + 1
    BY <1>0, <1>3, FS_AddElement DEF Balanced
  <2>2. Cardinality(flights) \in Nat /\ OpenReports \in Nat /\ OpenReports' = OpenReports
    BY <1>0, Slots DEF OpenReports
  <2>3. Net(svc') = Net(svc) + 1
    BY <1>0, <1>1
  <2> QED
    BY <2>1, <2>2, <2>3 DEF Balanced
<1>5. WorkIsServed'
  BY <1>0, <1>1 DEF WorkIsServed, Served
<1> QED
  BY <1>0, <1>1, <1>2, <1>3, <1>4, <1>5

LEMMA SplicesNothingEffect ==
    ASSUME Typed, Balanced, SplicesNothing
    PROVE  Stays(svc') /\ UNCHANGED <<flights, reporting>>
<1>0. TaskAtHead /\ svc.buffer = <<>> /\ svc' = Finished(AfterSplice) /\ UNCHANGED <<flights, reporting>>
  BY DEF SplicesNothing
<1>1. /\ AfterSplice \in Svc /\ AfterSplice.stopped = svc.stopped
      /\ Net(AfterSplice) = Net(svc) + 1 /\ AfterSplice.active > 0
      /\ AfterSplice.buffer = <<>>
  BY <1>0, SpliceEffect
<1>2. Net(svc) \in Int
  BY Slots DEF Balanced
<1> QED
  BY <1>0, <1>1, <1>2, FinishedEffect DEF Stays

LEMMA LandsEffect ==
    ASSUME Typed, Balanced, NEW f \in flights, Lands(f), UNCHANGED reporting
    PROVE  /\ svc' \in Svc /\ Balanced' /\ WorkIsServed'
           /\ svc'.buffer = svc.buffer /\ svc'.stopped = svc.stopped /\ flights' = flights \ {f}
<1>0. flights' = flights \ {f} /\ svc' = Finished(svc)
  BY DEF Lands
<1>1. svc \in Svc /\ svc.active > 0
  BY Slots DEF Typed
<1>2. /\ svc' \in Svc /\ Net(svc') = Net(svc) - 1 /\ Served(svc')
      /\ svc'.buffer = svc.buffer /\ svc'.stopped = svc.stopped
  BY <1>0, <1>1, FinishedEffect
<1>3. Balanced'
  <2>1. IsFiniteSet(flights') /\ Cardinality(flights') = Cardinality(flights) - 1
    BY <1>0, FS_RemoveElement DEF Balanced
  <2>2. Cardinality(flights) \in Nat /\ OpenReports \in Nat /\ OpenReports' = OpenReports
    BY Slots DEF OpenReports
  <2> QED
    BY <1>2, <2>1, <2>2 DEF Balanced
<1> QED
  BY <1>0, <1>2, <1>3 DEF WorkIsServed

LEMMA InsertErrorEffect ==
    ASSUME Typed, Balanced, NEW f \in flights, InsertError(f)
    PROVE  /\ svc' \in Svc /\ Balanced' /\ WorkIsServed'
           /\ svc'.buffer = Restored(f) /\ svc'.stopped = svc.stopped /\ flights' = flights \ {f}
<1> DEFINE B == Restored(f)
<1>0. /\ flights' = flights \ {f} /\ svc' = [svc EXCEPT !.buffer = B]
      /\ reporting' = [reporting EXCEPT ![f.owner] = @ + 1]
  BY DEF InsertError
<1>1. svc \in Svc /\ svc.active > 0 /\ f \in Flight
  BY Slots DEF Typed, TypeOK
<1>2. B \in Seq(Item) /\ f.owner \in Owner
  <2>1. f.batch \in Seq(Item) /\ svc.buffer \in Seq(Item) /\ f.owner \in Owner
    BY <1>1 DEF Flight, Svc
  <2> QED
    BY <2>1, ConcatProperties DEF Restored
<1> HIDE DEF B
<1>3. /\ svc' \in Svc /\ svc'.buffer = B /\ svc'.stopped = svc.stopped
      /\ svc'.active = svc.active /\ svc'.micro = svc.micro
  BY <1>0, <1>1, <1>2 DEF Svc
<1>4. Balanced'
  <2>1. IsFiniteSet(flights') /\ Cardinality(flights') = Cardinality(flights) - 1
    BY <1>0, FS_RemoveElement DEF Balanced
  <2>2. OpenReports' = OpenReports + 1
    BY <1>0, <1>2, OneReport
  <2>3. Net(svc') = Net(svc)
    BY <1>3 DEF Net
  <2>4. Cardinality(flights) \in Nat /\ OpenReports \in Nat
    BY Slots
  <2> QED
    BY <2>1, <2>2, <2>3, <2>4 DEF Balanced
<1>5. WorkIsServed'
  BY <1>1, <1>3 DEF WorkIsServed, Served
<1> QED
  BY <1>0, <1>3, <1>4, <1>5 DEF B

LEMMA ReportsEffect ==
    ASSUME Typed, Balanced, NEW o \in Owner, Reports(o)
    PROVE  /\ svc' \in Svc /\ Balanced' /\ WorkIsServed'
           /\ svc'.buffer = svc.buffer /\ svc'.stopped = svc.stopped /\ UNCHANGED flights
<1> DEFINE s == [svc EXCEPT !.timer = TRUE]
<1>0. /\ reporting[o] > 0 /\ reporting' = [reporting EXCEPT ![o] = @ - 1]
      /\ svc' = Finished(s) /\ UNCHANGED flights
  BY DEF Reports, ensureFlushTimer
<1>1. svc \in Svc /\ svc.active > 0 /\ OpenReports \in Nat /\ Cardinality(flights) \in Nat
  BY <1>0, Slots DEF Typed
<1>2. /\ s \in Svc /\ s.buffer = svc.buffer /\ s.stopped = svc.stopped
      /\ s.active = svc.active /\ s.micro = svc.micro
  BY <1>1 DEF Svc
<1> HIDE DEF s
<1>3. Net(s) = Net(svc)
  BY <1>2 DEF Net
<1>4. /\ svc' \in Svc /\ Net(svc') = Net(svc) - 1 /\ Served(svc')
      /\ svc'.buffer = svc.buffer /\ svc'.stopped = svc.stopped
  BY <1>0, <1>1, <1>2, <1>3, FinishedEffect
<1>5. OpenReports' = OpenReports - 1
  <2>1. reporting' = [reporting EXCEPT ![o] = @ + (-1)]
    BY <1>0 DEF Typed, TypeOK
  <2>2. OpenReports' = OpenReports + (-1)
    BY <2>1, OneReport
  <2> QED
    BY <1>1, <2>2
<1>6. Balanced'
  BY <1>0, <1>1, <1>4, <1>5 DEF Balanced
<1> QED
  BY <1>0, <1>4, <1>6 DEF WorkIsServed

\* The record of one malformed body: the flight goes on or lands.
LEMMA RecordsEffect ==
    ASSUME Typed, Balanced, Apart, NEW f \in flights, RecordsMalformed(f)
    PROVE  /\ svc' \in Svc /\ (WorkIsServed => WorkIsServed') /\ Balanced' /\ UNCHANGED reporting
           /\ svc'.buffer = svc.buffer /\ svc'.stopped = svc.stopped
           /\ \E i \in f.bad :
                /\ discarded' = discarded \cup {i}
                /\ \/ f.bad = {i} /\ Rows(f) = {} /\ Lands(f)
                   \/ \E g \in Flight : /\ g.batch = f.batch /\ g.bad = f.bad \ {i} /\ g.owner = f.owner
                                      /\ flights' = (flights \ {f}) \cup {g}
                                      /\ UNCHANGED <<svc, drain>>
<1>0. UNCHANGED reporting
  BY DEF RecordsMalformed
<1>1. PICK i \in f.bad :
        /\ discarded' = discarded \cup {i}
        /\ IF f.bad = {i} /\ Rows(f) = {}
           THEN Lands(f)
           ELSE /\ flights' = (flights \ {f}) \cup {[f EXCEPT !.bad = @ \ {i}]}
                /\ UNCHANGED <<svc, drain>>
  BY DEF RecordsMalformed
<1>2. CASE f.bad = {i} /\ Rows(f) = {}
  BY <1>0, <1>1, <1>2, LandsEffect
<1>3. CASE ~(f.bad = {i} /\ Rows(f) = {})
  <2> DEFINE g == [f EXCEPT !.bad = @ \ {i}]
  <2>1. f \in Flight /\ svc \in Svc
    BY DEF Typed, TypeOK
  <2>2. g \in Flight /\ g.batch = f.batch /\ g.bad = f.bad \ {i} /\ g.owner = f.owner /\ g # f
    BY <2>1 DEF Flight
  <2>3. flights' = (flights \ {f}) \cup {g} /\ UNCHANGED <<svc, drain>>
    BY <1>1, <1>3
  <2> HIDE DEF g
  <2>4. g \notin flights \ {f}
    <3>1. Range(f.batch) # {}
      BY <2>1, NonEmptyRange DEF Apart, Flight
    <3> QED
      BY <2>2, <3>1 DEF Apart
  <2>5. IsFiniteSet(flights') /\ Cardinality(flights') = Cardinality(flights)
    <3>1. IsFiniteSet(flights \ {f}) /\ Cardinality(flights \ {f}) = Cardinality(flights) - 1
      BY FS_RemoveElement DEF Balanced
    <3>2. IsFiniteSet(flights') /\ Cardinality(flights') = Cardinality(flights \ {f}) + 1
      BY <2>3, <2>4, <3>1, FS_AddElement
    <3>3. Cardinality(flights) \in Nat
      BY Slots
    <3> QED
      BY <3>1, <3>2, <3>3
  <2>6. Balanced' /\ (WorkIsServed => WorkIsServed')
    BY <1>0, <2>3, <2>5 DEF Balanced, WorkIsServed, OpenReports, Net
  <2> QED
    BY <1>0, <1>1, <2>1, <2>2, <2>3, <2>6
<1> QED
  BY <1>2, <1>3

LEMMA CrashEffect ==
    ASSUME Crash
    PROVE  /\ svc' \in Svc /\ Balanced' /\ WorkIsServed'
           /\ svc'.buffer = <<>> /\ flights' = {}
<1>0. svc' = Idle /\ flights' = {} /\ reporting' = [o \in Owner |-> 0]
  BY DEF Crash
<1>1. Idle \in Svc /\ Idle.buffer = <<>> /\ Idle.waiters = <<>> /\ Idle.active = 0 /\ Idle.micro = <<>>
  <2>1. <<>> \in Seq(Item) /\ <<>> \in Seq(Owner) /\ <<>> \in Seq(Task)
    BY EmptySeq
  <2> QED
    BY <2>1 DEF Idle, Svc
<1>2. Net(Idle) = 0
  <2>1. Splicing(<<>>) = {}
    BY DEF Splicing
  <2>2. Cardinality(Splicing(Idle.micro)) = 0
    BY <1>1, <2>1, FS_EmptySet
  <2> QED
    BY <1>1, <2>2 DEF Net
<1>3. OpenReports' = 0
  BY <1>0 DEF OpenReports, Owner, Drainer
<1> QED
  BY <1>0, <1>1, <1>2, <1>3, FS_EmptySet DEF Balanced, WorkIsServed, Served

----------------------------------------------------------------------------
(* The steps keep the invariant.                                           *)

InsertErrors(f) == MeetsOwnRow(f) \/ InsertFails(f) \/ InsertUnacknowledged(f)
DrainCalls == onModuleDestroy \/ clearAll \/ \E d \in Drainer : DrainWakes(d)

LEMMA NextSorted ==
    ASSUME Next
    PROVE  \/ \E i \in Item : enqueueRaw(i)
           \/ TimerFires \/ ImmediateRuns \/ TakesSlot
           \/ Splices \/ SplicesNothing
           \/ \E f \in flights : RecordsMalformed(f) \/ Inserts(f) \/ InsertErrors(f)
           \/ \E o \in Owner : Reports(o)
           \/ DrainCalls \/ Deletes \/ Crash
  BY DEF Next, Flushing, Failing, Calls, InsertErrors, DrainCalls

LEMMA ServiceStep ==
    ASSUME Typed, Balanced, WorkIsServed, Apart, Next
    PROVE  svc' \in Svc /\ Balanced' /\ WorkIsServed'
<1>1. ASSUME NEW i \in Item, enqueueRaw(i)
      PROVE  svc' \in Svc /\ Balanced' /\ WorkIsServed'
  BY <1>1, EnqueueEffect
<1>2. CASE TimerFires \/ ImmediateRuns \/ TakesSlot \/ SplicesNothing \/ DrainCalls
  BY <1>2, CallbackSteps, SplicesNothingEffect, DrainSteps, StaysBalanced DEF DrainCalls
<1>3. CASE Splices
  BY <1>3, SplicesEffect
<1>4. ASSUME NEW f \in flights, RecordsMalformed(f)
      PROVE  svc' \in Svc /\ Balanced' /\ WorkIsServed'
  BY <1>4, RecordsEffect
<1>5. ASSUME NEW f \in flights, Inserts(f)
      PROVE  svc' \in Svc /\ Balanced' /\ WorkIsServed'
  BY <1>5, LandsEffect DEF Inserts
<1>6. ASSUME NEW f \in flights, InsertErrors(f)
      PROVE  svc' \in Svc /\ Balanced' /\ WorkIsServed'
  BY <1>6, InsertErrorEffect DEF InsertErrors, MeetsOwnRow, InsertFails, InsertUnacknowledged
<1>7. ASSUME NEW o \in Owner, Reports(o)
      PROVE  svc' \in Svc /\ Balanced' /\ WorkIsServed'
  BY <1>7, ReportsEffect
<1>8. CASE Deletes
  BY <1>8 DEF Deletes, Balanced, WorkIsServed, OpenReports, Net, Typed
<1>9. CASE Crash
  BY <1>9, CrashEffect
<1> QED
  BY <1>1, <1>2, <1>3, <1>4, <1>5, <1>6, <1>7, <1>8, <1>9, NextSorted

LEMMA TypeStep ==
    ASSUME Typed, Balanced, WorkIsServed, Apart, Next
    PROVE  TypeOK'
<1>0. /\ svc \in Svc /\ svc' \in Svc
      /\ flights \subseteq Flight /\ reporting \in [Owner -> Nat]
      /\ drain \in [Drainer -> {"off", "awaiting", "sleeping", "drained", "done"}]
      /\ accepted \subseteq Item /\ queue \subseteq Item /\ discarded \subseteq Malformed
      /\ cleared \subseteq Item /\ lost \subseteq Item
      /\ faults \in 0..MaxFaults /\ MaxFaults \in Nat
  BY ServiceStep, BufferAssumption DEF Typed, TypeOK
<1>1. \A o \in Owner : Resolve(o) =>
        drain' \in [Drainer -> {"off", "awaiting", "sleeping", "drained", "done"}]
  BY <1>0 DEF Resolve
<1>2. \A f \in flights : f.batch \in Seq(Item) /\ f.bad \subseteq Malformed /\ f.owner \in Owner
                         /\ Range(f.batch) \subseteq Item
  BY <1>0, RangeOfSeq DEF Flight
<1>3. Range(svc.buffer) \subseteq Item
  BY <1>0, RangeOfSeq DEF Svc
<1>4. svc' \in [buffer : Seq(Item), timer : BOOLEAN, immediates : Nat, active : Nat,
                waiters : Seq(Owner), stopped : BOOLEAN,
                micro : Seq([task : {"takeSlot", "splice"}, owner : Owner])]
  BY <1>0 DEF Svc, Task
<1>5. ASSUME NEW i \in Item, enqueueRaw(i)
      PROVE  TypeOK'
  BY <1>0, <1>4, <1>5 DEF enqueueRaw, TypeOK, tables
<1>6. CASE TimerFires \/ ImmediateRuns \/ TakesSlot
  BY <1>0, <1>4, <1>6 DEF TimerFires, ImmediateRuns, TakesSlot, TypeOK, tables
<1>7. CASE Splices
  <2>1. flights' \subseteq Flight
    BY <1>0, <1>7, SplicesEffect
  <2> QED
    BY <1>0, <1>4, <1>7, <2>1 DEF Splices, TypeOK, tables
<1>8. CASE SplicesNothing
  <2>1. Head(svc.micro).owner \in Owner
    BY <1>8, SpliceEffect DEF SplicesNothing
  <2> QED
    BY <1>0, <1>1, <1>4, <1>8, <2>1 DEF SplicesNothing, TypeOK, tables
<1>9. ASSUME NEW f \in flights, RecordsMalformed(f)
      PROVE  TypeOK'
  <2>1. discarded' \subseteq Malformed /\ flights' \subseteq Flight
        /\ drain' \in [Drainer -> {"off", "awaiting", "sleeping", "drained", "done"}]
    <3>1. PICK i \in f.bad :
                /\ discarded' = discarded \cup {i}
                /\ \/ Lands(f)
                   \/ \E g \in Flight : /\ flights' = (flights \ {f}) \cup {g}
                                      /\ UNCHANGED <<svc, drain>>
      BY <1>9, RecordsEffect
    <3>2. CASE Lands(f)
      BY <1>0, <1>1, <1>2, <3>1, <3>2 DEF Lands
    <3>3. CASE \E g \in Flight : flights' = (flights \ {f}) \cup {g} /\ UNCHANGED <<svc, drain>>
      BY <1>0, <1>2, <3>1, <3>3
    <3> QED
      BY <3>1, <3>2, <3>3
  <2> QED
    BY <1>0, <1>4, <1>9, <2>1 DEF RecordsMalformed, TypeOK
<1>10. ASSUME NEW f \in flights, Inserts(f)
       PROVE  TypeOK'
  <2>1. Rows(f) \subseteq Item
    BY <1>2 DEF Rows
  <2> QED
    BY <1>0, <1>1, <1>2, <1>4, <1>10, <2>1 DEF Inserts, Lands, TypeOK
<1>11. ASSUME NEW f \in flights, InsertErrors(f)
       PROVE  TypeOK'
  <2>1. Rows(f) \subseteq Item
    BY <1>2 DEF Rows
  <2>2. queue' \subseteq Item /\ faults' \in 0..MaxFaults /\ InsertError(f)
    BY <1>0, <1>11, <2>1
       DEF InsertErrors, MeetsOwnRow, InsertFails, InsertUnacknowledged, UseFault
  <2>3. reporting' \in [Owner -> Nat]
    BY <1>0, <1>2, <2>2 DEF InsertError
  <2> QED
    BY <1>0, <1>4, <2>2, <2>3 DEF InsertError, TypeOK
<1>12. ASSUME NEW o \in Owner, Reports(o)
       PROVE  TypeOK'
  <2>1. reporting' \in [Owner -> Nat]
    BY <1>0, <1>12 DEF Reports
  <2> QED
    BY <1>0, <1>1, <1>4, <1>12, <2>1 DEF Reports, TypeOK, tables
<1>13. CASE DrainCalls
  <2>1. drain' \in [Drainer -> {"off", "awaiting", "sleeping", "drained", "done"}]
    BY <1>13, DrainLoopStep DEF DrainCalls, onModuleDestroy, clearAll, DrainWakes, Drainer
  <2> QED
    BY <1>0, <1>4, <1>13, <2>1
       DEF DrainCalls, onModuleDestroy, clearAll, DrainWakes, TypeOK, tables
<1>14. CASE Deletes
  BY <1>0, <1>4, <1>14 DEF Deletes, TypeOK
<1>15. CASE Crash
  <2>1. InMemory \subseteq Item
    BY <1>2, <1>3 DEF InMemory
  <2>2. \A f \in flights : Rows(f) \subseteq Item
    BY <1>2 DEF Rows
  <2>3. queue' \subseteq Item /\ lost' \subseteq Item
    BY <1>0, <1>15, <2>1, <2>2 DEF Crash
  <2>4. faults' \in 0..MaxFaults
    BY <1>0, <1>15 DEF Crash, UseFault
  <2>5. flights' = {} /\ reporting' \in [Owner -> Nat]
        /\ drain' \in [Drainer -> {"off", "awaiting", "sleeping", "drained", "done"}]
        /\ UNCHANGED <<accepted, discarded, cleared>>
    BY <1>15 DEF Crash
  <2> QED
    BY <1>0, <1>4, <2>3, <2>4, <2>5 DEF TypeOK
<1> QED
  BY <1>5, <1>6, <1>7, <1>8, <1>9, <1>10, <1>11, <1>12, <1>13, <1>14, <1>15, NextSorted

LEMMA ApartKept ==
    ASSUME Apart, svc'.buffer = svc.buffer, flights' \subseteq flights, accepted \subseteq accepted'
    PROVE  Apart'
  BY DEF Apart, InMemory

LEMMA ApartStep ==
    ASSUME Typed, Balanced, WorkIsServed, Apart, Next
    PROVE  Apart'
<1>0. svc.buffer \in Seq(Item) /\ flights \subseteq Flight
  BY DEF Typed, Svc, TypeOK
<1>1. ASSUME NEW i \in Item, enqueueRaw(i)
      PROVE  Apart'
  <2>1. svc'.buffer = Append(svc.buffer, i)
    BY <1>1, EnqueueEffect
  <2>2. i \notin accepted /\ accepted' = accepted \cup {i} /\ UNCHANGED flights
    BY <1>1 DEF enqueueRaw
  <2>3. i \notin Range(svc.buffer) /\ \A f \in flights : i \notin Range(f.batch)
    BY <2>2 DEF Apart, InMemory
  <2>4. Range(svc'.buffer) = Range(svc.buffer) \cup {i} /\ IsInjective(svc'.buffer)
    BY <1>0, <2>1, <2>3, AppendRange DEF Apart
  <2> QED
    BY <2>2, <2>3, <2>4 DEF Apart, InMemory
<1>2. CASE TimerFires \/ ImmediateRuns \/ TakesSlot \/ SplicesNothing \/ DrainCalls
  <2>1. svc'.buffer = svc.buffer /\ UNCHANGED flights
    BY <1>2, CallbackSteps, SplicesNothingEffect, DrainSteps DEF DrainCalls, Stays
  <2>2. UNCHANGED accepted
    BY <1>2 DEF TimerFires, ImmediateRuns, TakesSlot, SplicesNothing, DrainCalls, onModuleDestroy,
                clearAll, DrainWakes
  <2> QED
    BY <2>1, <2>2, ApartKept
<1>3. CASE Splices
  <2>1. PICK f \in Flight : f.batch = Splice /\ flights' = flights \cup {f}
    BY <1>3, SplicesEffect
  <2>2. svc'.buffer = AfterSplice.buffer /\ UNCHANGED accepted
    BY <1>3 DEF Splices
  <2>3. /\ Range(svc.buffer) = Range(Splice) \cup Range(AfterSplice.buffer) /\ Splice # <<>>
        /\ IsInjective(Splice) /\ IsInjective(AfterSplice.buffer)
        /\ Range(Splice) \cap Range(AfterSplice.buffer) = {}
    BY <1>3, SpliceEffect DEF Splices, Apart
  <2> QED
    BY <2>1, <2>2, <2>3 DEF Apart, InMemory
<1>4. ASSUME NEW f \in flights, RecordsMalformed(f)
      PROVE  Apart'
  <2>1. UNCHANGED accepted /\ svc'.buffer = svc.buffer
    BY <1>4, RecordsEffect DEF RecordsMalformed
  <2>2. CASE Lands(f)
    BY <2>1, <2>2, ApartKept DEF Lands
  <2>3. ASSUME NEW g \in Flight, g.batch = f.batch, flights' = (flights \ {f}) \cup {g}
        PROVE  Apart'
    <3>1. \A h \in flights' : \/ h \in flights \ {f}
                              \/ h = g
      BY <2>3
    <3>2. \A h \in flights' : /\ h.batch # <<>> /\ IsInjective(h.batch)
                              /\ Range(h.batch) \cap Range(svc'.buffer) = {}
      BY <2>1, <2>3, <3>1 DEF Apart
    <3>3. \A h, k \in flights' : h # k => Range(h.batch) \cap Range(k.batch) = {}
      <4> SUFFICES ASSUME NEW h \in flights', NEW k \in flights', h # k
                   PROVE  Range(h.batch) \cap Range(k.batch) = {}
        OBVIOUS
      <4>1. \A p \in flights \ {f} : Range(p.batch) \cap Range(g.batch) = {}
        BY <2>3 DEF Apart
      <4> QED
        BY <3>1, <4>1 DEF Apart
    <3>4. InMemory' \subseteq accepted'
      <4>1. InMemory' \subseteq InMemory
        <5>1. \A h \in flights' : \E p \in flights : Range(h.batch) = Range(p.batch)
          BY <2>3, <3>1
        <5> QED
          BY <2>1, <5>1 DEF InMemory
      <4> QED
        BY <2>1, <4>1 DEF Apart
    <3> QED
      BY <2>1, <3>2, <3>3, <3>4 DEF Apart
  <2> QED
    BY <1>4, <2>2, <2>3, RecordsEffect
<1>5. ASSUME NEW f \in flights, Inserts(f)
      PROVE  Apart'
  <2>1. svc'.buffer = svc.buffer /\ flights' = flights \ {f} /\ UNCHANGED accepted
    BY <1>5, LandsEffect DEF Inserts
  <2> QED
    BY <2>1, ApartKept
<1>6. ASSUME NEW f \in flights, InsertErrors(f)
      PROVE  Apart'
  <2>1. InsertError(f)
    BY <1>6 DEF InsertErrors, MeetsOwnRow, InsertFails, InsertUnacknowledged
  <2>2. svc'.buffer = f.batch \o svc.buffer /\ flights' = flights \ {f} /\ UNCHANGED accepted
    BY <2>1, InsertErrorEffect DEF InsertError, Restored
  <2>3. f.batch \in Seq(Item)
    BY <1>0 DEF Flight
  <2>4. /\ IsInjective(svc'.buffer)
        /\ Range(svc'.buffer) = Range(f.batch) \cup Range(svc.buffer)
    BY <1>0, <2>2, <2>3, ConcatInjective, RangeConcatenation DEF Apart
  <2>5. \A h \in flights' : /\ h.batch # <<>> /\ IsInjective(h.batch)
                            /\ Range(h.batch) \cap Range(svc'.buffer) = {}
    <3>1. \A h \in flights' : /\ h.batch # <<>> /\ IsInjective(h.batch)
                              /\ Range(h.batch) \cap Range(f.batch) = {}
                              /\ Range(h.batch) \cap Range(svc.buffer) = {}
      BY <2>2 DEF Apart
    <3> QED
      BY <2>4, <3>1
  <2>6. \A h, k \in flights' : h # k => Range(h.batch) \cap Range(k.batch) = {}
    BY <2>2 DEF Apart
  <2>7. InMemory' \subseteq accepted'
    <3>1. InMemory' \subseteq InMemory
      BY <2>2, <2>4 DEF InMemory
    <3> QED
      BY <2>2, <3>1 DEF Apart
  <2> QED
    BY <2>4, <2>5, <2>6, <2>7 DEF Apart
<1>7. ASSUME NEW o \in Owner, Reports(o)
      PROVE  Apart'
  BY <1>7, ReportsEffect, ApartKept DEF Reports
<1>8. CASE Deletes
  BY <1>8, ApartKept DEF Deletes
<1>9. CASE Crash
  <2>1. svc'.buffer = <<>> /\ flights' = {}
    BY <1>9, CrashEffect
  <2>2. Range(<<>>) = {} /\ IsInjective(<<>>)
    BY DEF Range, IsInjective
  <2> QED
    BY <2>1, <2>2 DEF Apart, InMemory
<1> QED
  BY <1>1, <1>2, <1>3, <1>4, <1>5, <1>6, <1>7, <1>8, <1>9, NextSorted

LEMMA AccountedKept ==
    ASSUME Accounted, InMemory \subseteq InMemory', UNCHANGED <<accepted, tables, lost>>,
           \A f \in flights' : \E g \in flights : f.batch = g.batch /\ f.bad = g.bad
    PROVE  Accounted'
  BY DEF Accounted, NothingVanishes, tables

LEMMA AccountedStep ==
    ASSUME Typed, Balanced, WorkIsServed, Apart, Accounted, Next
    PROVE  Accounted'
<1>0. svc.buffer \in Seq(Item) /\ flights \subseteq Flight
  BY DEF Typed, Svc, TypeOK
<1>1. ASSUME NEW i \in Item, enqueueRaw(i)
      PROVE  Accounted'
  <2>1. svc'.buffer = Append(svc.buffer, i)
    BY <1>1, EnqueueEffect
  <2>2. accepted' = accepted \cup {i} /\ UNCHANGED <<flights, queue, discarded, cleared, lost>>
    BY <1>1 DEF enqueueRaw, tables
  <2>3. Range(svc'.buffer) = Range(svc.buffer) \cup {i}
    BY <1>0, <2>1, AppendRange
  <2> QED
    BY <2>2, <2>3 DEF Accounted, NothingVanishes, InMemory
<1>2. CASE TimerFires \/ ImmediateRuns \/ TakesSlot \/ SplicesNothing \/ DrainCalls
  <2>1. svc'.buffer = svc.buffer /\ UNCHANGED flights
    BY <1>2, CallbackSteps, SplicesNothingEffect, DrainSteps DEF DrainCalls, Stays
  <2>2. UNCHANGED <<accepted, tables, lost>>
    BY <1>2 DEF TimerFires, ImmediateRuns, TakesSlot, SplicesNothing, DrainCalls, onModuleDestroy,
                clearAll, DrainWakes
  <2>3. InMemory' = InMemory
    BY <2>1 DEF InMemory
  <2> QED
    BY <2>1, <2>2, <2>3, AccountedKept
<1>3. CASE Splices
  <2>1. PICK f \in Flight : /\ f.batch = Splice /\ f.bad = Range(Splice) \cap Malformed
                            /\ flights' = flights \cup {f}
    BY <1>3, SplicesEffect
  <2>2. svc'.buffer = AfterSplice.buffer /\ UNCHANGED <<accepted, queue, discarded, cleared, lost>>
    BY <1>3 DEF Splices, tables
  <2>3. Range(svc.buffer) = Range(Splice) \cup Range(AfterSplice.buffer)
    BY <1>3, SpliceEffect DEF Splices
  <2>4. InMemory' = InMemory
    BY <2>1, <2>2, <2>3 DEF InMemory
  <2> QED
    BY <2>1, <2>2, <2>4 DEF Accounted, NothingVanishes
<1>4. ASSUME NEW f \in flights, RecordsMalformed(f)
      PROVE  Accounted'
  <2>1. /\ UNCHANGED <<accepted, queue, cleared, lost>> /\ svc'.buffer = svc.buffer
    BY <1>4, RecordsEffect DEF RecordsMalformed
  <2>2. PICK i \in f.bad :
          /\ discarded' = discarded \cup {i}
          /\ \/ f.bad = {i} /\ Rows(f) = {} /\ Lands(f)
             \/ \E g \in Flight : /\ g.batch = f.batch /\ g.bad = f.bad \ {i}
                                /\ flights' = (flights \ {f}) \cup {g}
    BY <1>4, RecordsEffect
  <2>3. CASE f.bad = {i} /\ Rows(f) = {} /\ Lands(f)
    <3>1. Range(f.batch) \subseteq discarded'
      BY <2>2, <2>3 DEF Rows, Accounted
    <3>2. flights' = flights \ {f}
      BY <2>3 DEF Lands
    <3>3. InMemory \subseteq InMemory' \cup Range(f.batch)
      BY <2>1, <3>2 DEF InMemory
    <3> QED
      BY <2>1, <2>2, <3>1, <3>2, <3>3 DEF Accounted, NothingVanishes
  <2>4. ASSUME NEW g \in Flight, g.batch = f.batch, g.bad = f.bad \ {i},
               flights' = (flights \ {f}) \cup {g}
        PROVE  Accounted'
    <3>1. InMemory \subseteq InMemory'
      BY <2>1, <2>4 DEF InMemory
    <3> QED
      BY <2>1, <2>2, <2>4, <3>1 DEF Accounted, NothingVanishes
  <2> QED
    BY <2>2, <2>3, <2>4
<1>5. ASSUME NEW f \in flights, Inserts(f)
      PROVE  Accounted'
  <2>1. /\ svc'.buffer = svc.buffer /\ flights' = flights \ {f}
        /\ UNCHANGED <<accepted, discarded, cleared, lost>>
        /\ queue' = queue \cup Rows(f) /\ f.bad = {}
    BY <1>5, LandsEffect DEF Inserts, Inserting
  <2>2. Range(f.batch) \subseteq queue' \cup discarded'
    BY <2>1 DEF Rows, Accounted
  <2>3. InMemory \subseteq InMemory' \cup Range(f.batch)
    BY <2>1 DEF InMemory
  <2> QED
    BY <2>1, <2>2, <2>3 DEF Accounted, NothingVanishes
<1>6. ASSUME NEW f \in flights, InsertErrors(f)
      PROVE  Accounted'
  <2>1. /\ InsertError(f) /\ queue \subseteq queue'
    BY <1>6 DEF InsertErrors, MeetsOwnRow, InsertFails, InsertUnacknowledged
  <2>2. /\ svc'.buffer = f.batch \o svc.buffer /\ flights' = flights \ {f}
        /\ UNCHANGED <<accepted, discarded, cleared, lost>>
    BY <2>1, InsertErrorEffect DEF InsertError, Restored
  <2>3. Range(svc'.buffer) = Range(f.batch) \cup Range(svc.buffer)
    BY <1>0, <2>2, RangeConcatenation DEF Flight
  <2>4. InMemory \subseteq InMemory'
    BY <2>2, <2>3 DEF InMemory
  <2> QED
    BY <2>1, <2>2, <2>4 DEF Accounted, NothingVanishes
<1>7. ASSUME NEW o \in Owner, Reports(o)
      PROVE  Accounted'
  <2>1. svc'.buffer = svc.buffer /\ UNCHANGED <<flights, accepted, tables, lost>>
    BY <1>7, ReportsEffect DEF Reports
  <2>2. InMemory' = InMemory
    BY <2>1 DEF InMemory
  <2> QED
    BY <2>1, <2>2, AccountedKept
<1>8. CASE Deletes
  <2>1. InMemory' = InMemory
    BY <1>8 DEF InMemory, Deletes
  <2> QED
    BY <1>8, <2>1 DEF Deletes, Accounted, NothingVanishes
<1>9. CASE Crash
  <2>1. /\ flights' = {} /\ queue \subseteq queue' /\ UNCHANGED <<accepted, discarded, cleared>>
        /\ lost' = lost \cup (InMemory \ (queue' \cup discarded))
    BY <1>9 DEF Crash
  <2> QED
    BY <2>1 DEF Accounted, NothingVanishes
<1> QED
  BY <1>1, <1>2, <1>3, <1>4, <1>5, <1>6, <1>7, <1>8, <1>9, NextSorted

----------------------------------------------------------------------------
(* Who awaits what.                                                        *)

LEMMA TailRange ==
    ASSUME NEW S, NEW s \in Seq(S), s # <<>>
    PROVE  Head(s) \in Range(s) /\ Range(Tail(s)) \subseteq Range(s)
<1>1. /\ Head(s) = s[1] /\ Len(s) \in Nat \ {0} /\ Tail(s) \in Seq(S)
      /\ \A i \in 1..(Len(s) - 1) : Tail(s)[i] = s[i + 1]
      /\ DOMAIN s = 1..Len(s) /\ DOMAIN Tail(s) = 1..(Len(s) - 1)
  BY HeadTailProperties, LenProperties, EmptySeq
<1>2. 1 \in DOMAIN s /\ \A i \in DOMAIN Tail(s) : i + 1 \in DOMAIN s
  BY <1>1
<1> QED
  BY <1>1, <1>2 DEF Range

LEMMA AcquireAwaits ==
    ASSUME NEW s \in Svc, NEW o \in Owner
    PROVE  Awaiting(acquireFlushSlot(s, o)) \subseteq Awaiting(s) \cup {o}
<1> DEFINE e == [task |-> "splice", owner |-> o]
           t == acquireFlushSlot(s, o)
<1>0. s.micro \in Seq(Task) /\ s.waiters \in Seq(Owner) /\ e \in Task /\ e.owner = o
  BY DEF Svc, Task
<1>1. t = IF s.active < FlushConcurrency
          THEN [s EXCEPT !.active = @ + 1, !.micro = Append(@, e)]
          ELSE [s EXCEPT !.waiters = Append(@, o)]
  BY DEF acquireFlushSlot
<1> HIDE DEF e
<1>2. Range(Append(s.micro, e)) = Range(s.micro) \cup {e}
  BY <1>0, AppendRange
<1>3. Range(Append(s.waiters, o)) = Range(s.waiters) \cup {o}
  BY <1>0, AppendRange
<1>4. \/ t.micro = Append(s.micro, e) /\ t.waiters = s.waiters
      \/ t.micro = s.micro /\ t.waiters = Append(s.waiters, o)
  BY <1>1 DEF Svc
<1> HIDE DEF t
<1>5. Range(t.waiters) \subseteq Range(s.waiters) \cup {o}
  BY <1>3, <1>4
<1>6. Range(t.micro) \subseteq Range(s.micro) \cup {e}
  BY <1>2, <1>4
<1>7. Awaiting(t) \subseteq Awaiting(s) \cup {o}
  BY <1>0, <1>5, <1>6 DEF Awaiting
<1> QED
  BY <1>7 DEF t

LEMMA ScheduleAwaits ==
    ASSUME NEW s \in Svc, NEW o \in Owner
    PROVE  Awaiting(scheduleFlush(s, o)) \subseteq Awaiting(s) \cup {o}
<1> DEFINE u == [s EXCEPT !.timer = FALSE]
<1>1. u \in Svc /\ Awaiting(u) = Awaiting(s)
  BY DEF Svc, Awaiting
<1>2. scheduleFlush(s, o) \in {u, acquireFlushSlot(u, o)}
  BY DEF scheduleFlush
<1> HIDE DEF u
<1> QED
  BY <1>1, <1>2, AcquireAwaits

LEMMA FinishedAwaits ==
    ASSUME NEW s \in Svc, s.active > 0
    PROVE  Awaiting(Finished(s)) \subseteq Awaiting(s) \cup {"nobody"}
<1> DEFINE r == releaseFlushSlot(s)
           n == s.active - 1
           u == [s EXCEPT !.active = n]
           e == [task |-> "takeSlot", owner |-> Head(s.waiters)]
           v == [u EXCEPT !.waiters = Tail(s.waiters), !.micro = Append(s.micro, e)]
<1>0. /\ s.micro \in Seq(Task) /\ s.waiters \in Seq(Owner) /\ s.active \in Nat /\ n \in Nat
      /\ "nobody" \in Owner
  BY DEF Svc, Owner
<1>1. r = IF s.waiters = <<>> THEN u ELSE v
  BY <1>0 DEF releaseFlushSlot, Svc
<1>2. u \in Svc /\ Awaiting(u) = Awaiting(s)
  <2> HIDE DEF n
  <2> QED
    BY <1>0 DEF Svc, Awaiting
<1>3. r \in Svc /\ Awaiting(r) \subseteq Awaiting(s)
  <2>1. CASE s.waiters = <<>>
    <3> HIDE DEF u, v
    <3> QED
      BY <1>1, <1>2, <2>1
  <2>2. CASE s.waiters # <<>>
    <3>1. Head(s.waiters) \in Range(s.waiters) /\ Range(Tail(s.waiters)) \subseteq Range(s.waiters)
          /\ Head(s.waiters) \in Owner /\ Tail(s.waiters) \in Seq(Owner)
      BY <1>0, <2>2, TailRange, HeadTailProperties
    <3>2. e \in Task /\ e.owner = Head(s.waiters)
      BY <3>1 DEF Task
    <3> HIDE DEF e
    <3>3. /\ Append(s.micro, e) \in Seq(Task)
          /\ Range(Append(s.micro, e)) = Range(s.micro) \cup {e}
      BY <1>0, <3>2, AppendProperties, AppendRange
    <3>4. v \in Svc /\ v.waiters = Tail(s.waiters) /\ v.micro = Append(s.micro, e)
      <4> HIDE DEF u
      <4> QED
        BY <1>2, <3>1, <3>3 DEF Svc
    <3> HIDE DEF v
    <3>5. Awaiting(v) \subseteq Awaiting(s)
      BY <3>1, <3>2, <3>3, <3>4 DEF Awaiting
    <3> QED
      BY <1>1, <2>2, <3>4, <3>5
  <2> QED
    BY <2>1, <2>2
<1>4. Finished(s) \in {scheduleFlush(r, "nobody"), [r EXCEPT !.timer = TRUE], r}
  <2> HIDE DEF u, v, e, n
  <2> QED
    BY DEF Finished, ensureFlushTimer
<1> HIDE DEF r, u, v, e, n
<1>5. Awaiting([r EXCEPT !.timer = TRUE]) = Awaiting(r)
  BY <1>3 DEF Awaiting, Svc
<1> QED
  BY <1>0, <1>3, <1>4, <1>5, ScheduleAwaits

LEMMA CallbackAwaits ==
    ASSUME Typed, Balanced, TimerFires \/ ImmediateRuns \/ TakesSlot
    PROVE  Awaiting(svc') \subseteq Awaiting(svc) \cup {"nobody"}
<1>0. svc \in Svc /\ "nobody" \in Owner
  BY DEF Typed, Owner
<1>1. CASE TimerFires
  BY <1>0, <1>1, ScheduleAwaits DEF TimerFires
<1>2. CASE ImmediateRuns
  <2> DEFINE n == svc.immediates - 1
             s == [svc EXCEPT !.immediates = n]
  <2>1. svc' = scheduleFlush(s, "nobody") /\ n \in Nat
    BY <1>0, <1>2 DEF ImmediateRuns, Svc
  <2> HIDE DEF n
  <2>2. s \in Svc /\ Awaiting(s) = Awaiting(svc)
    BY <1>0, <2>1 DEF Svc, Awaiting
  <2> HIDE DEF s
  <2> QED
    BY <1>0, <2>1, <2>2, ScheduleAwaits
<1>3. CASE TakesSlot
  <2> DEFINE e == [Head(svc.micro) EXCEPT !.task = "splice"]
             M == Append(Tail(svc.micro), e)
  <2>0. svc.micro \in Seq(Task) /\ svc.micro # <<>>
    BY <1>0, <1>3 DEF TakesSlot, Svc
  <2>1. /\ Tail(svc.micro) \in Seq(Task) /\ Head(svc.micro) \in Task
        /\ Head(svc.micro) \in Range(svc.micro) /\ Range(Tail(svc.micro)) \subseteq Range(svc.micro)
    BY <2>0, SplicingTail, TailRange
  <2>2. e \in Task /\ e.owner = Head(svc.micro).owner
    BY <2>1 DEF Task
  <2>3. svc'.micro = M /\ svc'.waiters = svc.waiters
    BY <1>0, <1>3 DEF TakesSlot, Svc
  <2> HIDE DEF e
  <2>4. Range(Append(Tail(svc.micro), e)) = Range(Tail(svc.micro)) \cup {e}
    <3> DEFINE T == Tail(svc.micro)
    <3>1. T \in Seq(Task) /\ e \in Task
      BY <2>1, <2>2
    <3> HIDE DEF T
    <3>2. Range(Append(T, e)) = Range(T) \cup {e}
      BY <3>1, AppendRange
    <3> QED
      BY <3>2 DEF T
  <2> QED
    BY <2>1, <2>2, <2>3, <2>4 DEF Awaiting
<1> QED
  BY <1>1, <1>2, <1>3

LEMMA SpliceAwaits ==
    ASSUME Typed, TaskAtHead
    PROVE  /\ Awaiting(AfterSplice) \subseteq Awaiting(svc)
           /\ Head(svc.micro).owner \in Awaiting(svc)
<1>0. svc.micro \in Seq(Task) /\ svc.micro # <<>> /\ svc \in Svc
  BY DEF TaskAtHead, Typed, Svc
<1>1. Head(svc.micro) \in Range(svc.micro) /\ Range(Tail(svc.micro)) \subseteq Range(svc.micro)
  BY <1>0, TailRange
<1>2. AfterSplice.micro = Tail(svc.micro) /\ AfterSplice.waiters = svc.waiters
  BY <1>0 DEF AfterSplice, Svc
<1> QED
  BY <1>1, <1>2 DEF Awaiting

LEMMA ResolveEffect ==
    ASSUME Typed, NEW o \in Owner, Resolve(o)
    PROVE  /\ drain'["destroy"] \in {drain["destroy"], "sleeping"}
           /\ o # "destroy" => drain'["destroy"] = drain["destroy"]
<1>1. drain \in [Drainer -> {"off", "awaiting", "sleeping", "drained", "done"}] /\ "destroy" \in Drainer
  BY DEF Typed, TypeOK, Drainer
<1> QED
  BY <1>1 DEF Resolve

\* What a step that is neither a call of shutdown nor a crash keeps.
LEMMA StoppingKept ==
    ASSUME Stopping, svc'.buffer = svc.buffer, flights' \subseteq flights, svc'.stopped = svc.stopped,
           drain'["destroy"] \in {drain["destroy"], "sleeping"},
           \A o \in Owner : reporting[o] = 0 => reporting'[o] = 0,
           Awaiting(svc') \subseteq Awaiting(svc) \cup {"nobody", "clear"},
           ~svc.stopped => drain'["destroy"] = drain["destroy"]
    PROVE  Stopping'
<1>1. "destroy" \in Owner
  BY DEF Owner, Drainer
<1> QED
  BY <1>1 DEF Stopping

LEMMA StoppingStep ==
    ASSUME Typed, Balanced, WorkIsServed, Apart, Stopping, Next
    PROVE  Stopping'
<1>0. /\ svc \in Svc /\ "destroy" \in Owner /\ "destroy" \in Drainer /\ "clear" \in Drainer
      /\ \A o \in Owner : reporting[o] \in Nat
      /\ drain \in [Drainer -> {"off", "awaiting", "sleeping", "drained", "done"}]
      /\ flights \subseteq Flight
  BY DEF Typed, TypeOK, Owner, Drainer
<1>1. ASSUME NEW i \in Item, enqueueRaw(i)
      PROVE  Stopping'
  <2>1. svc'.stopped = svc.stopped /\ Awaiting(svc') = Awaiting(svc)
    BY <1>1, EnqueueEffect
  <2> QED
    BY <1>1, <2>1 DEF enqueueRaw, Stopping
<1>2. CASE TimerFires \/ ImmediateRuns \/ TakesSlot
  <2>1. svc'.buffer = svc.buffer /\ (svc.stopped => svc'.stopped) /\ UNCHANGED <<flights, reporting>>
    BY <1>2, CallbackSteps DEF Stays
  <2>2. UNCHANGED drain
    BY <1>2 DEF TimerFires, ImmediateRuns, TakesSlot
  <2>3. Awaiting(svc') \subseteq Awaiting(svc) \cup {"nobody"}
    BY <1>2, CallbackAwaits
  <2> QED
    BY <2>1, <2>2, <2>3 DEF Stopping
<1>3. CASE Splices
  <2>1. PICK f \in Flight : flights' = flights \cup {f} /\ f.owner \in Awaiting(svc)
    <3> DEFINE f == [batch |-> Splice, bad |-> Range(Splice) \cap Malformed,
                     owner |-> Head(svc.micro).owner]
    <3>1. flights' = flights \cup {f} /\ TaskAtHead
      BY <1>3 DEF Splices
    <3>2. f \in Flight /\ f.owner \in Awaiting(svc)
      BY <3>1, SpliceEffect, SpliceAwaits DEF Flight
    <3> QED
      BY <3>1, <3>2
  <2>2. /\ svc.buffer # <<>> /\ UNCHANGED <<drain, reporting>>
        /\ svc'.stopped = svc.stopped /\ Awaiting(svc') \subseteq Awaiting(svc)
    BY <1>3, SpliceEffect, SpliceAwaits DEF Splices
  <2> QED
    BY <2>1, <2>2 DEF Stopping
<1>4. CASE SplicesNothing
  <2>1. /\ TaskAtHead /\ svc' = Finished(AfterSplice) /\ UNCHANGED <<flights, reporting>>
        /\ svc.buffer = <<>> /\ Resolve(Head(svc.micro).owner)
    BY <1>4 DEF SplicesNothing
  <2>2. /\ AfterSplice \in Svc /\ AfterSplice.active > 0 /\ AfterSplice.buffer = <<>>
        /\ AfterSplice.stopped = svc.stopped /\ Head(svc.micro).owner \in Owner
    BY <2>1, SpliceEffect
  <2>3. /\ svc'.buffer = svc.buffer /\ svc'.stopped = svc.stopped
        /\ Awaiting(svc') \subseteq Awaiting(svc) \cup {"nobody"}
        /\ Head(svc.micro).owner \in Awaiting(svc)
    BY <2>1, <2>2, FinishedEffect, FinishedAwaits, SpliceAwaits
  <2> QED
    BY <2>1, <2>2, <2>3, ResolveEffect, StoppingKept DEF Stopping
<1>5. ASSUME NEW f \in flights, Lands(f), UNCHANGED reporting
      PROVE  Stopping'
  <2>1. svc'.buffer = svc.buffer /\ svc'.stopped = svc.stopped /\ flights' = flights \ {f}
    BY <1>5, LandsEffect
  <2>2. Awaiting(svc') \subseteq Awaiting(svc) \cup {"nobody"}
    <3>1. svc.active > 0
      BY Slots
    <3> QED
      BY <1>0, <1>5, <3>1, FinishedAwaits DEF Lands
  <2>3. f.owner \in Owner /\ Resolve(f.owner)
    BY <1>0, <1>5 DEF Flight, Lands
  <2> QED
    BY <1>5, <2>1, <2>2, <2>3, ResolveEffect, StoppingKept DEF Stopping
<1>6. ASSUME NEW f \in flights, RecordsMalformed(f)
      PROVE  Stopping'
  <2>1. CASE Lands(f)
    BY <1>5, <1>6, <2>1, RecordsEffect
  <2>2. ASSUME NEW g \in Flight, g.owner = f.owner, flights' = (flights \ {f}) \cup {g},
               UNCHANGED <<svc, drain>>
        PROVE  Stopping'
    BY <1>6, <2>2, RecordsEffect DEF Stopping
  <2> QED
    BY <1>6, <2>1, <2>2, RecordsEffect
<1>7. ASSUME NEW f \in flights, Inserts(f)
      PROVE  Stopping'
  BY <1>5, <1>7 DEF Inserts
<1>8. ASSUME NEW f \in flights, InsertErrors(f)
      PROVE  Stopping'
  <2>1. InsertError(f)
    BY <1>8 DEF InsertErrors, MeetsOwnRow, InsertFails, InsertUnacknowledged
  <2>2. /\ svc'.stopped = svc.stopped /\ flights' = flights \ {f} /\ UNCHANGED drain
        /\ f.owner # "destroy" => reporting'["destroy"] = reporting["destroy"]
    BY <1>0, <2>1, InsertErrorEffect DEF InsertError, Typed, TypeOK
  <2>3. Awaiting(svc') = Awaiting(svc)
    BY <1>0, <2>1 DEF InsertError, Awaiting, Svc
  <2> QED
    BY <2>2, <2>3 DEF Stopping
<1>9. ASSUME NEW o \in Owner, Reports(o)
      PROVE  Stopping'
  <2> DEFINE s == [svc EXCEPT !.timer = TRUE]
  <2>1. /\ svc'.buffer = svc.buffer /\ svc'.stopped = svc.stopped /\ UNCHANGED flights
    BY <1>9, ReportsEffect
  <2>2. /\ reporting[o] > 0 /\ svc' = Finished(s) /\ Resolve(o)
        /\ reporting' = [reporting EXCEPT ![o] = @ - 1]
    BY <1>9 DEF Reports, ensureFlushTimer
  <2>3. s \in Svc /\ s.active > 0 /\ Awaiting(s) = Awaiting(svc)
    <3>1. svc.active > 0
      BY <1>0, <2>2, Slots
    <3> QED
      BY <1>0, <3>1 DEF Svc, Awaiting
  <2> HIDE DEF s
  <2>4. Awaiting(svc') \subseteq Awaiting(svc) \cup {"nobody"}
    BY <2>2, <2>3, FinishedAwaits
  <2>5. \A r \in Owner : reporting[r] = 0 => reporting'[r] = 0
    BY <1>0, <2>2 DEF Typed, TypeOK
  <2> QED
    BY <2>1, <2>2, <2>4, <2>5, ResolveEffect, StoppingKept DEF Stopping
<1>10. ASSUME NEW d \in Drainer, DrainWakes(d)
       PROVE  Stopping'
  <2>1. /\ Stays(svc') /\ svc.stopped = svc'.stopped
        /\ \A c \in Drainer \ {d} : drain'[c] = drain[c]
        /\ drain'[d] = "drained" => svc.buffer = <<>> /\ svc.active = 0
        /\ UNCHANGED <<flights, reporting>> /\ drain[d] = "sleeping" /\ DrainLoop(d, svc)
    BY <1>10, DrainLoopStep DEF DrainWakes
  <2>2. Awaiting(svc') \subseteq Awaiting(svc) \cup {d}
    <3>1. d \in Owner
      BY DEF Owner
    <3> QED
      BY <1>0, <2>1, <3>1, ScheduleAwaits DEF DrainLoop
  <2>3. svc'.buffer = svc.buffer
    BY <2>1 DEF Stays
  <2>4. svc.active = 0 => flights = {} /\ \A o \in Owner : reporting[o] = 0
    BY NoSlotNoWork
  <2>5. CASE d = "destroy"
    BY <2>1, <2>3, <2>4, <2>5 DEF Stopping
  <2>6. CASE d # "destroy"
    BY <1>0, <2>1, <2>2, <2>3, <2>6 DEF Stopping
  <2> QED
    BY <2>5, <2>6
<1>11. CASE onModuleDestroy
  <2> DEFINE s == [svc EXCEPT !.stopped = TRUE, !.timer = FALSE]
  <2>1. DrainLoop("destroy", s) /\ s.stopped /\ UNCHANGED <<flights, reporting>>
    BY <1>0, <1>11 DEF onModuleDestroy, Svc
  <2>2. /\ svc'.stopped /\ Stays(svc')
        /\ drain'["destroy"] = "drained" => svc.buffer = <<>> /\ svc.active = 0
    BY <1>0, <2>1, DrainLoopStep
  <2>3. svc.active = 0 => flights = {} /\ \A o \in Owner : reporting[o] = 0
    BY NoSlotNoWork
  <2>4. svc'.buffer = svc.buffer
    BY <2>2 DEF Stays
  <2> HIDE DEF s
  <2> QED
    BY <2>1, <2>2, <2>3, <2>4 DEF Stopping
<1>12. CASE clearAll
  <2>1. /\ Stays(svc') /\ svc.stopped = svc'.stopped /\ drain'["destroy"] = drain["destroy"]
        /\ UNCHANGED <<flights, reporting>> /\ DrainLoop("clear", svc)
    BY <1>0, <1>12, DrainLoopStep DEF clearAll
  <2>2. Awaiting(svc') \subseteq Awaiting(svc) \cup {"clear"}
    <3>1. "clear" \in Owner
      BY DEF Owner, Drainer
    <3> QED
      BY <1>0, <2>1, <3>1, ScheduleAwaits DEF DrainLoop
  <2> QED
    BY <2>1, <2>2, StoppingKept DEF Stays
<1>13. CASE Deletes
  BY <1>0, <1>13 DEF Deletes, Stopping
<1>14. CASE Crash
  <2>1. Awaiting(Idle) = {}
    BY DEF Awaiting, Idle, Range
  <2> QED
    BY <1>0, <1>14, <2>1 DEF Crash, Stopping, Idle
<1> QED
  BY <1>1, <1>2, <1>3, <1>4, <1>6, <1>7, <1>8, <1>9, <1>10, <1>11, <1>12, <1>13, <1>14, NextSorted
     DEF DrainCalls

----------------------------------------------------------------------------
(* The theorems.                                                           *)

LEMMA BufferInit == Init => TypeOK /\ BufferInv
<1> SUFFICES ASSUME Init PROVE TypeOK /\ BufferInv
  OBVIOUS
<1>1. <<>> \in Seq(Item) /\ <<>> \in Seq(Owner) /\ <<>> \in Seq(Task)
  BY EmptySeq
<1>2. Range(<<>>) = {} /\ IsInjective(<<>>) /\ Splicing(<<>>) = {} /\ Cardinality({}) = 0
  BY FS_EmptySet DEF Range, IsInjective, Splicing
<1>3. TypeOK
  <2>1. drain \in [Drainer -> {"off", "awaiting", "sleeping", "drained", "done"}]
    BY DEF Init
  <2> QED
    BY <1>1, <2>1, BufferAssumption DEF Init, Idle, TypeOK, Task
<1>4. Balanced
  <2>1. Net(svc) = 0
    <3>1. svc.micro = <<>> /\ svc.active = 0
      BY DEF Init, Idle
    <3>2. Cardinality(Splicing(svc.micro)) = 0
      BY <1>2, <3>1
    <3> QED
      BY <3>1, <3>2 DEF Net
  <2>2. OpenReports = 0 /\ flights = {}
    BY DEF Init, OpenReports, Owner, Drainer
  <2> QED
    BY <1>2, <2>1, <2>2, FS_EmptySet DEF Balanced
<1>5. WorkIsServed /\ Apart /\ Accounted
  BY <1>2 DEF Init, Idle, WorkIsServed, Served, Apart, Accounted, NothingVanishes, InMemory
<1>6. Stopping
  <2>1. Awaiting(Idle) = {}
    BY <1>2 DEF Awaiting, Idle
  <2> QED
    BY <2>1 DEF Init, Stopping, Idle, Owner, Drainer
<1> QED
  BY <1>3, <1>4, <1>5, <1>6 DEF BufferInv

\* All variables but the count of faults, which others may share.
serviceVars == <<svc, flights, reporting, drain, accepted, tables, lost>>

LEMMA BufferStutter ==
    TypeOK /\ BufferInv /\ UNCHANGED serviceVars /\ faults' \in 0..MaxFaults => (TypeOK /\ BufferInv)'
<1> SUFFICES ASSUME TypeOK, BufferInv, UNCHANGED serviceVars, faults' \in 0..MaxFaults
             PROVE  (TypeOK /\ BufferInv)'
  OBVIOUS
<1>1. TypeOK'
  BY DEF serviceVars, tables, TypeOK
<1>2. Balanced' /\ WorkIsServed'
  BY DEF serviceVars, BufferInv, Balanced, WorkIsServed, OpenReports
<1>3. InMemory' = InMemory
  BY DEF serviceVars, InMemory
<1>4. Apart' /\ Accounted'
  BY <1>3 DEF serviceVars, tables, BufferInv, Apart, Accounted, NothingVanishes
<1>5. Stopping'
  BY DEF serviceVars, BufferInv, Stopping
<1> QED
  BY <1>1, <1>2, <1>4, <1>5 DEF BufferInv

LEMMA BufferStep == TypeOK /\ BufferInv /\ [Next]_vars => (TypeOK /\ BufferInv)'
<1> SUFFICES ASSUME TypeOK, BufferInv, [Next]_vars PROVE (TypeOK /\ BufferInv)'
  OBVIOUS
<1>1. Typed
  BY TypeIsSvc
<1>2. CASE Next
  BY <1>1, <1>2, ServiceStep, TypeStep, ApartStep, AccountedStep, StoppingStep DEF BufferInv
<1>3. CASE UNCHANGED vars
  BY <1>3, BufferStutter DEF vars, serviceVars, TypeOK
<1> QED
  BY <1>2, <1>3

LEMMA BufferAlways == Spec => [](TypeOK /\ BufferInv)
  BY BufferInit, BufferStep, PTL DEF Spec

\* Every variable of the ingest buffer keeps its type, and only malformed
\* bodies are discarded, whatever the sizes and limits are.
THEOREM BufferTypeCorrect == Spec => []TypeOK
  BY BufferAlways, PTL

\* activeFlushes is the number of calls that hold a slot, in spite of failing
\* inserts, woken waiters and both drains: no slot leaks, none is given back
\* twice.
THEOREM NoSlotLeaks == Spec => []SlotsCounted
<1>1. TypeOK /\ BufferInv => SlotsCounted
  <2> SUFFICES ASSUME TypeOK, BufferInv PROVE SlotsCounted
    OBVIOUS
  <2>1. Typed /\ Balanced
    BY TypeIsSvc DEF BufferInv
  <2>2. svc.active = Cardinality(flights) + OpenReports + Cardinality(Splicing(svc.micro))
    BY <2>1, Slots
  <2>3. /\ reporting["nobody"] \in Nat /\ reporting["destroy"] \in Nat /\ reporting["clear"] \in Nat
        /\ Cardinality(flights) \in Nat /\ Cardinality(Splicing(svc.micro)) \in Nat
    BY <2>1, Slots DEF Owner, Drainer
  <2> QED
    BY <2>2, <2>3 DEF SlotsCounted, OpenReports, Splicing
<1> QED
  BY <1>1, BufferAlways, PTL

\* Between macrotasks a non-empty buffer has a timer, an immediate, a running
\* flush or a drain that will see to it, and a waiter somebody to wake it.
THEOREM NothingIsStranded == Spec => []NothingStranded
<1>1. TypeOK /\ BufferInv => NothingStranded
  BY DEF BufferInv, WorkIsServed, Served, NothingStranded, Quiet
<1> QED
  BY <1>1, BufferAlways, PTL

\* An item answered with 202 is in memory, queued, cleared, discarded as
\* malformed or lost with its process: no failed or racing flush forgets one.
THEOREM NoneVanishes == Spec => []NothingVanishes
<1>1. TypeOK /\ BufferInv => NothingVanishes
  BY DEF BufferInv, Accounted
<1> QED
  BY <1>1, BufferAlways, PTL

\* No item is in memory twice, although failed batches go back to the buffer
\* that other flushes are taking from.
THEOREM NoneHeldTwice == Spec => []HeldOnce
<1>1. TypeOK /\ BufferInv => HeldOnce
  <2> SUFFICES ASSUME TypeOK, BufferInv PROVE HeldOnce
    OBVIOUS
  <2>1. svc.buffer \in Seq(Item) /\ Apart
    BY DEF TypeOK, BufferInv
  <2>2. Len(svc.buffer) = Cardinality(Range(svc.buffer))
    BY <2>1, InjectiveLength DEF Apart
  <2> QED
    BY <2>1, <2>2 DEF HeldOnce, Apart
<1> QED
  BY <1>1, BufferAlways, PTL

\* When the drain of onModuleDestroy ends, memory is empty and no failure is
\* still being reported; it stays so, for nothing is accepted any more.
THEOREM ShutdownLeavesNothing == Spec => []ShutdownSettles
<1>1. TypeOK /\ BufferInv => ShutdownSettles
  <2>1. Range(<<>>) = {}
    BY DEF Range
  <2> QED
    BY <2>1 DEF BufferInv, Stopping, ShutdownSettles, InMemory
<1> QED
  BY <1>1, BufferAlways, PTL
=============================================================================
