---------------------------- MODULE RCInputProofs ----------------------------
(***************************************************************************)
(* Timers fire in time, dialogs close in time, a key that is pressed is    *)
(* seen, and seen once while it is held: for any timers, dialogs, keys and *)
(* messages, and whenever the clock is set.                                *)
(***************************************************************************)
EXTENDS RCInput, FiniteSetTheorems, SequenceTheorems, TLAPS

\* The timers of the vector, the messages that wait, and the dialogs.
Timers    == [id : 1..MaxTimers, times_out : Int, interval : Intervals \cup {0},
              correct_time : BOOLEAN]
Internal  == {Info("INFO")}
Announced == [name : {"BOX", "UNKNOWN", "TIMESET"}, data : Int]
Dialogs   == [end : Int, due : Nat, sure : BOOLEAN]

Distinct(s) == \A i, j \in 1..Len(s) : s[i].id = s[j].id => i = j

\* TypeOK, and what it leaves open.
ClockTypes  == now \in 0..MaxTime /\ offset \in Int /\ follows \in BOOLEAN /\ inputs \in 0..MaxInputs
TimerTypes  ==
    /\ timers \in Seq(Timers) /\ Distinct(timers)
    /\ timerid \in 1..(MaxTimers + 1) /\ \A i \in 1..Len(timers) : timers[i].id < timerid
    /\ due \in [1..MaxTimers -> Int]
MailTypes   == {high, low} \subseteq Seq(Internal) /\ socket \in Seq(Announced)
KeyTypes    ==
    /\ device \in Seq(Events) /\ {held, rc_last_key} \subseteq Keys \cup {None}
    /\ rc_last_repeat_key \in Repeating \cup {None} /\ last_keypress \in Int
    /\ torn \in BOOLEAN
DialogTypes == dialogs \in Seq(Dialogs)
CallTypes   ==
    /\ pc \in {"caller", "loop", "select", "keys", "low"} /\ msg \in Messages
    /\ Timeout \in Nat /\ getKeyBegin \in Int /\ timer_id \in 0..MaxTimers /\ wake \in Int
    /\ woken \in Nat

\* While the timers follow the clock, the vector is in the order in which they are due, and
\* the main thread sleeps until the first at most.
Sorted(s) == \A i, j \in 1..Len(s) : i <= j => s[i].times_out <= s[j].times_out
OnTime    == \A i \in 1..Len(timers) :
                timers[i].correct_time => timers[i].times_out = due[timers[i].id] + offset
Asleep    == pc = "select" /\ timers # <<>> => wake + offset <= timers[1].times_out
Ordered   == follows => Sorted(timers) /\ OnTime /\ Asleep

\* The key that is down after the first i events, when this key was down before.
Down(key, events, i) == IF i = 0 THEN key ELSE IF events[i].down THEN events[i].key ELSE None

\* A repetition of a held key comes after this key.
Chain ==
    /\ \A i \in 1..Len(device) :
          device[i].down /\ ~device[i].fresh /\ ~device[i].torn =>
              Down(rc_last_key, device, i - 1) = device[i].key
    /\ held # None /\ ~torn => Down(rc_last_key, device, Len(device)) = held

\* The dialogs end when they should, the innermost once it has got the message that the
\* clock was set.
Corrects == pc = "caller" /\ msg.name = "TIMESET"
Ends ==
    \A i \in 1..Len(dialogs) : dialogs[i].sure =>
        /\ ~Corrects => dialogs[i].end = dialogs[i].due + offset
        /\ Corrects /\ i = 1 => dialogs[i].end + msg.data = dialogs[i].due + offset

\* The innermost dialog waits in getMsg_us, and its end was right whenever the clock was set.
Waits == pc # "caller" /\ dialogs # <<>> /\ dialogs[1].sure

\* Timeout is never more than the time until the end of the dialog, and never less as long
\* as it was taken off for one wake-up at most.
InBudget(end) ==
    /\ getKeyBegin <= Wall
    /\ Timeout = 0 \/ getKeyBegin + Timeout <= end
    /\ woken = 0 => getKeyBegin + Timeout >= end
LoopInBudget(end) ==
    /\ Timeout = 0 \/ Wall + Timeout <= end
    /\ woken <= 1 => Wall + Timeout >= end
SleepInBudget(end) ==
    /\ wake <= now \/ wake + offset <= end
    /\ timer_id = 0 /\ woken <= 1 => wake + offset >= end
    /\ timer_id # 0 => timers # <<>> /\ timers[1].times_out <= wake + offset
Budget ==
    Waits =>
        /\ InBudget(dialogs[1].end)
        /\ pc = "loop" => LoopInBudget(dialogs[1].end)
        /\ pc = "select" => SleepInBudget(dialogs[1].end)

IInv ==
    /\ ClockTypes /\ TimerTypes /\ MailTypes /\ KeyTypes /\ DialogTypes /\ CallTypes
    /\ Ordered /\ Chain /\ Ends /\ Budget

-----------------------------------------------------------------------------
\* The least of a set of indices.
LEMMA LeastIndex ==
    ASSUME NEW n \in Nat, NEW I \in SUBSET (1..n), I # {}
    PROVE  /\ Min(I) \in I
           /\ \A i \in I : Min(I) <= i
<1> DEFINE Starts == {1..i : i \in I}
<1>1. Starts \subseteq FiniteSubsetsOf(1..n) /\ Starts # {}
  <2>1. \A i \in I : 1..i \in SUBSET (1..n) /\ IsFiniteSet(1..i)
    BY FS_Interval
  <2> QED BY <2>1 DEF FiniteSubsetsOf
<1>2. PICK K \in Starts : \A J \in Starts : ~(<<J, K>> \in StrictSubsetOrdering(1..n))
  <2> HIDE DEF Starts
  <2> QED BY <1>1, FS_StrictSubsetOrderingWellFounded, WFMin
<1>3. PICK k \in I : K = 1..k
  OBVIOUS
<1>4. \A i \in I : ~(1..i \subseteq 1..k /\ 1..i # 1..k)
  <2> SUFFICES ASSUME NEW i \in I, 1..i \subseteq 1..k, 1..i # 1..k PROVE FALSE
    OBVIOUS
  <2>1. 1..i \in SUBSET (1..n) /\ 1..k \in SUBSET (1..n)
    OBVIOUS
  <2>2. <<1..i, K>> \in StrictSubsetOrdering(1..n)
    BY <1>3, <2>1 DEF StrictSubsetOrdering
  <2> QED BY <1>2, <2>2
<1>5. \A i \in I : k <= i
  <2> SUFFICES ASSUME NEW i \in I, i < k PROVE FALSE
    OBVIOUS
  <2>1. 1..i \subseteq 1..k /\ k \in 1..k /\ k \notin 1..i
    OBVIOUS
  <2> QED BY <1>4, <2>1
<1> QED BY <1>5 DEF Min

\* What InsertAt and RemoveAt return.
LEMMA InsertAtProperties ==
    ASSUME NEW S, NEW s \in Seq(S), NEW k \in 1..(Len(s) + 1), NEW e \in S
    PROVE  /\ InsertAt(s, k, e) \in Seq(S)
           /\ Len(InsertAt(s, k, e)) = Len(s) + 1
           /\ \A i \in 1..(k - 1) : InsertAt(s, k, e)[i] = s[i]
           /\ InsertAt(s, k, e)[k] = e
           /\ \A i \in (k + 1)..(Len(s) + 1) : InsertAt(s, k, e)[i] = s[i - 1]
<1> DEFINE a == SubSeq(s, 1, k - 1)  b == <<e>>  c == SubSeq(s, k, Len(s))
<1>0. Len(s) \in Nat /\ k \in Nat
  OBVIOUS
<1>1. /\ a \in Seq(S) /\ Len(a) = k - 1
      /\ \A i \in 1..(k - 1) : a[i] = s[i]
  BY SubSeqProperties
<1>2. /\ c \in Seq(S) /\ Len(c) = Len(s) - k + 1
      /\ \A i \in 1..(Len(s) - k + 1) : c[i] = s[k + i - 1]
  BY SubSeqProperties
<1>3. b \in Seq(S) /\ Len(b) = 1 /\ b[1] = e
  OBVIOUS
<1> DEFINE ab == a \o b  abc == ab \o c
<1> HIDE DEF a, b, c
<1>4. /\ ab \in Seq(S) /\ Len(ab) = k
      /\ \A i \in 1..(k - 1) : ab[i] = a[i]
      /\ ab[k] = b[1]
  <2>1. /\ ab \in Seq(S) /\ Len(ab) = Len(a) + Len(b)
        /\ \A i \in 1..(Len(a) + Len(b)) : ab[i] = IF i <= Len(a) THEN a[i] ELSE b[i - Len(a)]
    BY <1>1, <1>3, ConcatProperties
  <2> HIDE DEF ab
  <2>2. Len(ab) = k
    BY <1>0, <1>1, <1>3, <2>1
  <2>3. ASSUME NEW i \in 1..(k - 1) PROVE ab[i] = a[i]
    BY <1>0, <1>1, <1>3, <2>1
  <2>4. ab[k] = b[1]
    <3>1. k \in 1..(Len(a) + Len(b)) /\ ~(k <= Len(a)) /\ k - Len(a) = 1
      BY <1>0, <1>1, <1>3
    <3> QED BY <2>1, <3>1
  <2> QED BY <2>1, <2>2, <2>3, <2>4
<1> HIDE DEF ab
<1>5. /\ abc \in Seq(S) /\ Len(abc) = Len(s) + 1
      /\ \A i \in 1..k : abc[i] = ab[i]
      /\ \A i \in (k + 1)..(Len(s) + 1) : abc[i] = s[i - 1]
  <2>1. /\ abc \in Seq(S) /\ Len(abc) = Len(ab) + Len(c)
        /\ \A i \in 1..(Len(ab) + Len(c)) :
              abc[i] = IF i <= Len(ab) THEN ab[i] ELSE c[i - Len(ab)]
    BY <1>2, <1>4, ConcatProperties
  <2> HIDE DEF abc
  <2>2. \A i \in 1..k : abc[i] = ab[i]
    BY <1>0, <1>2, <1>4, <2>1
  <2>3. ASSUME NEW i \in (k + 1)..(Len(s) + 1) PROVE abc[i] = s[i - 1]
    <3>1. abc[i] = c[i - k]
      BY <1>0, <1>2, <1>4, <2>1
    <3>2. i - k \in 1..(Len(s) - k + 1) /\ k + (i - k) - 1 = i - 1
      BY <1>0
    <3> QED BY <1>2, <3>1, <3>2
  <2> QED BY <1>0, <1>2, <1>4, <2>1, <2>2, <2>3
<1>6. InsertAt(s, k, e) = abc
  BY DEF InsertAt, a, b, c, ab
<1> HIDE DEF abc
<1>7. abc[k] = e
  BY <1>0, <1>3, <1>4, <1>5
<1>8. \A i \in 1..(k - 1) : abc[i] = s[i]
  BY <1>0, <1>1, <1>4, <1>5
<1> QED BY <1>5, <1>6, <1>7, <1>8

LEMMA RemoveAtProperties ==
    ASSUME NEW S, NEW s \in Seq(S), NEW k \in 1..Len(s)
    PROVE  /\ RemoveAt(s, k) \in Seq(S)
           /\ Len(RemoveAt(s, k)) = Len(s) - 1
           /\ \A i \in 1..(k - 1) : RemoveAt(s, k)[i] = s[i]
           /\ \A i \in k..(Len(s) - 1) : RemoveAt(s, k)[i] = s[i + 1]
<1> DEFINE a == SubSeq(s, 1, k - 1)  c == SubSeq(s, k + 1, Len(s))
<1>0. Len(s) \in Nat /\ k \in Nat
  OBVIOUS
<1>1. /\ a \in Seq(S) /\ Len(a) = k - 1
      /\ \A i \in 1..(k - 1) : a[i] = s[i]
  BY SubSeqProperties
<1>2. /\ c \in Seq(S) /\ Len(c) = Len(s) - k
      /\ \A i \in 1..(Len(s) - k) : c[i] = s[k + i]
  BY SubSeqProperties
<1> DEFINE ac == a \o c
<1> HIDE DEF a, c
<1>3. /\ ac \in Seq(S) /\ Len(ac) = Len(a) + Len(c)
      /\ \A i \in 1..(Len(a) + Len(c)) : ac[i] = IF i <= Len(a) THEN a[i] ELSE c[i - Len(a)]
  BY <1>1, <1>2, ConcatProperties
<1>4. RemoveAt(s, k) = ac
  BY DEF RemoveAt, a, c
<1> HIDE DEF ac
<1>5. ASSUME NEW i \in 1..(k - 1) PROVE ac[i] = s[i]
  <2>1. i \in 1..(Len(a) + Len(c)) /\ i <= Len(a)
    BY <1>0, <1>1, <1>2
  <2> QED BY <1>1, <1>3, <2>1
<1>6. ASSUME NEW i \in k..(Len(s) - 1) PROVE ac[i] = s[i + 1]
  <2>1. ac[i] = c[i - (k - 1)]
    <3>1. i \in 1..(Len(a) + Len(c)) /\ ~(i <= Len(a)) /\ Len(a) = k - 1
      BY <1>0, <1>1, <1>2
    <3> QED BY <1>3, <3>1
  <2>2. i - (k - 1) \in 1..(Len(s) - k) /\ k + (i - (k - 1)) = i + 1
    BY <1>0
  <2> QED BY <1>2, <2>1, <2>2
<1>7. Len(ac) = Len(s) - 1
  BY <1>0, <1>1, <1>2, <1>3
<1> QED BY <1>3, <1>4, <1>5, <1>6, <1>7

\* Inserted puts a timer before the first that is due later.
LEMMA InsertedProperties ==
    ASSUME NEW s \in Seq(Timers), NEW t \in Timers
    PROVE  \E k \in 1..(Len(s) + 1) :
              /\ Inserted(s, t) = InsertAt(s, k, t)
              /\ \A i \in 1..(k - 1) : s[i].times_out <= t.times_out
              /\ k <= Len(s) => s[k].times_out > t.times_out
<1> DEFINE I == {i \in 1..Len(s) : s[i].times_out > t.times_out}
<1>1. Inserted(s, t) = IF I = {} \/ Min(I) = 0 THEN Append(s, t) ELSE InsertAt(s, Min(I), t)
  BY DEF Inserted, SelectInSeq
<1>0. Len(s) \in Nat
  OBVIOUS
<1>2. \A i \in 1..Len(s) : s[i].times_out \in Int
  <2>1. \A i \in 1..Len(s) : s[i] \in Timers
    OBVIOUS
  <2> QED BY <2>1 DEF Timers
<1>3. t.times_out \in Int
  BY DEF Timers
<1>4. CASE I = {}
  <2>1. \A i \in 1..Len(s) : s[i].times_out <= t.times_out
    BY <1>2, <1>3, <1>4
  <2>2. InsertAt(s, Len(s) + 1, t) = Append(s, t)
    <3>1. SubSeq(s, 1, Len(s)) = s
      BY SubSeqFull
    <3>2. SubSeq(s, Len(s) + 1, Len(s)) = <<>>
      BY SubSeqEmpty
    <3>3. Append(s, t) = s \o <<t>> /\ s \o <<t>> \in Seq(Timers)
      BY AppendIsConcat, AppendProperties
    <3>4. (s \o <<t>>) \o <<>> = s \o <<t>>
      BY <3>3, ConcatEmptySeq
    <3>5. SubSeq(s, 1, (Len(s) + 1) - 1) = s
      BY <1>0, <3>1
    <3> QED BY <3>2, <3>3, <3>4, <3>5 DEF InsertAt
  <2> QED BY <1>1, <1>4, <2>1, <2>2
<1>5. CASE I # {}
  <2>0. I \in SUBSET (1..Len(s))
    OBVIOUS
  <2>1. Min(I) \in I /\ \A i \in I : Min(I) <= i
    <3> HIDE DEF I
    <3> QED BY <1>0, <1>5, <2>0, LeastIndex
  <2>2. \A i \in 1..(Min(I) - 1) : s[i].times_out <= t.times_out
    BY <1>2, <1>3, <2>1
  <2>3. Min(I) \in 1..Len(s) /\ s[Min(I)].times_out > t.times_out
    BY <2>1
  <2>4. Inserted(s, t) = InsertAt(s, Min(I), t)
    BY <1>1, <1>5, <2>3
  <2>5. Min(I) \in 1..(Len(s) + 1)
    BY <1>0, <2>3
  <2> HIDE DEF I
  <2> WITNESS Min(I) \in 1..(Len(s) + 1)
  <2> QED BY <2>2, <2>3, <2>4
<1> QED BY <1>4, <1>5

\* Expired is the index of the first timer that is due, if any is.
LEMMA ExpiredProperties ==
    ASSUME ClockTypes, TimerTypes
    PROVE  /\ Expired = 0 => \A i \in 1..Len(timers) : timers[i].times_out > Wall
           /\ Expired # 0 => Expired \in 1..Len(timers) /\ timers[Expired].times_out <= Wall
<1> DEFINE I == {i \in 1..Len(timers) : timers[i].times_out <= Wall}
<1>1. Expired = IF I # {} THEN Min(I) ELSE 0
  BY DEF Expired, SelectInSeq
<1>2. \A i \in 1..Len(timers) : timers[i].times_out \in Int
  <2>1. timers \in Seq(Timers)
    BY DEF TimerTypes
  <2>2. \A i \in 1..Len(timers) : timers[i] \in Timers
    BY <2>1
  <2> QED BY <2>2 DEF Timers
<1>3. Wall \in Int
  BY DEF ClockTypes, Wall
<1>4. I # {} => Min(I) \in I
  <2>1. I \in SUBSET (1..Len(timers)) /\ Len(timers) \in Nat
    <3>1. timers \in Seq(Timers)
      BY DEF TimerTypes
    <3> QED BY <3>1
  <2> QED BY <2>1, LeastIndex
<1> QED BY <1>1, <1>2, <1>3, <1>4

LEMMA KilledProperties ==
    ASSUME TimerTypes, NEW id, NEW i \in 1..Len(timers), timers[i].id = id, KillTimer(id)
    PROVE  \E k \in 1..Len(timers) : timers[k].id = id /\ timers' = RemoveAt(timers, k)
<1> DEFINE I == {j \in 1..Len(timers) : timers[j].id = id}
<1>1. Min(I) \in I
  <2>1. I \in SUBSET (1..Len(timers)) /\ Len(timers) \in Nat /\ i \in I
    BY DEF TimerTypes
  <2> QED BY <2>1, LeastIndex
<1>2. timers' = RemoveAt(timers, Min(I))
  BY <1>1 DEF KillTimer, SelectInSeq
<1> QED BY <1>1, <1>2
-----------------------------------------------------------------------------
\* The vector with a timer put into it, and without one.
LEMMA InsertedKeeps ==
    ASSUME NEW s \in Seq(Timers), NEW t \in Timers
    PROVE  /\ Inserted(s, t) \in Seq(Timers)
           /\ \A i \in 1..Len(Inserted(s, t)) :
                 Inserted(s, t)[i] = t \/ \E j \in 1..Len(s) : Inserted(s, t)[i] = s[j]
           /\ Distinct(s) /\ (\A i \in 1..Len(s) : s[i].id # t.id) => Distinct(Inserted(s, t))
           /\ Sorted(s) => Sorted(Inserted(s, t))
<1>1. PICK k \in 1..(Len(s) + 1) :
         /\ Inserted(s, t) = InsertAt(s, k, t)
         /\ \A i \in 1..(k - 1) : s[i].times_out <= t.times_out
         /\ k <= Len(s) => s[k].times_out > t.times_out
  BY InsertedProperties
<1> DEFINE v == Inserted(s, t)
<1>2. /\ v \in Seq(Timers) /\ Len(v) = Len(s) + 1
      /\ \A i \in 1..(k - 1) : v[i] = s[i]
      /\ v[k] = t
      /\ \A i \in (k + 1)..(Len(s) + 1) : v[i] = s[i - 1]
  BY <1>1, InsertAtProperties
<1>3. Len(s) \in Nat /\ k \in Nat
  OBVIOUS
<1> HIDE DEF v
<1>4. \A i \in 1..Len(v) : v[i] = t \/ \E j \in 1..Len(s) : v[i] = s[j]
  <2> SUFFICES ASSUME NEW i \in 1..Len(v), i # k PROVE \E j \in 1..Len(s) : v[i] = s[j]
    BY <1>2
  <2>1. CASE i < k
    BY <1>2, <1>3, <2>1
  <2>2. CASE i > k
    <3>1. i - 1 \in 1..Len(s) /\ v[i] = s[i - 1]
      BY <1>2, <1>3, <2>2
    <3> QED BY <3>1
  <2> QED BY <1>2, <1>3, <2>1, <2>2
<1>5. ASSUME Distinct(s), \A i \in 1..Len(s) : s[i].id # t.id PROVE Distinct(v)
  <2> DEFINE From(i) == IF i < k THEN i ELSE i - 1
  <2>1. \A i \in 1..Len(v) : i # k => From(i) \in 1..Len(s) /\ v[i] = s[From(i)]
    BY <1>2, <1>3
  <2>2. \A i, j \in 1..Len(v) : i # k /\ j # k /\ From(i) = From(j) => i = j
    BY <1>2, <1>3
  <2> HIDE DEF From
  <2> SUFFICES ASSUME NEW i \in 1..Len(v), NEW j \in 1..Len(v), v[i].id = v[j].id PROVE i = j
    BY DEF Distinct
  <2>3. CASE i # k /\ j # k
    BY <1>5, <2>1, <2>2, <2>3 DEF Distinct
  <2>4. CASE i = k /\ j # k
    BY <1>2, <1>5, <2>1, <2>4
  <2>5. CASE i # k /\ j = k
    BY <1>2, <1>5, <2>1, <2>5
  <2> QED BY <2>3, <2>4, <2>5
<1>6. ASSUME Sorted(s) PROVE Sorted(v)
  <2>1. t.times_out \in Int /\ \A i \in 1..Len(s) : s[i].times_out \in Int
    <3>1. \A i \in 1..Len(s) : s[i] \in Timers
      OBVIOUS
    <3> QED BY <3>1 DEF Timers
  <2>2. ASSUME NEW i \in 1..Len(s), i >= k PROVE s[i].times_out >= t.times_out
    <3>1. k \in 1..Len(s) /\ s[k].times_out <= s[i].times_out
      BY <1>3, <1>6, <2>2 DEF Sorted
    <3> QED BY <1>1, <2>1, <3>1
  <2> SUFFICES ASSUME NEW i \in 1..Len(v), NEW j \in 1..Len(v), i <= j
               PROVE  v[i].times_out <= v[j].times_out
    BY DEF Sorted
  <2>3. CASE j < k
    <3>1. v[i] = s[i] /\ v[j] = s[j] /\ i \in 1..Len(s) /\ j \in 1..Len(s)
      BY <1>2, <1>3, <2>3
    <3> QED BY <1>6, <3>1 DEF Sorted
  <2>4. CASE i < k /\ j = k
    <3>1. v[i] = s[i] /\ v[j] = t /\ i \in 1..(k - 1)
      BY <1>2, <1>3, <2>4
    <3> QED BY <1>1, <3>1
  <2>5. CASE i < k /\ j > k
    <3>1. v[i] = s[i] /\ v[j] = s[j - 1] /\ i \in 1..Len(s) /\ j - 1 \in 1..Len(s) /\ i <= j - 1
      BY <1>2, <1>3, <2>5
    <3> QED BY <1>6, <3>1 DEF Sorted
  <2>6. CASE i = k /\ j = k
    BY <1>2, <2>1, <2>6
  <2>7. CASE i = k /\ j > k
    <3>1. v[i] = t /\ v[j] = s[j - 1] /\ j - 1 \in 1..Len(s) /\ j - 1 >= k
      BY <1>2, <1>3, <2>7
    <3> QED BY <2>1, <2>2, <3>1
  <2>8. CASE i > k
    <3>1. /\ v[i] = s[i - 1] /\ v[j] = s[j - 1]
          /\ i - 1 \in 1..Len(s) /\ j - 1 \in 1..Len(s) /\ i - 1 <= j - 1
      BY <1>2, <1>3, <2>8
    <3> QED BY <1>6, <3>1 DEF Sorted
  <2> QED BY <1>2, <1>3, <2>3, <2>4, <2>5, <2>6, <2>7, <2>8
<1> QED BY <1>2, <1>4, <1>5, <1>6 DEF v

LEMMA RemovedKeeps ==
    ASSUME NEW s \in Seq(Timers), NEW k \in 1..Len(s)
    PROVE  /\ RemoveAt(s, k) \in Seq(Timers)
           /\ \A i \in 1..Len(RemoveAt(s, k)) : \E j \in 1..Len(s) : j # k /\ RemoveAt(s, k)[i] = s[j]
           /\ Distinct(s) => Distinct(RemoveAt(s, k))
           /\ Sorted(s) => Sorted(RemoveAt(s, k))
<1> DEFINE v == RemoveAt(s, k)
<1>1. /\ v \in Seq(Timers) /\ Len(v) = Len(s) - 1
      /\ \A i \in 1..(k - 1) : v[i] = s[i]
      /\ \A i \in k..(Len(s) - 1) : v[i] = s[i + 1]
  BY RemoveAtProperties
<1>2. Len(s) \in Nat /\ k \in Nat
  OBVIOUS
<1> HIDE DEF v
<1> DEFINE From(i) == IF i < k THEN i ELSE i + 1
<1>3. \A i \in 1..Len(v) : From(i) \in 1..Len(s) /\ From(i) # k /\ v[i] = s[From(i)]
  BY <1>1, <1>2
<1>4. \A i, j \in 1..Len(v) : (From(i) = From(j) => i = j) /\ (i <= j => From(i) <= From(j))
  BY <1>1, <1>2
<1> HIDE DEF From
<1>5. Distinct(s) => Distinct(v)
  BY <1>3, <1>4 DEF Distinct
<1>6. Sorted(s) => Sorted(v)
  BY <1>3, <1>4 DEF Sorted
<1>7. \A i \in 1..Len(v) : \E j \in 1..Len(s) : j # k /\ v[i] = s[j]
  BY <1>3
<1> QED BY <1>1, <1>5, <1>6, <1>7 DEF v

-----------------------------------------------------------------------------
\* The numbers of a state.
LEMMA Numbers ==
    ASSUME ClockTypes, CallTypes
    PROVE  /\ now \in Nat /\ offset \in Int /\ Wall \in Int /\ Wall = now + offset
           /\ Timeout \in Nat /\ getKeyBegin \in Int /\ wake \in Int /\ woken \in Nat
  BY ConstantsAssumption DEF ClockTypes, CallTypes, Wall

LEMMA Constants ==
    /\ Intervals \subseteq Nat /\ MaxTimers \in Nat /\ MaxTime \in Nat /\ MaxInputs \in Nat
    /\ MainTimeout \in Nat /\ DialogTimeout \in Nat /\ Offsets \subseteq Nat
  BY ConstantsAssumption

LEMMA TimerFields ==
    ASSUME NEW t \in Timers
    PROVE  /\ t.id \in 1..MaxTimers /\ t.times_out \in Int
           /\ t.interval \in Intervals \cup {0} /\ t.interval \in Nat
           /\ t.correct_time \in BOOLEAN
<1>1. /\ t.id \in 1..MaxTimers /\ t.times_out \in Int
      /\ t.interval \in Intervals \cup {0} /\ t.correct_time \in BOOLEAN
  BY DEF Timers
<1>2. ASSUME NEW x \in Intervals \cup {0} PROVE x \in Nat
  BY Constants
<1>3. t.interval \in Nat
  BY <1>1, <1>2
<1> QED BY <1>1, <1>3

\* A timer that is set to another time.
LEMMA MovedTimer ==
    ASSUME NEW t \in Timers, NEW time \in Int
    PROVE  LET later == [t EXCEPT !.times_out = time]
           IN  /\ later \in Timers /\ later.id = t.id /\ later.correct_time = t.correct_time
               /\ later.times_out = time
  BY DEF Timers

\* A timer is due at another time.
LEMMA DueTypes ==
    ASSUME due \in [1..MaxTimers -> Int], NEW id \in 1..MaxTimers, NEW time \in Int
    PROVE  LET new == [due EXCEPT ![id] = time]
           IN  /\ new \in [1..MaxTimers -> Int] /\ new[id] = time
               /\ \A i \in 1..MaxTimers : i # id => new[i] = due[i]
  OBVIOUS

\* The timers that follow the clock are in their order and fire when they should.
InOrder == Sorted(timers) /\ OnTime

\* checkTimers takes a timer out and sets it again if it is periodic.
LEMMA FireTimerKeeps ==
    ASSUME ClockTypes, TimerTypes, CallTypes, Expired # 0, FireTimer,
           UNCHANGED <<now, offset, timerid>>
    PROVE  TimerTypes' /\ (InOrder => InOrder')
<1> DEFINE t == timers[Expired]  rest == RemoveAt(timers, Expired)
<1>1. Expired \in 1..Len(timers) /\ t \in Timers /\ timers \in Seq(Timers)
  BY ExpiredProperties DEF TimerTypes
<1>2. /\ rest \in Seq(Timers) /\ Distinct(rest)
      /\ \A i \in 1..Len(rest) : \E j \in 1..Len(timers) : j # Expired /\ rest[i] = timers[j]
      /\ Sorted(timers) => Sorted(rest)
  BY <1>1, RemovedKeeps DEF TimerTypes
<1>3. /\ timers' = IF t.interval = 0 THEN rest ELSE Inserted(rest, Again(t))
      /\ due' = [due EXCEPT ![t.id] = IF t.interval = 0 THEN 0 ELSE now + t.interval]
  BY DEF FireTimer
<1>4. /\ t.id \in 1..MaxTimers /\ t.times_out \in Int /\ t.interval \in Nat
      /\ t.correct_time \in BOOLEAN
  BY <1>1, TimerFields
<1>5. /\ Again(t) \in Timers /\ Again(t).id = t.id /\ Again(t).correct_time = t.correct_time
      /\ t.correct_time => Again(t).times_out = Wall + t.interval
  <2> HIDE DEF t
  <2>1. DEFINE time == (IF t.correct_time THEN Wall ELSE t.times_out) + t.interval
  <2>2. Again(t) = [t EXCEPT !.times_out = time] /\ time \in Int
    BY <1>4, Numbers DEF Again
  <2>3. t.correct_time => time = Wall + t.interval
    OBVIOUS
  <2> HIDE DEF time
  <2> QED BY <1>1, <2>2, <2>3, MovedTimer
<1>6. t.id < timerid /\ \A i \in 1..Len(rest) : rest[i].id # t.id /\ rest[i].id < timerid
  BY <1>1, <1>2 DEF TimerTypes, Distinct
<1> HIDE DEF t, rest
<1>7. /\ timers' \in Seq(Timers) /\ Distinct(timers')
      /\ Sorted(timers) => Sorted(timers')
      /\ \A i \in 1..Len(timers') :
            \/ t.interval # 0 /\ timers'[i] = Again(t)
            \/ \E j \in 1..Len(rest) : timers'[i] = rest[j]
  <2>1. CASE t.interval = 0
    BY <1>2, <1>3, <2>1
  <2>2. CASE t.interval # 0
    <3>1. timers' = Inserted(rest, Again(t))
      BY <1>3, <2>2
    <3>2. \A i \in 1..Len(rest) : rest[i].id # Again(t).id
      BY <1>5, <1>6
    <3> QED BY <1>2, <1>5, <2>2, <3>1, <3>2, InsertedKeeps
  <2> QED BY <2>1, <2>2
<1>8. \A i \in 1..Len(timers') : timers'[i].id < timerid
  BY <1>5, <1>6, <1>7
<1>9. due' \in [1..MaxTimers -> Int]
  BY <1>3, <1>4, Numbers DEF TimerTypes
<1>10. TimerTypes'
  BY <1>7, <1>8, <1>9 DEF TimerTypes
<1>11. ASSUME OnTime PROVE OnTime'
  <2> SUFFICES ASSUME NEW i \in 1..Len(timers'), timers'[i].correct_time
               PROVE  timers'[i].times_out = due'[timers'[i].id] + offset
    BY DEF OnTime
  <2>1. CASE t.interval # 0 /\ timers'[i] = Again(t)
    <3>1. due'[t.id] = now + t.interval
      BY <1>3, <1>4, <2>1 DEF TimerTypes
    <3>2. timers'[i].times_out = Wall + t.interval /\ timers'[i].id = t.id
      BY <1>5, <2>1
    <3> QED BY <1>4, <3>1, <3>2, Numbers
  <2>2. ASSUME NEW j \in 1..Len(rest), timers'[i] = rest[j]
        PROVE  timers'[i].times_out = due'[timers'[i].id] + offset
    <3>1. PICK k \in 1..Len(timers) : rest[j] = timers[k]
      BY <1>2 DEF rest
    <3>2. timers[k].times_out = due[timers[k].id] + offset
      BY <1>11, <2>2, <3>1 DEF OnTime
    <3>3. due'[timers[k].id] = due[timers[k].id]
      <4>1. timers[k] \in Timers
        BY DEF TimerTypes
      <4>2. timers[k].id \in 1..MaxTimers /\ timers[k].id # t.id
        BY <1>6, <3>1, <4>1, TimerFields
      <4> QED BY <1>3, <4>2 DEF TimerTypes
    <3> QED BY <2>2, <3>1, <3>2, <3>3
  <2> QED BY <1>7, <2>1, <2>2
<1> QED BY <1>7, <1>10, <1>11 DEF InOrder

LEMMA AddTimerKeeps ==
    ASSUME ClockTypes, TimerTypes, CallTypes, NEW i \in Intervals,
           NEW oneshot \in BOOLEAN, NEW correct_time \in BOOLEAN,
           AddTimer(i, oneshot, correct_time), UNCHANGED <<now, offset>>
    PROVE  TimerTypes' /\ (InOrder => InOrder')
<1> DEFINE t == [id |-> timerid, times_out |-> Wall + i,
                 interval |-> IF oneshot THEN 0 ELSE i, correct_time |-> correct_time]
<1>1. /\ timerid <= MaxTimers /\ timers' = Inserted(timers, t) /\ timerid' = timerid + 1
      /\ due' = [due EXCEPT ![timerid] = now + i]
  BY DEF AddTimer, NextId
<1>2. timerid \in 1..MaxTimers /\ i \in Nat /\ timers \in Seq(Timers)
  BY <1>1, ConstantsAssumption DEF TimerTypes
<1>3. t \in Timers /\ t.id = timerid /\ t.times_out = Wall + i
  BY <1>2, Numbers DEF Timers
<1> HIDE DEF t
<1>4. \A j \in 1..Len(timers) : timers[j].id # timerid /\ timers[j].id \in 1..MaxTimers
  <2>1. \A j \in 1..Len(timers) : timers[j] \in Timers /\ timers[j].id < timerid
    BY DEF TimerTypes
  <2> QED BY <1>2, <2>1, TimerFields
<1>5. /\ timers' \in Seq(Timers) /\ Distinct(timers')
      /\ Sorted(timers) => Sorted(timers')
      /\ \A j \in 1..Len(timers') :
            timers'[j] = t \/ \E k \in 1..Len(timers) : timers'[j] = timers[k]
  BY <1>1, <1>2, <1>3, <1>4, InsertedKeeps DEF TimerTypes
<1>6. \A j \in 1..Len(timers') : timers'[j].id < timerid'
  <2> SUFFICES ASSUME NEW j \in 1..Len(timers') PROVE timers'[j].id < timerid'
    OBVIOUS
  <2>1. CASE timers'[j] = t
    <3>1. timers'[j].id = timerid
      BY <1>3, <2>1
    <3> QED BY <1>1, <1>2, <3>1
  <2>2. ASSUME NEW k \in 1..Len(timers), timers'[j] = timers[k]
        PROVE  timers'[j].id < timerid'
    <3>1. timers'[j].id = timers[k].id /\ timers[k].id < timerid
      BY <2>2 DEF TimerTypes
    <3>2. timers[k].id \in Int
      BY <1>4
    <3> QED BY <1>1, <1>2, <3>1, <3>2
  <2> QED BY <1>5, <2>1, <2>2
<1>7. due' \in [1..MaxTimers -> Int] /\ timerid' \in 1..(MaxTimers + 1)
  <2>1. now + i \in Int
    BY <1>2, Numbers
  <2>2. due' \in [1..MaxTimers -> Int]
    BY <1>1, <1>2, <2>1, DueTypes DEF TimerTypes
  <2> QED BY <1>1, <1>2, <2>2, Constants
<1>8. TimerTypes'
  BY <1>5, <1>6, <1>7 DEF TimerTypes
<1>9. ASSUME OnTime PROVE OnTime'
  <2> SUFFICES ASSUME NEW j \in 1..Len(timers'), timers'[j].correct_time
               PROVE  timers'[j].times_out = due'[timers'[j].id] + offset
    BY DEF OnTime
  <2>1. CASE timers'[j] = t
    <3>1. due'[timerid] = now + i
      BY <1>1, <1>2 DEF TimerTypes
    <3> QED BY <1>2, <1>3, <2>1, <3>1, Numbers
  <2>2. ASSUME NEW k \in 1..Len(timers), timers'[j] = timers[k]
        PROVE  timers'[j].times_out = due'[timers'[j].id] + offset
    <3>1. timers[k].times_out = due[timers[k].id] + offset
      BY <1>9, <2>2 DEF OnTime
    <3>2. due'[timers[k].id] = due[timers[k].id]
      BY <1>1, <1>4 DEF TimerTypes
    <3> QED BY <2>2, <3>1, <3>2
  <2> QED BY <1>5, <2>1, <2>2
<1> QED BY <1>5, <1>8, <1>9 DEF InOrder

\* killTimer takes one timer out.
LEMMA KillTimerKeeps ==
    ASSUME ClockTypes, TimerTypes, NEW k \in 1..Len(timers), KillTimer(timers[k].id),
           due' = [due EXCEPT ![timers[k].id] = 0], UNCHANGED <<now, offset, timerid>>
    PROVE  TimerTypes' /\ (InOrder => InOrder')
<1>1. timers \in Seq(Timers) /\ \A i \in 1..Len(timers) : timers[i].id \in 1..MaxTimers
  <2>1. timers \in Seq(Timers) /\ \A i \in 1..Len(timers) : timers[i] \in Timers
    BY DEF TimerTypes
  <2> QED BY <2>1, TimerFields
<1>2. timers' = RemoveAt(timers, k)
  <2>1. PICK j \in 1..Len(timers) : timers[j].id = timers[k].id /\ timers' = RemoveAt(timers, j)
    BY KilledProperties
  <2> QED BY <2>1 DEF TimerTypes, Distinct
<1>3. /\ timers' \in Seq(Timers) /\ Distinct(timers')
      /\ Sorted(timers) => Sorted(timers')
      /\ \A i \in 1..Len(timers') : \E j \in 1..Len(timers) : j # k /\ timers'[i] = timers[j]
  BY <1>1, <1>2, RemovedKeeps DEF TimerTypes
<1>4. TimerTypes'
  <2>1. due' \in [1..MaxTimers -> Int]
    BY <1>1, DueTypes DEF TimerTypes
  <2>2. \A i \in 1..Len(timers') : timers'[i].id < timerid
    BY <1>3 DEF TimerTypes
  <2> QED BY <1>3, <2>1, <2>2 DEF TimerTypes
<1>5. ASSUME OnTime PROVE OnTime'
  <2> SUFFICES ASSUME NEW i \in 1..Len(timers'), timers'[i].correct_time
               PROVE  timers'[i].times_out = due'[timers'[i].id] + offset
    BY DEF OnTime
  <2>1. PICK j \in 1..Len(timers) : j # k /\ timers'[i] = timers[j]
    BY <1>3
  <2>2. timers[j].times_out = due[timers[j].id] + offset
    BY <1>5, <2>1 DEF OnTime
  <2>3. timers[j].id # timers[k].id
    BY <2>1 DEF TimerTypes, Distinct
  <2>4. due'[timers[j].id] = due[timers[j].id]
    BY <1>1, <2>3 DEF TimerTypes
  <2> QED BY <2>1, <2>2, <2>4
<1> QED BY <1>3, <1>4, <1>5 DEF InOrder

\* EVT_TIMESET moves all the timers or none when they are of one kind.
LEMMA SetTimeKeeps ==
    ASSUME ClockTypes, TimerTypes, CallTypes, NEW time \in Int, SetTime(time),
           UNCHANGED <<now, timerid, due>>
    PROVE  TimerTypes' /\ (OneKind /\ InOrder => InOrder')
<1> DEFINE diff == time - Wall
<1>1. timers \in Seq(Timers) /\ \A i \in 1..Len(timers) : timers[i] \in Timers
  BY DEF TimerTypes
<1>2. diff \in Int /\ offset' = offset + diff
  BY Numbers DEF SetTime
<1>3. timers' = ShiftedTimers(diff)
  BY DEF SetTime
<1> HIDE DEF diff
<1>4. /\ timers' = [i \in 1..Len(timers) |-> [timers[i] EXCEPT !.times_out =
                       IF timers[i].correct_time THEN @ + diff ELSE @]]
  BY <1>1, <1>3 DEF ShiftedTimers
<1>5. ASSUME NEW i \in 1..Len(timers)
      PROVE  /\ timers'[i] \in Timers /\ timers'[i].id = timers[i].id
             /\ timers'[i].correct_time = timers[i].correct_time
             /\ timers'[i].times_out =
                   IF timers[i].correct_time THEN timers[i].times_out + diff ELSE timers[i].times_out
  <2>1. timers'[i] = [timers[i] EXCEPT !.times_out = IF timers[i].correct_time THEN @ + diff ELSE @]
    BY <1>4
  <2>2. timers[i] \in Timers
    BY <1>1
  <2>3. DEFINE out == IF timers[i].correct_time THEN timers[i].times_out + diff
                      ELSE timers[i].times_out
  <2>4. timers'[i] = [timers[i] EXCEPT !.times_out = out] /\ out \in Int
    BY <1>2, <2>1, <2>2, TimerFields
  <2> HIDE DEF out
  <2>5. /\ timers'[i] \in Timers /\ timers'[i].id = timers[i].id
        /\ timers'[i].correct_time = timers[i].correct_time /\ timers'[i].times_out = out
    BY <2>2, <2>4, MovedTimer
  <2> QED BY <2>5 DEF out
<1>6. timers' \in Seq(Timers) /\ Len(timers') = Len(timers)
  <2>1. Len(timers) \in Nat /\ timers' \in [1..Len(timers) -> Timers]
    BY <1>1, <1>4, <1>5
  <2> QED BY <2>1
<1>7. TimerTypes'
  BY <1>5, <1>6 DEF TimerTypes, Distinct
<1>8. ASSUME OneKind, InOrder PROVE InOrder'
  <2>1. \A i, j \in 1..Len(timers) : timers[i].correct_time = timers[j].correct_time
    BY <1>1, <1>8 DEF OneKind, Range
  <2>2. \A i \in 1..Len(timers) : timers[i].times_out \in Int
    BY <1>1, TimerFields
  <2>3. Sorted(timers')
    <3> SUFFICES ASSUME NEW i \in 1..Len(timers), NEW j \in 1..Len(timers), i <= j
                 PROVE  timers'[i].times_out <= timers'[j].times_out
      BY <1>6 DEF Sorted
    <3>1. timers[i].times_out <= timers[j].times_out
      BY <1>8 DEF InOrder, Sorted
    <3> QED BY <1>2, <1>5, <2>1, <2>2, <3>1
  <2>4. OnTime'
    <3> SUFFICES ASSUME NEW i \in 1..Len(timers), timers'[i].correct_time
                 PROVE  timers'[i].times_out = due[timers'[i].id] + offset'
      BY <1>6 DEF OnTime
    <3>1. timers[i].times_out = due[timers[i].id] + offset /\ due[timers[i].id] \in Int
      BY <1>1, <1>5, <1>8, TimerFields DEF InOrder, OnTime, TimerTypes
    <3>2. timers'[i].times_out = timers[i].times_out + diff /\ timers'[i].id = timers[i].id
      BY <1>5
    <3> QED BY <1>2, <3>1, <3>2, Numbers
  <2> QED BY <2>3, <2>4 DEF InOrder
<1> QED BY <1>7, <1>8

-----------------------------------------------------------------------------
LEMMA MessageTypes ==
    ASSUME NEW n \in Keys \cup {"nothing"} \cup Names, NEW d \in Int
    PROVE  [name |-> n, data |-> d] \in Messages
  BY DEF Messages

LEMMA InfoTypes ==
    ASSUME NEW n \in Keys \cup {"nothing"} \cup Names
    PROVE  Info(n) \in Messages /\ Info(n).name = n
  BY DEF Messages, Info

\* getMsg_us returns a message.
LEMMA Delivered ==
    ASSUME CallTypes, NEW m \in Messages, Deliver(m), woken' \in Nat
    PROVE  CallTypes' /\ pc' = "caller" /\ msg' = m
  BY Constants DEF CallTypes, Deliver

LEMMA Gone ==
    ASSUME CallTypes, NEW label \in {"loop", "keys", "low"}, Goto(label), woken' \in Nat
    PROVE  CallTypes' /\ pc' = label /\ UNCHANGED <<Timeout, getKeyBegin, timer_id, wake>>
  BY DEF CallTypes, Goto, locals

LEMMA Initially == ASSUME Init PROVE IInv
<1>1. ClockTypes
  BY ConstantsAssumption DEF Init, ClockTypes
<1>2. TimerTypes
  BY Constants DEF Init, TimerTypes, Distinct
<1>3. MailTypes /\ KeyTypes /\ DialogTypes
  <2>1. MailTypes /\ DialogTypes
    BY EmptySeq DEF Init, MailTypes, DialogTypes
  <2>2. device \in Seq(Events)
    BY EmptySeq DEF Init
  <2>3. /\ held = None /\ rc_last_key = None /\ rc_last_repeat_key = None
        /\ last_keypress = 0 /\ torn = FALSE
    BY DEF Init
  <2>4. last_keypress \in Int
    BY <2>3
  <2>5. {held, rc_last_key} \subseteq Keys \cup {None}
    BY <2>3
  <2>6. rc_last_repeat_key \in Repeating \cup {None} /\ torn \in BOOLEAN
    BY <2>3
  <2> QED BY <2>1, <2>2, <2>4, <2>5, <2>6 DEF KeyTypes
<1>4. CallTypes
  <2>1. msg \in Messages
    BY InfoTypes DEF Init, Nothing
  <2> QED BY <2>1, Constants DEF Init, CallTypes
<1>5. Ordered /\ Chain /\ Ends /\ Budget
  BY DEF Init, Ordered, Sorted, OnTime, Asleep, Chain, Ends, Budget, Waits
<1> QED BY <1>1, <1>2, <1>3, <1>4, <1>5 DEF IInv

-----------------------------------------------------------------------------
\* Who changes what.
LEMMA Frames ==
    ASSUME Next
    PROVE  /\ UNCHANGED now \/ Tick
           /\ UNCHANGED <<offset, follows>> \/ ReadEvent \/ SetsClock
           /\ \/ UNCHANGED <<timers, timerid, due>>
              \/ TimerFirst \/ SelectTimesOut \/ ReadEvent \/ SetsTimer \/ KillsTimer
           /\ \/ UNCHANGED <<high, low, socket>>
              \/ ReadHigh \/ ReadEvent \/ ReadLow \/ Posts \/ SendsEvent \/ SendsTime \/ SetsClock
           /\ UNCHANGED <<device, held, torn, rc_last_key>> \/ ReadKey \/ ClearRCMsg \/ UsesKey
           /\ UNCHANGED <<rc_last_repeat_key, last_keypress>> \/ ReadKey \/ ReadEvent
           /\ UNCHANGED dialogs \/ Handle \/ SetsClock
           /\ \/ UNCHANGED <<pc, msg, Timeout, getKeyBegin, timer_id, wake, woken>>
              \/ GetMsg \/ TimerFirst \/ EnterSelect \/ SelectTimesOut \/ ReadHigh \/ ReadEvent
              \/ ReadKey \/ ReadLow \/ Recalculate \/ Handle
<1> USE DEF clock, alarm, keys, user, memory, sources, locals, call
<1>1. CASE GetMsg
  BY <1>1 DEF GetMsg
<1>2. CASE TimerFirst
  BY <1>2 DEF TimerFirst
<1>3. CASE EnterSelect
  BY <1>3 DEF EnterSelect
<1>4. CASE SelectTimesOut
  BY <1>4 DEF SelectTimesOut
<1>5. CASE ReadHigh
  BY <1>5 DEF ReadHigh
<1>6. CASE ReadEvent
  <2>1. rc_last_key' = rc_last_key
    BY <1>6 DEF ReadEvent, SetTime
  <2> QED BY <1>6, <2>1 DEF ReadEvent
<1>7. CASE ReadKey
  BY <1>7 DEF ReadKey
<1>8. CASE ReadLow
  BY <1>8 DEF ReadLow
<1>9. CASE Recalculate
  BY <1>9 DEF Recalculate
<1>10. CASE Handle
  BY <1>10 DEF Handle
<1>11. CASE SetsTimer
  BY <1>11 DEF SetsTimer
<1>12. CASE KillsTimer
  BY <1>12 DEF KillsTimer
<1>13. CASE Posts
  BY <1>13 DEF Posts
<1>14. CASE ClearRCMsg
  BY <1>14 DEF ClearRCMsg
<1>15. CASE SendsEvent
  BY <1>15 DEF SendsEvent
<1>16. CASE SendsTime
  BY <1>16 DEF SendsTime
<1>17. CASE SetsClock
  BY <1>17 DEF SetsClock
<1>18. CASE UsesKey
  BY <1>18 DEF UsesKey
<1>19. CASE Tick
  BY <1>19 DEF Tick
<1> QED BY <1>1, <1>2, <1>3, <1>4, <1>5, <1>6, <1>7, <1>8, <1>9, <1>10, <1>11, <1>12, <1>13,
           <1>14, <1>15, <1>16, <1>17, <1>18, <1>19 DEF Next

-----------------------------------------------------------------------------
\* What an event carries.
LEMMA Announcement ==
    ASSUME MailTypes, socket # <<>>
    PROVE  /\ Head(socket) \in Announced /\ Tail(socket) \in Seq(Announced)
           /\ Head(socket).name \in {"BOX", "UNKNOWN", "TIMESET"} /\ Head(socket).data \in Int
           /\ Head(socket) \in Messages
<1>1. socket \in Seq(Announced)
  BY DEF MailTypes
<1>2. Head(socket) \in Announced /\ Tail(socket) \in Seq(Announced)
  BY <1>1, HeadTailProperties
<1> HIDE DEF MailTypes
<1>3. \A e \in Announced :
         e.name \in {"BOX", "UNKNOWN", "TIMESET"} /\ e.data \in Int /\ e \in Messages
  BY DEF Announced, Messages, Names
<1> QED BY <1>2, <1>3

LEMMA InputsKept == ASSUME IInv, Next PROVE inputs' \in 0..MaxInputs
<1>1. inputs' = inputs \/ (inputs < MaxInputs /\ inputs' = inputs + 1)
  <2>1. CASE SetsTimer \/ KillsTimer \/ Posts \/ ClearRCMsg \/ SendsEvent \/ SendsTime
             \/ SetsClock \/ UsesKey
    BY <2>1 DEF SetsTimer, KillsTimer, Posts, ClearRCMsg, SendsEvent, SendsTime, SetsClock, UsesKey,
                Arrives, Using
  <2>2. CASE GetMsg
    BY <2>2 DEF GetMsg
  <2>3. CASE TimerFirst
    BY <2>3 DEF TimerFirst
  <2>4. CASE EnterSelect
    BY <2>4 DEF EnterSelect
  <2>5. CASE SelectTimesOut
    BY <2>5 DEF SelectTimesOut
  <2>6. CASE ReadHigh
    BY <2>6 DEF ReadHigh
  <2>7. CASE ReadEvent
    BY <2>7 DEF ReadEvent
  <2>8. CASE ReadKey
    BY <2>8 DEF ReadKey
  <2>9. CASE ReadLow
    BY <2>9 DEF ReadLow
  <2>10. CASE Recalculate
    BY <2>10 DEF Recalculate
  <2>11. CASE Handle
    BY <2>11 DEF Handle
  <2>12. CASE Tick
    BY <2>12 DEF Tick
  <2> QED BY <2>1, <2>2, <2>3, <2>4, <2>5, <2>6, <2>7, <2>8, <2>9, <2>10, <2>11, <2>12 DEF Next
<1> QED BY <1>1, Constants DEF IInv, ClockTypes

LEMMA ClockKept == ASSUME IInv, Next PROVE ClockTypes'
<1>1. now' \in 0..MaxTime
  <2>1. CASE UNCHANGED now
    BY <2>1 DEF IInv, ClockTypes
  <2>2. CASE Tick
    BY <2>2, Constants DEF IInv, ClockTypes, Tick
  <2> QED BY <2>1, <2>2, Frames
<1>2. offset' \in Int /\ follows' \in BOOLEAN
  <2>1. CASE UNCHANGED <<offset, follows>>
    BY <2>1 DEF IInv, ClockTypes
  <2>2. CASE ReadEvent
    <3>1. Head(socket).data \in Int /\ now \in Int
      BY <2>2, Announcement, Numbers DEF ReadEvent, IInv
    <3>2. \/ UNCHANGED <<offset, follows>>
          \/ offset' = Head(socket).data - now /\ follows' = (follows /\ OneKind)
      BY <2>2 DEF ReadEvent, SetTime
    <3>3. (follows /\ OneKind) \in BOOLEAN
      OBVIOUS
    <3>4. Head(socket).data - now \in Int
      BY <3>1
    <3> QED BY <3>2, <3>3, <3>4 DEF IInv, ClockTypes
  <2>3. CASE SetsClock
    <3>1. offset' \in Offsets /\ follows' = FALSE
      BY <2>3 DEF SetsClock
    <3>2. offset' \in Nat
      BY <3>1, Constants
    <3>3. offset' \in Int
      BY <3>2
    <3>4. follows' \in BOOLEAN
      BY <3>1
    <3> QED BY <3>3, <3>4
  <2> QED BY <2>1, <2>2, <2>3, Frames
<1> QED BY <1>1, <1>2, InputsKept DEF ClockTypes

LEMMA MailKept == ASSUME IInv, Next PROVE MailTypes'
<1>1. high \in Seq(Internal) /\ low \in Seq(Internal) /\ socket \in Seq(Announced)
  BY DEF IInv, MailTypes
<1>2. CASE UNCHANGED <<high, low, socket>>
  BY <1>1, <1>2 DEF MailTypes
<1>3. CASE ReadHigh
  BY <1>1, <1>3, HeadTailProperties DEF ReadHigh, MailTypes, sources
<1>4. CASE ReadEvent
  BY <1>1, <1>4, HeadTailProperties DEF ReadEvent, MailTypes
<1>5. CASE ReadLow
  BY <1>1, <1>5, HeadTailProperties DEF ReadLow, MailTypes
<1>6. CASE Posts
  <2>1. Info("INFO") \in Internal
    BY DEF Internal
  <2>2. /\ socket' = socket
        /\ high' = high \/ high' = Append(high, Info("INFO"))
        /\ low' = low \/ low' = Append(low, Info("INFO"))
    BY <1>6 DEF Posts, PostMsg
  <2>3. Append(high, Info("INFO")) \in Seq(Internal) /\ Append(low, Info("INFO")) \in Seq(Internal)
    BY <1>1, <2>1, AppendProperties
  <2>4. high' \in Seq(Internal) /\ low' \in Seq(Internal)
    BY <1>1, <2>2, <2>3
  <2> QED BY <1>1, <2>2, <2>4 DEF MailTypes
<1>7. CASE SendsEvent \/ SendsTime \/ SetsClock
  <2>1. high' = high /\ low' = low
    BY <1>7 DEF SendsEvent, SendsTime, SetsClock
  <2>2. ASSUME NEW o \in Offsets PROVE now + o \in Int
    BY ConstantsAssumption, Numbers DEF IInv
  <2>3. \E n \in {"BOX", "UNKNOWN", "TIMESET"}, d \in Int :
           socket' = Append(socket, [name |-> n, data |-> d])
    <3>1. CASE SendsEvent
      BY <3>1 DEF SendsEvent, Info
    <3>2. CASE SendsTime
      BY <2>2, <3>2 DEF SendsTime
    <3>3. CASE SetsClock
      BY <2>2, <3>3 DEF SetsClock
    <3> QED BY <1>7, <3>1, <3>2, <3>3
  <2>4. PICK e \in Announced : socket' = Append(socket, e)
    BY <2>3 DEF Announced
  <2> QED BY <1>1, <2>1, <2>4, AppendProperties DEF MailTypes
<1> QED BY <1>2, <1>3, <1>4, <1>5, <1>6, <1>7, Frames

LEMMA DialogsKept == ASSUME IInv, Next PROVE DialogTypes'
<1>1. dialogs \in Seq(Dialogs) /\ \A i \in 1..Len(dialogs) : dialogs[i] \in Dialogs
  BY DEF IInv, DialogTypes
<1>2. CASE UNCHANGED dialogs
  BY <1>1, <1>2 DEF DialogTypes
<1>3. CASE Handle
  <2>1. Dialog \in Dialogs /\ <<Dialog>> \in Seq(Dialogs)
    <3>1. Wall + DialogTimeout \in Int /\ now + DialogTimeout \in Nat
      BY Numbers, Constants DEF IInv
    <3> QED BY <3>1 DEF Dialog, Dialogs
  <2>2. msg.data \in Int
    BY DEF IInv, CallTypes, Messages
  <2>3. AfterTimeset(msg.data) \in Seq(Dialogs)
    <3>1. ASSUME NEW i \in 1..Len(dialogs)
          PROVE  AfterTimeset(msg.data)[i] \in Dialogs
      <4>1. dialogs[i] \in Dialogs /\ dialogs[i].end \in Int
        BY <1>1 DEF Dialogs
      <4>2. [dialogs[i] EXCEPT !.end = @ + msg.data] \in Dialogs
        BY <2>2, <4>1 DEF Dialogs
      <4>3. [dialogs[i] EXCEPT !.sure = FALSE] \in Dialogs
        BY <4>1 DEF Dialogs
      <4>4. AfterTimeset(msg.data)[i] \in {[dialogs[i] EXCEPT !.end = @ + msg.data],
                                           [dialogs[i] EXCEPT !.sure = FALSE]}
        BY <1>1 DEF AfterTimeset, CorrectedEnd
      <4> QED BY <4>2, <4>3, <4>4
    <3>2. AfterTimeset(msg.data) = [i \in 1..Len(dialogs) |-> AfterTimeset(msg.data)[i]]
      BY <1>1 DEF AfterTimeset
    <3>3. AfterTimeset(msg.data) \in [1..Len(dialogs) -> Dialogs]
      BY <3>1, <3>2
    <3> QED BY <1>1, <3>3
  <2>4. \/ dialogs' \in {<<Dialog>> \o dialogs, AfterTimeset(msg.data), dialogs}
        \/ dialogs # <<>> /\ dialogs' \in {Tail(dialogs), <<Dialog>> \o Tail(dialogs)}
    BY <1>3 DEF Handle
  <2> HIDE DEF Dialog
  <2>5. <<Dialog>> \o dialogs \in Seq(Dialogs)
    BY <1>1, <2>1, ConcatProperties
  <2>6. dialogs # <<>> => Tail(dialogs) \in Seq(Dialogs) /\ <<Dialog>> \o Tail(dialogs) \in Seq(Dialogs)
    BY <1>1, <2>1, HeadTailProperties, ConcatProperties
  <2> QED BY <1>1, <2>3, <2>4, <2>5, <2>6 DEF DialogTypes
<1>4. CASE SetsClock
  <2>1. dialogs' = [i \in 1..Len(dialogs) |-> [dialogs[i] EXCEPT !.sure = FALSE]]
    BY <1>1, <1>4 DEF SetsClock
  <2>2. \A i \in 1..Len(dialogs) : [dialogs[i] EXCEPT !.sure = FALSE] \in Dialogs
    BY <1>1 DEF Dialogs
  <2>3. dialogs' \in [1..Len(dialogs) -> Dialogs]
    BY <2>1, <2>2
  <2> QED BY <1>1, <2>3 DEF DialogTypes
<1> QED BY <1>2, <1>3, <1>4, Frames

-----------------------------------------------------------------------------
LEMMA OverdueIsFound ==
    ASSUME ClockTypes, TimerTypes, timers # <<>>, timers[1].times_out <= Wall
    PROVE  Expired # 0
<1>1. timers \in Seq(Timers) /\ Len(timers) \in Nat /\ 1 \in 1..Len(timers)
  BY DEF TimerTypes
<1>2. timers[1] \in Timers
  BY <1>1
<1>3. timers[1].times_out \in Int /\ Wall \in Int
  BY <1>2, TimerFields DEF ClockTypes, Wall
<1>4. ~(timers[1].times_out > Wall)
  BY <1>3
<1> QED BY <1>1, <1>4, ExpiredProperties

LEMMA HeadIsFirst == ASSUME NEW S, NEW s \in Seq(S), s # <<>> PROVE Head(s) = s[1] /\ 1 \in 1..Len(s)
  OBVIOUS

\* Timers that follow the clock stay in their order.
LEMMA TimersKept == ASSUME IInv, Next PROVE TimerTypes' /\ (follows' /\ InOrder => follows /\ InOrder')
<1>1. ClockTypes /\ TimerTypes /\ CallTypes /\ MailTypes
  BY DEF IInv
<1>2. ASSUME UNCHANGED <<timers, timerid, due>>
      PROVE  TimerTypes' /\ (UNCHANGED offset /\ InOrder => InOrder')
  BY <1>1, <1>2 DEF TimerTypes, InOrder, OnTime
<1>3. CASE TimerFirst
  <2>1. UNCHANGED <<now, offset, timerid, follows>> /\ FireTimer
    BY <1>3 DEF TimerFirst, clock, memory
  <2>2. timers # <<>> /\ Head(timers).times_out < Wall
    BY <1>3 DEF TimerFirst
  <2>3. timers[1].times_out <= Wall
    <3>1. timers[1] \in Timers /\ Head(timers) = timers[1]
      BY <1>1, <2>2, HeadIsFirst DEF TimerTypes
    <3> QED BY <1>1, <2>2, <3>1, TimerFields, Numbers
  <2>4. Expired # 0
    BY <1>1, <2>2, <2>3, OverdueIsFound
  <2> QED BY <1>1, <2>1, <2>4, FireTimerKeeps
<1>4. CASE SelectTimesOut
  <2>1. UNCHANGED <<now, offset, timerid, follows>>
    BY <1>4 DEF SelectTimesOut, clock, memory
  <2>2. (Expired # 0 /\ FireTimer) \/ UNCHANGED <<timers, due>>
    BY <1>4 DEF SelectTimesOut
  <2> QED BY <1>1, <1>2, <2>1, <2>2, FireTimerKeeps
<1>5. CASE ReadEvent
  <2>1. UNCHANGED <<now, timerid, due>>
    BY <1>5 DEF ReadEvent
  <2>2. CASE SetTime(Head(socket).data)
    <3>1. follows' = (follows /\ OneKind)
      BY <2>2 DEF SetTime
    <3>2. Head(socket).data \in Int
      BY <1>1, <1>5, Announcement DEF ReadEvent
    <3> QED BY <1>1, <2>1, <2>2, <3>1, <3>2, SetTimeKeeps
  <2>3. CASE UNCHANGED <<offset, timers, follows>>
    BY <1>2, <2>1, <2>3
  <2> QED BY <1>5, <2>2, <2>3 DEF ReadEvent
<1>6. CASE SetsTimer
  <2>1. UNCHANGED <<now, offset, follows>>
    BY <1>6 DEF SetsTimer, clock, memory
  <2>2. \E i \in Intervals, oneshot, correct_time \in BOOLEAN : AddTimer(i, oneshot, correct_time)
    BY <1>6 DEF SetsTimer
  <2> QED BY <1>1, <2>1, <2>2, AddTimerKeeps
<1>7. CASE KillsTimer
  <2>1. UNCHANGED <<now, offset, timerid, follows>>
    BY <1>7 DEF KillsTimer, clock, memory
  <2>2. PICK t \in Range(timers) : KillTimer(t.id) /\ due' = [due EXCEPT ![t.id] = 0]
    BY <1>7 DEF KillsTimer
  <2>3. PICK k \in 1..Len(timers) : t = timers[k]
    BY <1>1, <2>2 DEF TimerTypes, Range
  <2> QED BY <1>1, <2>1, <2>2, <2>3, KillTimerKeeps
<1>8. CASE UNCHANGED <<timers, timerid, due>>
  <2>1. CASE UNCHANGED <<offset, follows>>
    BY <1>2, <1>8, <2>1
  <2>2. CASE SetsClock
    BY <1>2, <1>8, <2>2 DEF SetsClock
  <2> QED BY <1>5, <2>1, <2>2, Frames
<1> QED BY <1>3, <1>4, <1>5, <1>6, <1>7, <1>8, Frames

LEMMA KeysKept == ASSUME IInv, Next PROVE KeyTypes'
<1>1. KeyTypes /\ ClockTypes /\ CallTypes /\ MailTypes
  BY DEF IInv
<1>2. device \in Seq(Events) /\ \A i \in 1..Len(device) : device[i] \in Events
  BY <1>1 DEF KeyTypes
<1>3. CASE ReadKey
  <2>1. device # <<>> /\ device' = Tail(device) /\ held' = held /\ torn' = torn
    BY <1>3 DEF ReadKey, user
  <2>2. Head(device) \in Events /\ Tail(device) \in Seq(Events)
    BY <1>2, <2>1, HeadTailProperties
  <2> DEFINE e == Head(device)
  <2> HIDE DEF e
  <2>3. e.key \in Keys /\ e.time \in Int
    BY <2>2 DEF e, Events
  <2>4. KeyDown(e) \/ KeyUp(e)
    BY <1>3 DEF ReadKey, e
  <2>5. rc_last_key' \in {e.key, None}
    BY <2>4 DEF KeyDown, KeyUp, AfterRelease
  <2>6. last_keypress' \in {e.time, last_keypress}
    BY <2>4 DEF KeyDown, KeyUp
  <2>7. \/ rc_last_repeat_key' \in {None, rc_last_repeat_key}
        \/ rc_last_repeat_key' = e.key /\ e.key \in Repeating
    BY <2>4 DEF KeyDown, KeyUp, MayRepeat
  <2>8. last_keypress' \in Int
    BY <1>1, <2>3, <2>6 DEF KeyTypes
  <2>9. rc_last_repeat_key' \in Repeating \cup {None}
    BY <1>1, <2>7 DEF KeyTypes
  <2> QED BY <1>1, <2>1, <2>2, <2>3, <2>5, <2>8, <2>9 DEF KeyTypes
<1>4. CASE ReadEvent
  <2>1. UNCHANGED <<device, held, torn, rc_last_key, rc_last_repeat_key>>
    BY <1>4 DEF ReadEvent, SetTime, keys, user
  <2>2. last_keypress' \in Int
    <3>1. CASE last_keypress' = last_keypress
      BY <1>1, <3>1 DEF KeyTypes
    <3>2. CASE SetTime(Head(socket).data)
      <4>1. Head(socket).data \in Int
        BY <1>1, <1>4, Announcement DEF ReadEvent
      <4>2. last_keypress' \in {last_keypress + (Head(socket).data - Wall), last_keypress + 0}
        BY <3>2 DEF SetTime
      <4> QED BY <1>1, <4>1, <4>2, Numbers DEF KeyTypes
    <3> QED BY <1>4, <3>1, <3>2 DEF ReadEvent, keys
  <2> QED BY <1>1, <2>1, <2>2 DEF KeyTypes
<1>5. CASE ClearRCMsg
  <2>1. /\ device' = <<>> /\ rc_last_key' = None /\ torn' \in BOOLEAN
        /\ UNCHANGED <<held, rc_last_repeat_key, last_keypress>>
    BY <1>5 DEF ClearRCMsg
  <2> QED BY <1>1, <2>1, EmptySeq DEF KeyTypes
<1>6. CASE UsesKey
  <2>1. PICK k \in Keys, down \in BOOLEAN, fresh \in BOOLEAN :
           /\ held' = IF down THEN k ELSE None
           /\ torn' = FALSE
           /\ device' = Append(device, [key |-> k, down |-> down, time |-> Wall, at |-> now,
                                        fresh |-> fresh, torn |-> torn])
    BY <1>6 DEF UsesKey
  <2>2. UNCHANGED <<rc_last_key, rc_last_repeat_key, last_keypress>>
    BY <1>6 DEF UsesKey, keys
  <2>3. [key |-> k, down |-> down, time |-> Wall, at |-> now, fresh |-> fresh, torn |-> torn] \in Events
    BY <1>1, Numbers DEF Events, ClockTypes, KeyTypes
  <2>4. device' \in Seq(Events)
    BY <1>2, <2>1, <2>3, AppendProperties
  <2> QED BY <1>1, <2>1, <2>2, <2>4 DEF KeyTypes
<1>7. CASE UNCHANGED <<device, held, torn, rc_last_key>> /\ UNCHANGED <<rc_last_repeat_key, last_keypress>>
  BY <1>1, <1>7 DEF KeyTypes
<1>8. CASE UNCHANGED <<rc_last_repeat_key, last_keypress>>
  BY <1>3, <1>5, <1>6, <1>7, <1>8, Frames
<1> QED BY <1>3, <1>4, <1>8, Frames

LEMMA LeastOfTwo ==
    ASSUME NEW x \in Int, NEW y \in Int
    PROVE  Least({x, y}) \in {x, y} /\ Least({x, y}) <= x /\ Least({x, y}) <= y
<1>1. \E z \in {x, y} : \A w \in {x, y} : z <= w
  <2>1. CASE x <= y
    BY <2>1
  <2>2. CASE y <= x
    BY <2>2
  <2> QED BY <2>1, <2>2
<1> QED BY <1>1 DEF Least

\* getMsg_us sleeps until the first timer or until the caller's time is over.
LEMMA EnterSelectSleeps ==
    ASSUME IInv, EnterSelect
    PROVE  /\ pc = "loop" /\ pc' = "select"
           /\ UNCHANGED <<now, offset, timers, due, dialogs, Timeout, getKeyBegin, woken, msg>>
           /\ wake' \in Int /\ timer_id' \in 0..MaxTimers /\ wake' <= now + Timeout
           /\ timers # <<>> => wake' + offset <= timers[1].times_out
           /\ timer_id' = 0 => wake' = now + Timeout
           /\ timer_id' # 0 => timers # <<>> /\ timers[1].times_out = wake' + offset
<1>1. timers \in Seq(Timers) /\ ClockTypes /\ CallTypes
  BY DEF IInv, TimerTypes
<1>2. /\ pc = "loop" /\ pc' = "select"
      /\ UNCHANGED <<now, offset, timers, due, dialogs, Timeout, getKeyBegin, woken, msg>>
  BY DEF EnterSelect, clock, alarm
<1>3. CASE timers = <<>>
  <2>1. wake' = now + Timeout /\ timer_id' = 0
    BY <1>3 DEF EnterSelect
  <2> QED BY <1>1, <1>2, <1>3, <2>1, Numbers, Constants
<1>4. CASE timers # <<>>
  <2>1. Head(timers) = timers[1] /\ timers[1] \in Timers
    BY <1>1, <1>4, HeadIsFirst
  <2> DEFINE left == timers[1].times_out - Wall
  <2>2. left \in Int /\ timers[1].times_out \in Int /\ timers[1].id \in 1..MaxTimers
    BY <1>1, <2>1, TimerFields, Numbers
  <2>3. /\ wake' = now + Sleep(left)
        /\ timer_id' = IF left <= Timeout THEN timers[1].id ELSE 0
    BY <1>4, <2>1 DEF EnterSelect
  <2>4. timers[1].times_out = Wall + left
    BY <1>1, <2>2, Numbers
  <2> HIDE DEF left
  <2>5. Sleep(left) \in {left, Timeout} /\ Sleep(left) <= left /\ Sleep(left) <= Timeout
    <3>1. Timeout \in Int
      BY <1>1, Numbers
    <3> QED BY <2>2, <3>1, LeastOfTwo DEF Sleep
  <2>6. Sleep(left) \in Int
    BY <1>1, <2>2, <2>5, Numbers
  <2>7. left <= Timeout => Sleep(left) = left
    BY <1>1, <2>2, <2>5, Numbers
  <2>8. ~(left <= Timeout) => Sleep(left) = Timeout
    BY <1>1, <2>2, <2>5, Numbers
  <2>9. timer_id' \in 0..MaxTimers
    BY <2>2, <2>3, Constants
  <2>10. timer_id' = 0 <=> ~(left <= Timeout)
    BY <2>2, <2>3, Constants
  <2>11. now \in Int /\ offset \in Int /\ Wall = now + offset /\ Timeout \in Int
    BY <1>1, Numbers
  <2> DEFINE time == Sleep(left)
  <2>12. wake' = now + time
    BY <2>3
  <2> HIDE DEF time, Sleep
  <2>13. time \in Int /\ time <= left /\ time <= Timeout
         /\ (left <= Timeout => time = left) /\ (~(left <= Timeout) => time = Timeout)
    BY <2>5, <2>6, <2>7, <2>8 DEF time
  <2>14. wake' \in Int /\ wake' <= now + Timeout /\ wake' + offset <= timers[1].times_out
    BY <2>2, <2>4, <2>11, <2>12, <2>13
  <2>15. left <= Timeout => timers[1].times_out = wake' + offset
    BY <2>2, <2>4, <2>11, <2>12, <2>13
  <2>16. ~(left <= Timeout) => wake' = now + Timeout
    BY <2>12, <2>13
  <2> QED BY <1>2, <1>4, <2>9, <2>10, <2>14, <2>15, <2>16
<1> QED BY <1>3, <1>4

-----------------------------------------------------------------------------
\* The timer that fires is due.
LEMMA FiredTimer ==
    ASSUME ClockTypes, TimerTypes, Expired # 0, FireTimer
    PROVE  /\ Deliver([name |-> "TIMER", data |-> timers[Expired].id])
           /\ [name |-> "TIMER", data |-> timers[Expired].id] \in Messages
           /\ Expired \in 1..Len(timers) /\ timers[Expired].times_out <= Wall
           /\ timers[Expired] \in Timers
<1>1. Expired \in 1..Len(timers) /\ timers[Expired].times_out <= Wall
  BY ExpiredProperties
<1>2. timers[Expired] \in Timers
  BY <1>1 DEF TimerTypes
<1>3. timers[Expired].id \in Int
  BY <1>2, TimerFields, Constants
<1>4. [name |-> "TIMER", data |-> timers[Expired].id] \in Messages
  BY <1>3, MessageTypes DEF Names
<1> QED BY <1>1, <1>2, <1>4 DEF FireTimer

LEMMA TimerFirstFires ==
    ASSUME ClockTypes, TimerTypes, TimerFirst
    PROVE  Expired # 0 /\ FireTimer
<1>1. timers # <<>> /\ Head(timers).times_out < Wall /\ FireTimer
  BY DEF TimerFirst
<1>2. timers[1] \in Timers /\ Head(timers) = timers[1]
  BY <1>1, HeadIsFirst DEF TimerTypes
<1>3. timers[1].times_out \in Int /\ Wall \in Int
  BY <1>2, TimerFields DEF ClockTypes, Wall
<1>4. timers[1].times_out <= Wall
  BY <1>1, <1>2, <1>3
<1> QED BY <1>1, <1>4, OverdueIsFound

\* getMsg_us returns with one of these messages, or goes on.
Returns(n) == \E m \in Messages : Deliver(m) /\ m.name \in n

LEMMA Fired ==
    ASSUME ClockTypes, TimerTypes, Expired # 0, FireTimer
    PROVE  Returns({"TIMER"})
  BY FiredTimer DEF Returns

\* What the actions of getMsg_us do.
LEMMA HighRead ==
    ASSUME IInv, ReadHigh
    PROVE  Returns({"INFO"}) /\ UNCHANGED <<now, offset, dialogs, woken>>
<1>1. Head(high) \in Internal
  BY HeadTailProperties DEF IInv, MailTypes, ReadHigh
<1>2. Head(high) \in Messages /\ Head(high).name = "INFO"
  BY <1>1, InfoTypes DEF Internal, Names
<1> QED BY <1>2 DEF ReadHigh, Returns, clock

LEMMA LowRead ==
    ASSUME IInv, ReadLow
    PROVE  Returns({"INFO"}) /\ UNCHANGED <<now, offset, dialogs, woken>>
<1>1. Head(low) \in Internal
  BY HeadTailProperties DEF IInv, MailTypes, ReadLow
<1>2. Head(low) \in Messages /\ Head(low).name = "INFO"
  BY <1>1, InfoTypes DEF Internal, Names
<1> QED BY <1>2 DEF ReadLow, Returns, clock

LEMMA EventRead ==
    ASSUME IInv, ReadEvent
    PROVE  /\ \/ Goto("keys") /\ UNCHANGED <<offset, timers, follows>>
              \/ Returns({"TIMESET"}) /\ SetTime(Head(socket).data)
              \/ Returns({"BOX"}) /\ UNCHANGED <<offset, timers, follows>>
           /\ pc = "select" /\ UNCHANGED <<now, dialogs, woken, due>>
           /\ Head(socket).data \in Int
<1>1. /\ Head(socket) \in Messages /\ Head(socket).data \in Int
      /\ Head(socket).name \in {"BOX", "UNKNOWN", "TIMESET"}
  BY Announcement DEF IInv, ReadEvent
<1>2. ASSUME SetTime(Head(socket).data) PROVE Returns({"TIMESET"})
  <2>1. Head(socket).data - Wall \in Int
    BY <1>1, Numbers DEF IInv
  <2>2. [name |-> "TIMESET", data |-> Head(socket).data - Wall] \in Messages
    BY <2>1, MessageTypes DEF Names
  <2> QED BY <1>2, <2>2 DEF SetTime, Returns
<1>3. pc = "select" /\ UNCHANGED <<now, dialogs, woken, due>>
  BY DEF ReadEvent
<1>4. \/ Goto("keys") /\ UNCHANGED <<offset, timers, follows>>
      \/ SetTime(Head(socket).data)
      \/ Deliver(Head(socket)) /\ Head(socket).name = "BOX" /\ UNCHANGED <<offset, timers, follows>>
  BY <1>1 DEF ReadEvent
<1> QED BY <1>1, <1>2, <1>3, <1>4 DEF Returns

LEMMA KeyRead ==
    ASSUME IInv, ReadKey
    PROVE  /\ \/ Goto("low")
              \/ Returns(Keys)
           /\ pc \in {"select", "keys"} /\ UNCHANGED <<now, offset, dialogs, woken, timers>>
<1>1. Head(device) \in Events
  BY HeadTailProperties DEF IInv, KeyTypes, ReadKey
<1>2. Head(device).key \in Keys
  BY <1>1 DEF Events
<1>3. Info(Head(device).key) \in Messages /\ Info(Head(device).key).name \in Keys
  BY <1>2, InfoTypes
<1>4. [name |-> Head(device).key, data |-> 1] \in Messages
  BY <1>2, MessageTypes
<1>5. \/ Goto("low") \/ Deliver(Info(Head(device).key))
      \/ Deliver([name |-> Head(device).key, data |-> 1])
  BY DEF ReadKey, KeyDown, KeyUp
<1>6. pc \in {"select", "keys"} /\ UNCHANGED <<now, offset, dialogs, woken, timers>>
  BY DEF ReadKey, AtKeys, clock, alarm
<1> HIDE DEF Info
<1> QED BY <1>2, <1>3, <1>4, <1>5, <1>6 DEF Returns

LEMMA SelectTimedOut ==
    ASSUME IInv, SelectTimesOut
    PROVE  /\ pc = "select" /\ now >= wake /\ UNCHANGED <<now, offset, dialogs, woken>>
           /\ \/ timer_id # 0 /\ Expired # 0 /\ FireTimer /\ Returns({"TIMER"})
              \/ timer_id # 0 /\ Expired = 0 /\ Goto("loop") /\ UNCHANGED timers
              \/ timer_id = 0 /\ Returns({"TIMEOUT"}) /\ UNCHANGED timers
<1>1. pc = "select" /\ now >= wake /\ UNCHANGED <<now, offset, dialogs, woken>>
  BY DEF SelectTimesOut, clock
<1>2. Info("TIMEOUT") \in Messages /\ Info("TIMEOUT").name = "TIMEOUT"
  BY InfoTypes DEF Names
<1>3. ASSUME Expired # 0, FireTimer PROVE Returns({"TIMER"})
  BY <1>3, Fired DEF IInv
<1> HIDE DEF Info
<1>4. \/ timer_id # 0 /\ Expired # 0 /\ FireTimer
      \/ timer_id # 0 /\ Expired = 0 /\ Goto("loop") /\ UNCHANGED timers
      \/ timer_id = 0 /\ Deliver(Info("TIMEOUT")) /\ UNCHANGED timers
  BY DEF SelectTimesOut
<1> QED BY <1>1, <1>2, <1>3, <1>4 DEF Returns

LEMMA Recalculated ==
    ASSUME IInv, Recalculate
    PROVE  /\ pc \in {"keys", "low"} /\ UNCHANGED <<now, offset, dialogs, timers>>
           /\ woken' = woken + 1
           /\ LET diff == Wall - getKeyBegin
              IN  \/ (diff < 0 \/ Timeout <= diff) /\ Returns({"TIMEOUT"})
                  \/ /\ diff >= 0 /\ diff < Timeout /\ Timeout' = Timeout - diff
                     /\ pc' = "loop" /\ UNCHANGED <<getKeyBegin, timer_id, wake, msg>>
<1>1. Info("TIMEOUT") \in Messages /\ Info("TIMEOUT").name = "TIMEOUT"
  BY InfoTypes DEF Names
<1>2. pc \in {"keys", "low"} /\ UNCHANGED <<now, offset, dialogs, timers>> /\ woken' = woken + 1
  BY DEF Recalculate, AtLow, AtKeys, clock, alarm
<1> DEFINE diff == Wall - getKeyBegin
<1>3. diff \in Int /\ Timeout \in Int
  BY Numbers DEF IInv
<1>4. IF diff < 0 \/ Timeout <= diff
      THEN Deliver(Info("TIMEOUT"))
      ELSE Timeout' = Timeout - diff /\ pc' = "loop" /\ UNCHANGED <<getKeyBegin, timer_id, wake, msg>>
  BY DEF Recalculate
<1> HIDE DEF diff, Info
<1>5. CASE diff < 0 \/ Timeout <= diff
  BY <1>1, <1>2, <1>4, <1>5 DEF Returns, diff
<1>6. CASE ~(diff < 0 \/ Timeout <= diff)
  <2>1. diff >= 0 /\ diff < Timeout
    BY <1>3, <1>6
  <2> QED BY <1>2, <1>4, <1>6, <2>1 DEF diff
<1> QED BY <1>5, <1>6

LEMMA MessageGot ==
    ASSUME IInv, GetMsg
    PROVE  /\ pc = "caller" /\ msg = Nothing /\ pc' = "loop"
           /\ UNCHANGED <<now, offset, dialogs, timers, timer_id, wake, woken, msg>>
           /\ getKeyBegin' = Wall /\ Timeout' \in Nat
           /\ dialogs # <<>> =>
                 /\ dialogs[1].end \in Int
                 /\ Timeout' = 0 \/ Timeout' = dialogs[1].end - Wall
                 /\ Wall + Timeout' >= dialogs[1].end
<1>1. /\ pc = "caller" /\ msg = Nothing /\ pc' = "loop"
      /\ UNCHANGED <<now, offset, dialogs, timers, timer_id, wake, woken, msg>>
      /\ getKeyBegin' = Wall
  BY DEF GetMsg, clock, alarm
<1>2. CASE dialogs = <<>>
  <2>1. Timeout' = MainTimeout
    BY <1>2 DEF GetMsg
  <2> QED BY <1>1, <1>2, <2>1, Constants
<1>3. CASE dialogs # <<>>
  <2>1. Head(dialogs) = dialogs[1] /\ dialogs[1] \in Dialogs
    BY <1>3, HeadIsFirst DEF IInv, DialogTypes
  <2>2. dialogs[1].end \in Int /\ Wall \in Int
    BY <2>1, Numbers DEF Dialogs, IInv
  <2>3. Timeout' = IF dialogs[1].end < Wall THEN 0 ELSE dialogs[1].end - Wall
    BY <1>3, <2>1 DEF GetMsg
  <2> QED BY <1>1, <1>3, <2>2, <2>3
<1> QED BY <1>2, <1>3

LEMMA CallKept == ASSUME IInv, Next PROVE CallTypes'
<1>1. CallTypes /\ ClockTypes /\ TimerTypes
  BY DEF IInv
<1>2. ASSUME NEW n, Returns(n), woken' \in {woken, woken + 1} PROVE CallTypes'
  <2>1. woken' \in Nat
    BY <1>1, <1>2, Numbers
  <2> QED BY <1>1, <1>2, <2>1, Delivered DEF Returns
<1>3. ASSUME NEW label \in {"loop", "keys", "low"}, Goto(label), woken' = woken PROVE CallTypes'
  <2>1. woken' \in Nat
    BY <1>1, <1>3, Numbers
  <2> QED BY <1>1, <1>3, <2>1, Gone
<1>4. CASE UNCHANGED <<pc, msg, Timeout, getKeyBegin, timer_id, wake, woken>>
  BY <1>1, <1>4 DEF CallTypes
<1>5. CASE GetMsg
  <2>1. getKeyBegin' \in Int
    BY <1>1, <1>5, MessageGot, Numbers
  <2> QED BY <1>1, <1>5, <2>1, MessageGot DEF CallTypes
<1>6. CASE TimerFirst
  <2>1. woken' = woken
    BY <1>6 DEF TimerFirst
  <2> QED BY <1>1, <1>2, <1>6, <2>1, TimerFirstFires, Fired
<1>7. CASE EnterSelect
  BY <1>1, <1>7, EnterSelectSleeps DEF CallTypes
<1>8. CASE SelectTimesOut
  BY <1>2, <1>3, <1>8, SelectTimedOut
<1>9. CASE ReadHigh
  BY <1>2, <1>9, HighRead
<1>10. CASE ReadEvent
  BY <1>2, <1>3, <1>10, EventRead
<1>11. CASE ReadKey
  BY <1>2, <1>3, <1>11, KeyRead
<1>12. CASE ReadLow
  BY <1>2, <1>12, LowRead
<1>13. CASE Recalculate
  <2> DEFINE diff == Wall - getKeyBegin
  <2>1. woken' = woken + 1 /\ woken' \in Nat
    BY <1>1, <1>13, Recalculated, Numbers
  <2>2. ASSUME diff >= 0, diff < Timeout, Timeout' = Timeout - diff PROVE Timeout' \in Nat
    BY <1>1, <2>2, Numbers
  <2>3. \/ Returns({"TIMEOUT"})
        \/ /\ diff >= 0 /\ diff < Timeout /\ Timeout' = Timeout - diff
           /\ pc' = "loop" /\ UNCHANGED <<getKeyBegin, timer_id, wake, msg>>
    BY <1>13, Recalculated
  <2> HIDE DEF diff
  <2> QED BY <1>1, <1>2, <2>1, <2>2, <2>3 DEF CallTypes
<1>14. CASE Handle
  <2>1. pc' = pc /\ UNCHANGED <<Timeout, getKeyBegin, timer_id, wake>> /\ woken' = 0 /\ msg' = Nothing
    BY <1>14 DEF Handle, locals
  <2>2. Nothing \in Messages
    BY InfoTypes DEF Nothing
  <2> QED BY <1>1, <2>1, <2>2 DEF CallTypes
<1> QED BY <1>4, <1>5, <1>6, <1>7, <1>8, <1>9, <1>10, <1>11, <1>12, <1>13, <1>14, Frames

-----------------------------------------------------------------------------
\* A step that is not one of the main thread in getMsg_us leaves it where it is.
LEMMA Stays ==
    ASSUME IInv, Next, pc # "caller",
           UNCHANGED <<pc, msg, Timeout, getKeyBegin, timer_id, wake, woken>>
    PROVE  UNCHANGED timers /\ (UNCHANGED <<offset, dialogs>> \/ SetsClock)
<1>1. ~SetsTimer /\ ~KillsTimer
  BY DEF SetsTimer, KillsTimer
<1>2. ASSUME Returns({"TIMER"}) \/ Returns({"TIMEOUT"}) PROVE FALSE
  BY <1>2 DEF Returns, Deliver
<1>3. ASSUME Goto("loop"), pc = "select" PROVE FALSE
  BY <1>3 DEF Goto
<1>4. ~TimerFirst /\ ~SelectTimesOut
  <2>1. ~TimerFirst
    BY <1>2, TimerFirstFires, Fired DEF IInv
  <2>2. ~SelectTimesOut
    BY <1>2, <1>3, SelectTimedOut
  <2> QED BY <2>1, <2>2
<1>5. ~ReadEvent
  <2>1. ASSUME NEW n, Returns(n) PROVE FALSE
    BY <2>1 DEF Returns, Deliver
  <2>2. ASSUME Goto("keys"), pc = "select" PROVE FALSE
    BY <2>2 DEF Goto
  <2> QED BY <2>1, <2>2, EventRead
<1>6. ~Handle
  BY DEF Handle
<1> QED BY <1>1, <1>4, <1>5, <1>6, Frames

\* The steps of the main thread within getMsg_us.
LEMMA InCall ==
    ASSUME IInv, Next, pc' # "caller"
    PROVE  \/ GetMsg \/ EnterSelect
           \/ /\ pc = "select" /\ pc' = "loop" /\ timer_id # 0 /\ Expired = 0 /\ now >= wake
              /\ UNCHANGED <<now, offset, dialogs, timers, Timeout, getKeyBegin, timer_id, wake, woken>>
           \/ /\ pc \in {"select", "keys"} /\ pc' \in {"keys", "low"}
              /\ UNCHANGED <<now, offset, dialogs, Timeout, getKeyBegin, timer_id, wake, woken>>
           \/ Recalculate /\ pc' = "loop"
           \/ /\ pc' = pc
              /\ UNCHANGED <<Timeout, getKeyBegin, timer_id, wake, woken, timers>>
              /\ UNCHANGED <<offset, dialogs>> \/ SetsClock
<1>1. ASSUME NEW n, Returns(n) PROVE FALSE
  BY <1>1 DEF Returns, Deliver
<1>2. ASSUME NEW l, Goto(l) PROVE pc' = l /\ UNCHANGED <<Timeout, getKeyBegin, timer_id, wake>>
  BY <1>2 DEF Goto, locals
<1>3. ~TimerFirst /\ ~ReadHigh /\ ~ReadLow
  BY <1>1, TimerFirstFires, Fired, HighRead, LowRead DEF IInv
<1>4. ~Handle
  BY DEF Handle
<1>5. CASE SelectTimesOut
  BY <1>1, <1>2, <1>5, SelectTimedOut
<1>6. CASE ReadEvent
  BY <1>1, <1>2, <1>6, EventRead
<1>7. CASE ReadKey
  BY <1>1, <1>2, <1>7, KeyRead
<1>8. CASE Recalculate
  BY <1>1, <1>8, Recalculated
<1>9. CASE UNCHANGED <<pc, msg, Timeout, getKeyBegin, timer_id, wake, woken>>
  BY <1>9, Stays
<1> QED BY <1>3, <1>4, <1>5, <1>6, <1>7, <1>8, <1>9, Frames

LEMMA OrderedKept == ASSUME IInv, Next PROVE Ordered'
<1> SUFFICES ASSUME follows' PROVE InOrder' /\ Asleep'
  BY DEF Ordered, InOrder
<1>1. follows
  BY DEF Next, GetMsg, TimerFirst, EnterSelect, SelectTimesOut, ReadHigh, ReadEvent, SetTime, ReadKey,
         ReadLow, Recalculate, Handle, SetsTimer, KillsTimer, Posts, ClearRCMsg, SendsEvent,
         SendsTime, SetsClock, UsesKey, Tick, memory, user
<1>2. InOrder /\ Asleep
  BY <1>1 DEF IInv, Ordered, InOrder
<1>3. InOrder'
  BY <1>2, TimersKept
<1>4. Asleep'
  <2> SUFFICES ASSUME pc' = "select", timers' # <<>> PROVE wake' + offset' <= timers'[1].times_out
    BY DEF Asleep
  <2>1. CASE EnterSelect
    BY <2>1, EnterSelectSleeps
  <2>2. CASE pc = "select" /\ UNCHANGED <<wake, timers, offset>>
    BY <1>2, <2>2 DEF Asleep
  <2>3. ~SetsClock
    BY DEF SetsClock
  <2>4. ~GetMsg
    BY MessageGot
  <2> QED BY <2>1, <2>2, <2>3, <2>4, InCall
<1> QED BY <1>3, <1>4

-----------------------------------------------------------------------------
\* The first event of the device was read: what came before the others is one earlier.
LEMMA ChainKept == ASSUME IInv, Next PROVE Chain'
<1>1. device \in Seq(Events) /\ Chain /\ Len(device) \in Nat
  BY DEF IInv, KeyTypes
<1> DEFINE Before(i) == Down(rc_last_key, device, i)
<1> DEFINE Now(i) == Down(rc_last_key', device', i)
<1>2. CASE UNCHANGED <<device, held, torn, rc_last_key>>
  BY <1>1, <1>2 DEF Chain
<1>3. CASE ReadKey
  <2>1. device # <<>> /\ device' = Tail(device) /\ UNCHANGED <<held, torn>>
    BY <1>3 DEF ReadKey, user
  <2>2. Head(device) = device[1] /\ 1 \in 1..Len(device)
    BY <1>1, <2>1, HeadIsFirst
  <2>3. rc_last_key' = IF device[1].down THEN device[1].key ELSE None
    BY <1>3, <2>2 DEF ReadKey, KeyDown, KeyUp, AfterRelease
  <2>4. /\ Len(device') = Len(device) - 1
        /\ \A i \in 1..Len(device') : device'[i] = device[i + 1]
    BY <1>1, <2>1, HeadTailProperties
  <2>5. ASSUME NEW i \in 0..Len(device') PROVE Now(i) = Before(i + 1)
    <3>1. CASE i = 0
      BY <2>3, <3>1 DEF Down
    <3>2. CASE i # 0
      <4>1. i \in 1..Len(device') /\ i + 1 # 0
        BY <3>2
      <4>2. device'[i] = device[i + 1]
        BY <2>4, <4>1
      <4> QED BY <3>2, <4>1, <4>2 DEF Down
    <3> QED BY <3>1, <3>2
  <2>6. ASSUME NEW i \in 1..Len(device'),
               device'[i].down, ~device'[i].fresh, ~device'[i].torn
        PROVE  Now(i - 1) = device'[i].key
    <3>1. i + 1 \in 1..Len(device) /\ i - 1 \in 0..Len(device') /\ (i - 1) + 1 = (i + 1) - 1
      BY <1>1, <2>4
    <3>2. Before((i + 1) - 1) = device[i + 1].key
      BY <1>1, <2>4, <2>6, <3>1 DEF Chain
    <3> QED BY <2>4, <2>5, <3>1, <3>2
  <2>7. ASSUME held' # None, ~torn' PROVE Now(Len(device')) = held'
    <3>1. Len(device') \in 0..Len(device') /\ Len(device') + 1 = Len(device)
      BY <1>1, <2>4
    <3>2. Before(Len(device)) = held
      BY <1>1, <2>1, <2>7 DEF Chain
    <3>3. Now(Len(device')) = Before(Len(device') + 1)
      BY <2>5, <3>1
    <3> QED BY <2>1, <3>1, <3>2, <3>3
  <2> QED BY <2>6, <2>7 DEF Chain
<1>4. CASE ClearRCMsg
  <2>1. device' = <<>> /\ held' = held /\ torn' = (held # None)
    BY <1>4 DEF ClearRCMsg
  <2>2. held' # None => torn'
    BY <2>1
  <2>3. 1..Len(device') = {}
    BY <2>1
  <2> QED BY <2>2, <2>3 DEF Chain
<1>5. CASE UsesKey
  <2>1. PICK k \in Keys, down \in BOOLEAN, fresh \in BOOLEAN :
           /\ IF down /\ fresh THEN held = None ELSE held = k
           /\ held' = IF down THEN k ELSE None
           /\ torn' = FALSE
           /\ device' = Append(device, [key |-> k, down |-> down, time |-> Wall, at |-> now,
                                        fresh |-> fresh, torn |-> torn])
    BY <1>5 DEF UsesKey
  <2> DEFINE e == [key |-> k, down |-> down, time |-> Wall, at |-> now,
                   fresh |-> fresh, torn |-> torn]
  <2>2. e.key = k /\ e.down = down /\ e.fresh = fresh /\ e.torn = torn
    OBVIOUS
  <2>3. e \in Events
    BY Numbers DEF IInv, Events, ClockTypes, KeyTypes
  <2>4. device' = Append(device, e)
    BY <2>1
  <2> HIDE DEF e
  <2>5. /\ Len(device') = Len(device) + 1
        /\ \A i \in 1..Len(device) : device'[i] = device[i]
        /\ device'[Len(device) + 1] = e
    BY <1>1, <2>3, <2>4, AppendProperties
  <2>6. rc_last_key' = rc_last_key
    BY <1>5 DEF UsesKey, keys
  <2>7. ASSUME NEW i \in 0..Len(device) PROVE Now(i) = Before(i)
    <3>1. CASE i = 0
      BY <2>6, <3>1 DEF Down
    <3>2. CASE i # 0
      <4>1. i \in 1..Len(device)
        BY <3>2
      <4> QED BY <2>5, <3>2, <4>1 DEF Down
    <3> QED BY <3>1, <3>2
  <2>8. ASSUME NEW i \in 1..Len(device'),
               device'[i].down, ~device'[i].fresh, ~device'[i].torn
        PROVE  Now(i - 1) = device'[i].key
    <3>1. CASE i \in 1..Len(device)
      <4>1. i - 1 \in 0..Len(device)
        BY <1>1, <3>1
      <4>2. Before(i - 1) = device[i].key
        BY <1>1, <2>5, <2>8, <3>1 DEF Chain
      <4> QED BY <2>5, <2>7, <3>1, <4>1, <4>2
    <3>2. CASE i = Len(device) + 1
      <4>1. down /\ ~fresh /\ ~torn
        BY <2>2, <2>5, <2>8, <3>2
      <4>2. held = k /\ k # None
        BY <2>1, <4>1, ConstantsAssumption DEF Keys
      <4>3. Before(Len(device)) = k
        BY <1>1, <4>1, <4>2 DEF Chain
      <4>4. Len(device) \in 0..Len(device) /\ i - 1 = Len(device)
        BY <1>1, <3>2
      <4>5. Now(Len(device)) = k
        BY <2>7, <4>3, <4>4
      <4> QED BY <2>2, <2>5, <3>2, <4>4, <4>5
    <3> QED BY <1>1, <2>5, <3>1, <3>2
  <2>9. ASSUME held' # None PROVE Now(Len(device')) = held'
    <3>1. down /\ held' = k
      BY <2>1, <2>9
    <3>2. Len(device') # 0 /\ device'[Len(device')] = e
      BY <1>1, <2>5
    <3> QED BY <2>2, <3>1, <3>2 DEF Down
  <2> QED BY <2>8, <2>9 DEF Chain
<1> QED BY <1>2, <1>3, <1>4, <1>5, Frames

-----------------------------------------------------------------------------
\* Only EVT_TIMESET leaves a correction to the innermost dialog.
LEMMA Corrected ==
    ASSUME IInv, Next, Corrects'
    PROVE  \/ ReadEvent /\ SetTime(Head(socket).data) /\ pc = "select"
           \/ Corrects /\ msg' = msg
<1>1. "TIMESET" \notin Keys
  BY ConstantsAssumption DEF Keys, Names
<1>2. ASSUME NEW n, Returns(n), "TIMESET" \notin n PROVE FALSE
  BY <1>2 DEF Returns, Deliver, Corrects
<1>3. ASSUME NEW l \in {"loop", "keys", "low"}, Goto(l) PROVE FALSE
  BY <1>3 DEF Goto, Corrects
<1>4. ~GetMsg /\ ~EnterSelect
  BY MessageGot, EnterSelectSleeps DEF Corrects
<1>5. ~TimerFirst /\ ~ReadHigh /\ ~ReadLow
  BY <1>2, TimerFirstFires, Fired, HighRead, LowRead DEF IInv
<1>6. ~SelectTimesOut
  BY <1>2, <1>3, SelectTimedOut
<1>7. ~ReadKey
  BY <1>1, <1>2, <1>3, KeyRead
<1>8. ~Recalculate
  BY <1>2, Recalculated DEF Corrects
<1>9. CASE ReadEvent
  BY <1>2, <1>3, <1>9, EventRead
<1>10. ~Handle
  BY DEF Handle, Corrects, Nothing, Info
<1>11. CASE UNCHANGED <<pc, msg, Timeout, getKeyBegin, timer_id, wake, woken>>
  BY <1>11 DEF Corrects
<1> QED BY <1>4, <1>5, <1>6, <1>7, <1>8, <1>9, <1>10, <1>11, Frames

\* A dialog whose end is as it was.
LEMMA EndKept ==
    ASSUME NEW d \in Dialogs
    PROVE  d.end \in Int /\ d.due \in Int /\ d.sure \in BOOLEAN
  BY DEF Dialogs

LEMMA EndsKept == ASSUME IInv, Next PROVE Ends'
<1>1. dialogs \in Seq(Dialogs) /\ Ends /\ Len(dialogs) \in Nat
  BY DEF IInv, DialogTypes
<1>2. \A i \in 1..Len(dialogs) : dialogs[i] \in Dialogs
  BY <1>1
<1>3. CASE Handle
  <2>1. pc = "caller" /\ msg' = Nothing /\ offset' = offset
    BY <1>3 DEF Handle, clock
  <2>2. ~Corrects'
    BY <2>1 DEF Corrects, Nothing, Info
  <2> SUFFICES ASSUME NEW i \in 1..Len(dialogs'), dialogs'[i].sure
               PROVE  dialogs'[i].end = dialogs'[i].due + offset
    BY <2>1, <2>2 DEF Ends
  <2>3. CASE msg.name = "TIMESET"
    <3>1. dialogs' = AfterTimeset(msg.data)
      <4>1. "TIMESET" \notin Keys
        BY ConstantsAssumption DEF Keys, Names
      <4> QED BY <1>3, <2>3, <4>1 DEF Handle
    <3>2. dialogs' = [j \in 1..Len(dialogs) |->
             IF j = 1 THEN [dialogs[j] EXCEPT !.end = @ + msg.data]
             ELSE [dialogs[j] EXCEPT !.sure = FALSE]]
      BY <1>1, <3>1 DEF AfterTimeset, CorrectedEnd
    <3>3. i \in 1..Len(dialogs)
      BY <1>1, <3>2
    <3>4. CASE i = 1
      <4>1. dialogs'[i] = [dialogs[i] EXCEPT !.end = @ + msg.data]
        BY <3>2, <3>3, <3>4
      <4>2. /\ dialogs'[i].end = dialogs[i].end + msg.data
            /\ dialogs'[i].due = dialogs[i].due /\ dialogs'[i].sure = dialogs[i].sure
        BY <1>2, <3>3, <4>1 DEF Dialogs
      <4>3. Corrects
        BY <2>1, <2>3 DEF Corrects
      <4> QED BY <1>1, <3>3, <3>4, <4>2, <4>3 DEF Ends
    <3>5. CASE i # 1
      <4>1. dialogs'[i] = [dialogs[i] EXCEPT !.sure = FALSE]
        BY <3>2, <3>3, <3>5
      <4>2. dialogs'[i].sure = FALSE
        BY <1>2, <3>3, <4>1 DEF Dialogs
      <4> QED BY <4>2
    <3> QED BY <3>4, <3>5
  <2>4. CASE msg.name # "TIMESET"
    <3>1. ~Corrects
      BY <2>4 DEF Corrects
    <3>2. \A j \in 1..Len(dialogs) :
             dialogs[j].sure => dialogs[j].end = dialogs[j].due + offset
      BY <1>1, <3>1 DEF Ends
    <3>3. Dialog.end = Dialog.due + offset /\ Dialog \in Dialogs
      <4>1. /\ now \in Nat /\ offset \in Int /\ Wall = now + offset
            /\ DialogTimeout \in Nat /\ Wall \in Int
        BY Numbers, Constants DEF IInv
      <4>2. Wall + DialogTimeout = (now + DialogTimeout) + offset
        BY <4>1
      <4> QED BY <4>1, <4>2 DEF Dialog, Dialogs
    <3> HIDE DEF Dialog
    <3>4. dialogs'[i] = Dialog \/ \E j \in 1..Len(dialogs) : dialogs'[i] = dialogs[j]
      <4> DEFINE d == Dialog
      <4>1. \/ dialogs' = <<d>> \o dialogs \/ dialogs' = dialogs
            \/ dialogs # <<>> /\ dialogs' = Tail(dialogs)
            \/ dialogs # <<>> /\ dialogs' = <<d>> \o Tail(dialogs)
        BY <1>3, <2>4 DEF Handle
      <4>2. d \in Dialogs
        BY <3>3
      <4> HIDE DEF d
      <4>3. ASSUME NEW s \in Seq(Dialogs), dialogs' = <<d>> \o s
            PROVE  dialogs'[i] = d \/ \E j \in 1..Len(s) : dialogs'[i] = s[j]
        <5>1. <<d>> \in Seq(Dialogs) /\ Len(<<d>>) = 1 /\ <<d>>[1] = d
          BY <4>2
        <5> DEFINE one == <<d>>
        <5> HIDE DEF one
        <5>2. /\ Len(dialogs') = 1 + Len(s)
              /\ dialogs'[i] = IF i <= 1 THEN one[i] ELSE s[i - 1]
          <6>1. one \in Seq(Dialogs) /\ Len(one) = 1 /\ dialogs' = one \o s
            BY <4>3, <5>1 DEF one
          <6>2. Len(one \o s) = Len(one) + Len(s)
            BY <4>3, <6>1, ConcatProperties
          <6>3. i \in 1..(Len(one) + Len(s))
            BY <6>1, <6>2
          <6> QED BY <4>3, <6>1, <6>2, <6>3, ConcatProperties
        <5>3. i = 1 \/ i - 1 \in 1..Len(s)
          BY <5>2
        <5>4. CASE i = 1
          BY <5>1, <5>2, <5>4 DEF one
        <5>5. CASE i # 1
          BY <5>2, <5>3, <5>5
        <5> QED BY <5>4, <5>5
      <4>4. ASSUME dialogs # <<>>
            PROVE  /\ Tail(dialogs) \in Seq(Dialogs)
                   /\ \A j \in 1..Len(Tail(dialogs)) :
                         j + 1 \in 1..Len(dialogs) /\ Tail(dialogs)[j] = dialogs[j + 1]
        BY <1>1, <4>4, HeadTailProperties
      <4>5. CASE dialogs' = <<d>> \o dialogs
        BY <1>1, <4>3, <4>5 DEF d
      <4>6. CASE dialogs' = dialogs
        BY <4>6
      <4>7. CASE dialogs # <<>> /\ dialogs' = Tail(dialogs)
        BY <4>4, <4>7
      <4>8. CASE dialogs # <<>> /\ dialogs' = <<d>> \o Tail(dialogs)
        <5>1. dialogs'[i] = d \/ \E j \in 1..Len(Tail(dialogs)) : dialogs'[i] = Tail(dialogs)[j]
          BY <4>3, <4>4, <4>8
        <5> QED BY <4>4, <4>8, <5>1 DEF d
      <4> QED BY <4>1, <4>5, <4>6, <4>7, <4>8
    <3> QED BY <3>2, <3>3, <3>4
  <2> QED BY <2>3, <2>4
<1>4. CASE SetsClock
  <2>1. dialogs' = [i \in 1..Len(dialogs) |-> [dialogs[i] EXCEPT !.sure = FALSE]]
    BY <1>1, <1>4 DEF SetsClock
  <2>2. \A i \in 1..Len(dialogs') : i \in 1..Len(dialogs) /\ dialogs'[i] = [dialogs[i] EXCEPT !.sure = FALSE]
    BY <1>1, <2>1
  <2>3. \A i \in 1..Len(dialogs') : ~dialogs'[i].sure
    BY <1>2, <2>2 DEF Dialogs
  <2> QED BY <2>3 DEF Ends
<1>5. CASE dialogs' = dialogs /\ ~SetsClock
  <2>1. CASE ReadEvent /\ SetTime(Head(socket).data) /\ pc = "select"
    <3>1. Head(socket).data \in Int
      BY <2>1, EventRead
    <3> DEFINE diff == Head(socket).data - Wall
    <3>2. /\ diff \in Int /\ offset' = offset + diff
          /\ pc' = "caller" /\ msg' = [name |-> "TIMESET", data |-> diff]
      BY <2>1, <3>1, Numbers DEF SetTime, Deliver, IInv
    <3>3. Corrects' /\ msg'.data = diff /\ ~Corrects
      BY <2>1, <3>2 DEF Corrects
    <3> HIDE DEF diff
    <3> SUFFICES ASSUME NEW i \in 1..Len(dialogs), dialogs[i].sure
                 PROVE  dialogs[i].end + diff = dialogs[i].due + offset'
      BY <1>5, <3>3 DEF Ends
    <3>4. dialogs[i].end = dialogs[i].due + offset
      BY <1>1, <3>3 DEF Ends
    <3>5. dialogs[i].due \in Int /\ offset \in Int
      BY <1>2, EndKept, Numbers DEF IInv
    <3> QED BY <3>2, <3>4, <3>5
  <2>2. CASE Corrects' /\ Corrects /\ msg' = msg
    <3>1. offset' = offset
      BY <1>5, <2>2, Frames DEF ReadEvent, Corrects
    <3> QED BY <1>1, <1>5, <2>2, <3>1 DEF Ends
  <2>3. CASE ~Corrects'
    <3>1. CASE ReadEvent
      <4>1. offset' = offset
        BY <2>3, <3>1, EventRead DEF Returns, Deliver, Corrects
      <4>2. ~Corrects
        BY <3>1, EventRead DEF Corrects
      <4> QED BY <1>1, <1>5, <2>3, <4>1, <4>2 DEF Ends
    <3>2. CASE ~ReadEvent /\ ~Handle
      <4>1. offset' = offset
        BY <1>5, <3>2, Frames
      <4>2. ~Corrects
        <5> SUFFICES ASSUME Corrects PROVE FALSE
          OBVIOUS
        <5>1. pc = "caller" /\ msg # Nothing
          BY DEF Corrects, Nothing, Info
        <5>2. ~GetMsg /\ ~EnterSelect /\ ~SelectTimesOut /\ ~ReadKey /\ ~Recalculate
          BY <5>1, MessageGot, EnterSelectSleeps, SelectTimedOut, KeyRead, Recalculated
        <5>3. ~TimerFirst /\ ~ReadHigh /\ ~ReadLow
          BY <5>1 DEF TimerFirst, ReadHigh, ReadLow, AtLow, AtKeys
        <5>4. pc' = pc /\ msg' = msg
          BY <3>2, <5>2, <5>3, Frames
        <5> QED BY <2>3, <5>4 DEF Corrects
      <4> QED BY <1>1, <1>5, <2>3, <4>1, <4>2 DEF Ends
    <3> QED BY <1>3, <3>1, <3>2
  <2> QED BY <2>1, <2>2, <2>3, Corrected
<1> QED BY <1>3, <1>4, <1>5, Frames

-----------------------------------------------------------------------------
\* What the dialog that waits knows of its end.
LEMMA Waiting ==
    ASSUME IInv, Waits
    PROVE  /\ dialogs[1].end = dialogs[1].due + offset
           /\ dialogs[1].end \in Int /\ dialogs[1].due \in Int /\ Head(dialogs) = dialogs[1]
<1>1. dialogs \in Seq(Dialogs) /\ dialogs # <<>>
  BY DEF IInv, DialogTypes, Waits
<1>2. 1 \in 1..Len(dialogs) /\ dialogs[1] \in Dialogs /\ Head(dialogs) = dialogs[1]
  BY <1>1, HeadIsFirst
<1>3. ~Corrects /\ dialogs[1].sure
  BY DEF Waits, Corrects
<1> QED BY <1>2, <1>3, EndKept DEF IInv, Ends

LEMMA BudgetKept == ASSUME IInv, Next PROVE Budget'
<1> SUFFICES ASSUME Waits' PROVE InBudget(dialogs[1].end)' /\ (pc = "loop" => LoopInBudget(dialogs[1].end))'
                                 /\ (pc = "select" => SleepInBudget(dialogs[1].end))'
  BY DEF Budget
<1>1. pc' # "caller" /\ dialogs' # <<>> /\ dialogs'[1].sure
  BY DEF Waits
<1>2. ~SetsClock
  <2> SUFFICES ASSUME SetsClock PROVE FALSE
    OBVIOUS
  <2>1. dialogs \in Seq(Dialogs) /\ dialogs' = [i \in DOMAIN dialogs |-> [dialogs[i] EXCEPT !.sure = FALSE]]
    BY DEF SetsClock, IInv, DialogTypes
  <2>2. dialogs # <<>>
    BY <1>1, <2>1
  <2>3. 1 \in 1..Len(dialogs) /\ dialogs[1] \in Dialogs
    BY <2>1, <2>2, HeadIsFirst
  <2>4. 1 \in DOMAIN dialogs
    BY <2>1, <2>3
  <2>5. dialogs'[1] = [dialogs[1] EXCEPT !.sure = FALSE]
    BY <2>1, <2>4
  <2>6. dialogs'[1].sure = FALSE
    BY <2>3, <2>5 DEF Dialogs
  <2> QED BY <1>1, <2>6
<1>3. /\ now \in Nat /\ offset \in Int /\ Wall \in Int /\ Wall = now + offset
      /\ Timeout \in Nat /\ getKeyBegin \in Int /\ wake \in Int /\ woken \in Nat
  BY Numbers DEF IInv
<1>4. now' \in Nat /\ now' >= now
  <2>1. now' = now \/ now' = now + 1
    BY Frames DEF Tick
  <2> QED BY <1>3, <2>1
<1>5. Wall' = now' + offset'
  BY DEF Wall
<1>6. CASE GetMsg
  <2>1. /\ pc' = "loop" /\ UNCHANGED <<now, offset, dialogs>>
        /\ getKeyBegin' = Wall /\ Timeout' \in Nat
        /\ Timeout' = 0 \/ Timeout' = dialogs[1].end - Wall
        /\ Wall + Timeout' >= dialogs[1].end /\ dialogs[1].end \in Int
    BY <1>1, <1>6, MessageGot
  <2>2. Wall' = Wall /\ dialogs'[1].end = dialogs[1].end
    BY <1>3, <1>5, <2>1
  <2> DEFINE end == dialogs[1].end
  <2> HIDE DEF end
  <2>3. Wall <= Wall /\ (Timeout' = 0 \/ Wall + Timeout' <= end) /\ Wall + Timeout' >= end
    BY <1>3, <2>1 DEF end
  <2> QED BY <2>1, <2>2, <2>3 DEF InBudget, LoopInBudget, end
<1>7. CASE EnterSelect
  <2>1. Waits /\ dialogs' = dialogs
    BY <1>1, <1>7, EnterSelectSleeps DEF Waits
  <2>2. InBudget(dialogs[1].end) /\ LoopInBudget(dialogs[1].end) /\ dialogs[1].end \in Int
    BY <1>7, <2>1, Waiting, EnterSelectSleeps DEF IInv, Budget
  <2>3. /\ pc' = "select" /\ UNCHANGED <<now, offset, timers, Timeout, getKeyBegin, woken>>
        /\ wake' \in Int /\ wake' <= now + Timeout
        /\ timer_id' = 0 => wake' = now + Timeout
        /\ timer_id' # 0 => timers # <<>> /\ timers[1].times_out = wake' + offset
    BY <1>7, EnterSelectSleeps
  <2> DEFINE end == dialogs[1].end
  <2>4. end \in Int /\ dialogs'[1].end = end
    BY <2>1, <2>2
  <2>5. Wall' = Wall
    BY <1>3, <1>5, <2>3
  <2>6. InBudget(end) /\ LoopInBudget(end)
    BY <2>2
  <2> HIDE DEF end
  <2>7. wake' <= now \/ wake' + offset <= end
    BY <1>3, <2>3, <2>4, <2>6 DEF LoopInBudget
  <2>8. timer_id' = 0 /\ woken <= 1 => wake' + offset >= end
    BY <1>3, <2>3, <2>4, <2>6 DEF LoopInBudget
  <2>9. timer_id' # 0 => timers # <<>> /\ timers[1].times_out <= wake' + offset
    BY <1>3, <2>3
  <2> QED BY <2>3, <2>4, <2>5, <2>6, <2>7, <2>8, <2>9 DEF InBudget, SleepInBudget
<1>8. ASSUME pc = "select", timer_id # 0, Expired = 0, now >= wake, UNCHANGED <<dialogs>>
      PROVE  FALSE
  <2>1. Waits
    BY <1>1, <1>8 DEF Waits
  <2>2. SleepInBudget(dialogs[1].end)
    BY <1>8, <2>1 DEF IInv, Budget
  <2>3. timers # <<>> /\ timers[1].times_out <= wake + offset
    BY <1>8, <2>2 DEF SleepInBudget
  <2>4. timers[1].times_out \in Int
    <3>1. timers[1] \in Timers
      BY <2>3, HeadIsFirst DEF IInv, TimerTypes
    <3> QED BY <3>1, TimerFields
  <2>5. timers[1].times_out <= Wall
    BY <1>3, <1>8, <2>3, <2>4
  <2> QED BY <1>8, <2>3, <2>5, OverdueIsFound DEF IInv
<1>9. CASE /\ pc \in {"select", "keys"} /\ pc' \in {"keys", "low"}
           /\ UNCHANGED <<now, offset, dialogs, Timeout, getKeyBegin, timer_id, wake, woken>>
  <2>1. Waits
    BY <1>1, <1>9 DEF Waits
  <2>2. InBudget(dialogs[1].end)
    BY <2>1 DEF IInv, Budget
  <2> QED BY <1>3, <1>5, <1>9, <2>2 DEF InBudget
<1>10. CASE Recalculate /\ pc' = "loop"
  <2> DEFINE diff == Wall - getKeyBegin
  <2>1. /\ pc # "caller" /\ UNCHANGED <<now, offset, dialogs, getKeyBegin>> /\ woken' = woken + 1
        /\ diff >= 0 /\ diff < Timeout /\ Timeout' = Timeout - diff
    BY <1>10, Recalculated DEF Returns, Deliver
  <2>2. Waits
    BY <1>1, <2>1 DEF Waits
  <2>3. InBudget(dialogs[1].end) /\ dialogs[1].end \in Int
    BY <2>2, Waiting DEF IInv, Budget
  <2> DEFINE end == dialogs[1].end
  <2>4. InBudget(end) /\ end \in Int /\ dialogs'[1].end = end
    BY <2>1, <2>3
  <2> HIDE DEF end
  <2>5. Wall' = Wall /\ diff \in Int /\ Wall = getKeyBegin + diff
    BY <1>3, <1>5, <2>1
  <2> HIDE DEF diff
  <2>6. getKeyBegin <= Wall /\ getKeyBegin + Timeout' <= end /\ Wall + Timeout' <= end
    BY <1>3, <2>1, <2>4, <2>5 DEF InBudget
  <2>7. woken' # 0
    BY <1>3, <2>1
  <2>8. woken' <= 1 => Wall + Timeout' >= end
    BY <1>3, <2>1, <2>4, <2>5 DEF InBudget
  <2> QED BY <1>10, <2>1, <2>4, <2>5, <2>6, <2>7, <2>8 DEF InBudget, LoopInBudget
<1>11. CASE /\ pc' = pc
            /\ UNCHANGED <<Timeout, getKeyBegin, timer_id, wake, woken, timers>>
            /\ UNCHANGED <<offset, dialogs>>
  <2>1. Waits
    BY <1>1, <1>11 DEF Waits
  <2> DEFINE end == dialogs[1].end
  <2>2. /\ InBudget(end) /\ end \in Int /\ dialogs'[1].end = end
        /\ pc = "loop" => LoopInBudget(end)
        /\ pc = "select" => SleepInBudget(end)
    BY <1>11, <2>1, Waiting DEF IInv, Budget
  <2> HIDE DEF end
  <2>0. Wall' = now' + offset
    BY <1>5, <1>11
  <2>3. Wall' >= Wall /\ Wall' \in Int
    <3> DEFINE later == now'
               after == Wall'
    <3>1. /\ now \in Nat /\ offset \in Int /\ Wall \in Int /\ Wall = now + offset
          /\ later \in Nat /\ later >= now /\ after = later + offset
      BY <1>3, <1>4, <2>0
    <3> HIDE DEF later, after
    <3>2. after >= Wall /\ after \in Int
      BY <3>1
    <3> QED BY <3>2 DEF after
  <2>4. getKeyBegin <= Wall'
    BY <1>3, <2>2, <2>3 DEF InBudget
  <2>5. ASSUME pc = "loop" PROVE Wall' = Wall
    BY <1>3, <1>5, <1>11, <2>5, Frames DEF Tick
  <2>6. ASSUME pc = "select" PROVE wake <= now' \/ wake + offset <= end
    BY <1>3, <1>4, <2>2, <2>6 DEF SleepInBudget
  <2>7. InBudget(dialogs[1].end)'
    BY <1>11, <2>2, <2>4 DEF InBudget
  <2>8. ASSUME pc = "loop" PROVE LoopInBudget(dialogs[1].end)'
    BY <1>11, <2>2, <2>5, <2>8 DEF LoopInBudget
  <2>9. ASSUME pc = "select" PROVE SleepInBudget(dialogs[1].end)'
    BY <1>11, <2>2, <2>6, <2>9 DEF SleepInBudget
  <2> QED BY <1>11, <2>7, <2>8, <2>9
<1>12. CASE /\ pc = "select" /\ pc' = "loop" /\ timer_id # 0 /\ Expired = 0 /\ now >= wake
            /\ UNCHANGED <<now, offset, dialogs, timers, Timeout, getKeyBegin, timer_id, wake, woken>>
  <2>1. UNCHANGED <<dialogs>>
    BY <1>12
  <2>2. FALSE
    BY <1>8, <1>12, <2>1
  <2> QED BY <2>2
<1>13. \/ GetMsg \/ EnterSelect
       \/ /\ pc = "select" /\ pc' = "loop" /\ timer_id # 0 /\ Expired = 0 /\ now >= wake
          /\ UNCHANGED <<now, offset, dialogs, timers, Timeout, getKeyBegin, timer_id, wake, woken>>
       \/ /\ pc \in {"select", "keys"} /\ pc' \in {"keys", "low"}
          /\ UNCHANGED <<now, offset, dialogs, Timeout, getKeyBegin, timer_id, wake, woken>>
       \/ Recalculate /\ pc' = "loop"
       \/ /\ pc' = pc
          /\ UNCHANGED <<Timeout, getKeyBegin, timer_id, wake, woken, timers>>
          /\ UNCHANGED <<offset, dialogs>>
  BY <1>1, <1>2, InCall
<1> QED BY <1>6, <1>7, <1>9, <1>10, <1>11, <1>12, <1>13

-----------------------------------------------------------------------------
LEMMA Stutters == ASSUME IInv, UNCHANGED vars PROVE IInv'
<1> USE DEF vars, clock, alarm, sources, keys, user, call, locals, memory
<1>1. ClockTypes' /\ TimerTypes' /\ MailTypes' /\ KeyTypes' /\ DialogTypes' /\ CallTypes'
  BY DEF IInv, ClockTypes, TimerTypes, MailTypes, KeyTypes, DialogTypes, CallTypes
<1>2. Ordered' /\ Chain'
  BY DEF IInv, Ordered, OnTime, Asleep, Chain
<1>3. Ends'
  BY DEF IInv, Ends, Corrects
<1>4. Budget'
  BY DEF IInv, Budget, Waits, InBudget, LoopInBudget, SleepInBudget, Wall
<1> QED BY <1>1, <1>2, <1>3, <1>4 DEF IInv

LEMMA Invariance == Spec => []IInv
<1>1. Init => IInv
  BY Initially
<1>2. IInv /\ [Next]_vars => IInv'
  <2>1. ASSUME IInv, Next PROVE IInv'
    BY <2>1, ClockKept, TimersKept, MailKept, KeysKept, DialogsKept, CallKept, OrderedKept,
       ChainKept, EndsKept, BudgetKept DEF IInv
  <2> QED BY <2>1, Stutters
<1> QED BY <1>1, <1>2, PTL DEF Spec

\* The variables have their types, and the ids of the timers in the vector are different, so
\* that killTimer stops the timer its caller has set (rcinput.cpp:348, :378-388).
THEOREM TypeCorrect == Spec => []TypeOK
<1>1. IInv => TypeOK
  <2> SUFFICES ASSUME IInv PROVE TypeOK
    OBVIOUS
  <2>1. Internal \subseteq Messages /\ Announced \subseteq Messages
    <3>1. Info("INFO") \in Messages
      BY InfoTypes DEF Names
    <3>2. Announced \subseteq Messages
      BY DEF Announced, Messages, Names
    <3> QED BY <3>1, <3>2 DEF Internal
  <2>2. high \in Seq(Internal) /\ low \in Seq(Internal) /\ socket \in Seq(Announced)
    BY DEF IInv, MailTypes
  <2>3. {high, low, socket} \subseteq Seq(Messages)
    BY <2>1, <2>2, SeqMonotonic
  <2>4. /\ timers \in Seq(Timers) /\ timerid \in 1..(MaxTimers + 1)
        /\ \A i, j \in DOMAIN timers : timers[i].id = timers[j].id => i = j
    BY DEF IInv, TimerTypes, Distinct
  <2>5. now \in 0..MaxTime /\ offset \in Int /\ inputs \in 0..MaxInputs
    BY DEF IInv, ClockTypes
  <2>6. /\ device \in Seq(Events) /\ {held, rc_last_key} \subseteq Keys \cup {None}
        /\ rc_last_repeat_key \in Repeating \cup {None} /\ last_keypress \in Int
    BY DEF IInv, KeyTypes
  <2>7. dialogs \in Seq([end : Int, due : Nat, sure : BOOLEAN])
    BY DEF IInv, DialogTypes, Dialogs
  <2>8. /\ pc \in {"caller", "loop", "select", "keys", "low"} /\ Timeout \in Nat
        /\ timer_id \in 0..MaxTimers /\ msg \in Messages
    BY DEF IInv, CallTypes
  <2>9. timers \in Seq([id : 1..MaxTimers, times_out : Int, interval : Intervals \cup {0},
                        correct_time : BOOLEAN])
    BY <2>4 DEF Timers
  <2> QED BY <2>3, <2>4, <2>5, <2>6, <2>7, <2>8, <2>9 DEF TypeOK
<1> QED BY <1>1, Invariance, PTL

-----------------------------------------------------------------------------
\* A timer of the vector is overdue when it is due on the wall clock.
LEMMA OverdueOnTheWall ==
    ASSUME IInv, follows, NEW i \in 1..Len(timers)
    PROVE  Overdue(timers[i]) <=> timers[i].times_out <= Wall
<1>1. timers[i] \in Timers
  BY DEF IInv, TimerTypes
<1>2. timers[i].times_out \in Int /\ timers[i].id \in 1..MaxTimers
  BY <1>1, TimerFields
<1>3. now \in Nat /\ offset \in Int /\ Wall = now + offset /\ due[timers[i].id] \in Int
  BY <1>2, Numbers DEF IInv, TimerTypes
<1>4. timers[i].correct_time => timers[i].times_out = due[timers[i].id] + offset
  BY DEF IInv, Ordered, OnTime
<1> QED BY <1>2, <1>3, <1>4 DEF Overdue

\* The main thread never sleeps over a timer that follows the clock: the vector is in the
\* order in which the timers are due through every addTimer, killTimer, checkTimers and
\* EVT_TIMESET, and select ends when the first is due (rcinput.cpp:517-561, :849-852).
LEMMA NotLate ==
    ASSUME IInv, Next, pc = "select", now' # now, follows, NEW t \in Range(timers)
    PROVE  ~Overdue(t)
<1>1. PICK i \in 1..Len(timers) : t = timers[i]
  BY DEF Range, IInv, TimerTypes
<1>2. now < wake
  BY Frames DEF Tick
<1>3. 1 \in 1..Len(timers) /\ timers # <<>>
  BY <1>1 DEF IInv, TimerTypes
<1>4. wake + offset <= timers[1].times_out /\ timers[1].times_out <= timers[i].times_out
  BY <1>1, <1>3 DEF IInv, Ordered, Asleep, Sorted
<1>5. timers[1].times_out \in Int /\ timers[i].times_out \in Int
  <2>1. timers[1] \in Timers /\ timers[i] \in Timers
    BY <1>1, <1>3 DEF IInv, TimerTypes
  <2> QED BY <2>1, TimerFields
<1>6. now \in Nat /\ offset \in Int /\ wake \in Int /\ Wall = now + offset
  BY Numbers DEF IInv
<1>7. ~(timers[i].times_out <= Wall)
  BY <1>2, <1>4, <1>5, <1>6
<1> QED BY <1>1, <1>7, OverdueOnTheWall

\* checkTimers fires the first timer that is due, and no other thing is taken for a timer.
LEMMA NotEarly ==
    ASSUME IInv, Next, NEW t \in Range(timers), Fires(t), follows
    PROVE  Overdue(t)
<1>1. PICK i \in 1..Len(timers) : t = timers[i]
  BY DEF Range, IInv, TimerTypes
<1>2. pc # "caller" /\ pc' = "caller" /\ msg' = [name |-> "TIMER", data |-> t.id]
  BY DEF Fires
<1>3. msg'.name = "TIMER" /\ msg'.data = t.id
  BY <1>2
<1>4. "TIMER" \notin Keys
  BY ConstantsAssumption DEF Keys, Names
<1>5. ASSUME NEW n, Returns(n), "TIMER" \notin n PROVE FALSE
  BY <1>3, <1>5 DEF Returns, Deliver
<1>6. Expired # 0 /\ FireTimer
  <2>1. ~ReadHigh /\ ~ReadLow /\ ~GetMsg /\ ~EnterSelect /\ ~Handle
    BY <1>2, <1>5, HighRead, LowRead, MessageGot, EnterSelectSleeps DEF Handle
  <2>2. ASSUME NEW l \in {"loop", "keys", "low"}, Goto(l) PROVE FALSE
    BY <1>2, <2>2 DEF Goto
  <2>3. ~ReadEvent
    BY <1>5, <2>2, EventRead
  <2>4. ~ReadKey
    BY <1>4, <1>5, <2>2, KeyRead
  <2>5. ~Recalculate
    BY <1>2, <1>5, Recalculated
  <2>6. TimerFirst \/ SelectTimesOut
    BY <1>2, <2>1, <2>3, <2>4, <2>5, Frames
  <2>7. CASE TimerFirst
    BY <2>7, TimerFirstFires DEF IInv
  <2>8. CASE SelectTimesOut
    BY <1>5, <2>2, <2>8, SelectTimedOut
  <2> QED BY <2>6, <2>7, <2>8
<1>7. /\ msg' = [name |-> "TIMER", data |-> timers[Expired].id]
      /\ Expired \in 1..Len(timers) /\ timers[Expired].times_out <= Wall
  BY <1>6, FiredTimer DEF IInv, Deliver
<1>8. msg'.data = timers[Expired].id
  BY <1>7
<1>9. Expired = i
  BY <1>1, <1>3, <1>7, <1>8 DEF IInv, TimerTypes, Distinct
<1> QED BY <1>1, <1>7, <1>9, OverdueOnTheWall

THEOREM TimersInTime == Spec => TimersFireInTime
<1>1. IInv /\ [Next]_vars
        => [pc = "select" /\ now' # now /\ follows => \A t \in Range(timers) : ~Overdue(t)]_vars
  BY NotLate
<1>2. IInv /\ [Next]_vars => [\A t \in Range(timers) : Fires(t) /\ follows => Overdue(t)]_vars
  BY NotEarly
<1>3. Spec => TimersAreNotLate
  BY <1>1, Invariance, PTL DEF Spec, TimersAreNotLate
<1>4. Spec => TimersAreNotEarly
  BY <1>2, Invariance, PTL DEF Spec, TimersAreNotEarly
<1> QED BY <1>3, <1>4 DEF TimersFireInTime

-----------------------------------------------------------------------------
\* The innermost dialog is not slept over: its end follows the clock and Timeout is what is
\* left until then, or less (rcinput.cpp:457-514, :1225-1239).
LEMMA DialogNotLate ==
    ASSUME IInv, Next, pc = "select", now' # now, dialogs # <<>>, Head(dialogs).sure
    PROVE  now < Head(dialogs).due
<1>1. Head(dialogs) = dialogs[1]
  BY HeadIsFirst DEF IInv, DialogTypes
<1>2. Waits
  BY <1>1 DEF Waits
<1>3. /\ dialogs[1].end = dialogs[1].due + offset
      /\ dialogs[1].end \in Int /\ dialogs[1].due \in Int
  BY <1>2, Waiting
<1>4. now < wake
  BY Frames DEF Tick
<1>5. wake <= now \/ wake + offset <= dialogs[1].end
  BY <1>2 DEF IInv, Budget, SleepInBudget
<1>6. now \in Nat /\ offset \in Int /\ wake \in Int
  BY Numbers DEF IInv
<1>7. now < dialogs[1].due
  BY <1>3, <1>4, <1>5, <1>6
<1> QED BY <1>1, <1>7

\* What ends a call without a message.
LEMMA GivingUp ==
    ASSUME IInv, Next, GivesUp
    PROVE  \/ SelectTimesOut /\ timer_id = 0
           \/ Recalculate /\ (Wall - getKeyBegin < 0 \/ Timeout <= Wall - getKeyBegin)
<1>1. pc # "caller" /\ pc' = "caller" /\ msg'.name = "TIMEOUT"
  BY DEF GivesUp
<1>2. "TIMEOUT" \notin Keys
  BY ConstantsAssumption DEF Keys, Names
<1>3. ASSUME NEW n, Returns(n), "TIMEOUT" \notin n PROVE FALSE
  BY <1>1, <1>3 DEF Returns, Deliver
<1>4. ASSUME NEW l \in {"loop", "keys", "low"}, Goto(l) PROVE FALSE
  BY <1>1, <1>4 DEF Goto
<1>5. ~ReadHigh /\ ~ReadLow /\ ~GetMsg /\ ~EnterSelect /\ ~Handle /\ ~TimerFirst
  BY <1>1, <1>3, HighRead, LowRead, MessageGot, EnterSelectSleeps, TimerFirstFires, Fired
     DEF Handle, IInv
<1>6. ~ReadEvent
  BY <1>3, <1>4, EventRead
<1>7. ~ReadKey
  BY <1>2, <1>3, <1>4, KeyRead
<1>8. CASE SelectTimesOut
  BY <1>3, <1>4, <1>8, SelectTimedOut
<1>9. CASE Recalculate
  BY <1>1, <1>9, Recalculated
<1> QED BY <1>1, <1>5, <1>6, <1>7, <1>8, <1>9, Frames

\* A dialog is not cut short while the loop was woken up for nothing once at most: Timeout
\* was then not made shorter twice (rcinput.cpp:1225-1239).
LEMMA DialogNotCutShort ==
    ASSUME IInv, Next, GivesUp, Head(dialogs).sure, woken' <= 1
    PROVE  now >= Head(dialogs).due
<1>1. dialogs # <<>> /\ Head(dialogs) = dialogs[1]
  BY HeadIsFirst DEF IInv, DialogTypes, GivesUp
<1>2. Waits
  BY <1>1 DEF Waits, GivesUp
<1>3. /\ dialogs[1].end = dialogs[1].due + offset
      /\ dialogs[1].end \in Int /\ dialogs[1].due \in Int
  BY <1>2, Waiting
<1>4. /\ now \in Nat /\ offset \in Int /\ Wall \in Int /\ Wall = now + offset
      /\ Timeout \in Nat /\ getKeyBegin \in Int /\ wake \in Int /\ woken \in Nat
  BY Numbers DEF IInv
<1>5. CASE SelectTimesOut /\ timer_id = 0
  <2>1. pc = "select" /\ now >= wake /\ woken' = woken
    BY <1>5, SelectTimedOut
  <2>2. wake + offset >= dialogs[1].end
    BY <1>2, <1>5, <2>1 DEF IInv, Budget, SleepInBudget
  <2>3. now >= dialogs[1].due
    BY <1>3, <1>4, <2>1, <2>2
  <2> QED BY <1>1, <2>3
<1>6. CASE Recalculate /\ (Wall - getKeyBegin < 0 \/ Timeout <= Wall - getKeyBegin)
  <2>1. woken = 0
    BY <1>4, <1>6, Recalculated
  <2>2. getKeyBegin <= Wall /\ getKeyBegin + Timeout >= dialogs[1].end
    BY <1>2, <2>1 DEF IInv, Budget, InBudget
  <2>3. now >= dialogs[1].due
    BY <1>3, <1>4, <1>6, <2>2
  <2> QED BY <1>1, <2>3
<1> QED BY <1>5, <1>6, GivingUp

THEOREM DialogsInTime == Spec => DialogsCloseInTime
<1>1. IInv /\ [Next]_vars
        => [pc = "select" /\ now' # now /\ dialogs # <<>> /\ Head(dialogs).sure
              => now < Head(dialogs).due]_vars
  BY DialogNotLate
<1>2. IInv /\ [Next]_vars
        => [GivesUp /\ Head(dialogs).sure /\ woken' <= 1 => now >= Head(dialogs).due]_vars
  BY DialogNotCutShort
<1>3. Spec => DialogsAreNotLate
  BY <1>1, Invariance, PTL DEF Spec, DialogsAreNotLate
<1>4. Spec => DialogsAreNotCutShort
  BY <1>2, Invariance, PTL DEF Spec, DialogsAreNotCutShort
<1> QED BY <1>3, <1>4 DEF DialogsCloseInTime

-----------------------------------------------------------------------------
\* Only the input loop takes the first event out of the device.
LEMMA ReadsAKey ==
    ASSUME IInv, Next, pc \in {"select", "keys"}, device # <<>>, device' = Tail(device)
    PROVE  ReadKey
<1>1. device \in Seq(Events) /\ Len(device) \in Nat
  BY DEF IInv, KeyTypes
<1>2. Len(device') = Len(device) - 1
  BY <1>1, HeadTailProperties
<1>3. device' # device
  <2>1. Len(device) # Len(device) - 1
    BY <1>1
  <2> QED BY <1>2, <2>1
<1>4. ~ClearRCMsg
  BY DEF ClearRCMsg
<1>5. ~UsesKey
  <2> SUFFICES ASSUME UsesKey PROVE FALSE
    OBVIOUS
  <2>1. PICK k \in Keys, down \in BOOLEAN, fresh \in BOOLEAN :
           device' = Append(device, [key |-> k, down |-> down, time |-> Wall, at |-> now,
                                     fresh |-> fresh, torn |-> torn])
    BY DEF UsesKey
  <2>2. [key |-> k, down |-> down, time |-> Wall, at |-> now, fresh |-> fresh, torn |-> torn] \in Events
    BY Numbers DEF IInv, Events, ClockTypes, KeyTypes
  <2>3. Len(device') = Len(device) + 1
    BY <1>1, <2>1, <2>2, AppendProperties
  <2> QED BY <1>1, <1>2, <2>3
<1> QED BY <1>3, <1>4, <1>5, Frames

\* A repetition of a held key is read after the key itself, so that the loop knows it.
LEMMA RepetitionIsKnown ==
    ASSUME IInv, Next, NEW e, Reads(e), e.down, ~e.fresh, e.key \in Plain, ~e.torn
    PROVE  pc' # "caller"
<1>1. /\ pc \in {"select", "keys"} /\ device # <<>> /\ e = Head(device)
      /\ device' = Tail(device)
  BY DEF Reads
<1>2. device \in Seq(Events) /\ Len(device) \in Nat
  BY DEF IInv, KeyTypes
<1>3. e = device[1] /\ 1 \in 1..Len(device)
  BY <1>1, <1>2, HeadIsFirst
<1>4. ReadKey
  BY <1>1, ReadsAKey
<1>5. e.key = rc_last_key
  <2>1. Down(rc_last_key, device, 1 - 1) = e.key
    BY <1>3 DEF IInv, Chain
  <2> QED BY <2>1 DEF Down
<1>6. ~MayRepeat(e)
  BY ConstantsAssumption DEF MayRepeat
<1>7. KeyDown(e)
  BY <1>1, <1>4 DEF ReadKey
<1>8. Goto("low")
  BY <1>5, <1>6, <1>7 DEF KeyDown
<1> QED BY <1>8 DEF Goto

\* A key that must not repeat reaches its caller once, however long it is held and whatever
\* else is pressed, set or cleared meanwhile: rc_last_key is the key that was down before each
\* event that waits in the device (rcinput.cpp:1133-1201, :1259-1272).
THEOREM HeldKeysOnce == Spec => HeldKeysAreSeenOnce
<1>1. IInv /\ [Next]_vars
        => [\A e \in Range(device) :
               Reads(e) /\ e.down /\ ~e.fresh /\ e.key \in Plain /\ ~e.torn => pc' # "caller"]_vars
  BY RepetitionIsKnown
<1> QED BY <1>1, Invariance, PTL DEF Spec, HeldKeysAreSeenOnce

-----------------------------------------------------------------------------
(* A press is seen. *)

\* What the time of an event was ahead of real time when it was pressed, and what last_keypress
\* is ahead of the press that was accepted.
Stamp(i) == device[i].time - device[i].at
NoneYet  == accepted = -(GenericBlock + 1) /\ last_keypress <= 0
Kept     == last_keypress - accepted

\* The clocks of the times that are compared with each other.
Clocks == {offset} \cup {Stamp(i) : i \in 1..Len(device)} \cup (IF NoneYet THEN {} ELSE {Kept})

Apart(x, y) == x = y \/ x - y \notin -MaxTime..MaxTime

\* A clock that is set calmly goes forward from each key to the next.
Forward ==
    /\ NoneYet \/ Kept <= offset
    /\ \A i \in 1..Len(device) : (NoneYet \/ Kept <= Stamp(i)) /\ Stamp(i) <= offset
    /\ \A i, j \in 1..Len(device) : i <= j => Stamp(i) <= Stamp(j)

InStep ==
    /\ moved \in {"never", "calmly", "once", "anyhow"}
    /\ moved = "never" => Clocks = {offset}
    /\ moved = "once" => \A x, y \in Clocks : Apart(x, y)
    /\ moved = "calmly" => Forward

\* The clock shows a time long after its zero.
Positive ==
    /\ offset > GenericBlock
    /\ \A i \in 1..Len(device) : device[i].time > GenericBlock
    /\ \A i \in 1..Len(socket) :
          socket[i].name = "TIMESET" => socket[i].data > GenericBlock + MaxTime
Before == accepted \in 0..MaxTime \/ NoneYet

\* Before a key is pressed afresh no key is down.
Afresh ==
    /\ \A i \in 1..Len(device) :
          device[i].down /\ device[i].fresh => Down(rc_last_key, device, i - 1) = None
    /\ held = None => Down(rc_last_key, device, Len(device)) = None

PressInv == InStep /\ Positive /\ Before /\ Afresh

LEMMA Blocks == /\ GenericBlock \in Nat /\ MaxTime \in Nat /\ Offsets \subseteq Nat
                /\ \A o \in Offsets : o > MaxTime + GenericBlock
  BY ConstantsAssumption, ClockAssumption

LEMMA EventFields ==
    ASSUME IInv
    PROVE  /\ device \in Seq(Events) /\ Len(device) \in Nat
           /\ \A i \in 1..Len(device) :
                 /\ device[i].time \in Int /\ device[i].at \in 0..MaxTime /\ device[i].key \in Keys
                 /\ device[i].down \in BOOLEAN /\ device[i].fresh \in BOOLEAN
                 /\ Stamp(i) \in Int
<1>1. device \in Seq(Events) /\ Len(device) \in Nat
  BY DEF IInv, KeyTypes
<1>2. \A i \in 1..Len(device) : device[i] \in Events
  BY <1>1
<1>3. \A e \in Events : /\ e.time \in Int /\ e.at \in 0..MaxTime /\ e.key \in Keys
                        /\ e.down \in BOOLEAN /\ e.fresh \in BOOLEAN
  BY DEF Events
<1>4. \A i \in 1..Len(device) : device[i].time \in Int /\ device[i].at \in 0..MaxTime
  BY <1>2, <1>3
<1>5. \A i \in 1..Len(device) : Stamp(i) \in Int
  BY <1>4, Blocks DEF Stamp
<1> QED BY <1>1, <1>2, <1>3, <1>5

LEMMA KeptTypes ==
    ASSUME IInv, Before
    PROVE  accepted \in Int /\ last_keypress \in Int /\ Kept \in Int /\ offset \in Int /\ now \in 0..MaxTime
<1>1. last_keypress \in Int /\ offset \in Int /\ now \in 0..MaxTime
  BY DEF IInv, KeyTypes, ClockTypes
<1>2. accepted \in Int
  BY Blocks DEF Before, NoneYet
<1> QED BY <1>1, <1>2 DEF Kept

LEMMA PressedInitially == ASSUME Init PROVE PressInv
<1>1. /\ device = <<>> /\ socket = <<>> /\ held = None /\ rc_last_key = None /\ last_keypress = 0
      /\ accepted = -(GenericBlock + 1) /\ moved = "never" /\ offset \in Offsets
  BY DEF Init
<1>2. NoneYet /\ Before
  BY <1>1 DEF NoneYet, Before
<1>3. Len(device) = 0 /\ Len(socket) = 0 /\ 1..Len(device) = {} /\ 1..Len(socket) = {}
  BY <1>1
<1>4. InStep
  BY <1>1, <1>2, <1>3 DEF InStep, Clocks
<1>5. Positive
  BY <1>1, <1>3, Blocks DEF Positive
<1>6. Afresh
  BY <1>1, <1>3 DEF Afresh, Down
<1> QED BY <1>2, <1>4, <1>5, <1>6 DEF PressInv

\* Who changes what the filter compares.
LEMMA PressFrames ==
    ASSUME Next
    PROVE  /\ UNCHANGED accepted \/ ReadKey
           /\ UNCHANGED <<offset, moved>> \/ ReadEvent \/ SetsClock
           /\ UNCHANGED last_keypress \/ ReadKey \/ ReadEvent
           /\ UNCHANGED socket \/ ReadEvent \/ SendsEvent \/ SendsTime \/ SetsClock
           /\ UNCHANGED <<device, held, rc_last_key>> \/ ReadKey \/ ClearRCMsg \/ UsesKey
<1>1. UNCHANGED accepted \/ ReadKey
  BY DEF Next, GetMsg, TimerFirst, EnterSelect, SelectTimesOut, ReadHigh, ReadEvent, SetTime,
         ReadLow, Recalculate, Handle, SetsTimer, KillsTimer, Posts, ClearRCMsg, SendsEvent,
         SendsTime, SetsClock, UsesKey, Tick, keys
<1>2. UNCHANGED moved \/ ReadEvent \/ SetsClock
  BY DEF Next, GetMsg, TimerFirst, EnterSelect, SelectTimesOut, ReadHigh, ReadKey,
         ReadLow, Recalculate, Handle, SetsTimer, KillsTimer, Posts, ClearRCMsg, SendsEvent,
         SendsTime, UsesKey, Tick, memory, user
<1>3. UNCHANGED socket \/ ReadEvent \/ SendsEvent \/ SendsTime \/ SetsClock
  BY DEF Next, GetMsg, TimerFirst, EnterSelect, SelectTimesOut, ReadHigh, ReadKey,
         ReadLow, Recalculate, Handle, SetsTimer, KillsTimer, Posts, ClearRCMsg,
         UsesKey, Tick, sources
<1> QED BY <1>1, <1>2, <1>3, Frames

\* A key is read: it is accepted, or the filter keeps what it compares with.
LEMMA KeyTaken ==
    ASSUME IInv, ReadKey
    PROVE  /\ UNCHANGED <<held, offset, socket, moved>> /\ 1 \in 1..Len(device)
           /\ Len(device') = Len(device) - 1
           /\ \A i \in 1..Len(device') : i + 1 \in 1..Len(device) /\ device'[i] = device[i + 1]
           /\ rc_last_key' = IF device[1].down THEN device[1].key ELSE None
           /\ \/ UNCHANGED <<last_keypress, accepted>>
              \/ last_keypress' = device[1].time /\ accepted' = device[1].at
<1>1. device # <<>> /\ device' = Tail(device) /\ UNCHANGED <<held, offset, socket, moved>>
  BY DEF ReadKey, user, clock, memory
<1>2. device \in Seq(Events) /\ Len(device) \in Nat
  BY EventFields
<1>3. Head(device) = device[1] /\ 1 \in 1..Len(device)
  BY <1>1, <1>2, HeadIsFirst
<1>4. Len(device') = Len(device) - 1 /\ \A i \in 1..Len(device') : device'[i] = device[i + 1]
  BY <1>1, <1>2, HeadTailProperties
<1>5. \A i \in 1..Len(device') : i + 1 \in 1..Len(device)
  BY <1>2, <1>4
<1>6. rc_last_key' = IF device[1].down THEN device[1].key ELSE None
  BY <1>3 DEF ReadKey, KeyDown, KeyUp, AfterRelease
<1>7. \/ UNCHANGED <<last_keypress, accepted>>
      \/ last_keypress' = device[1].time /\ accepted' = device[1].at
  BY <1>3 DEF ReadKey, KeyDown, KeyUp
<1> QED BY <1>1, <1>3, <1>4, <1>5, <1>6, <1>7

\* A key is used: its event carries the time.
LEMMA KeyAdded ==
    ASSUME IInv, UsesKey
    PROVE  /\ UNCHANGED <<offset, socket, moved, rc_last_key, last_keypress, accepted>>
           /\ Len(device') = Len(device) + 1
           /\ \A i \in 1..Len(device) : device'[i] = device[i]
           /\ \E e \in Events : /\ device'[Len(device) + 1] = e
                                /\ e.time = now + offset /\ e.at = now
                                /\ e.down /\ e.fresh => held = None
                                /\ held' = (IF e.down THEN e.key ELSE None)
<1>1. PICK k \in Keys, down \in BOOLEAN, fresh \in BOOLEAN :
         /\ IF down /\ fresh THEN held = None ELSE held = k
         /\ held' = IF down THEN k ELSE None
         /\ device' = Append(device, [key |-> k, down |-> down, time |-> Wall, at |-> now,
                                      fresh |-> fresh, torn |-> torn])
  BY DEF UsesKey
<1> DEFINE e == [key |-> k, down |-> down, time |-> Wall, at |-> now, fresh |-> fresh, torn |-> torn]
<1>2. /\ e.key = k /\ e.down = down /\ e.fresh = fresh /\ e.time = now + offset /\ e.at = now
  BY DEF Wall
<1>3. e \in Events
  BY Numbers DEF IInv, Events, ClockTypes, KeyTypes
<1>4. device' = Append(device, e)
  BY <1>1
<1> HIDE DEF e
<1>5. /\ Len(device') = Len(device) + 1 /\ \A i \in 1..Len(device) : device'[i] = device[i]
      /\ device'[Len(device) + 1] = e
  BY <1>3, <1>4, EventFields, AppendProperties
<1>6. UNCHANGED <<offset, socket, moved, rc_last_key, last_keypress, accepted>>
  BY DEF UsesKey, keys, clock, memory
<1>7. e.down /\ e.fresh => held = None
  BY <1>1, <1>2
<1>8. held' = (IF e.down THEN e.key ELSE None)
  BY <1>1, <1>2
<1> QED BY <1>2, <1>3, <1>5, <1>6, <1>7, <1>8

\* EVT_TIMESET is read, or another event.
LEMMA ClockSet ==
    ASSUME IInv, ReadEvent
    PROVE  /\ UNCHANGED <<device, accepted, held, now, rc_last_key>> /\ socket # <<>>
           /\ socket' = Tail(socket) /\ Head(socket) = socket[1] /\ 1 \in 1..Len(socket)
           /\ \/ UNCHANGED <<offset, moved, last_keypress>>
              \/ \E diff \in Int :
                    /\ socket[1].name = "TIMESET" /\ socket[1].data = now + offset + diff
                    /\ offset' = offset + diff /\ Moves(diff, device = <<>>)
                    /\ last_keypress' = last_keypress + IF last_keypress > diff THEN diff ELSE 0
<1>1. /\ UNCHANGED <<device, held, now>> /\ socket # <<>> /\ socket' = Tail(socket)
  BY DEF ReadEvent, user
<1>2. socket \in Seq(Announced)
  BY DEF IInv, MailTypes
<1>3. Head(socket) = socket[1] /\ 1 \in 1..Len(socket)
  BY <1>1, <1>2, HeadIsFirst
<1>4. Head(socket).data \in Int /\ Wall \in Int /\ Wall = now + offset /\ now \in Int /\ offset \in Int
  BY <1>1, Announcement, Numbers DEF IInv
<1>5. UNCHANGED <<accepted, rc_last_key>>
  BY DEF ReadEvent, SetTime, keys
<1>6. CASE Head(socket).name # "TIMESET"
  <2>1. UNCHANGED <<offset, moved, last_keypress>>
    BY <1>6 DEF ReadEvent, keys
  <2> QED BY <1>1, <1>3, <1>5, <2>1
<1>7. CASE Head(socket).name = "TIMESET"
  <2>1. SetTime(Head(socket).data)
    BY <1>7 DEF ReadEvent
  <2> DEFINE diff == Head(socket).data - Wall
  <2>2. /\ offset' = Head(socket).data - now /\ Moves(diff, device = <<>>)
        /\ last_keypress' = last_keypress + IF last_keypress > diff THEN diff ELSE 0
    BY <2>1 DEF SetTime
  <2>3. diff \in Int /\ Head(socket).data = now + offset + diff
    BY <1>4
  <2> HIDE DEF diff
  <2>4. offset' = offset + diff
    BY <1>4, <2>2, <2>3
  <2> QED BY <1>1, <1>3, <1>5, <1>7, <2>2, <2>3, <2>4
<1> QED BY <1>6, <1>7

LEMMA BeforeKept == ASSUME IInv, PressInv, Next PROVE Before'
<1>1. last_keypress \in Int /\ Before
  BY KeptTypes DEF PressInv
<1>2. CASE UNCHANGED <<last_keypress, accepted>>
  BY <1>1, <1>2 DEF Before, NoneYet
<1>3. CASE ReadKey
  BY <1>1, <1>3, KeyTaken, EventFields DEF Before, NoneYet
<1>4. CASE ReadEvent
  <2>1. PICK diff \in Int :
           \/ UNCHANGED <<last_keypress, accepted>>
           \/ UNCHANGED accepted /\ last_keypress' = last_keypress + IF last_keypress > diff THEN diff ELSE 0
    BY <1>4, ClockSet
  <2>2. last_keypress <= 0 => last_keypress' <= 0
    BY <1>1, <2>1
  <2> QED BY <1>1, <2>1, <2>2 DEF Before, NoneYet
<1> QED BY <1>2, <1>3, <1>4, PressFrames

LEMMA PositiveKept == ASSUME IInv, PressInv, Next PROVE Positive'
<1> DEFINE Timely(s) == \A i \in 1..Len(s) : s[i].name = "TIMESET" => s[i].data > GenericBlock + MaxTime
<1>1. /\ Positive /\ now \in 0..MaxTime /\ offset \in Int /\ Len(device) \in Nat
      /\ MaxTime \in Nat /\ GenericBlock \in Nat
  BY KeptTypes, EventFields, Blocks DEF PressInv
<1>2. socket \in Seq(Announced) /\ Len(socket) \in Nat
  BY DEF IInv, MailTypes
<1>3. offset' > GenericBlock
  <2>1. CASE UNCHANGED offset
    BY <1>1, <2>1 DEF Positive
  <2>2. CASE ReadEvent
    <3>1. CASE UNCHANGED offset
      BY <1>1, <3>1 DEF Positive
    <3>2. CASE ~UNCHANGED offset
      <4>1. PICK diff \in Int :
               /\ 1 \in 1..Len(socket) /\ socket[1].name = "TIMESET"
               /\ socket[1].data = now + offset + diff /\ offset' = offset + diff
        BY <2>2, <3>2, ClockSet
      <4>2. now + offset + diff > GenericBlock + MaxTime
        BY <1>1, <4>1 DEF Positive
      <4> QED BY <1>1, <4>1, <4>2
    <3> QED BY <3>1, <3>2
  <2>3. CASE SetsClock
    <3>1. offset' \in Offsets
      BY <2>3 DEF SetsClock
    <3> QED BY <1>1, <3>1, Blocks
  <2> QED BY <2>1, <2>2, <2>3, PressFrames
<1>4. \A i \in 1..Len(device') : device'[i].time > GenericBlock
  <2>1. CASE UNCHANGED device
    BY <1>1, <2>1 DEF Positive
  <2>2. CASE ReadKey
    BY <1>1, <2>2, KeyTaken DEF Positive
  <2>3. CASE ClearRCMsg
    BY <2>3 DEF ClearRCMsg
  <2>4. CASE UsesKey
    <3>1. /\ Len(device') = Len(device) + 1
          /\ \A i \in 1..Len(device) : device'[i] = device[i]
          /\ device'[Len(device) + 1].time = now + offset
      BY <2>4, KeyAdded
    <3>2. now + offset > GenericBlock
      BY <1>1 DEF Positive
    <3>3. \A i \in 1..Len(device') : i \in 1..Len(device) \/ i = Len(device) + 1
      BY <1>1, <3>1
    <3> QED BY <1>1, <3>1, <3>2, <3>3 DEF Positive
  <2> QED BY <2>1, <2>2, <2>3, <2>4, PressFrames
<1>5. Timely(socket')
  <2>1. CASE UNCHANGED socket
    BY <1>1, <2>1 DEF Positive
  <2>2. CASE ReadEvent
    <3>1. socket # <<>> /\ socket' = Tail(socket)
      BY <2>2, ClockSet
    <3>2. Len(socket') = Len(socket) - 1 /\ \A i \in 1..Len(socket') : socket'[i] = socket[i + 1]
      BY <1>2, <3>1, HeadTailProperties
    <3>3. \A i \in 1..Len(socket') : i + 1 \in 1..Len(socket)
      BY <1>2, <3>2
    <3> QED BY <1>1, <3>2, <3>3 DEF Positive
  <2>3. ASSUME NEW m \in Announced, m.name = "TIMESET" => m.data > GenericBlock + MaxTime,
               socket' = Append(socket, m)
        PROVE  Timely(socket')
    <3>1. /\ Len(socket') = Len(socket) + 1
          /\ \A i \in 1..Len(socket) : socket'[i] = socket[i]
          /\ socket'[Len(socket) + 1] = m
      BY <1>2, <2>3, AppendProperties
    <3>2. \A i \in 1..Len(socket') : i \in 1..Len(socket) \/ i = Len(socket) + 1
      BY <1>2, <3>1
    <3> QED BY <1>1, <2>3, <3>1, <3>2 DEF Positive
  <2>4. CASE SendsEvent
    <3>1. PICK n \in {"BOX", "UNKNOWN"} : socket' = Append(socket, Info(n))
      BY <2>4 DEF SendsEvent
    <3>2. Info(n) \in Announced /\ Info(n).name # "TIMESET"
      BY DEF Info, Announced
    <3> QED BY <2>3, <3>1, <3>2
  <2>5. ASSUME NEW o \in Offsets, socket' = Append(socket, [name |-> "TIMESET", data |-> now + o])
        PROVE  Timely(socket')
    <3>1. o \in Nat /\ o > MaxTime + GenericBlock
      BY Blocks
    <3>2. now + o \in Int /\ now + o > GenericBlock + MaxTime
      BY <1>1, <3>1
    <3>3. [name |-> "TIMESET", data |-> now + o] \in Announced
      BY <3>2 DEF Announced
    <3> QED BY <2>3, <2>5, <3>2, <3>3
  <2>6. CASE SendsTime
    BY <2>5, <2>6 DEF SendsTime
  <2>7. CASE SetsClock
    BY <2>5, <2>7 DEF SetsClock
  <2> QED BY <2>1, <2>2, <2>4, <2>6, <2>7, PressFrames
<1> QED BY <1>3, <1>4, <1>5 DEF Positive

LEMMA AfreshKept == ASSUME IInv, PressInv, Next PROVE Afresh'
<1>1. Afresh /\ Len(device) \in Nat /\ None \notin Keys
  BY EventFields, ConstantsAssumption DEF PressInv, Keys
<1> DEFINE Was(i) == Down(rc_last_key, device, i)
<1> DEFINE Now(i) == Down(rc_last_key', device', i)
<1>2. CASE UNCHANGED <<device, held, rc_last_key>>
  BY <1>1, <1>2 DEF Afresh
<1>3. CASE ReadKey
  <2>1. /\ held' = held /\ 1 \in 1..Len(device) /\ Len(device') = Len(device) - 1
        /\ \A i \in 1..Len(device') : i + 1 \in 1..Len(device) /\ device'[i] = device[i + 1]
        /\ rc_last_key' = IF device[1].down THEN device[1].key ELSE None
    BY <1>3, KeyTaken
  <2>2. ASSUME NEW i \in 0..Len(device') PROVE Now(i) = Was(i + 1)
    <3>1. CASE i = 0
      BY <2>1, <3>1 DEF Down
    <3>2. CASE i # 0
      <4>1. i \in 1..Len(device') /\ i + 1 # 0
        BY <3>2
      <4>2. device'[i] = device[i + 1]
        BY <2>1, <4>1
      <4> QED BY <3>2, <4>1, <4>2 DEF Down
    <3> QED BY <3>1, <3>2
  <2>3. ASSUME NEW i \in 1..Len(device'), device'[i].down, device'[i].fresh
        PROVE  Now(i - 1) = None
    <3>1. i + 1 \in 1..Len(device) /\ i - 1 \in 0..Len(device') /\ (i - 1) + 1 = (i + 1) - 1
      BY <1>1, <2>1
    <3>2. Was((i + 1) - 1) = None
      BY <1>1, <2>1, <2>3, <3>1 DEF Afresh
    <3> QED BY <2>2, <3>1, <3>2
  <2>4. ASSUME held' = None PROVE Now(Len(device')) = None
    <3>1. Len(device') \in 0..Len(device') /\ Len(device') + 1 = Len(device)
      BY <1>1, <2>1
    <3>2. Was(Len(device)) = None
      BY <1>1, <2>1, <2>4 DEF Afresh
    <3> QED BY <2>2, <3>1, <3>2
  <2> QED BY <2>3, <2>4 DEF Afresh
<1>4. CASE ClearRCMsg
  <2>1. device' = <<>> /\ rc_last_key' = None /\ 1..Len(device') = {} /\ Len(device') = 0
    BY <1>4 DEF ClearRCMsg
  <2> QED BY <2>1 DEF Afresh, Down
<1>5. CASE UsesKey
  <2>1. PICK e \in Events :
           /\ device'[Len(device) + 1] = e /\ (e.down /\ e.fresh => held = None)
           /\ held' = (IF e.down THEN e.key ELSE None)
    BY <1>5, KeyAdded
  <2>2. /\ Len(device') = Len(device) + 1 /\ rc_last_key' = rc_last_key
        /\ \A i \in 1..Len(device) : device'[i] = device[i]
    BY <1>5, KeyAdded
  <2>3. ASSUME NEW i \in 0..Len(device) PROVE Now(i) = Was(i)
    <3>1. CASE i = 0
      BY <2>2, <3>1 DEF Down
    <3>2. CASE i # 0
      <4>1. i \in 1..Len(device)
        BY <3>2
      <4> QED BY <2>2, <3>2, <4>1 DEF Down
    <3> QED BY <3>1, <3>2
  <2>4. ASSUME NEW i \in 1..Len(device'), device'[i].down, device'[i].fresh
        PROVE  Now(i - 1) = None
    <3>1. CASE i \in 1..Len(device)
      <4>1. i - 1 \in 0..Len(device)
        BY <1>1, <3>1
      <4>2. Was(i - 1) = None
        BY <1>1, <2>2, <2>4, <3>1 DEF Afresh
      <4> QED BY <2>3, <4>1, <4>2
    <3>2. CASE i = Len(device) + 1
      <4>1. held = None
        BY <2>1, <2>4, <3>2
      <4>2. Was(Len(device)) = None
        BY <1>1, <4>1 DEF Afresh
      <4>3. Len(device) \in 0..Len(device) /\ i - 1 = Len(device)
        BY <1>1, <3>2
      <4> QED BY <2>3, <4>2, <4>3
    <3> QED BY <1>1, <2>2, <3>1, <3>2
  <2>5. ASSUME held' = None PROVE Now(Len(device')) = None
    <3>1. ~e.down
      BY <1>1, <2>1, <2>5 DEF Events
    <3>2. Len(device') # 0 /\ device'[Len(device')] = e
      BY <1>1, <2>1, <2>2
    <3> QED BY <3>1, <3>2 DEF Down
  <2> QED BY <2>4, <2>5 DEF Afresh
<1> QED BY <1>2, <1>3, <1>4, <1>5, PressFrames

\* While the clock is not set only its times are taken over.
LEMMA SameClocks ==
    ASSUME InStep, UNCHANGED <<offset, moved>>, Clocks' \subseteq Clocks,
           moved = "calmly" => Forward'
    PROVE  InStep'
<1>1. offset' \in Clocks'
  BY DEF Clocks
<1>2. moved = "never" => Clocks' = {offset'}
  BY <1>1 DEF InStep
<1> QED BY <1>2 DEF InStep

LEMMA KeysInStep == ASSUME IInv, PressInv, ReadKey \/ ClearRCMsg \/ UsesKey PROVE InStep'
<1>1. /\ InStep /\ Len(device) \in Nat /\ Kept \in Int /\ offset \in Int /\ GenericBlock \in Nat
      /\ now \in Int /\ \A i \in 1..Len(device) : Stamp(i) \in Int
  BY EventFields, KeptTypes, Blocks DEF PressInv
<1>2. CASE ReadKey
  <2>1. /\ UNCHANGED <<offset, moved>> /\ 1 \in 1..Len(device) /\ Len(device') = Len(device) - 1
        /\ \A i \in 1..Len(device') : i + 1 \in 1..Len(device) /\ device'[i] = device[i + 1]
        /\ \/ UNCHANGED <<last_keypress, accepted>>
           \/ last_keypress' = device[1].time /\ accepted' = device[1].at
    BY <1>2, KeyTaken
  <2>2. \A i \in 1..Len(device') : i + 1 \in 1..Len(device) /\ Stamp(i)' = Stamp(i + 1)
    BY <2>1 DEF Stamp
  <2>3. \/ Kept' = Kept /\ NoneYet' = NoneYet
        \/ Kept' = Stamp(1)
    BY <2>1 DEF Kept, NoneYet, Stamp
  <2>4. Clocks' \subseteq Clocks
    <3> SUFFICES ASSUME NEW x \in Clocks' PROVE x \in Clocks
      OBVIOUS
    <3>1. CASE x = offset'
      BY <2>1, <3>1 DEF Clocks
    <3>2. CASE \E i \in 1..Len(device') : x = Stamp(i)'
      BY <2>2, <3>2 DEF Clocks
    <3>3. CASE ~NoneYet' /\ x = Kept'
      BY <2>1, <2>3, <3>3 DEF Clocks
    <3> QED BY <3>1, <3>2, <3>3 DEF Clocks
  <2>5. ASSUME Forward PROVE Forward'
    <3>1. NoneYet' \/ Kept' <= offset'
      BY <2>1, <2>3, <2>5 DEF Forward
    <3>2. \A i \in 1..Len(device') : 1 <= i + 1
      BY <1>1, <2>1
    <3>3. \A i \in 1..Len(device') : NoneYet' \/ Kept' <= Stamp(i)'
      BY <2>1, <2>2, <2>3, <2>5, <3>2 DEF Forward
    <3>4. \A i \in 1..Len(device') : Stamp(i)' <= offset'
      BY <2>1, <2>2, <2>5 DEF Forward
    <3>5. \A i, j \in 1..Len(device') : i <= j => i + 1 <= j + 1
      BY <1>1, <2>1
    <3>6. \A i, j \in 1..Len(device') : i <= j => Stamp(i)' <= Stamp(j)'
      BY <2>2, <2>5, <3>5 DEF Forward
    <3> QED BY <3>1, <3>3, <3>4, <3>6 DEF Forward
  <2> QED BY <1>1, <2>1, <2>4, <2>5, SameClocks DEF InStep
<1>3. CASE ClearRCMsg
  <2>1. /\ UNCHANGED <<offset, moved, last_keypress, accepted>> /\ device' = <<>>
    BY <1>3 DEF ClearRCMsg, clock, memory
  <2>2. Kept' = Kept /\ NoneYet' = NoneYet /\ 1..Len(device') = {}
    BY <2>1 DEF Kept, NoneYet
  <2>3. Clocks' \subseteq Clocks
    BY <2>1, <2>2 DEF Clocks
  <2>4. ASSUME Forward PROVE Forward'
    BY <2>1, <2>2, <2>4 DEF Forward
  <2> QED BY <1>1, <2>1, <2>3, <2>4, SameClocks DEF InStep
<1>4. CASE UsesKey
  <2>0. PICK n \in Nat : n = Len(device) + 1
    BY <1>1
  <2>1. /\ UNCHANGED <<offset, moved, last_keypress, accepted>> /\ Len(device') = n
        /\ \A i \in 1..Len(device) : device'[i] = device[i]
        /\ device'[n].time = now + offset /\ device'[n].at = now
    BY <1>4, <2>0, KeyAdded
  <2>2. (\A i \in 1..Len(device) : Stamp(i)' = Stamp(i)) /\ Stamp(n)' = offset
    BY <1>1, <2>1 DEF Stamp
  <2>3. \A i \in 1..Len(device') : i \in 1..Len(device) \/ i = n
    BY <1>1, <2>0, <2>1
  <2>4. Kept' = Kept /\ NoneYet' = NoneYet
    BY <2>1 DEF Kept, NoneYet
  <2>5. \A i \in 1..Len(device') : Stamp(i)' = offset \/ (i \in 1..Len(device) /\ Stamp(i)' = Stamp(i))
    BY <2>2, <2>3
  <2>6. Clocks' \subseteq Clocks
    <3> SUFFICES ASSUME NEW x \in Clocks' PROVE x \in Clocks
      OBVIOUS
    <3>1. CASE x = offset' \/ (~NoneYet' /\ x = Kept')
      BY <2>1, <2>4, <3>1 DEF Clocks
    <3>2. CASE \E i \in 1..Len(device') : x = Stamp(i)'
      BY <2>5, <3>2 DEF Clocks
    <3> QED BY <3>1, <3>2 DEF Clocks
  <2>7. ASSUME Forward PROVE Forward'
    <3>1. NoneYet' \/ Kept' <= offset'
      BY <2>1, <2>4, <2>7 DEF Forward
    <3>2. \A i \in 1..Len(device') : (NoneYet' \/ Kept' <= Stamp(i)') /\ Stamp(i)' <= offset'
      BY <1>1, <2>1, <2>4, <2>5, <2>7, <3>1 DEF Forward
    <3>3. ASSUME NEW i \in 1..Len(device'), NEW j \in 1..Len(device'), i <= j
          PROVE  Stamp(i)' <= Stamp(j)'
      <4>1. CASE j \in 1..Len(device)
        <5>1. i \in 1..Len(device)
          BY <1>1, <2>0, <2>1, <3>3, <4>1
        <5> QED BY <2>2, <2>7, <3>3, <4>1, <5>1 DEF Forward
      <4>2. CASE j = n
        BY <2>1, <2>2, <3>2, <4>2
      <4> QED BY <2>3, <4>1, <4>2
    <3> QED BY <3>1, <3>2, <3>3 DEF Forward
  <2> QED BY <1>1, <2>1, <2>6, <2>7, SameClocks DEF InStep
<1> QED BY <1>2, <1>3, <1>4

LEMMA CalmIsForward ==
    ASSUME IInv, PressInv, moved \in {"never", "calmly"} PROVE Forward
<1>1. CASE moved = "never"
  <2>1. Clocks = {offset} /\ offset \in Int
    BY <1>1, KeptTypes DEF PressInv, InStep
  <2>2. NoneYet \/ Kept = offset
    BY <2>1 DEF Clocks
  <2>3. \A i \in 1..Len(device) : Stamp(i) = offset
    BY <2>1 DEF Clocks
  <2> QED BY <2>1, <2>2, <2>3 DEF Forward
<1> QED BY <1>1 DEF PressInv, InStep

\* The clock is set for the first time, and far.
LEMMA LeapInStep ==
    ASSUME IInv, PressInv, NEW diff \in Int, diff \notin -MaxTime..MaxTime, moved = "never",
           moved' = "once", device' = device, offset' = offset + diff,
           NoneYet' \/ (~NoneYet /\ Kept' \in {Kept, Kept + diff})
    PROVE  InStep'
<1>1. Clocks = {offset} /\ offset \in Int /\ MaxTime \in Nat
  BY KeptTypes, Blocks DEF PressInv, InStep
<1>2. \A i \in 1..Len(device') : Stamp(i)' = offset
  BY <1>1 DEF Clocks, Stamp
<1>3. NoneYet' \/ Kept' \in {offset, offset + diff}
  BY <1>1 DEF Clocks
<1>4. Clocks' \subseteq {offset, offset + diff}
  BY <1>2, <1>3 DEF Clocks
<1>5. \A x, y \in {offset, offset + diff} : Apart(x, y)
  BY <1>1 DEF Apart
<1>6. \A x, y \in Clocks' : Apart(x, y)
  BY <1>4, <1>5
<1>7. \A x, y \in Clocks' : Apart(x, y)'
  BY <1>6 DEF Apart
<1> QED BY <1>7 DEF InStep

LEMMA TimesetInStep == ASSUME IInv, PressInv, ReadEvent PROVE InStep'
<1>1. /\ InStep /\ offset \in Int /\ last_keypress \in Int /\ accepted \in Int /\ Kept \in Int
      /\ Kept = last_keypress - accepted /\ offset > GenericBlock /\ GenericBlock \in Nat
      /\ MaxTime \in Nat
  BY KeptTypes, Blocks DEF PressInv, Positive, Kept
<1>2. UNCHANGED <<device, accepted>>
  BY ClockSet
<1>3. CASE UNCHANGED <<offset, moved, last_keypress>>
  <2>1. Kept' = Kept /\ NoneYet' = NoneYet /\ \A i \in 1..Len(device) : Stamp(i)' = Stamp(i)
    BY <1>2, <1>3 DEF Kept, NoneYet, Stamp
  <2>2. Clocks' \subseteq Clocks
    BY <1>2, <1>3, <2>1 DEF Clocks
  <2>3. Forward => Forward'
    BY <1>2, <1>3, <2>1 DEF Forward
  <2> QED BY <1>1, <1>3, <2>2, <2>3, SameClocks DEF InStep
<1>4. ASSUME NEW diff \in Int, offset' = offset + diff, Moves(diff, device = <<>>),
             last_keypress' = last_keypress + IF last_keypress > diff THEN diff ELSE 0
      PROVE  InStep'
  <2>1. /\ last_keypress <= 0 => last_keypress' <= 0
        /\ Kept' = Kept + diff \/ (Kept' = Kept /\ last_keypress <= diff)
    BY <1>1, <1>2, <1>4 DEF Kept
  <2>2. NoneYet' \/ (~NoneYet /\ accepted \in 0..MaxTime /\ Kept' \in {Kept, Kept + diff})
    BY <1>2, <2>1 DEF NoneYet, PressInv, Before
  <2>3. CASE diff = 0
    <3>1. UNCHANGED <<offset, moved, last_keypress>>
      BY <1>1, <1>4, <2>3 DEF Moves
    <3> QED BY <1>3, <3>1
  <2>4. CASE diff # 0 /\ device = <<>> /\ moved \in {"never", "calmly"}
    <3>1. moved' = "calmly"
      BY <1>4, <2>4 DEF Moves
    <3>2. NoneYet \/ Kept <= offset
      BY <2>4, CalmIsForward DEF Forward
    <3>3. NoneYet' \/ Kept' <= offset'
      BY <1>1, <1>4, <2>1, <2>2, <3>2
    <3>4. 1..Len(device') = {}
      BY <1>2, <2>4
    <3> QED BY <3>1, <3>3, <3>4 DEF InStep, Forward
  <2>5. CASE diff \notin -MaxTime..MaxTime /\ device # <<>> /\ moved = "never"
    <3>1. diff # 0
      BY <1>1, <2>5
    <3>2. moved' = "once"
      BY <1>4, <2>5, <3>1 DEF Moves
    <3> QED BY <1>2, <1>4, <2>2, <2>5, <3>2, LeapInStep
  <2>6. CASE /\ diff # 0 /\ ~(device = <<>> /\ moved \in {"never", "calmly"})
             /\ ~(diff \notin -MaxTime..MaxTime /\ device # <<>> /\ moved = "never")
    <3>1. moved' = "anyhow"
      BY <1>4, <2>6 DEF Moves
    <3> QED BY <3>1 DEF InStep
  <2> QED BY <2>3, <2>4, <2>5, <2>6
<1> QED BY <1>3, <1>4, ClockSet

LEMMA SetsClockInStep == ASSUME IInv, PressInv, SetsClock PROVE InStep'
<1>1. /\ UNCHANGED <<device, accepted, last_keypress>> /\ offset' \in Offsets /\ offset' # offset
      /\ Moves(offset' - offset, offset' > offset)
  BY DEF SetsClock, keys
<1>2. PICK diff \in Int : diff = offset' - offset
  BY <1>1, KeptTypes, Blocks DEF PressInv
<1>3. /\ offset \in Int /\ offset' \in Int /\ Kept \in Int /\ MaxTime \in Nat
      /\ \A i \in 1..Len(device) : Stamp(i) \in Int
  BY <1>1, KeptTypes, Blocks, EventFields DEF PressInv
<1>4. diff # 0 /\ offset' = offset + diff /\ Moves(diff, offset' > offset)
  <2>1. diff # 0 /\ offset' = offset + diff
    <3>1. offset' # offset
      BY <1>1
    <3>2. offset \in Int /\ offset' \in Int
      BY <1>3
    <3>3. \A a, b, d \in Int : d = b - a /\ b # a => d # 0 /\ b = a + d
      OBVIOUS
    <3> QED BY <1>2, <3>1, <3>2, <3>3, Zenon
  <2>2. Moves(diff, offset' > offset)
    BY <1>1, <1>2, Zenon
  <2> QED BY <2>1, <2>2
<1>5. Kept' = Kept /\ NoneYet' = NoneYet /\ \A i \in 1..Len(device) : Stamp(i)' = Stamp(i)
  BY <1>1 DEF Kept, NoneYet, Stamp
<1>6. CASE offset' > offset /\ moved \in {"never", "calmly"}
  <2>1. moved' = "calmly"
    BY <1>4, <1>6 DEF Moves
  <2>2. Forward
    BY <1>6, CalmIsForward
  <2>3. \A x \in Int : x <= offset => x <= offset'
    BY <1>3, <1>6
  <2>4. NoneYet' \/ Kept' <= offset'
    BY <1>3, <1>5, <2>2, <2>3 DEF Forward
  <2>5. \A i \in 1..Len(device) : (NoneYet' \/ Kept' <= Stamp(i)') /\ Stamp(i)' <= offset'
    BY <1>3, <1>5, <2>2, <2>3 DEF Forward
  <2>6. \A i, j \in 1..Len(device) : i <= j => Stamp(i)' <= Stamp(j)'
    BY <1>5, <2>2 DEF Forward
  <2> QED BY <1>1, <2>1, <2>4, <2>5, <2>6 DEF InStep, Forward
<1>7. CASE ~(offset' > offset) /\ moved = "never" /\ diff \notin -MaxTime..MaxTime
  <2>1. moved' = "once"
    BY <1>4, <1>7 DEF Moves
  <2> QED BY <1>1, <1>4, <1>5, <1>7, <2>1, LeapInStep
<1>8. CASE /\ ~(offset' > offset /\ moved \in {"never", "calmly"})
           /\ ~(~(offset' > offset) /\ moved = "never" /\ diff \notin -MaxTime..MaxTime)
  <2>1. moved' = "anyhow"
    BY <1>4, <1>8 DEF Moves
  <2> QED BY <2>1 DEF InStep
<1> QED BY <1>6, <1>7, <1>8

LEMMA InStepKept == ASSUME IInv, PressInv, Next PROVE InStep'
<1>1. CASE UNCHANGED <<device, offset, moved, last_keypress, accepted>>
  <2>1. Clocks' = Clocks /\ (Forward => Forward')
    BY <1>1 DEF Clocks, Forward, Stamp, Kept, NoneYet
  <2> QED BY <1>1, <2>1, SameClocks DEF PressInv, InStep
<1> QED BY <1>1, KeysInStep, TimesetInStep, SetsClockInStep, PressFrames

LEMMA PressStutters == ASSUME PressInv, UNCHANGED vars PROVE PressInv'
<1> USE DEF vars, clock, sources, keys, user, memory
<1>1. Positive' /\ Before' /\ Afresh'
  BY DEF PressInv, Positive, Before, NoneYet, Afresh
<1>2. InStep'
  BY DEF PressInv, InStep, Clocks, Forward, Stamp, Kept, NoneYet, Apart
<1> QED BY <1>1, <1>2 DEF PressInv

LEMMA PressInvariance == Spec => []PressInv
<1>1. Init => PressInv
  BY PressedInitially
<1>2. IInv /\ PressInv /\ [Next]_vars => PressInv'
  <2>1. ASSUME IInv, PressInv, Next PROVE PressInv'
    BY <2>1, InStepKept, PositiveKept, BeforeKept, AfreshKept DEF PressInv
  <2> QED BY <2>1, PressStutters
<1> QED BY <1>1, <1>2, Invariance, PTL DEF Spec

\* The filter of blocked keys lets a press pass that comes late enough.
LEMMA LateIsDistant ==
    ASSUME IInv, PressInv, moved # "anyhow", 1 \in 1..Len(device), device[1].at > accepted + GenericBlock
    PROVE  Distant(device[1].time, GenericBlock)
<1>1. /\ device[1].time \in Int /\ device[1].at \in 0..MaxTime /\ Stamp(1) \in Int
      /\ Stamp(1) = device[1].time - device[1].at
  BY EventFields DEF Stamp
<1>2. /\ last_keypress \in Int /\ accepted \in Int /\ Kept \in Int /\ Kept = last_keypress - accepted
      /\ GenericBlock \in Nat /\ MaxTime \in Nat
  BY KeptTypes, Blocks DEF PressInv, Kept
<1>3. CASE NoneYet
  <2>1. device[1].time > GenericBlock
    BY DEF PressInv, Positive
  <2> QED BY <1>1, <1>2, <1>3, <2>1 DEF Distant, NoneYet
<1>4. CASE ~NoneYet
  <2>1. accepted \in 0..MaxTime
    BY <1>4 DEF PressInv, Before
  <2>2. {Kept, Stamp(1), offset} \subseteq Clocks
    BY <1>4 DEF Clocks
  <2>3. moved = "never" => Kept = Stamp(1)
    BY <2>2 DEF PressInv, InStep
  <2>4. moved = "calmly" => Kept <= Stamp(1)
    BY <1>4 DEF PressInv, InStep, Forward
  <2>5. moved = "once" => Apart(Kept, Stamp(1))
    BY <2>2 DEF PressInv, InStep
  <2>6. Kept <= Stamp(1) \/ Kept - Stamp(1) > MaxTime
    BY <1>1, <1>2, <2>3, <2>4, <2>5 DEF PressInv, InStep, Apart
  <2>7. CASE Kept <= Stamp(1)
    BY <1>1, <1>2, <2>7 DEF Distant
  <2>8. CASE Kept - Stamp(1) > MaxTime
    BY <1>1, <1>2, <2>1, <2>8 DEF Distant
  <2> QED BY <2>6, <2>7, <2>8
<1> QED BY <1>3, <1>4

LEMMA PressIsSeen ==
    ASSUME IInv, PressInv, Next, NEW e, Reads(e), moved # "anyhow", e.down, e.fresh,
           e.at > accepted + GenericBlock
    PROVE  msg'.name = e.key
<1>1. /\ pc \in {"select", "keys"} /\ device # <<>> /\ e = Head(device)
      /\ device' = Tail(device)
  BY DEF Reads
<1>2. device \in Seq(Events) /\ Len(device) \in Nat
  BY EventFields
<1>3. e = device[1] /\ 1 \in 1..Len(device)
  BY <1>1, <1>2, HeadIsFirst
<1>4. KeyDown(e)
  BY <1>1, ReadsAKey DEF ReadKey
<1>5. rc_last_key = None
  <2>1. Down(rc_last_key, device, 1 - 1) = None
    BY <1>3 DEF PressInv, Afresh
  <2> QED BY <2>1 DEF Down
<1>6. e.key # rc_last_key
  BY <1>3, <1>5, EventFields, ConstantsAssumption DEF Keys
<1>7. Distant(e.time, GenericBlock)
  BY <1>3, LateIsDistant
<1>8. Deliver(Info(e.key))
  BY <1>4, <1>6, <1>7 DEF KeyDown
<1> QED BY <1>8 DEF Deliver, Info

\* A key pressed afresh, and late enough after the one before, reaches its caller: neither the
\* filter of repetitions nor a clock that is set calmly, or once and far, swallows it
\* (rcinput.cpp:1133-1189, :845-846).
THEOREM PressesSeen == Spec => PressesAreSeen
<1>1. IInv /\ PressInv /\ [Next]_vars
        => [\A e \in Range(device) :
              Reads(e) /\ moved # "anyhow" /\ e.down /\ e.fresh /\ e.at > accepted + GenericBlock
                => msg'.name = e.key]_vars
  BY PressIsSeen
<1> QED BY <1>1, Invariance, PressInvariance, PTL DEF Spec, PressesAreSeen

\* A press acts, and acts once, for any keys, repetitions, events and settings of the clock.
THEOREM PressesOnce == Spec => PressesActOnce
  BY PressesSeen, HeldKeysOnce, PTL DEF PressesActOnce
=============================================================================
