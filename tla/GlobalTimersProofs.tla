------------------------- MODULE GlobalTimersProofs -------------------------
(***************************************************************************)
(* No timer fires early, is lost, is overtaken or runs after its clear,    *)
(* for every delay, every suspension and any number of waits and ids.      *)
(***************************************************************************)
EXTENDS GlobalTimers, SequencesExt, SequenceTheorems, TLAPS

\* What is behind a removed element moves up by one.
LEMMA RemoveAtElements ==
  ASSUME NEW S, NEW s \in Seq(S), NEW n \in 1..Len(s)
  PROVE  /\ RemoveAt(s, n) \in Seq(S) /\ Len(RemoveAt(s, n)) = Len(s) - 1
         /\ \A i \in 1..(Len(s) - 1) :
              RemoveAt(s, n)[i] = IF i < n THEN s[i] ELSE s[i + 1]
<1> DEFINE a == SubSeq(s, 1, n - 1)   b == SubSeq(s, n + 1, Len(s))
<1>1. Len(s) \in Nat /\ \A i \in 1..Len(s) : s[i] \in S
  BY LenProperties, ElementOfSeq
<1>2. /\ a \in Seq(S) /\ Len(a) = IF 1 <= n - 1 THEN n - 1 - 1 + 1 ELSE 0
      /\ \A i \in 1..(n - 1 - 1 + 1) : a[i] = s[1 + i - 1]
  <2>1. \A i \in 1..(n - 1) : s[i] \in S
    BY <1>1
  <2>. QED  BY <2>1, <1>1, SubSeqProperties
<1>3. /\ b \in Seq(S) /\ Len(b) = IF n + 1 <= Len(s) THEN Len(s) - (n + 1) + 1 ELSE 0
      /\ \A i \in 1..(Len(s) - (n + 1) + 1) : b[i] = s[n + 1 + i - 1]
  <2>1. \A i \in (n + 1)..Len(s) : s[i] \in S
    BY <1>1
  <2>. QED  BY <2>1, <1>1, SubSeqProperties
<1>4. RemoveAt(s, n) = a \o b
  BY DEF RemoveAt
<1> HIDE DEF a, b
<1>5. Len(a) = n - 1 /\ Len(b) = Len(s) - n
  BY <1>1, <1>2, <1>3
<1>6. /\ a \o b \in Seq(S) /\ Len(a \o b) = Len(a) + Len(b)
      /\ \A i \in 1..(Len(a) + Len(b)) :
           (a \o b)[i] = IF i <= Len(a) THEN a[i] ELSE b[i - Len(a)]
  BY <1>2, <1>3, ConcatProperties
<1>7. ASSUME NEW i \in 1..(Len(s) - 1)
      PROVE  (a \o b)[i] = IF i < n THEN s[i] ELSE s[i + 1]
  <2>1. (a \o b)[i] = IF i <= Len(a) THEN a[i] ELSE b[i - Len(a)]
    BY <1>1, <1>5, <1>6
  <2>2. CASE i < n
    <3>1. i \in 1..(n - 1 - 1 + 1) /\ i <= Len(a) /\ 1 + i - 1 = i
      BY <2>2, <1>5
    <3>. QED  BY <2>1, <2>2, <3>1, <1>2
  <2>3. CASE ~(i < n)
    <3>1. /\ i - Len(a) \in 1..(Len(s) - (n + 1) + 1) /\ ~(i <= Len(a))
          /\ n + 1 + (i - Len(a)) - 1 = i + 1
      BY <2>3, <1>1, <1>5
    <3>. QED  BY <2>1, <2>3, <3>1, <1>3
  <2>. QED  BY <2>2, <2>3
<1>. QED  BY <1>1, <1>4, <1>5, <1>6, <1>7

\* The elements of a sequence are those at its indices.
LEMMA ToSetElement ==
  ASSUME NEW S, NEW s \in Seq(S), NEW x
  PROVE  x \in ToSet(s) <=> \E i \in 1..Len(s) : x = s[i]
BY LenProperties DEF ToSet

\* A sequence over S has its elements in S.
LEMMA ToSetTyped ==
  ASSUME NEW S, NEW s \in Seq(S)
  PROVE  ToSet(s) \subseteq S
BY ElementOfSeq, LenProperties DEF ToSet

\* Appending adds one element.
LEMMA ToSetAppend ==
  ASSUME NEW S, NEW s \in Seq(S), NEW x \in S
  PROVE  ToSet(Append(s, x)) = ToSet(s) \cup {x}
<1> DEFINE t == Append(s, x)
<1>1. /\ t \in Seq(S) /\ Len(t) = Len(s) + 1 /\ Len(s) \in Nat
      /\ \A i \in 1..Len(s) : t[i] = s[i]
      /\ t[Len(s) + 1] = x
  BY AppendProperties, LenProperties
<1> HIDE DEF t
<1>2. \A y : y \in ToSet(t) <=> \E i \in 1..Len(t) : y = t[i]
  BY <1>1, ToSetElement
<1>3. \A y : y \in ToSet(s) <=> \E i \in 1..Len(s) : y = s[i]
  BY ToSetElement
<1>4. ASSUME NEW y \in ToSet(t)
      PROVE  y \in ToSet(s) \cup {x}
  <2>1. PICK i \in 1..Len(t) : y = t[i]
    BY <1>2
  <2>2. CASE i \in 1..Len(s)
    BY <2>1, <2>2, <1>1, <1>3
  <2>3. CASE i = Len(s) + 1
    BY <2>1, <2>3, <1>1
  <2>. QED  BY <2>2, <2>3, <1>1
<1>5. ASSUME NEW y \in ToSet(s)
      PROVE  y \in ToSet(t)
  <2>1. PICK i \in 1..Len(s) : y = s[i]
    BY <1>3
  <2>2. i \in 1..Len(t) /\ y = t[i]
    BY <2>1, <1>1
  <2>. QED  BY <2>2, <1>2
<1>6. x \in ToSet(t)
  <2>1. Len(s) + 1 \in 1..Len(t)
    BY <1>1
  <2>. QED  BY <2>1, <1>1, <1>2
<1>. QED  BY <1>4, <1>5, <1>6 DEF t

\* Taking the head leaves the other elements.
LEMMA ToSetTail ==
  ASSUME NEW S, NEW s \in Seq(S), s # <<>>
  PROVE  ToSet(s) = {Head(s)} \cup ToSet(Tail(s)) /\ Head(s) \in S /\ Tail(s) \in Seq(S)
<1> DEFINE t == Tail(s)
<1>1. /\ t \in Seq(S) /\ Len(t) = Len(s) - 1 /\ Len(s) \in Nat \ {0}
      /\ \A i \in 1..Len(t) : t[i] = s[i + 1]
      /\ Head(s) = s[1] /\ Head(s) \in S
  BY HeadTailProperties, EmptySeq
<1> HIDE DEF t
<1>2. \A y : y \in ToSet(t) <=> \E i \in 1..Len(t) : y = t[i]
  BY <1>1, ToSetElement
<1>3. \A y : y \in ToSet(s) <=> \E i \in 1..Len(s) : y = s[i]
  BY ToSetElement
<1>4. ASSUME NEW y \in ToSet(s)
      PROVE  y \in {Head(s)} \cup ToSet(t)
  <2>1. PICK i \in 1..Len(s) : y = s[i]
    BY <1>3
  <2>2. CASE i = 1
    BY <2>1, <2>2, <1>1
  <2>3. CASE i # 1
    <3>1. i - 1 \in 1..Len(t) /\ (i - 1) + 1 = i
      BY <2>3, <1>1
    <3>2. t[i - 1] = s[i]
      BY <3>1, <1>1
    <3>. QED  BY <2>1, <3>1, <3>2, <1>2
  <2>. QED  BY <2>2, <2>3
<1>5. ASSUME NEW y \in ToSet(t)
      PROVE  y \in ToSet(s)
  <2>1. PICK i \in 1..Len(t) : y = t[i]
    BY <1>2
  <2>2. i + 1 \in 1..Len(s) /\ y = s[i + 1]
    BY <2>1, <1>1
  <2>. QED  BY <2>2, <1>3
<1>6. Head(s) \in ToSet(s)
  <2>1. 1 \in 1..Len(s)
    BY <1>1
  <2>. QED  BY <2>1, <1>1, <1>3
<1>. QED  BY <1>1, <1>4, <1>5, <1>6 DEF t

\* Removing at an index keeps what stands at every other one.
LEMMA ToSetRemoveAt ==
  ASSUME NEW S, NEW s \in Seq(S), NEW n \in 1..Len(s)
  PROVE  \A y : y \in ToSet(RemoveAt(s, n)) <=> \E i \in 1..Len(s) : i # n /\ y = s[i]
<1> DEFINE t == RemoveAt(s, n)
<1>1. /\ t \in Seq(S) /\ Len(t) = Len(s) - 1 /\ Len(s) \in Nat
      /\ \A i \in 1..(Len(s) - 1) : t[i] = IF i < n THEN s[i] ELSE s[i + 1]
  BY RemoveAtElements, LenProperties
<1> HIDE DEF t
<1>2. \A y : y \in ToSet(t) <=> \E i \in 1..Len(t) : y = t[i]
  BY <1>1, ToSetElement
<1>3. ASSUME NEW y, NEW i \in 1..Len(t), y = t[i]
      PROVE  \E j \in 1..Len(s) : j # n /\ y = s[j]
  <2>1. CASE i < n
    <3>1. i \in 1..Len(s) /\ i # n /\ y = s[i]
      BY <1>1, <1>3, <2>1
    <3>. QED  BY <3>1
  <2>2. CASE ~(i < n)
    <3>1. i + 1 \in 1..Len(s) /\ i + 1 # n /\ y = s[i + 1]
      BY <1>1, <1>3, <2>2
    <3>. QED  BY <3>1
  <2>. QED  BY <2>1, <2>2
<1>4. ASSUME NEW y, NEW j \in 1..Len(s), j # n, y = s[j]
      PROVE  \E i \in 1..Len(t) : y = t[i]
  <2>1. CASE j < n
    <3>1. j \in 1..Len(t) /\ t[j] = s[j]
      BY <1>1, <2>1
    <3>. QED  BY <1>4, <3>1
  <2>2. CASE j > n
    <3>1. j - 1 \in 1..Len(t) /\ ~(j - 1 < n) /\ (j - 1) + 1 = j
      BY <1>1, <2>2
    <3>2. t[j - 1] = s[j]
      BY <1>1, <3>1
    <3>. QED  BY <1>4, <3>1, <3>2
  <2>. QED  BY <1>4, <2>1, <2>2
<1>. QED  BY <1>2, <1>3, <1>4 DEF t

\* A function on the indices of a sequence is a sequence.
LEMMA MappedSeq ==
  ASSUME NEW S, NEW s \in Seq(S), NEW T, NEW f \in [DOMAIN s -> T]
  PROVE  f \in Seq(T) /\ Len(f) = Len(s)
<1>1. DOMAIN s = 1..Len(s) /\ Len(s) \in Nat
  BY LenProperties
<1>2. f \in Seq(T)
  BY <1>1, SeqDef
<1>3. DOMAIN f = 1..Len(f) /\ Len(f) \in Nat
  BY <1>2, LenProperties
<1>. QED  BY <1>1, <1>2, <1>3

\* What suspensions and wake-ups leave of a wait.
SameTimer(u, w) ==
  /\ u.key = w.key /\ u.group = w.group /\ u.milliseconds = w.milliseconds
  /\ u.id = w.id /\ u.repeat = w.repeat /\ u.level = w.level /\ u.startedAt = w.startedAt

\* The deadline and the document's active time move together: what is left to wait
\* is the length of the wait less the active time since it started.  No wake-up is
\* later than the deadline needs.
OnClockAt(w, active, elapsed, clock) ==
  /\ IF active
     THEN w.suspensionStartTime = NoTime /\ w.expiryTime + elapsed = clock + w.milliseconds + w.startedAt
     ELSE /\ w.suspensionStartTime \in Nat /\ w.suspensionStartTime <= clock
          /\ w.expiryTime + elapsed = w.suspensionStartTime + w.milliseconds + w.startedAt
  /\ w.wakeUp # NoTime => w.wakeUp <= Later(clock, w.expiryTime)

OnClock(w) == OnClockAt(w, fullyActive, activeTime, now)
OnClockNext(w) == OnClockAt(w, fullyActive', activeTime', now')

\* Keys are registered once, and never again after their clear.
IdsOK ==
  /\ \A id \in Id : idMap[id] # 0 => idMap[id] < nextSequence /\ idMap[id] \notin cleared
  /\ \A id, other \in Id : idMap[id] # 0 /\ idMap[id] = idMap[other] => id = other
  /\ \A k \in cleared : k < nextSequence

KeysOK ==
  /\ IdsOK
  /\ \A t \in ToSet(tasks) : t.key < nextSequence
  /\ running # NoTask /\ running.repeat => nextSequence <= MaxWaits

WaitsOK == \A w \in Waits : w.key < nextSequence /\ (w.id # 0 <=> w.group = Public) /\ OnClock(w)

Base == TypeOK /\ KeysOK /\ WaitsOK
IInv == Base /\ CallbacksAreDue /\ NothingIsStranded /\ OrderKept

-----------------------------------------------------------------------------
(* The waits after one call.                                                *)

LEMMA ScheduleElement ==
  ASSUME NEW w \in Wait, now \in Nat
  PROVE  /\ Schedule(w) \in Wait /\ SameTimer(Schedule(w), w)
         /\ Schedule(w).expiryTime = w.expiryTime
         /\ Schedule(w).suspensionStartTime = w.suspensionStartTime
         /\ Schedule(w).wakeUp = Later(now, w.expiryTime)
BY DEF Wait, Schedule, SameTimer, Later

\* The waits of s and t are the same timers, one by one.
Remaps(t, s) ==
  /\ t \in Seq(Wait) /\ Len(t) = Len(s)
  /\ \A i \in 1..Len(s) : SameTimer(t[i], s[i])

LEMMA SuspendedWaits ==
  ASSUME NEW s \in Seq(Wait), now \in Nat
  PROVE  /\ Remaps(Suspended(s), s)
         /\ \A i \in 1..Len(s) : /\ Suspended(s)[i].expiryTime = s[i].expiryTime
                                 /\ Suspended(s)[i].suspensionStartTime = now
                                 /\ Suspended(s)[i].wakeUp = NoTime
<1> DEFINE f(w) == [w EXCEPT !.wakeUp = NoTime, !.suspensionStartTime = now]
<1>1. ASSUME NEW w \in Wait
      PROVE  /\ f(w) \in Wait /\ SameTimer(f(w), w) /\ f(w).expiryTime = w.expiryTime
             /\ f(w).suspensionStartTime = now /\ f(w).wakeUp = NoTime
  BY DEF Wait, SameTimer
<1>2. DOMAIN s = 1..Len(s) /\ \A i \in 1..Len(s) : s[i] \in Wait
  BY LenProperties, ElementOfSeq
<1>3. Suspended(s) = [i \in DOMAIN s |-> f(s[i])]
  BY DEF Suspended
<1> HIDE DEF f
<1>4. Suspended(s) \in [DOMAIN s -> Wait] /\ \A i \in 1..Len(s) : Suspended(s)[i] = f(s[i])
  BY <1>1, <1>2, <1>3
<1>5. Suspended(s) \in Seq(Wait) /\ Len(Suspended(s)) = Len(s)
  BY <1>4, MappedSeq
<1>. QED  BY <1>1, <1>2, <1>4, <1>5 DEF Remaps

LEMMA ResumedWaits ==
  ASSUME NEW s \in Seq(Wait), now \in Nat,
         \A i \in 1..Len(s) : s[i].suspensionStartTime \in Nat /\ s[i].suspensionStartTime <= now
  PROVE  /\ Remaps(Resumed(s), s)
         /\ \A i \in 1..Len(s) :
              /\ Resumed(s)[i].expiryTime = s[i].expiryTime + (now - s[i].suspensionStartTime)
              /\ Resumed(s)[i].suspensionStartTime = NoTime
              /\ Resumed(s)[i].wakeUp = Later(now, Resumed(s)[i].expiryTime)
<1> DEFINE g(w) == [w EXCEPT !.expiryTime = @ + (now - w.suspensionStartTime),
                             !.suspensionStartTime = NoTime]
<1>1. ASSUME NEW w \in Wait, w.suspensionStartTime \in Nat, w.suspensionStartTime <= now
      PROVE  /\ g(w) \in Wait /\ SameTimer(g(w), w) /\ g(w).suspensionStartTime = NoTime
             /\ g(w).expiryTime = w.expiryTime + (now - w.suspensionStartTime)
  <2> DEFINE e == w.expiryTime + (now - w.suspensionStartTime)
  <2>1. e \in Nat
    BY <1>1 DEF Wait
  <2>2. g(w) = [w EXCEPT !.expiryTime = e, !.suspensionStartTime = NoTime]
    OBVIOUS
  <2> HIDE DEF e, g
  <2>3. g(w) \in Wait /\ SameTimer(g(w), w) /\ g(w).suspensionStartTime = NoTime /\ g(w).expiryTime = e
    BY <2>1, <2>2 DEF Wait, SameTimer
  <2>. QED  BY <2>3 DEF e
<1>2. DOMAIN s = 1..Len(s) /\ \A i \in 1..Len(s) : s[i] \in Wait
  BY LenProperties, ElementOfSeq
<1>3. Resumed(s) = [i \in DOMAIN s |-> Schedule(g(s[i]))]
  BY DEF Resumed
<1> HIDE DEF g
<1>4. ASSUME NEW i \in 1..Len(s)
      PROVE  LET w == Schedule(g(s[i]))
             IN  /\ w \in Wait /\ SameTimer(w, s[i]) /\ w.suspensionStartTime = NoTime
                 /\ w.expiryTime = s[i].expiryTime + (now - s[i].suspensionStartTime)
                 /\ w.wakeUp = Later(now, w.expiryTime)
  <2>1. /\ g(s[i]) \in Wait /\ SameTimer(g(s[i]), s[i]) /\ g(s[i]).suspensionStartTime = NoTime
        /\ g(s[i]).expiryTime = s[i].expiryTime + (now - s[i].suspensionStartTime)
    BY <1>1, <1>2
  <2> DEFINE u == g(s[i])
  <2> HIDE DEF u
  <2>2. /\ Schedule(u) \in Wait /\ SameTimer(Schedule(u), u)
        /\ Schedule(u).expiryTime = u.expiryTime
        /\ Schedule(u).suspensionStartTime = u.suspensionStartTime
        /\ Schedule(u).wakeUp = Later(now, u.expiryTime)
    BY <2>1, ScheduleElement DEF u
  <2>. QED  BY <2>1, <2>2 DEF u, SameTimer
<1>5. Resumed(s) \in [DOMAIN s -> Wait] /\ \A i \in 1..Len(s) : Resumed(s)[i] = Schedule(g(s[i]))
  BY <1>2, <1>3, <1>4
<1>6. Resumed(s) \in Seq(Wait) /\ Len(Resumed(s)) = Len(s)
  BY <1>5, MappedSeq
<1>. QED  BY <1>4, <1>5, <1>6 DEF Remaps

LEMMA UnblockedWaits ==
  ASSUME NEW s \in Seq(Wait), now \in Nat
  PROVE  LET t == ScheduleNewlyUnblockedTimers(s)
         IN  /\ Remaps(t, s)
             /\ \A i \in 1..Len(s) :
                  /\ t[i].expiryTime = s[i].expiryTime
                  /\ t[i].suspensionStartTime = s[i].suspensionStartTime
                  /\ t[i].wakeUp = IF s[i].wakeUp = NoTime /\ s[i].expiryTime <= now
                                      /\ ~HasOrderingBlocker(s, s[i])
                                   THEN Later(now, s[i].expiryTime) ELSE s[i].wakeUp
<1> DEFINE t == ScheduleNewlyUnblockedTimers(s)
           awake(w) == w.wakeUp = NoTime /\ w.expiryTime <= now /\ ~HasOrderingBlocker(s, w)
<1>1. DOMAIN s = 1..Len(s) /\ \A i \in 1..Len(s) : s[i] \in Wait
  BY LenProperties, ElementOfSeq
<1>2. t = [i \in DOMAIN s |-> IF awake(s[i]) THEN Schedule(s[i]) ELSE s[i]]
  BY DEF ScheduleNewlyUnblockedTimers
<1> HIDE DEF t, awake
<1>3. ASSUME NEW i \in 1..Len(s)
      PROVE  /\ t[i] \in Wait /\ SameTimer(t[i], s[i]) /\ t[i].expiryTime = s[i].expiryTime
             /\ t[i].suspensionStartTime = s[i].suspensionStartTime
             /\ t[i].wakeUp = IF awake(s[i]) THEN Later(now, s[i].expiryTime) ELSE s[i].wakeUp
  <2>1. CASE awake(s[i])
    <3>1. t[i] = Schedule(s[i])
      BY <1>1, <1>2, <2>1
    <3>. QED  BY <1>1, <2>1, <3>1, ScheduleElement
  <2>2. CASE ~awake(s[i])
    <3>1. t[i] = s[i]
      BY <1>1, <1>2, <2>2
    <3>. QED  BY <1>1, <2>2, <3>1 DEF SameTimer
  <2>. QED  BY <2>1, <2>2
<1>4. t \in [DOMAIN s -> Wait]
  BY <1>1, <1>2, <1>3, ScheduleElement
<1>5. t \in Seq(Wait) /\ Len(t) = Len(s)
  BY <1>4, MappedSeq
<1>. QED  BY <1>3, <1>5 DEF Remaps, t, awake

-----------------------------------------------------------------------------
(* One step of the waits.                                                   *)

Sorted(s) == \A i, j \in DOMAIN s : i < j => s[i].key < s[j].key

LEMMA WaitElements ==
  ASSUME TypeOK
  PROVE  /\ activeTimers \in Seq(Wait) /\ Len(activeTimers) \in Nat
         /\ DOMAIN activeTimers = 1..Len(activeTimers)
         /\ \A i \in 1..Len(activeTimers) : activeTimers[i] \in Wait /\ activeTimers[i] \in Waits
         /\ \A w \in Waits : w \in Wait /\ \E i \in 1..Len(activeTimers) : w = activeTimers[i]
         /\ Sorted(activeTimers)
         /\ \A i, j \in 1..Len(activeTimers) : activeTimers[i].key = activeTimers[j].key => i = j
<1>1. activeTimers \in Seq(Wait) /\ Sorted(activeTimers)
  BY DEF TypeOK, Sorted
<1>2. /\ DOMAIN activeTimers = 1..Len(activeTimers) /\ Len(activeTimers) \in Nat
      /\ \A i \in 1..Len(activeTimers) : activeTimers[i] \in Wait
  BY <1>1, LenProperties, ElementOfSeq
<1>3. \A w : w \in Waits <=> \E i \in 1..Len(activeTimers) : w = activeTimers[i]
  BY <1>1, ToSetElement DEF Waits
<1>4. ASSUME NEW i \in 1..Len(activeTimers), NEW j \in 1..Len(activeTimers),
             activeTimers[i].key = activeTimers[j].key
      PROVE  i = j
  <2>1. activeTimers[i].key \in Nat /\ activeTimers[j].key \in Nat
    BY <1>2 DEF Wait, Key
  <2>. QED  BY <1>1, <1>2, <1>4, <2>1 DEF Sorted
<1>. QED  BY <1>1, <1>2, <1>3, <1>4

LEMMA RemappedWaits ==
  ASSUME NEW s \in Seq(Wait), NEW t, Remaps(t, s)
  PROVE  /\ Sorted(s) => Sorted(t)
         /\ \A i \in 1..Len(s) : HasOrderingBlocker(t, t[i]) <=> HasOrderingBlocker(s, s[i])
<1>1. /\ t \in Seq(Wait) /\ DOMAIN t = 1..Len(s) /\ DOMAIN s = 1..Len(s) /\ Len(t) = Len(s)
      /\ \A i \in 1..Len(s) : SameTimer(t[i], s[i])
  BY LenProperties DEF Remaps
<1>2. /\ \A w : w \in ToSet(s) <=> \E i \in 1..Len(s) : w = s[i]
      /\ \A w : w \in ToSet(t) <=> \E i \in 1..Len(s) : w = t[i]
  BY <1>1, ToSetElement
<1>3. \A i \in 1..Len(s) : HasOrderingBlocker(t, t[i]) <=> HasOrderingBlocker(s, s[i])
  BY <1>1, <1>2 DEF HasOrderingBlocker, SameTimer
<1>. QED  BY <1>1, <1>3 DEF Sorted, SameTimer

\* A wait that starts has a new key; one that is gone was cleared or handed on.
Fresh(w) == w.key = nextSequence /\ nextSequence' = nextSequence + 1 /\ (w.id # 0 <=> w.group = Public)

Ended(u) == \/ \A id \in Id : idMap'[id] = 0
            \/ tasks' = IF u.group = Public THEN Append(tasks, TaskOf(u)) ELSE tasks

Follow ==
  /\ activeTimers' \in Seq(Wait) /\ Sorted(activeTimers')
  /\ \A w \in Waits' : OnClockNext(w) /\ (Fresh(w) \/ \E u \in Waits : SameTimer(w, u))
  /\ \A u \in Waits : Ended(u) \/ \E w \in Waits' : SameTimer(w, u)

LEMMA Unmoved ==
  ASSUME Base, NoLostWait, activeTimers' = activeTimers, fullyActive' = fullyActive,
         Tick \/ UNCHANGED <<now, activeTime>>
  PROVE  Follow /\ NoLostWait'
<1>1. /\ activeTimers \in Seq(Wait) /\ Sorted(activeTimers) /\ Waits \subseteq Wait
      /\ now \in Nat /\ activeTime \in Nat /\ fullyActive \in BOOLEAN
  BY WaitElements DEF Base, TypeOK
<1>2. Waits' = Waits
  BY DEF Waits
<1>3. ASSUME NEW w \in Waits
      PROVE  OnClockNext(w)
  <2>1. OnClock(w) /\ w \in Wait
    BY <1>1 DEF Base, WaitsOK
  <2>2. /\ w.expiryTime \in Nat /\ w.milliseconds \in Nat /\ w.startedAt \in Nat
        /\ w.suspensionStartTime \in Nat \cup {NoTime} /\ w.wakeUp \in Nat \cup {NoTime}
        /\ w.wakeUp # NoTime => w.wakeUp <= Later(now, w.expiryTime)
    BY <2>1 DEF Wait, OnClock, OnClockAt
  <2>3. CASE Tick
    <3>1. now' = now + 1 /\ activeTime' = IF fullyActive THEN activeTime + 1 ELSE activeTime
      BY <2>3 DEF Tick
    <3>4. w.wakeUp # NoTime => w.wakeUp <= Later(now', w.expiryTime)
      BY <1>1, <2>2, <3>1 DEF Later
    <3>2. CASE fullyActive
      <4>1. /\ w.suspensionStartTime = NoTime
            /\ w.expiryTime + activeTime = now + w.milliseconds + w.startedAt
        BY <2>1, <3>2 DEF OnClock, OnClockAt
      <4>2. w.expiryTime + activeTime' = now' + w.milliseconds + w.startedAt
        <5> DEFINE e == w.expiryTime   m == w.milliseconds   b == w.startedAt
        <5>2. /\ e \in Nat /\ m \in Nat /\ b \in Nat /\ activeTime \in Nat /\ now \in Nat
              /\ e + activeTime = now + m + b
          BY <1>1, <2>2, <4>1
        <5> HIDE DEF e, m, b
        <5>3. e + (activeTime + 1) = (now + 1) + m + b
          BY <5>2
        <5>1. w.expiryTime + (activeTime + 1) = (now + 1) + w.milliseconds + w.startedAt
          BY <5>3 DEF e, m, b
        <5>. QED  BY <3>1, <3>2, <5>1
      <4>. QED  BY <3>2, <3>4, <4>1, <4>2 DEF OnClockNext, OnClockAt
    <3>3. CASE ~fullyActive
      BY <1>1, <2>1, <2>2, <3>1, <3>3, <3>4 DEF OnClock, OnClockNext, OnClockAt
    <3>. QED  BY <3>2, <3>3
  <2>4. CASE UNCHANGED <<now, activeTime>>
    BY <2>1, <2>4 DEF OnClock, OnClockNext, OnClockAt
  <2>. QED  BY <2>3, <2>4
<1>4. ASSUME NEW w \in Waits
      PROVE  IF fullyActive
             THEN \/ w.wakeUp # NoTime /\ w.wakeUp <= Later(now', w.expiryTime)
                  \/ now' >= w.expiryTime /\ HasOrderingBlocker(activeTimers, w)
             ELSE w.wakeUp = NoTime
  <2>1. w \in Wait
    BY <1>1
  <2>2. now' \in Nat /\ now <= now'
    BY <1>1 DEF Tick
  <2>. QED  BY <1>1, <2>1, <2>2 DEF NoLostWait, Expired, Later, Wait
<1>5. NoLostWait'
  BY <1>2, <1>4 DEF NoLostWait, Expired
<1>. QED  BY <1>1, <1>2, <1>3, <1>5 DEF Follow, SameTimer

LEMMA Started ==
  ASSUME Base, NoLostWait, nextSequence <= MaxWaits,
         NEW group \in Group, NEW ms \in Nat, NEW id \in Id \cup {0}, NEW repeat \in BOOLEAN,
         NEW level \in Nat, id # 0 <=> group = Public,
         RunStepsAfterTimeout(NewWait(group, ms, id, repeat, level)),
         UNCHANGED <<now, activeTime, fullyActive>>
  PROVE  /\ Follow /\ NoLostWait'
         /\ NewWait(group, ms, id, repeat, level) \in Waits'
         /\ \A w \in Waits' : w = NewWait(group, ms, id, repeat, level) \/ w \in Waits
<1> DEFINE n == NewWait(group, ms, id, repeat, level)
<1>1. /\ activeTimers \in Seq(Wait) /\ Sorted(activeTimers) /\ Waits \subseteq Wait
      /\ DOMAIN activeTimers = 1..Len(activeTimers) /\ Len(activeTimers) \in Nat
      /\ \A i \in 1..Len(activeTimers) : activeTimers[i] \in Waits
      /\ now \in Nat /\ activeTime \in Nat /\ fullyActive \in BOOLEAN /\ nextSequence \in Nat \ {0}
      /\ MaxWaits \in Nat
  BY WaitElements, GlobalTimersAssumption DEF Base, TypeOK
<1>2. /\ n \in Wait /\ n.key = nextSequence /\ n.group = group /\ n.id = id
      /\ n.milliseconds = ms /\ n.expiryTime = now + ms /\ n.startedAt = activeTime
      /\ n.suspensionStartTime = IF fullyActive THEN NoTime ELSE now
      /\ n.wakeUp = IF fullyActive THEN now + ms ELSE NoTime
  BY <1>1 DEF NewWait, Wait, Key
<1>3. activeTimers' = Append(activeTimers, n) /\ nextSequence' = nextSequence + 1
  BY DEF RunStepsAfterTimeout
<1> HIDE DEF n
<1> DEFINE t == Append(activeTimers, n)
<1>4. /\ t \in Seq(Wait) /\ Len(t) = Len(activeTimers) + 1
      /\ \A i \in 1..Len(activeTimers) : t[i] = activeTimers[i]
      /\ t[Len(activeTimers) + 1] = n
      /\ ToSet(t) = Waits \cup {n}
  BY <1>1, <1>2, AppendProperties, ToSetAppend DEF Waits
<1>5. activeTimers' = t /\ Waits' = ToSet(t)
  BY <1>3 DEF Waits
<1> HIDE DEF t
<1>6. ASSUME NEW i \in DOMAIN t, NEW j \in DOMAIN t, i < j
      PROVE  t[i].key < t[j].key
  <2>1. DOMAIN t = 1..(Len(activeTimers) + 1)
    BY <1>1, <1>4, LenProperties
  <2>2. i \in 1..Len(activeTimers) /\ t[i] = activeTimers[i] /\ t[i] \in Waits
    BY <1>1, <1>4, <1>6, <2>1
  <2>3. CASE j \in 1..Len(activeTimers)
    BY <1>1, <1>4, <1>6, <2>2, <2>3 DEF Sorted
  <2>4. CASE j = Len(activeTimers) + 1
    BY <1>2, <1>4, <2>2, <2>4 DEF Base, WaitsOK
  <2>. QED  BY <1>1, <2>1, <2>3, <2>4
<1>7. \A w \in Waits' : w = n \/ w \in Waits
  BY <1>4, <1>5
<1>8. ASSUME NEW w \in Waits'
      PROVE  OnClockNext(w) /\ (Fresh(w) \/ \E u \in Waits : SameTimer(w, u))
  <2>1. CASE w = n
    <3>1. w.wakeUp # NoTime => w.wakeUp <= Later(now, w.expiryTime)
      BY <1>1, <1>2, <2>1 DEF Later
    <3>. QED  BY <1>1, <1>2, <1>3, <2>1, <3>1 DEF OnClockNext, OnClockAt, Fresh
  <2>2. CASE w \in Waits
    BY <2>2 DEF OnClock, OnClockNext, OnClockAt, SameTimer, Base, WaitsOK
  <2>. QED  BY <1>7, <2>1, <2>2
<1>9. NoLostWait'
  <2> SUFFICES ASSUME NEW w \in Waits'
               PROVE  IF fullyActive
                      THEN \/ w.wakeUp # NoTime /\ w.wakeUp <= Later(now, w.expiryTime)
                           \/ Expired(w) /\ HasOrderingBlocker(t, w)
                      ELSE w.wakeUp = NoTime
    BY <1>5 DEF NoLostWait, Expired
  <2>1. CASE w = n
    BY <1>1, <1>2, <2>1, GlobalTimersAssumption DEF Later
  <2>2. CASE w \in Waits
    BY <1>4, <2>2 DEF NoLostWait, HasOrderingBlocker, Waits
  <2>. QED  BY <1>7, <2>1, <2>2
<1>10. \A u \in Waits : u \in Waits' /\ SameTimer(u, u)
  BY <1>4, <1>5 DEF SameTimer
<1>11. n \in Waits'
  BY <1>4, <1>5
<1>12. t \in Seq(Wait) /\ Sorted(t)
  BY <1>4, <1>6 DEF Sorted
<1>. QED  BY <1>5, <1>7, <1>8, <1>9, <1>10, <1>11, <1>12 DEF Follow, n

\* What a step that maps the waits one by one has to show.
LEMMA Mapped ==
  ASSUME Base, Remaps(activeTimers', activeTimers),
         \A i \in 1..Len(activeTimers) :
           /\ OnClockNext(activeTimers'[i])
           /\ IF fullyActive'
              THEN \/ activeTimers'[i].wakeUp # NoTime /\ activeTimers'[i].wakeUp <= Later(now', activeTimers'[i].expiryTime)
                   \/ now' >= activeTimers'[i].expiryTime /\ HasOrderingBlocker(activeTimers', activeTimers'[i])
              ELSE activeTimers'[i].wakeUp = NoTime
  PROVE  Follow /\ NoLostWait'
<1> DEFINE t == activeTimers'
<1>1. /\ activeTimers \in Seq(Wait) /\ Sorted(activeTimers)
      /\ \A i \in 1..Len(activeTimers) : activeTimers[i] \in Waits
      /\ \A u \in Waits : \E i \in 1..Len(activeTimers) : u = activeTimers[i]
  BY WaitElements DEF Base
<1>2. /\ t \in Seq(Wait) /\ Sorted(t)
      /\ \A i \in 1..Len(activeTimers) : SameTimer(t[i], activeTimers[i])
      /\ \A w : w \in ToSet(t) <=> \E i \in 1..Len(activeTimers) : w = t[i]
  <2>1. t \in Seq(Wait) /\ Len(t) = Len(activeTimers)
    BY DEF Remaps
  <2>. QED  BY <1>1, <2>1, RemappedWaits, ToSetElement DEF Remaps
<1>3. Waits' = ToSet(t) /\ \A i \in 1..Len(activeTimers) : OnClockNext(t[i])
  BY DEF Waits
<1> HIDE DEF t
<1>4. NoLostWait'
  BY <1>2, <1>3 DEF NoLostWait, Expired, t
<1>5. \A w \in Waits' : OnClockNext(w) /\ \E u \in Waits : SameTimer(w, u)
  <2> SUFFICES ASSUME NEW w \in Waits'
               PROVE  OnClockNext(w) /\ \E u \in Waits : SameTimer(w, u)
    OBVIOUS
  <2>1. PICK i \in 1..Len(activeTimers) : w = t[i]
    BY <1>2, <1>3
  <2>2. OnClockNext(w)
    BY <1>3, <2>1
  <2>. QED  BY <1>1, <1>2, <2>1, <2>2
<1>6. \A u \in Waits : \E w \in Waits' : SameTimer(w, u)
  BY <1>1, <1>2, <1>3
<1>. QED  BY <1>2, <1>4, <1>5, <1>6 DEF Follow, t

\* The document becomes active, inactive, or another one.
LEMMA Shifted ==
  ASSUME Base, NoLostWait, NEW active \in BOOLEAN,
         SetFullyActive(active) \/ SetAssociatedDocument(active)
  PROVE  Follow /\ NoLostWait'
<1> DEFINE s == activeTimers   t == activeTimers'   n == Len(activeTimers)
           z == IF fullyActive THEN Suspended(s) ELSE s
<1>1. /\ s \in Seq(Wait) /\ \A i \in 1..n : s[i] \in Wait /\ s[i] \in Waits
      /\ now \in Nat /\ activeTime \in Nat /\ fullyActive \in BOOLEAN
  BY WaitElements DEF Base, TypeOK
<1>2. /\ now' = now /\ activeTime' = activeTime /\ fullyActive' = active
      /\ t = IF active THEN Resumed(z) ELSE z
  <2>1. CASE SetAssociatedDocument(active)
    BY <2>1 DEF SetAssociatedDocument
  <2>2. CASE SetFullyActive(active)
    BY <2>2, <1>1 DEF SetFullyActive
  <2>. QED  BY <2>1, <2>2
<1>3. /\ Remaps(z, s)
      /\ \A i \in 1..n : /\ z[i].suspensionStartTime \in Nat /\ z[i].suspensionStartTime <= now
                         /\ z[i].wakeUp = NoTime
                         /\ z[i].expiryTime + activeTime
                               = z[i].suspensionStartTime + s[i].milliseconds + s[i].startedAt
  <2>1. CASE fullyActive
    <3>1. /\ Remaps(Suspended(s), s)
          /\ \A i \in 1..n : /\ Suspended(s)[i].expiryTime = s[i].expiryTime
                             /\ Suspended(s)[i].suspensionStartTime = now
                             /\ Suspended(s)[i].wakeUp = NoTime
      BY <1>1, SuspendedWaits
    <3>2. \A i \in 1..n : s[i].expiryTime + activeTime = now + s[i].milliseconds + s[i].startedAt
      BY <1>1, <2>1 DEF Base, WaitsOK, OnClock, OnClockNext, OnClockAt
    <3>. QED  BY <1>1, <2>1, <3>1, <3>2
  <2>2. CASE ~fullyActive
    BY <1>1, <2>2 DEF Base, WaitsOK, OnClock, OnClockNext, OnClockAt, NoLostWait, Remaps, SameTimer
  <2>. QED  BY <2>1, <2>2
<1> HIDE DEF z
<1>4. CASE ~active
  <2>1. t = z /\ fullyActive' = FALSE
    BY <1>2, <1>4
  <2>2. \A i \in 1..n : z[i].milliseconds = s[i].milliseconds /\ z[i].startedAt = s[i].startedAt
    BY <1>3 DEF Remaps, SameTimer
  <2>3. \A i \in 1..n : OnClockNext(z[i])
    BY <1>2, <1>3, <2>1, <2>2 DEF OnClock, OnClockNext, OnClockAt
  <2>. QED  BY <1>3, <2>1, <2>3, Mapped
<1>5. CASE active
  <2>1. t = Resumed(z) /\ fullyActive' = TRUE
    BY <1>2, <1>5
  <2>2. z \in Seq(Wait) /\ Len(z) = n /\ \A i \in 1..n : z[i] \in Wait
    BY <1>3, ElementOfSeq DEF Remaps
  <2>3. /\ Remaps(t, z)
        /\ \A i \in 1..n : /\ t[i].expiryTime = z[i].expiryTime + (now - z[i].suspensionStartTime)
                           /\ t[i].suspensionStartTime = NoTime
                           /\ t[i].wakeUp = Later(now, t[i].expiryTime)
    BY <1>1, <1>3, <2>1, <2>2, ResumedWaits
  <2>4. Remaps(t, s)
    BY <1>3, <2>2, <2>3 DEF Remaps, SameTimer
  <2>5. ASSUME NEW i \in 1..n
        PROVE  OnClockNext(t[i]) /\ t[i].wakeUp # NoTime /\ t[i].wakeUp <= Later(now', t[i].expiryTime)
    <3>1. /\ t[i].milliseconds = s[i].milliseconds /\ t[i].startedAt = s[i].startedAt
          /\ s[i].milliseconds \in Nat /\ s[i].startedAt \in Nat
      BY <1>1, <2>4 DEF Remaps, SameTimer, Wait
    <3>2. z[i].expiryTime \in Nat
      BY <2>2 DEF Wait
    <3> DEFINE e == z[i].expiryTime   p == z[i].suspensionStartTime
    <3>6. /\ t[i].expiryTime = e + (now - p) /\ t[i].wakeUp = Later(now, t[i].expiryTime)
          /\ p \in Nat /\ p <= now /\ e \in Nat
          /\ e + activeTime = p + s[i].milliseconds + s[i].startedAt
      BY <1>3, <2>3, <3>2
    <3> HIDE DEF e, p
    <3>3. t[i].expiryTime + activeTime = now + s[i].milliseconds + s[i].startedAt
      <4> DEFINE m == s[i].milliseconds   b == s[i].startedAt   x == t[i].expiryTime
      <4>1. /\ m \in Nat /\ b \in Nat /\ p \in Nat /\ e \in Nat /\ activeTime \in Nat /\ now \in Nat
            /\ e + activeTime = p + m + b
            /\ x = e + (now - p)
        BY <1>1, <3>1, <3>6
      <4> HIDE DEF m, b, x
      <4>2. x + activeTime = now + m + b
        BY <4>1
      <4>. QED  BY <4>2 DEF m, b, x
    <3>4. t[i].expiryTime \in Nat /\ t[i].wakeUp \in Nat
      BY <1>1, <3>6 DEF Later
    <3>7. t[i].wakeUp <= Later(now, t[i].expiryTime)
      BY <2>3, <3>4
    <3>5. OnClockNext(t[i])
      BY <1>2, <2>1, <2>3, <3>1, <3>3, <3>7 DEF OnClockNext, OnClockAt
    <3>. QED  BY <1>1, <1>2, <2>3, <3>4, <3>5, GlobalTimersAssumption DEF Later
  <2>. QED  BY <2>1, <2>4, <2>5, Mapped
<1>. QED  BY <1>4, <1>5

\* The wait that is removed left the others as they were, or woke them.
LEMMA Completed ==
  ASSUME Base, NoLostWait, NEW i \in DOMAIN activeTimers, TimeoutReached(i),
         Expired(activeTimers[i]), ~HasOrderingBlocker(activeTimers, activeTimers[i])
  PROVE  Follow /\ NoLostWait'
<1> DEFINE s == activeTimers   r == RemoveAt(s, i)   t == activeTimers'
<1>1. /\ s \in Seq(Wait) /\ DOMAIN s = 1..Len(s) /\ Len(s) \in Nat /\ Sorted(s)
      /\ \A j \in 1..Len(s) : s[j] \in Wait /\ s[j] \in Waits
      /\ \A w \in Waits : \E j \in 1..Len(s) : w = s[j]
      /\ now \in Nat /\ i \in 1..Len(s)
  BY WaitElements DEF Base, TypeOK
<1>2. /\ t = ScheduleNewlyUnblockedTimers(r)
      /\ tasks' = IF s[i].group = Public THEN Append(tasks, TaskOf(s[i])) ELSE tasks
      /\ s[i].wakeUp # NoTime
      /\ UNCHANGED <<now, activeTime, fullyActive>>
  BY DEF TimeoutReached, documentVars
<1>3. fullyActive
  BY <1>1, <1>2 DEF NoLostWait
<1>4. /\ r \in Seq(Wait) /\ Len(r) = Len(s) - 1
      /\ \A j \in 1..(Len(s) - 1) : r[j] = IF j < i THEN s[j] ELSE s[j + 1]
  BY <1>1, RemoveAtElements
<1>5. \A y : y \in ToSet(r) <=> \E j \in 1..Len(s) : j # i /\ y = s[j]
  BY <1>1, ToSetRemoveAt
<1> HIDE DEF r
<1>6. /\ Remaps(t, r)
      /\ \A j \in 1..Len(r) :
           /\ t[j].expiryTime = r[j].expiryTime
           /\ t[j].suspensionStartTime = r[j].suspensionStartTime
           /\ t[j].wakeUp = IF r[j].wakeUp = NoTime /\ r[j].expiryTime <= now
                               /\ ~HasOrderingBlocker(r, r[j])
                            THEN Later(now, r[j].expiryTime) ELSE r[j].wakeUp
  BY <1>1, <1>2, <1>4, UnblockedWaits
<1>7. /\ t \in Seq(Wait) /\ Len(t) = Len(r)
      /\ \A j \in 1..Len(r) : SameTimer(t[j], r[j])
      /\ \A j \in 1..Len(r) : HasOrderingBlocker(t, t[j]) <=> HasOrderingBlocker(r, r[j])
      /\ Sorted(r) => Sorted(t)
  <2>1. t \in Seq(Wait) /\ Len(t) = Len(r) /\ \A j \in 1..Len(r) : SameTimer(t[j], r[j])
    BY <1>6 DEF Remaps
  <2>. QED  BY <1>4, <1>6, <2>1, RemappedWaits
<1>8. Sorted(r)
  <2> SUFFICES ASSUME NEW j \in DOMAIN r, NEW k \in DOMAIN r, j < k
               PROVE  r[j].key < r[k].key
    BY DEF Sorted
  <2>1. j \in 1..(Len(s) - 1) /\ k \in 1..(Len(s) - 1)
    BY <1>4, LenProperties
  <2>2. CASE k < i
    <3>1. r[j] = s[j] /\ r[k] = s[k]
      BY <1>4, <2>1, <2>2
    <3>2. j \in 1..Len(s) /\ k \in 1..Len(s)
      BY <1>1, <2>1
    <3>. QED  BY <1>1, <3>1, <3>2 DEF Sorted
  <2>3. CASE ~(k < i) /\ j < i
    <3>1. r[j] = s[j] /\ r[k] = s[k + 1]
      BY <1>4, <2>1, <2>3
    <3>2. j \in 1..Len(s) /\ k + 1 \in 1..Len(s) /\ j < k + 1
      BY <1>1, <2>1
    <3>. QED  BY <1>1, <3>1, <3>2 DEF Sorted
  <2>4. CASE ~(k < i) /\ ~(j < i)
    <3>1. r[j] = s[j + 1] /\ r[k] = s[k + 1]
      BY <1>4, <2>1, <2>4
    <3>2. j + 1 \in 1..Len(s) /\ k + 1 \in 1..Len(s) /\ j + 1 < k + 1
      BY <1>1, <2>1
    <3>. QED  BY <1>1, <3>1, <3>2 DEF Sorted
  <2>. QED  BY <2>2, <2>3, <2>4
<1>9. ASSUME NEW j \in 1..Len(r)
      PROVE  /\ OnClockNext(t[j]) /\ \E u \in Waits : SameTimer(t[j], u)
             /\ \/ t[j].wakeUp # NoTime /\ t[j].wakeUp <= Later(now, t[j].expiryTime)
                \/ now >= t[j].expiryTime /\ HasOrderingBlocker(t, t[j])
  <2>1. r[j] \in Waits /\ r[j] \in Wait
    <3>1. r[j] \in ToSet(r)
      BY <1>4, ToSetElement
    <3>. QED  BY <1>1, <1>5, <3>1
  <2>2. /\ r[j].expiryTime \in Nat /\ r[j].wakeUp \in Nat \cup {NoTime}
        /\ OnClock(r[j])
        /\ \/ r[j].wakeUp # NoTime
           \/ now >= r[j].expiryTime
    BY <1>3, <2>1 DEF Base, WaitsOK, NoLostWait, Expired, Wait
  <2> DEFINE u == r[j]   w == t[j]   blocked == HasOrderingBlocker(t, t[j])
  <2>3. /\ SameTimer(w, u) /\ w.expiryTime = u.expiryTime
        /\ w.suspensionStartTime = u.suspensionStartTime
        /\ w.wakeUp = IF u.wakeUp = NoTime /\ u.expiryTime <= now /\ ~blocked
                      THEN Later(now, u.expiryTime) ELSE u.wakeUp
    BY <1>6, <1>7
  <2> HIDE DEF u, w, blocked
  <2>4. /\ u.expiryTime \in Nat /\ u.wakeUp \in Nat \cup {NoTime} /\ OnClock(u)
        /\ u.wakeUp # NoTime \/ now >= u.expiryTime
    BY <2>2 DEF u
  <2>5. OnClockNext(w)
    <3>1. w.wakeUp # NoTime => w.wakeUp <= Later(now, w.expiryTime)
      BY <1>1, <2>3, <2>4 DEF OnClock, OnClockAt, Later
    <3>. QED  BY <1>2, <2>3, <2>4, <3>1 DEF OnClock, OnClockNext, OnClockAt, SameTimer
  <2>6. \/ w.wakeUp # NoTime /\ w.wakeUp <= Later(now, w.expiryTime)
        \/ now >= w.expiryTime /\ blocked
    BY <1>1, <2>3, <2>4, GlobalTimersAssumption DEF OnClock, OnClockAt, Later
  <2>. QED  BY <2>1, <2>3, <2>5, <2>6 DEF u, w, blocked
<1>10. \A w : w \in Waits' <=> \E j \in 1..Len(r) : w = t[j]
  BY <1>7, ToSetElement DEF Waits
<1>11. NoLostWait'
  BY <1>2, <1>3, <1>9, <1>10 DEF NoLostWait, Expired
<1>12. ASSUME NEW u \in Waits
       PROVE  Ended(u) \/ \E w \in Waits' : SameTimer(w, u)
  <2>1. PICK k \in 1..Len(s) : u = s[k]
    BY <1>1
  <2>2. CASE k = i
    BY <1>2, <2>1, <2>2 DEF Ended
  <2>3. CASE k # i
    <3>1. u \in ToSet(r)
      BY <1>5, <2>1, <2>3
    <3>2. PICK j \in 1..Len(r) : u = r[j]
      BY <1>4, <3>1, ToSetElement
    <3>. QED  BY <1>7, <1>10, <3>2
  <2>. QED  BY <2>2, <2>3
<1>. QED  BY <1>7, <1>8, <1>9, <1>10, <1>11, <1>12 DEF Follow

LEMMA Reached ==
  ASSUME Base, NoLostWait, NEW i \in DOMAIN activeTimers, TimeoutReached(i)
  PROVE  Follow /\ NoLostWait'
<1> DEFINE s == activeTimers   t == activeTimers'   blocked == HasOrderingBlocker(s, s[i])
<1>1. /\ s \in Seq(Wait) /\ DOMAIN s = 1..Len(s)
      /\ \A j \in 1..Len(s) : s[j] \in Wait /\ s[j] \in Waits
      /\ now \in Nat /\ i \in 1..Len(s) /\ s[i] \in Wait
  BY WaitElements DEF Base, TypeOK
<1>2. CASE Expired(s[i]) /\ ~blocked
  BY <1>2, Completed
<1>3. CASE ~(Expired(s[i]) /\ ~blocked)
  <2> DEFINE v == IF Expired(s[i]) THEN [s[i] EXCEPT !.wakeUp = NoTime] ELSE Schedule(s[i])
  <2>1. /\ t = [s EXCEPT ![i] = v] /\ s[i].wakeUp # NoTime
        /\ UNCHANGED <<now, activeTime, fullyActive>>
    BY <1>3 DEF TimeoutReached, documentVars
  <2>2. fullyActive
    BY <1>1, <2>1 DEF NoLostWait
  <2>3. /\ v \in Wait /\ SameTimer(v, s[i]) /\ v.expiryTime = s[i].expiryTime
        /\ v.suspensionStartTime = s[i].suspensionStartTime
        /\ v.wakeUp = IF Expired(s[i]) THEN NoTime ELSE Later(now, v.expiryTime)
    <3>1. CASE Expired(s[i])
      BY <1>1, <3>1 DEF Wait, SameTimer
    <3>2. CASE ~Expired(s[i])
      BY <1>1, <3>2, ScheduleElement
    <3>. QED  BY <3>1, <3>2
  <2> HIDE DEF v
  <2>4. /\ t \in Seq(Wait) /\ Len(t) = Len(s) /\ t[i] = v
        /\ \A j \in 1..Len(s) : j # i => t[j] = s[j]
    BY <1>1, <2>1, <2>3, ExceptSeq
  <2>5. Remaps(t, s)
    BY <2>3, <2>4 DEF Remaps, SameTimer
  <2>6. \A j \in 1..Len(s) : HasOrderingBlocker(t, t[j]) <=> HasOrderingBlocker(s, s[j])
    BY <1>1, <2>5, RemappedWaits
  <2>7. ASSUME NEW j \in 1..Len(s)
        PROVE  /\ OnClockNext(t[j])
               /\ \/ t[j].wakeUp # NoTime /\ t[j].wakeUp <= Later(now, t[j].expiryTime)
                  \/ now >= t[j].expiryTime /\ HasOrderingBlocker(t, t[j])
    <3>1. CASE j # i
      <4>1. t[j] = s[j] /\ OnClock(s[j])
        BY <1>1, <2>4, <3>1 DEF Base, WaitsOK
      <4>2. OnClockNext(s[j])
        BY <2>1, <4>1 DEF OnClock, OnClockNext
      <4>. QED  BY <1>1, <2>2, <2>6, <4>1, <4>2 DEF NoLostWait, Expired
    <3>2. CASE j = i
      <4>1. OnClock(s[i]) /\ s[i].expiryTime \in Nat
        BY <1>1 DEF Base, WaitsOK, Wait
      <4>2. v.wakeUp # NoTime => v.wakeUp <= Later(now, v.expiryTime)
        BY <1>1, <2>3, <4>1 DEF Later
      <4>3. OnClockNext(v)
        BY <2>1, <2>3, <4>1, <4>2 DEF OnClock, OnClockNext, OnClockAt, SameTimer
      <4>4. CASE Expired(s[i])
        BY <1>3, <2>3, <2>4, <2>6, <3>2, <4>3, <4>4 DEF Expired
      <4>5. CASE ~Expired(s[i])
        <5>1. v.wakeUp # NoTime
          BY <1>1, <2>3, <4>1, <4>5, GlobalTimersAssumption DEF Later
        <5>. QED  BY <2>4, <3>2, <4>2, <4>3, <5>1
      <4>. QED  BY <4>4, <4>5
    <3>. QED  BY <3>1, <3>2
  <2>. QED  BY <2>1, <2>2, <2>5, <2>7, Mapped
<1>. QED  BY <1>2, <1>3

LEMMA Emptied ==
  ASSUME Base, Clear
  PROVE  Follow /\ NoLostWait'
<1>1. /\ activeTimers' = <<>> /\ <<>> \in Seq(Wait) /\ Sorted(<<>>)
      /\ \A id \in Id : idMap'[id] = 0
  BY DEF Clear, Sorted
<1>2. Waits' = {}
  BY <1>1 DEF Waits, ToSet
<1>. QED  BY <1>1, <1>2 DEF Follow, NoLostWait, Ended

-----------------------------------------------------------------------------
(* The steps.                                                               *)

\* The action that TimeoutReached takes for each wait, and the others by name.
LEMMA Steps ==
  ASSUME Next
  PROVE  \/ \E ms \in Delay, repeat \in BOOLEAN : SetTimer(ms, repeat)
         \/ \E ms \in Delay, group \in Group : OtherWait(group, ms)
         \/ \E id \in Id : ClearTimer(id)
         \/ \E active \in BOOLEAN : SetFullyActive(active) \/ SetAssociatedDocument(active)
         \/ \E i \in DOMAIN activeTimers : TimeoutReached(i)
         \/ Clear \/ RunTask \/ MicrotaskRan \/ TimeoutEnds \/ IntervalRepeats \/ Tick
BY Zenon DEF Next

LEMMA Initialized ==
  ASSUME Base, NoLostWait, nextSequence <= MaxWaits,
         NEW id \in Id, NEW timeout \in Nat, NEW repeat \in BOOLEAN,
         InitializeTimer(id, timeout, repeat), UNCHANGED <<now, activeTime, fullyActive>>
  PROVE  /\ Follow /\ NoLostWait' /\ \E w \in Waits' : w.key = nextSequence /\ w.id = id
         /\ idMap' = [idMap EXCEPT ![id] = nextSequence] /\ nextSequence' = nextSequence + 1
<1> DEFINE ms == IF NestingLevel > ClampLevel THEN Later(timeout, Clamp) ELSE timeout
           level == Deepened(NestingLevel)
<1>1. NestingLevel \in Nat
  BY DEF NestingLevel, Base, TypeOK, Task
<1>2. ms \in Nat /\ level \in Nat
  BY <1>1, GlobalTimersAssumption DEF Deepened, Later
<1>3. /\ RunStepsAfterTimeout(NewWait(Public, ms, id, repeat, level))
      /\ idMap' = [idMap EXCEPT ![id] = nextSequence]
  BY DEF InitializeTimer
<1> HIDE DEF ms, level
<1>4. Public \in Group /\ id \in Id \cup {0} /\ id # 0
  BY GlobalTimersAssumption DEF Id
<1>5. /\ Follow /\ NoLostWait'
      /\ NewWait(Public, ms, id, repeat, level) \in Waits'
  BY <1>2, <1>3, <1>4, Started
<1>6. /\ NewWait(Public, ms, id, repeat, level).key = nextSequence
      /\ NewWait(Public, ms, id, repeat, level).id = id
  BY DEF NewWait
<1>. QED  BY <1>3, <1>5, <1>6 DEF RunStepsAfterTimeout

LEMMA RoomForOne ==
  ASSUME Base, Room
  PROVE  /\ nextSequence <= MaxWaits /\ nextSequence \in Nat \ {0}
         /\ running # NoTask /\ running.repeat => nextSequence + 1 <= MaxWaits
BY GlobalTimersAssumption DEF Base, TypeOK, Room

LEMMA TimerSet ==
  ASSUME Base, NoLostWait, NEW ms \in Delay, NEW repeat \in BOOLEAN, SetTimer(ms, repeat)
  PROVE  /\ Follow /\ NoLostWait'
         /\ \E id \in Id : /\ idMap[id] = 0 /\ idMap' = [idMap EXCEPT ![id] = nextSequence]
                          /\ nextSequence' = nextSequence + 1 /\ nextId' = After(id)
                          /\ \E w \in Waits' : w.key = nextSequence /\ w.id = id
<1>1. PICK id \in Id : Room /\ Allocated(id) /\ nextId' = After(id) /\ InitializeTimer(id, ms, repeat)
  BY DEF SetTimer
<1>2. nextSequence <= MaxWaits /\ ms \in Nat
  BY <1>1, RoomForOne, GlobalTimersAssumption
<1>3. UNCHANGED <<now, activeTime, fullyActive>>
  BY DEF SetTimer, documentVars
<1>. QED  BY <1>1, <1>2, <1>3, Initialized DEF Allocated

LEMMA OtherStarted ==
  ASSUME Base, NoLostWait, NEW ms \in Delay, NEW group \in Group, OtherWait(group, ms)
  PROVE  Follow /\ NoLostWait' /\ nextSequence' = nextSequence + 1
<1>1. /\ Room /\ group # Public /\ RunStepsAfterTimeout(NewWait(group, ms, 0, FALSE, 0))
      /\ UNCHANGED <<now, activeTime, fullyActive>>
  BY DEF OtherWait, documentVars
<1>2. nextSequence <= MaxWaits /\ ms \in Nat /\ 0 \in Nat /\ 0 \in Id \cup {0} /\ FALSE \in BOOLEAN
  BY <1>1, RoomForOne, GlobalTimersAssumption
<1>3. Follow /\ NoLostWait'
  BY <1>1, <1>2, Started
<1>. QED  BY <1>1, <1>3 DEF RunStepsAfterTimeout

LEMMA Repeated ==
  ASSUME Base, NoLostWait, IntervalRepeats
  PROVE  /\ Follow /\ NoLostWait' /\ nextSequence <= MaxWaits
         /\ running \in Task /\ running.id \in Id /\ idMap[running.id] = running.key
         /\ idMap' = [idMap EXCEPT ![running.id] = nextSequence] /\ nextSequence' = nextSequence + 1
         /\ \E w \in Waits' : w.key = nextSequence /\ w.id = running.id
<1>1. /\ running \in Task /\ running.id \in Id /\ running.milliseconds \in Nat
      /\ nextSequence <= MaxWaits /\ idMap[running.id] = running.key
  BY DEF Base, TypeOK, KeysOK, IntervalRepeats, IsRegistered, Task
<1>2. /\ InitializeTimer(running.id, running.milliseconds, TRUE)
      /\ UNCHANGED <<now, activeTime, fullyActive>>
  BY DEF IntervalRepeats, documentVars
<1>. QED  BY <1>1, <1>2, Initialized

LEMMA WaitsFollow ==
  ASSUME Base, NoLostWait, Next
  PROVE  Follow /\ NoLostWait'
<1> USE DEF documentVars
<1>1. ASSUME NEW ms \in Delay, NEW repeat \in BOOLEAN, SetTimer(ms, repeat)
      PROVE  Follow /\ NoLostWait'
  BY <1>1, TimerSet
<1>2. ASSUME NEW ms \in Delay, NEW group \in Group, OtherWait(group, ms)
      PROVE  Follow /\ NoLostWait'
  BY <1>2, OtherStarted
<1>3. ASSUME NEW id \in Id, ClearTimer(id)
      PROVE  Follow /\ NoLostWait'
  BY <1>3, Unmoved DEF ClearTimer
<1>4. ASSUME NEW active \in BOOLEAN, SetFullyActive(active) \/ SetAssociatedDocument(active)
      PROVE  Follow /\ NoLostWait'
  BY <1>4, Shifted
<1>5. ASSUME NEW i \in DOMAIN activeTimers, TimeoutReached(i)
      PROVE  Follow /\ NoLostWait'
  BY <1>5, Reached
<1>6. CASE Clear
  BY <1>6, Emptied
<1>7. CASE RunTask
  BY <1>7, Unmoved DEF RunTask
<1>8. CASE MicrotaskRan
  BY <1>8, Unmoved DEF MicrotaskRan
<1>9. CASE TimeoutEnds
  BY <1>9, Unmoved DEF TimeoutEnds
<1>10. CASE IntervalRepeats
  BY <1>10, Repeated
<1>11. CASE Tick
  <2>1. activeTimers' = activeTimers /\ fullyActive' = fullyActive
    BY <1>11 DEF Tick
  <2>. QED  BY <1>11, <2>1, Unmoved
<1>. QED  BY <1>1, <1>2, <1>3, <1>4, <1>5, <1>6, <1>7, <1>8, <1>9, <1>10, <1>11, Steps

\* The wait that hands its task over.
HandsOver(w) ==
  /\ w \in Waits /\ w.group = Public /\ tasks' = Append(tasks, TaskOf(w))
  /\ fullyActive /\ Expired(w) /\ ~HasOrderingBlocker(activeTimers, w)
  /\ activeTime' = activeTime /\ w.key < nextSequence /\ TaskOf(w) \in Task
  /\ UNCHANGED <<now, idMap, nextId, nextSequence, documentVars, running, taskIsCurrent, cleared>>

LEMMA TasksChange ==
  ASSUME Base, NoLostWait, Next
  PROVE  \/ tasks' = tasks
         \/ RunTask /\ tasks # <<>> /\ tasks' = Tail(tasks)
         \/ \E w \in Waits : HandsOver(w)
<1>1. ASSUME NEW i \in DOMAIN activeTimers, TimeoutReached(i), tasks' # tasks
      PROVE  HandsOver(activeTimers[i]) /\ activeTimers[i] \in Waits
  <2> DEFINE w == activeTimers[i]
  <2>1. w \in Waits /\ w \in Wait
    BY WaitElements DEF Base
  <2>2. /\ w.group = Public /\ tasks' = Append(tasks, TaskOf(w)) /\ w.wakeUp # NoTime
        /\ Expired(w) /\ ~HasOrderingBlocker(activeTimers, w) /\ activeTime' = activeTime
        /\ UNCHANGED <<now, idMap, nextId, nextSequence, documentVars, running, taskIsCurrent, cleared>>
    BY <1>1 DEF TimeoutReached
  <2> HIDE DEF w
  <2>3. fullyActive
    BY <2>1, <2>2 DEF NoLostWait
  <2>4. w.key < nextSequence /\ w.id # 0
    BY <2>1, <2>2 DEF Base, WaitsOK
  <2>5. TaskOf(w) \in Task
    BY <2>1, <2>4 DEF TaskOf, Wait, Task
  <2>. QED  BY <2>1, <2>2, <2>3, <2>4, <2>5 DEF HandsOver, w
<1> USE DEF loopVars
<1>2. ASSUME NEW ms \in Delay, NEW repeat \in BOOLEAN, SetTimer(ms, repeat)
      PROVE  tasks' = tasks
  BY <1>2 DEF SetTimer
<1>3. ASSUME NEW ms \in Delay, NEW group \in Group, OtherWait(group, ms)
      PROVE  tasks' = tasks
  BY <1>3 DEF OtherWait
<1>4. ASSUME NEW id \in Id, ClearTimer(id)
      PROVE  tasks' = tasks
  BY <1>4 DEF ClearTimer
<1>5. ASSUME NEW active \in BOOLEAN, SetFullyActive(active) \/ SetAssociatedDocument(active)
      PROVE  tasks' = tasks
  BY <1>5 DEF SetFullyActive, SetAssociatedDocument
<1>6. CASE Clear \/ MicrotaskRan \/ TimeoutEnds \/ IntervalRepeats \/ Tick
  BY <1>6 DEF Clear, MicrotaskRan, TimeoutEnds, IntervalRepeats, Tick
<1>7. CASE RunTask
  BY <1>7 DEF RunTask
<1>. QED  BY <1>1, <1>2, <1>3, <1>4, <1>5, <1>6, <1>7, Steps

-----------------------------------------------------------------------------
(* Keys, types and times.                                                   *)

IdsTyped ==
  /\ idMap \in [Id -> Key \cup {0}] /\ nextSequence \in 1..(MaxWaits + 1) /\ cleared \subseteq Key

LEMMA Registered ==
  ASSUME Base, nextSequence <= MaxWaits, NEW id \in Id, cleared' = cleared,
         idMap' = [idMap EXCEPT ![id] = nextSequence], nextSequence' = nextSequence + 1
  PROVE  IdsTyped' /\ IdsOK'
<1>1. /\ idMap \in [Id -> Key \cup {0}] /\ nextSequence \in 1..(MaxWaits + 1) /\ cleared \subseteq Key
      /\ MaxWaits \in Nat /\ IdsOK
  BY GlobalTimersAssumption DEF Base, TypeOK, KeysOK
<1>2. nextSequence \in Key /\ nextSequence' \in 1..(MaxWaits + 1) /\ nextSequence < nextSequence'
  BY <1>1 DEF Key
<1>3. /\ idMap'[id] = nextSequence /\ \A other \in Id : other # id => idMap'[other] = idMap[other]
      /\ \A other \in Id : idMap[other] \in Nat
  BY <1>1 DEF Key
<1>4. idMap' \in [Id -> Key \cup {0}]
  BY <1>1, <1>2
<1>5. nextSequence \notin cleared /\ \A k \in cleared : k \in Nat /\ k < nextSequence'
  BY <1>1, <1>2 DEF IdsOK, Key
<1>6. \A other \in Id : other # id /\ idMap[other] # 0 => idMap[other] < nextSequence'
  BY <1>1, <1>2, <1>3 DEF IdsOK
<1>7. \A other \in Id : other # id => idMap'[other] # nextSequence
  BY <1>1, <1>2, <1>3 DEF IdsOK
<1>8. IdsOK'
  BY <1>1, <1>2, <1>3, <1>5, <1>6, <1>7 DEF IdsOK
<1>. QED  BY <1>1, <1>2, <1>4, <1>8 DEF IdsTyped

LEMMA Released ==
  ASSUME Base, NEW R \in SUBSET Id, nextSequence' = nextSequence,
         idMap' = [id \in Id |-> IF id \in R THEN 0 ELSE idMap[id]],
         cleared' \subseteq cleared \cup ({idMap[id] : id \in R} \ {0})
  PROVE  IdsTyped' /\ IdsOK'
<1>1. /\ idMap \in [Id -> Key \cup {0}] /\ nextSequence \in 1..(MaxWaits + 1) /\ cleared \subseteq Key
      /\ IdsOK
  BY DEF Base, TypeOK, KeysOK
<1>2. IdsTyped'
  BY <1>1 DEF IdsTyped
<1>. QED  BY <1>1, <1>2 DEF IdsOK

LEMMA IdsStep ==
  ASSUME Base, NoLostWait, Next
  PROVE  /\ IdsTyped' /\ IdsOK' /\ nextId' \in Id
         /\ nextSequence' \in Nat /\ nextSequence <= nextSequence'
         /\ nextSequence' = nextSequence \/ nextSequence' = nextSequence + 1
<1> DEFINE Goal == /\ IdsTyped' /\ IdsOK' /\ nextId' \in Id
                   /\ nextSequence' = nextSequence \/ nextSequence' = nextSequence + 1
<1>0. /\ idMap \in [Id -> Key \cup {0}] /\ nextSequence \in 1..(MaxWaits + 1) /\ nextId \in Id
      /\ MaxWaits \in Nat /\ MaxId \in Nat \ {0} /\ cleared \subseteq Key /\ IdsOK
  BY GlobalTimersAssumption DEF Base, TypeOK, KeysOK
<1>1. ASSUME NEW ms \in Delay, NEW repeat \in BOOLEAN, SetTimer(ms, repeat)
      PROVE  Goal
  <2>1. PICK id \in Id : /\ idMap' = [idMap EXCEPT ![id] = nextSequence]
                         /\ nextSequence' = nextSequence + 1 /\ nextId' = After(id)
    BY <1>1, TimerSet
  <2>2. cleared' = cleared /\ nextSequence <= MaxWaits
    BY <1>1, RoomForOne DEF SetTimer
  <2>3. nextId' \in Id
    BY <1>0, <2>1 DEF After, Id
  <2>. QED  BY <2>1, <2>2, <2>3, Registered
<1>2. ASSUME NEW ms \in Delay, NEW group \in Group, OtherWait(group, ms)
      PROVE  Goal
  <2>1. /\ nextSequence' = nextSequence + 1 /\ nextSequence <= MaxWaits
        /\ UNCHANGED <<idMap, nextId, cleared>>
    BY <1>2, OtherStarted, RoomForOne DEF OtherWait
  <2>2. /\ nextSequence' \in 1..(MaxWaits + 1)
        /\ \A id \in Id : idMap[id] < nextSequence => idMap[id] < nextSequence'
        /\ \A k \in cleared : k < nextSequence => k < nextSequence'
    BY <1>0, <2>1 DEF Key
  <2>. QED  BY <1>0, <2>1, <2>2 DEF IdsTyped, IdsOK
<1>3. ASSUME NEW id \in Id, ClearTimer(id)
      PROVE  Goal
  <2>2. {id} \in SUBSET Id
    OBVIOUS
  <2>1. /\ idMap' = [other \in Id |-> IF other \in {id} THEN 0 ELSE idMap[other]]
        /\ cleared' \subseteq cleared \cup ({idMap[other] : other \in {id}} \ {0})
        /\ UNCHANGED <<nextId, nextSequence>>
    BY <1>0, <1>3 DEF ClearTimer
  <2>3. IdsTyped' /\ IdsOK'
    BY <2>1, <2>2, Released
  <2>. QED  BY <1>0, <2>1, <2>3
<1>4. CASE Clear
  <2>1. /\ idMap' = [other \in Id |-> IF other \in Id THEN 0 ELSE idMap[other]]
        /\ cleared' \subseteq cleared \cup ({idMap[other] : other \in Id} \ {0})
        /\ UNCHANGED <<nextId, nextSequence>>
    BY <1>4 DEF Clear
  <2>. QED  BY <1>0, <2>1, Released
<1>5. ASSUME TimeoutEnds
      PROVE  Goal
  <2>1. CASE IsRegistered(running)
    <3>1. /\ running.id \in Id /\ idMap' = [idMap EXCEPT ![running.id] = 0]
          /\ UNCHANGED <<nextId, nextSequence, cleared>>
      BY <1>5, <2>1 DEF TimeoutEnds, Base, TypeOK, Task
    <3>2. /\ {running.id} \in SUBSET Id
          /\ idMap' = [other \in Id |-> IF other \in {running.id} THEN 0 ELSE idMap[other]]
      BY <1>0, <3>1
    <3>3. /\ nextSequence' = nextSequence
          /\ cleared' \subseteq cleared \cup ({idMap[other] : other \in {running.id}} \ {0})
      BY <3>1
    <3>4. IdsTyped' /\ IdsOK'
      BY <3>2, <3>3, Released
    <3>. QED  BY <1>0, <3>1, <3>4
  <2>2. CASE ~IsRegistered(running)
    BY <1>0, <1>5, <2>2 DEF TimeoutEnds, IdsTyped, IdsOK
  <2>. QED  BY <2>1, <2>2
<1>6. CASE IntervalRepeats
  <2>1. cleared' = cleared /\ nextId' = nextId
    BY <1>6 DEF IntervalRepeats
  <2>. QED  BY <1>0, <1>6, <2>1, Repeated, Registered
<1>7. ASSUME UNCHANGED <<idMap, nextId, nextSequence, cleared>>
      PROVE  Goal
  BY <1>0, <1>7 DEF IdsTyped, IdsOK
<1>8. Goal
  <2>1. ASSUME NEW active \in BOOLEAN, SetFullyActive(active) \/ SetAssociatedDocument(active)
        PROVE  UNCHANGED <<idMap, nextId, nextSequence, cleared>>
    BY <2>1 DEF SetFullyActive, SetAssociatedDocument
  <2>2. ASSUME NEW i \in DOMAIN activeTimers, TimeoutReached(i)
        PROVE  UNCHANGED <<idMap, nextId, nextSequence, cleared>>
    BY <2>2 DEF TimeoutReached
  <2>3. RunTask \/ MicrotaskRan \/ Tick => UNCHANGED <<idMap, nextId, nextSequence, cleared>>
    BY DEF RunTask, MicrotaskRan, Tick
  <2>. QED  BY <1>1, <1>2, <1>3, <1>4, <1>5, <1>6, <1>7, <2>1, <2>2, <2>3, Steps
<1>. QED  BY <1>0, <1>8

LEMMA TaskElements ==
  ASSUME Base
  PROVE  /\ tasks \in Seq(Task) /\ Len(tasks) \in Nat /\ DOMAIN tasks = 1..Len(tasks)
         /\ \A i \in 1..Len(tasks) : tasks[i] \in Task /\ tasks[i] \in ToSet(tasks)
         /\ \A t : t \in ToSet(tasks) <=> \E i \in 1..Len(tasks) : t = tasks[i]
         /\ ToSet(tasks) \subseteq Task
         /\ \A t \in Task : t # NoTask
<1>1. tasks \in Seq(Task)
  BY DEF Base, TypeOK
<1>2. \A t \in Task : t # NoTask
  BY GlobalTimersAssumption DEF Task, Key, Id
<1>. QED  BY <1>1, <1>2, LenProperties, ElementOfSeq, ToSetElement, ToSetTyped

\* The tasks of the next state are tasks of this one, or one that is handed over.
LEMMA TasksFrom ==
  ASSUME Base, NoLostWait, Next
  PROVE  /\ tasks' \in Seq(Task)
         /\ \A t \in ToSet(tasks') : t \in ToSet(tasks) \/ \E w \in Waits : HandsOver(w) /\ t = TaskOf(w)
         /\ \A t \in ToSet(tasks) : t \in ToSet(tasks') \/ (RunTask /\ t = Head(tasks))
<1>1. tasks \in Seq(Task)
  BY TaskElements
<1>2. CASE tasks' = tasks
  BY <1>1, <1>2
<1>3. CASE RunTask /\ tasks # <<>> /\ tasks' = Tail(tasks)
  BY <1>1, <1>3, ToSetTail
<1>4. ASSUME NEW w \in Waits, HandsOver(w)
      PROVE  /\ tasks' \in Seq(Task)
             /\ ToSet(tasks') = ToSet(tasks) \cup {TaskOf(w)}
  <2>1. TaskOf(w) \in Task /\ tasks' = Append(tasks, TaskOf(w))
    BY <1>4 DEF HandsOver
  <2>. QED  BY <1>1, <2>1, AppendProperties, ToSetAppend
<1>5. (\E w \in Waits : HandsOver(w)) =>
        /\ tasks' \in Seq(Task)
        /\ \A t \in ToSet(tasks') : t \in ToSet(tasks) \/ \E w \in Waits : HandsOver(w) /\ t = TaskOf(w)
        /\ \A t \in ToSet(tasks) : t \in ToSet(tasks')
  BY <1>4
<1>. QED  BY <1>2, <1>3, <1>5, TasksChange

LEMMA RunningStep ==
  ASSUME Base, NoLostWait, Next
  PROVE  /\ running' \in Task \cup {NoTask} /\ taskIsCurrent' \in BOOLEAN
         /\ running' = running \/ running' = NoTask \/ (RunTask /\ running' = Head(tasks))
         /\ running' # NoTask /\ running'.repeat => nextSequence' <= MaxWaits
<1> DEFINE Goal == /\ running' \in Task \cup {NoTask} /\ taskIsCurrent' \in BOOLEAN
                   /\ running' = running \/ running' = NoTask \/ (RunTask /\ running' = Head(tasks))
                   /\ running' # NoTask /\ running'.repeat => nextSequence' <= MaxWaits
<1>0. /\ running \in Task \cup {NoTask} /\ taskIsCurrent \in BOOLEAN /\ tasks \in Seq(Task)
      /\ running # NoTask /\ running.repeat => nextSequence <= MaxWaits
  BY DEF Base, TypeOK, KeysOK
<1> USE DEF loopVars
<1>1. ASSUME NEW ms \in Delay, NEW repeat \in BOOLEAN, SetTimer(ms, repeat)
      PROVE  Goal
  BY <1>0, <1>1, TimerSet, RoomForOne DEF SetTimer
<1>2. ASSUME NEW ms \in Delay, NEW group \in Group, OtherWait(group, ms)
      PROVE  Goal
  BY <1>0, <1>2, OtherStarted, RoomForOne DEF OtherWait
<1>3. ASSUME UNCHANGED <<running, taskIsCurrent, nextSequence>>
      PROVE  Goal
  BY <1>0, <1>3
<1>4. ASSUME RunTask
      PROVE  Goal
  <2>1. Head(tasks) \in Task
    BY <1>0, <1>4, ToSetTail DEF RunTask
  <2>. QED  BY <1>0, <1>4, <2>1 DEF RunTask
<1>5. ASSUME MicrotaskRan
      PROVE  Goal
  BY <1>0, <1>5 DEF MicrotaskRan
<1>6. ASSUME TimeoutEnds \/ IntervalRepeats
      PROVE  Goal
  BY <1>0, <1>6 DEF TimeoutEnds, IntervalRepeats
<1>7. ASSUME NEW id \in Id, ClearTimer(id)
      PROVE  Goal
  BY <1>3, <1>7 DEF ClearTimer
<1>8. ASSUME NEW active \in BOOLEAN, SetFullyActive(active) \/ SetAssociatedDocument(active)
      PROVE  Goal
  BY <1>3, <1>8 DEF SetFullyActive, SetAssociatedDocument
<1>9. ASSUME NEW i \in DOMAIN activeTimers, TimeoutReached(i)
      PROVE  Goal
  BY <1>3, <1>9 DEF TimeoutReached
<1>10. ASSUME Clear \/ Tick
       PROVE  Goal
  BY <1>3, <1>10 DEF Clear, Tick
<1>11. Goal
  BY <1>1, <1>2, <1>4, <1>5, <1>6, <1>7, <1>8, <1>9, <1>10, Steps
<1>. QED  BY <1>11

LEMMA ClockStep ==
  ASSUME Base, Next
  PROVE  /\ now' \in Nat /\ activeTime' \in Nat /\ activeTime <= activeTime'
         /\ fullyActive' \in BOOLEAN /\ observing' \in BOOLEAN
<1> DEFINE Goal == /\ now' \in Nat /\ activeTime' \in Nat /\ activeTime <= activeTime'
                   /\ fullyActive' \in BOOLEAN /\ observing' \in BOOLEAN
<1>0. /\ now \in Nat /\ activeTime \in Nat /\ fullyActive \in BOOLEAN /\ observing \in BOOLEAN
  BY DEF Base, TypeOK
<1> USE DEF documentVars
<1>1. ASSUME Tick
      PROVE  Goal
  BY <1>0, <1>1 DEF Tick
<1>2. ASSUME NEW active \in BOOLEAN, SetFullyActive(active) \/ SetAssociatedDocument(active)
      PROVE  Goal
  <2>1. CASE SetFullyActive(active)
    <3>1. now' = now /\ activeTime' = activeTime /\ fullyActive' = active /\ observing' = observing
      BY <2>1 DEF SetFullyActive
    <3>. QED  BY <1>0, <3>1
  <2>2. CASE SetAssociatedDocument(active)
    <3>1. now' = now /\ activeTime' = activeTime /\ fullyActive' = active /\ observing' = TRUE
      BY <2>2 DEF SetAssociatedDocument
    <3>. QED  BY <1>0, <3>1
  <2>. QED  BY <1>2, <2>1, <2>2
<1>3. ASSUME Clear
      PROVE  Goal
  <2>1. now' = now /\ activeTime' = activeTime /\ fullyActive' = FALSE /\ observing' = FALSE
    BY <1>3 DEF Clear
  <2>2. now' \in Nat /\ activeTime' \in Nat /\ activeTime <= activeTime'
    BY <1>0, <2>1
  <2>3. fullyActive' \in BOOLEAN /\ observing' \in BOOLEAN
    BY <2>1, Zenon
  <2>. QED  BY <2>2, <2>3
<1>4. ASSUME UNCHANGED <<now, activeTime, documentVars>>
      PROVE  Goal
  BY <1>0, <1>4
<1>5. ASSUME NEW ms \in Delay, NEW repeat \in BOOLEAN, NEW group \in Group,
             SetTimer(ms, repeat) \/ OtherWait(group, ms)
      PROVE  UNCHANGED <<now, activeTime, documentVars>>
  BY <1>5 DEF SetTimer, OtherWait
<1>6. ASSUME NEW id \in Id, ClearTimer(id)
      PROVE  UNCHANGED <<now, activeTime, documentVars>>
  BY <1>6 DEF ClearTimer
<1>7. ASSUME NEW i \in DOMAIN activeTimers, TimeoutReached(i)
      PROVE  UNCHANGED <<now, activeTime, documentVars>>
  BY <1>7 DEF TimeoutReached
<1>8. RunTask \/ MicrotaskRan \/ TimeoutEnds \/ IntervalRepeats => UNCHANGED <<now, activeTime, documentVars>>
  BY DEF RunTask, MicrotaskRan, TimeoutEnds, IntervalRepeats
<1>9. Public \in Group /\ TRUE \in BOOLEAN
  BY GlobalTimersAssumption
<1> HIDE DEF Goal, documentVars
<1>10. Goal
  BY <1>1, <1>2, <1>3, <1>4, <1>5, <1>6, <1>7, <1>8, <1>9, Steps
<1>. QED  BY <1>10 DEF Goal

LEMMA BaseStep ==
  ASSUME Base, NoLostWait, Next
  PROVE  Base'
<1>1. /\ IdsTyped' /\ IdsOK' /\ nextId' \in Id
      /\ nextSequence' \in Nat /\ nextSequence <= nextSequence' /\ nextSequence \in Nat
  BY IdsStep DEF Base, TypeOK
<1>2. Follow
  BY WaitsFollow
<1>3. TypeOK'
  BY <1>1, <1>2, TasksFrom, RunningStep, ClockStep DEF TypeOK, IdsTyped, Follow, Sorted
<1>4. KeysOK'
  <2>1. ASSUME NEW t \in ToSet(tasks')
        PROVE  t.key < nextSequence'
    <3>1. CASE t \in ToSet(tasks)
      <4>1. t.key < nextSequence /\ t.key \in Nat
        BY <3>1, TaskElements DEF Base, KeysOK, Task, Key
      <4>. QED  BY <1>1, <4>1
    <3>2. ASSUME NEW w \in Waits, HandsOver(w), t = TaskOf(w)
          PROVE  t.key < nextSequence'
      BY <3>2 DEF HandsOver, TaskOf
    <3>. QED  BY <3>1, <3>2, TasksFrom
  <2>. QED  BY <1>1, <2>1, RunningStep DEF KeysOK
<1>5. WaitsOK'
  <2> SUFFICES ASSUME NEW w \in Waits'
               PROVE  w.key < nextSequence' /\ (w.id # 0 <=> w.group = Public) /\ OnClockNext(w)
    BY DEF WaitsOK, OnClock, OnClockNext
  <2>1. OnClockNext(w) /\ (Fresh(w) \/ \E u \in Waits : SameTimer(w, u))
    BY <1>2 DEF Follow
  <2>2. CASE Fresh(w)
    BY <1>1, <2>1, <2>2 DEF Fresh
  <2>3. ASSUME NEW u \in Waits, SameTimer(w, u)
        PROVE  w.key < nextSequence' /\ (w.id # 0 <=> w.group = Public)
    <3>1. u.key < nextSequence /\ (u.id # 0 <=> u.group = Public) /\ u.key \in Nat
      BY WaitElements DEF Base, WaitsOK, Wait, Key
    <3>. QED  BY <1>1, <2>3, <3>1 DEF SameTimer
  <2>. QED  BY <2>1, <2>2, <2>3
<1>. QED  BY <1>3, <1>4, <1>5 DEF Base

-----------------------------------------------------------------------------
(* The properties of each step.                                             *)

LEMMA DueStep ==
  ASSUME Base, NoLostWait, CallbacksAreDue, Next
  PROVE  CallbacksAreDue'
<1> SUFFICES ASSUME NEW t \in ToSet(tasks')
             PROVE  activeTime' - t.startedAt >= t.milliseconds
  BY DEF CallbacksAreDue
<1>1. activeTime \in Nat /\ activeTime' \in Nat /\ activeTime <= activeTime' /\ now \in Nat
  BY ClockStep DEF Base, TypeOK
<1>2. CASE t \in ToSet(tasks)
  <2>1. /\ t.startedAt \in Nat /\ t.milliseconds \in Nat
        /\ activeTime - t.startedAt >= t.milliseconds
    BY <1>2, TaskElements DEF Task, CallbacksAreDue
  <2>. QED  BY <1>1, <2>1
<1>3. ASSUME NEW w \in Waits, HandsOver(w), t = TaskOf(w)
      PROVE  activeTime' - t.startedAt >= t.milliseconds
  <2>1. /\ t.startedAt = w.startedAt /\ t.milliseconds = w.milliseconds
        /\ activeTime' = activeTime /\ now >= w.expiryTime /\ fullyActive
    BY <1>3 DEF HandsOver, TaskOf, Expired
  <2>2. w \in Wait /\ OnClock(w)
    BY WaitElements DEF Base, WaitsOK
  <2> DEFINE e == w.expiryTime   m == w.milliseconds   b == w.startedAt
  <2>3. /\ e \in Nat /\ m \in Nat /\ b \in Nat /\ now >= e
        /\ e + activeTime = now + m + b
    BY <2>1, <2>2 DEF OnClock, OnClockAt, Wait
  <2> HIDE DEF e, m, b
  <2>4. activeTime - b >= m
    BY <1>1, <2>3
  <2>. QED  BY <2>1, <2>4 DEF m, b
<1>. QED  BY <1>2, <1>3, TasksFrom

LEMMA OrderStep ==
  ASSUME Base, NoLostWait, OrderKept, Next
  PROVE  OrderKept'
<1>1. /\ tasks \in Seq(Task) /\ Len(tasks) \in Nat /\ DOMAIN tasks = 1..Len(tasks)
      /\ \A i \in 1..Len(tasks) : tasks[i] \in Task /\ tasks[i] \in ToSet(tasks)
      /\ \A t \in ToSet(tasks) : t \in Task /\ t.key < nextSequence
      /\ nextSequence \in Nat
  BY TaskElements DEF Base, KeysOK, TypeOK
<1>2. ASSUME NEW t \in ToSet(tasks'), NEW w \in Waits', w.group = Public
      PROVE  ~(w.key < t.key /\ w.milliseconds <= t.milliseconds)
  <2>1. Fresh(w) \/ \E u \in Waits : SameTimer(w, u)
    BY WaitsFollow DEF Follow
  <2>2. CASE t \in ToSet(tasks)
    <3>1. CASE Fresh(w)
      <4>1. t.key < nextSequence /\ t.key \in Nat
        BY <1>1, <2>2 DEF Task, Key
      <4>. QED  BY <1>1, <3>1, <4>1 DEF Fresh
    <3>2. ASSUME NEW u \in Waits, SameTimer(w, u)
          PROVE  ~(w.key < t.key /\ w.milliseconds <= t.milliseconds)
      BY <1>2, <2>2, <3>2 DEF OrderKept, SameTimer
    <3>. QED  BY <2>1, <3>1, <3>2
  <2>3. ASSUME NEW v \in Waits, HandsOver(v), t = TaskOf(v)
        PROVE  ~(w.key < t.key /\ w.milliseconds <= t.milliseconds)
    <3>1. /\ v.group = Public /\ ~HasOrderingBlocker(activeTimers, v) /\ nextSequence' = nextSequence
          /\ t.key = v.key /\ t.milliseconds = v.milliseconds
      BY <2>3 DEF HandsOver, TaskOf
    <3>2. ~Fresh(w)
      BY <1>1, <3>1 DEF Fresh
    <3>3. PICK u \in Waits : SameTimer(w, u)
      BY <2>1, <3>2
    <3>. QED  BY <1>2, <3>1, <3>3 DEF HasOrderingBlocker, SameTimer, Waits
  <2>. QED  BY <2>2, <2>3, TasksFrom
<1>3. ASSUME NEW i \in DOMAIN tasks', NEW j \in DOMAIN tasks', i < j
      PROVE  ~(tasks'[j].key < tasks'[i].key /\ tasks'[j].milliseconds <= tasks'[i].milliseconds)
  <2>1. CASE tasks' = tasks
    BY <1>3, <2>1 DEF OrderKept
  <2>2. CASE tasks # <<>> /\ tasks' = Tail(tasks)
    <3>1. /\ Len(Tail(tasks)) = Len(tasks) - 1 /\ Tail(tasks) \in Seq(Task)
          /\ \A k \in 1..Len(Tail(tasks)) : Tail(tasks)[k] = tasks[k + 1]
      BY <1>1, <2>2, HeadTailProperties
    <3>2. i \in 1..(Len(tasks) - 1) /\ j \in 1..(Len(tasks) - 1)
      BY <1>3, <2>2, <3>1, LenProperties
    <3>3. i + 1 \in 1..Len(tasks) /\ j + 1 \in 1..Len(tasks) /\ i + 1 < j + 1
      BY <1>1, <1>3, <3>2
    <3>4. tasks'[i] = tasks[i + 1] /\ tasks'[j] = tasks[j + 1]
      BY <2>2, <3>1, <3>2
    <3>. QED  BY <1>1, <3>3, <3>4 DEF OrderKept
  <2>3. ASSUME NEW v \in Waits, HandsOver(v)
        PROVE  ~(tasks'[j].key < tasks'[i].key /\ tasks'[j].milliseconds <= tasks'[i].milliseconds)
    <3>1. TaskOf(v) \in Task /\ tasks' = Append(tasks, TaskOf(v)) /\ v.group = Public /\ v \in Waits
      BY <2>3 DEF HandsOver
    <3>2. /\ tasks' \in Seq(Task) /\ Len(tasks') = Len(tasks) + 1
          /\ \A k \in 1..Len(tasks) : tasks'[k] = tasks[k]
          /\ tasks'[Len(tasks) + 1] = TaskOf(v)
      BY <1>1, <3>1, AppendProperties
    <3>3. i \in 1..(Len(tasks) + 1) /\ j \in 1..(Len(tasks) + 1)
      BY <1>3, <3>2, LenProperties
    <3>4. i \in 1..Len(tasks) /\ tasks'[i] = tasks[i] /\ tasks[i] \in ToSet(tasks)
      BY <1>1, <1>3, <3>2, <3>3
    <3>5. CASE j \in 1..Len(tasks)
      BY <1>1, <1>3, <3>2, <3>4, <3>5 DEF OrderKept
    <3>6. CASE j = Len(tasks) + 1
      <4>1. tasks'[j].key = v.key /\ tasks'[j].milliseconds = v.milliseconds
        BY <3>2, <3>6 DEF TaskOf
      <4>. QED  BY <3>1, <3>4, <4>1 DEF OrderKept
    <3>. QED  BY <1>1, <3>3, <3>5, <3>6
  <2>. QED  BY <2>1, <2>2, <2>3, TasksChange
<1>. QED  BY <1>2, <1>3 DEF OrderKept

\* A registration is new and has its wait, or it was there before.
LEMMA RegistrationsFrom ==
  ASSUME Base, NoLostWait, Next, NEW id \in Id, idMap'[id] # 0
  PROVE  idMap'[id] = idMap[id] \/ \E w \in Waits' : w.key = idMap'[id] /\ w.id = id
<1> DEFINE Goal == idMap'[id] = idMap[id] \/ \E w \in Waits' : w.key = idMap'[id] /\ w.id = id
<1>0. idMap \in [Id -> Key \cup {0}]
  BY DEF Base, TypeOK
<1>1. ASSUME NEW ms \in Delay, NEW repeat \in BOOLEAN, SetTimer(ms, repeat)
      PROVE  Goal
  <2>1. PICK other \in Id : /\ idMap' = [idMap EXCEPT ![other] = nextSequence]
                            /\ \E w \in Waits' : w.key = nextSequence /\ w.id = other
    BY <1>1, TimerSet
  <2>. QED  BY <1>0, <2>1
<1>2. ASSUME IntervalRepeats
      PROVE  Goal
  <2>1. /\ idMap' = [idMap EXCEPT ![running.id] = nextSequence]
        /\ \E w \in Waits' : w.key = nextSequence /\ w.id = running.id
    BY <1>2, Repeated
  <2>. QED  BY <1>0, <2>1
<1>3. ASSUME NEW other \in Id, ClearTimer(other)
      PROVE  Goal
  BY <1>0, <1>3 DEF ClearTimer
<1>4. ASSUME Clear
      PROVE  Goal
  BY <1>4 DEF Clear
<1>5. ASSUME TimeoutEnds
      PROVE  Goal
  BY <1>0, <1>5 DEF TimeoutEnds
<1>6. ASSUME NEW ms \in Delay, NEW group \in Group, OtherWait(group, ms)
      PROVE  Goal
  BY <1>6 DEF OtherWait
<1>7. ASSUME NEW active \in BOOLEAN, SetFullyActive(active) \/ SetAssociatedDocument(active)
      PROVE  Goal
  BY <1>7 DEF SetFullyActive, SetAssociatedDocument
<1>8. ASSUME NEW i \in DOMAIN activeTimers, TimeoutReached(i)
      PROVE  Goal
  BY <1>8 DEF TimeoutReached
<1>9. RunTask \/ MicrotaskRan \/ Tick => Goal
  BY DEF RunTask, MicrotaskRan, Tick
<1> HIDE DEF Goal
<1>10. Goal
  BY <1>1, <1>2, <1>3, <1>4, <1>5, <1>6, <1>7, <1>8, <1>9, Steps
<1>. QED  BY <1>10 DEF Goal

\* The action that ends gives its registration up or renews it.
LEMMA ActionEnds ==
  ASSUME Base, NoLostWait, Next, running # NoTask, running' # running, IsRegistered(running)
  PROVE  running' = NoTask /\ idMap'[running.id] # running.key
<1>0. /\ idMap \in [Id -> Key \cup {0}] /\ running \in Task /\ running.id \in Id
      /\ running.key \in Nat \ {0} /\ running.key < nextSequence /\ nextSequence \in Nat
  <2>1. running \in Task /\ running.id \in Id /\ running.key \in Key
    BY DEF Base, TypeOK, Task
  <2>2. running.key < nextSequence
    BY <2>1 DEF Base, KeysOK, IdsOK, IsRegistered, Key
  <2>. QED  BY <2>1, <2>2 DEF Base, TypeOK, Key
<1> USE DEF loopVars
<1>1. CASE TimeoutEnds
  BY <1>0, <1>1 DEF TimeoutEnds
<1>2. CASE IntervalRepeats
  <2>1. idMap' = [idMap EXCEPT ![running.id] = nextSequence] /\ running' = NoTask
    BY <1>2, Repeated DEF IntervalRepeats
  <2>. QED  BY <1>0, <2>1
<1>3. RunTask => FALSE
  BY DEF RunTask
<1>4. ASSUME NEW ms \in Delay, NEW repeat \in BOOLEAN, NEW group \in Group,
             SetTimer(ms, repeat) \/ OtherWait(group, ms)
      PROVE  FALSE
  BY <1>4 DEF SetTimer, OtherWait
<1>5. ASSUME NEW id \in Id, ClearTimer(id)
      PROVE  FALSE
  BY <1>5 DEF ClearTimer
<1>6. ASSUME NEW active \in BOOLEAN, SetFullyActive(active) \/ SetAssociatedDocument(active)
      PROVE  FALSE
  BY <1>6 DEF SetFullyActive, SetAssociatedDocument
<1>7. ASSUME NEW i \in DOMAIN activeTimers, TimeoutReached(i)
      PROVE  FALSE
  BY <1>7 DEF TimeoutReached
<1>8. Clear \/ MicrotaskRan \/ Tick => FALSE
  BY DEF Clear, MicrotaskRan, Tick
<1>9. Public \in Group /\ TRUE \in BOOLEAN
  BY GlobalTimersAssumption
<1>. QED  BY <1>1, <1>2, <1>3, <1>4, <1>5, <1>6, <1>7, <1>8, <1>9, Steps

LEMMA ServedStep ==
  ASSUME Base, NoLostWait, RegistrationsAreServed, Next
  PROVE  RegistrationsAreServed'
<1> SUFFICES ASSUME NEW id \in Id, idMap'[id] # 0
             PROVE  \/ \E w \in Waits' : w.key = idMap'[id] /\ w.id = id
                    \/ \E t \in ToSet(tasks') \cup ({running'} \ {NoTask}) : t.key = idMap'[id] /\ t.id = id
  BY DEF RegistrationsAreServed
<1>1. CASE idMap'[id] # idMap[id]
  BY <1>1, RegistrationsFrom
<1>2. CASE idMap'[id] = idMap[id]
  <2>1. ASSUME NEW u \in Waits, u.key = idMap[id], u.id = id
        PROVE  \/ \E w \in Waits' : w.key = idMap[id] /\ w.id = id
               \/ \E t \in ToSet(tasks') : t.key = idMap[id] /\ t.id = id
    <3>1. CASE \E w \in Waits' : SameTimer(w, u)
      BY <2>1, <3>1 DEF SameTimer
    <3>2. CASE Ended(u)
      <4>1. u \in Wait /\ u.group = Public /\ id # 0 /\ id \in Nat
        BY <2>1, WaitElements, GlobalTimersAssumption DEF Base, WaitsOK, Id
      <4>2. tasks' = Append(tasks, TaskOf(u))
        BY <1>2, <3>2, <4>1 DEF Ended
      <4>3. TaskOf(u) \in Task /\ TaskOf(u).key = u.key /\ TaskOf(u).id = u.id
        BY <2>1, <4>1 DEF TaskOf, Wait, Task
      <4>4. TaskOf(u) \in ToSet(tasks')
        BY <4>2, <4>3, TaskElements, ToSetAppend
      <4>. QED  BY <2>1, <4>3, <4>4
    <3>. QED  BY <3>1, <3>2, WaitsFollow DEF Follow
  <2>2. ASSUME NEW t \in ToSet(tasks), t.key = idMap[id], t.id = id
        PROVE  t \in ToSet(tasks') \cup ({running'} \ {NoTask})
    <3>1. CASE RunTask /\ t = Head(tasks)
      <4>1. IsRegistered(Head(tasks)) /\ t # NoTask
        BY <2>2, <3>1, TaskElements DEF IsRegistered
      <4>. QED  BY <3>1, <4>1 DEF RunTask
    <3>. QED  BY <3>1, TasksFrom
  <2>3. ASSUME running # NoTask, running.key = idMap[id], running.id = id
        PROVE  running' = running
    <3>1. IsRegistered(running)
      BY <2>3 DEF IsRegistered
    <3>. QED  BY <1>2, <2>3, <3>1, ActionEnds
  <2>4. \/ \E w \in Waits : w.key = idMap[id] /\ w.id = id
        \/ \E t \in ToSet(tasks) : t.key = idMap[id] /\ t.id = id
        \/ running # NoTask /\ running.key = idMap[id] /\ running.id = id
    BY <1>2 DEF RegistrationsAreServed
  <2>. QED  BY <1>2, <2>1, <2>2, <2>3, <2>4
<1>. QED  BY <1>1, <1>2

-----------------------------------------------------------------------------
(* The theorems.                                                            *)

LEMMA InitInv == Init => IInv
<1> SUFFICES ASSUME Init
             PROVE  IInv
  OBVIOUS
<1>1. <<>> \in Seq(Wait) /\ <<>> \in Seq(Task) /\ ToSet(<<>>) = {} /\ DOMAIN <<>> = {}
  BY DEF ToSet
<1>2. Waits = {} /\ ToSet(tasks) = {}
  BY <1>1 DEF Init, Waits
<1>3. TypeOK
  <2>1. 1 \in Id /\ 1 \in 1..(MaxWaits + 1) /\ [id \in Id |-> 0] \in [Id -> Key \cup {0}]
    BY GlobalTimersAssumption DEF Id
  <2>. QED  BY <1>1, <2>1 DEF Init, TypeOK
<1>4. KeysOK /\ WaitsOK
  BY <1>2 DEF Init, KeysOK, IdsOK, WaitsOK
<1>5. CallbacksAreDue /\ NoLostWait /\ RegistrationsAreServed
  BY <1>2 DEF Init, CallbacksAreDue, NoLostWait, RegistrationsAreServed
<1>6. OrderKept
  BY <1>1, <1>2 DEF Init, OrderKept
<1>. QED  BY <1>3, <1>4, <1>5, <1>6 DEF IInv, Base, NothingIsStranded

\* Waits, deadlines, ids and tasks agree in every reachable state (timers.ts).
THEOREM Invariance == Spec => []IInv
<1>1. Init => IInv
  BY InitInv
<1>2. IInv /\ [Next]_vars => IInv'
  <2> SUFFICES ASSUME IInv, [Next]_vars
               PROVE  IInv'
    OBVIOUS
  <2>1. Base /\ NoLostWait /\ RegistrationsAreServed /\ CallbacksAreDue /\ OrderKept
    BY DEF IInv, NothingIsStranded
  <2>2. CASE Next
    BY <2>1, <2>2, BaseStep, WaitsFollow, DueStep, OrderStep, ServedStep DEF IInv, NothingIsStranded
  <2>3. CASE UNCHANGED vars
    <3> USE <2>3 DEF vars, loopVars, documentVars
    <3>1. Waits' = Waits
      BY DEF Waits
    <3>2. Base'
      BY <2>1, <3>1 DEF Base, TypeOK, KeysOK, IdsOK, WaitsOK, OnClock
    <3>3. NothingIsStranded'
      BY <2>1, <3>1 DEF NothingIsStranded, NoLostWait, RegistrationsAreServed, Expired
    <3>4. CallbacksAreDue' /\ OrderKept'
      BY <2>1, <3>1 DEF CallbacksAreDue, OrderKept
    <3>. QED  BY <3>2, <3>3, <3>4 DEF IInv
  <2>. QED  BY <2>2, <2>3
<1>. QED  BY <1>1, <1>2, PTL DEF Spec

\* Every variable keeps its type, and the waits the order of their keys.
THEOREM TypeCorrect == Spec => []TypeOK
<1>1. IInv => TypeOK
  BY DEF IInv, Base
<1>. QED  BY <1>1, Invariance, PTL

\* No task is queued before the document has been fully active for the whole
\* length of its wait (#timeoutReached, #setFullyActive).
THEOREM NeverEarly == Spec => []CallbacksAreDue
<1>1. IInv => CallbacksAreDue
  BY DEF IInv
<1>. QED  BY <1>1, Invariance, PTL

\* No wait sleeps through its deadline, and each registration has the wait, the
\* task or the action that will release it (#scheduleNewlyUnblockedTimers).
THEOREM NothingStranded == Spec => []NothingIsStranded
<1>1. IInv => NothingIsStranded
  BY DEF IInv
<1>. QED  BY <1>1, Invariance, PTL

\* Timer tasks are queued in the standard's order (#hasOrderingBlocker).
THEOREM InOrder == Spec => []OrderKept
<1>1. IInv => OrderKept
  BY DEF IInv
<1>. QED  BY <1>1, Invariance, PTL

\* An action runs, and releases an id, for its own registration only.
THEOREM KeysAreDecisive == Spec => KeysDecide
<1>1. IInv /\ [Next]_vars => [running' # running /\ running' # NoTask => running'.key \notin cleared]_vars
  <2> SUFFICES ASSUME IInv, Next, running' # running, running' # NoTask
               PROVE  running'.key \notin cleared
    BY Zenon
  <2>1. Base /\ NoLostWait
    BY DEF IInv, NothingIsStranded
  <2>2. RunTask /\ running' = Head(tasks)
    BY <2>1, RunningStep
  <2>3. running' \in Task /\ IsRegistered(running')
    BY <2>1, <2>2, RunningStep DEF RunTask
  <2>. QED  BY <2>1, <2>3 DEF IsRegistered, Base, KeysOK, IdsOK, Task, Key
<1>2. IInv /\ [Next]_vars =>
        [\A id \in Id :
           idMap[id] # 0 /\ idMap'[id] # idMap[id] =>
             idMap[id] \in cleared' \/ (running # NoTask /\ running.key = idMap[id] /\ running' = NoTask)]_vars
  <2> SUFFICES ASSUME IInv, Next, NEW id \in Id, idMap[id] # 0, idMap'[id] # idMap[id]
               PROVE  idMap[id] \in cleared' \/ (running # NoTask /\ running.key = idMap[id] /\ running' = NoTask)
    BY Zenon
  <2> DEFINE Goal == idMap[id] \in cleared' \/ (running # NoTask /\ running.key = idMap[id] /\ running' = NoTask)
  <2>0. Base /\ NoLostWait /\ idMap \in [Id -> Key \cup {0}]
    BY DEF IInv, NothingIsStranded, Base, TypeOK
  <2>1. ASSUME NEW ms \in Delay, NEW repeat \in BOOLEAN, SetTimer(ms, repeat)
        PROVE  FALSE
    <3>1. PICK other \in Id : idMap[other] = 0 /\ idMap' = [idMap EXCEPT ![other] = nextSequence]
      BY <2>0, <2>1, TimerSet
    <3>. QED  BY <2>0, <3>1
  <2>2. ASSUME NEW other \in Id, ClearTimer(other)
        PROVE  Goal
    BY <2>0, <2>2 DEF ClearTimer
  <2>3. ASSUME Clear
        PROVE  Goal
    BY <2>3 DEF Clear
  <2>4. ASSUME TimeoutEnds
        PROVE  Goal
    BY <2>0, <2>4 DEF TimeoutEnds, IsRegistered
  <2>5. ASSUME IntervalRepeats
        PROVE  Goal
    <3>1. running # NoTask /\ running' = NoTask
      BY <2>5 DEF IntervalRepeats
    <3>2. idMap[running.id] = running.key /\ idMap' = [idMap EXCEPT ![running.id] = nextSequence]
      BY <2>0, <2>5, Repeated
    <3>. QED  BY <2>0, <3>1, <3>2
  <2>6. ASSUME NEW ms \in Delay, NEW group \in Group, OtherWait(group, ms)
        PROVE  FALSE
    BY <2>6 DEF OtherWait
  <2>7. ASSUME NEW active \in BOOLEAN, SetFullyActive(active) \/ SetAssociatedDocument(active)
        PROVE  FALSE
    BY <2>7 DEF SetFullyActive, SetAssociatedDocument
  <2>8. ASSUME NEW i \in DOMAIN activeTimers, TimeoutReached(i)
        PROVE  FALSE
    BY <2>8 DEF TimeoutReached
  <2>9. RunTask \/ MicrotaskRan \/ Tick => FALSE
    BY DEF RunTask, MicrotaskRan, Tick
  <2> HIDE DEF Goal
  <2>10. Goal
    BY <2>1, <2>2, <2>3, <2>4, <2>5, <2>6, <2>7, <2>8, <2>9, Steps
  <2>. QED  BY <2>10 DEF Goal
<1>. QED  BY <1>1, <1>2, Invariance, PTL DEF Spec, KeysDecide, ClearedNeverRuns, RegistrationsKept
=============================================================================
