------------------------ MODULE IdleCallbacksProofs -------------------------
(***************************************************************************)
(* Idle callbacks run once and in order, their timeouts are watched and    *)
(* keep their order, one delivery task at most is queued, and what waits   *)
(* is offered, for any number of callbacks, any timeouts and any lateness. *)
(***************************************************************************)
EXTENDS IdleCallbacks, SequencesExt, SequenceTheorems, TLAPS, FiniteSetTheorems

\* What is behind a removed element moves up by one.
LEMMA RemoveAtElements ==
  ASSUME NEW S, NEW s \in Seq(S), NEW n \in 1..Len(s)
  PROVE  /\ RemoveAt(s, n) \in Seq(S) /\ Len(RemoveAt(s, n)) = Len(s) - 1
         /\ \A i \in 1..(Len(s) - 1) :
              RemoveAt(s, n)[i] = IF i < n THEN s[i] ELSE s[i + 1]
<1> DEFINE a == SubSeq(s, 1, n - 1)   b == SubSeq(s, n + 1, Len(s))
<1>1. Len(s) \in Nat /\ \A i \in 1..Len(s) : s[i] \in S
  BY LenProperties, ElementOfSeq
<1>2. /\ a \in Seq(S) /\ Len(a) = IF 1 <= n - 1 THEN n - 1 - 1 + 1 ELSE 0
      /\ \A i \in 1..(n - 1 - 1 + 1) : a[i] = s[1 + i - 1]
  <2>1. \A i \in 1..(n - 1) : s[i] \in S
    BY <1>1
  <2>. QED  BY <2>1, <1>1, SubSeqProperties
<1>3. /\ b \in Seq(S) /\ Len(b) = IF n + 1 <= Len(s) THEN Len(s) - (n + 1) + 1 ELSE 0
      /\ \A i \in 1..(Len(s) - (n + 1) + 1) : b[i] = s[n + 1 + i - 1]
  <2>1. \A i \in (n + 1)..Len(s) : s[i] \in S
    BY <1>1
  <2>. QED  BY <2>1, <1>1, SubSeqProperties
<1>4. RemoveAt(s, n) = a \o b
  BY DEF RemoveAt
<1> HIDE DEF a, b
<1>5. Len(a) = n - 1 /\ Len(b) = Len(s) - n
  BY <1>1, <1>2, <1>3
<1>6. /\ a \o b \in Seq(S) /\ Len(a \o b) = Len(a) + Len(b)
      /\ \A i \in 1..(Len(a) + Len(b)) :
           (a \o b)[i] = IF i <= Len(a) THEN a[i] ELSE b[i - Len(a)]
  BY <1>2, <1>3, ConcatProperties
<1>7. ASSUME NEW i \in 1..(Len(s) - 1)
      PROVE  (a \o b)[i] = IF i < n THEN s[i] ELSE s[i + 1]
  <2>1. (a \o b)[i] = IF i <= Len(a) THEN a[i] ELSE b[i - Len(a)]
    BY <1>1, <1>5, <1>6
  <2>2. CASE i < n
    <3>1. i \in 1..(n - 1 - 1 + 1) /\ i <= Len(a) /\ 1 + i - 1 = i
      BY <2>2, <1>5
    <3>. QED  BY <2>1, <2>2, <3>1, <1>2
  <2>3. CASE ~(i < n)
    <3>1. /\ i - Len(a) \in 1..(Len(s) - (n + 1) + 1) /\ ~(i <= Len(a))
          /\ n + 1 + (i - Len(a)) - 1 = i + 1
      BY <2>3, <1>1, <1>5
    <3>. QED  BY <2>1, <2>3, <3>1, <1>3
  <2>. QED  BY <2>2, <2>3
<1>. QED  BY <1>1, <1>4, <1>5, <1>6, <1>7

\* The elements of a sequence are those at its indices.
LEMMA ToSetElement ==
  ASSUME NEW S, NEW s \in Seq(S), NEW x
  PROVE  x \in ToSet(s) <=> \E i \in 1..Len(s) : x = s[i]
BY LenProperties DEF ToSet

\* A sequence over S has its elements in S.
LEMMA ToSetTyped ==
  ASSUME NEW S, NEW s \in Seq(S)
  PROVE  ToSet(s) \subseteq S
BY ElementOfSeq, LenProperties DEF ToSet

\* Appending adds one element.
LEMMA ToSetAppend ==
  ASSUME NEW S, NEW s \in Seq(S), NEW x \in S
  PROVE  ToSet(Append(s, x)) = ToSet(s) \cup {x}
<1> DEFINE t == Append(s, x)
<1>1. /\ t \in Seq(S) /\ Len(t) = Len(s) + 1 /\ Len(s) \in Nat
      /\ \A i \in 1..Len(s) : t[i] = s[i]
      /\ t[Len(s) + 1] = x
  BY AppendProperties, LenProperties
<1> HIDE DEF t
<1>2. \A y : y \in ToSet(t) <=> \E i \in 1..Len(t) : y = t[i]
  BY <1>1, ToSetElement
<1>3. \A y : y \in ToSet(s) <=> \E i \in 1..Len(s) : y = s[i]
  BY ToSetElement
<1>4. ASSUME NEW y \in ToSet(t)
      PROVE  y \in ToSet(s) \cup {x}
  <2>1. PICK i \in 1..Len(t) : y = t[i]
    BY <1>2
  <2>2. CASE i \in 1..Len(s)
    BY <2>1, <2>2, <1>1, <1>3
  <2>3. CASE i = Len(s) + 1
    BY <2>1, <2>3, <1>1
  <2>. QED  BY <2>2, <2>3, <1>1
<1>5. ASSUME NEW y \in ToSet(s)
      PROVE  y \in ToSet(t)
  <2>1. PICK i \in 1..Len(s) : y = s[i]
    BY <1>3
  <2>2. i \in 1..Len(t) /\ y = t[i]
    BY <2>1, <1>1
  <2>. QED  BY <2>2, <1>2
<1>6. x \in ToSet(t)
  <2>1. Len(s) + 1 \in 1..Len(t)
    BY <1>1
  <2>. QED  BY <2>1, <1>1, <1>2
<1>. QED  BY <1>4, <1>5, <1>6 DEF t

\* Taking the head leaves the other elements.
LEMMA ToSetTail ==
  ASSUME NEW S, NEW s \in Seq(S), s # <<>>
  PROVE  ToSet(s) = {Head(s)} \cup ToSet(Tail(s)) /\ Head(s) \in S /\ Tail(s) \in Seq(S)
<1> DEFINE t == Tail(s)
<1>1. /\ t \in Seq(S) /\ Len(t) = Len(s) - 1 /\ Len(s) \in Nat \ {0}
      /\ \A i \in 1..Len(t) : t[i] = s[i + 1]
      /\ Head(s) = s[1] /\ Head(s) \in S
  BY HeadTailProperties, EmptySeq
<1> HIDE DEF t
<1>2. \A y : y \in ToSet(t) <=> \E i \in 1..Len(t) : y = t[i]
  BY <1>1, ToSetElement
<1>3. \A y : y \in ToSet(s) <=> \E i \in 1..Len(s) : y = s[i]
  BY ToSetElement
<1>4. ASSUME NEW y \in ToSet(s)
      PROVE  y \in {Head(s)} \cup ToSet(t)
  <2>1. PICK i \in 1..Len(s) : y = s[i]
    BY <1>3
  <2>2. CASE i = 1
    BY <2>1, <2>2, <1>1
  <2>3. CASE i # 1
    <3>1. i - 1 \in 1..Len(t) /\ (i - 1) + 1 = i
      BY <2>3, <1>1
    <3>2. t[i - 1] = s[i]
      BY <3>1, <1>1
    <3>. QED  BY <2>1, <3>1, <3>2, <1>2
  <2>. QED  BY <2>2, <2>3
<1>5. ASSUME NEW y \in ToSet(t)
      PROVE  y \in ToSet(s)
  <2>1. PICK i \in 1..Len(t) : y = t[i]
    BY <1>2
  <2>2. i + 1 \in 1..Len(s) /\ y = s[i + 1]
    BY <2>1, <1>1
  <2>. QED  BY <2>2, <1>3
<1>6. Head(s) \in ToSet(s)
  <2>1. 1 \in 1..Len(s)
    BY <1>1
  <2>. QED  BY <2>1, <1>1, <1>3
<1>. QED  BY <1>1, <1>4, <1>5, <1>6 DEF t

\* Removing at an index keeps what stands at every other one.
LEMMA ToSetRemoveAt ==
  ASSUME NEW S, NEW s \in Seq(S), NEW n \in 1..Len(s)
  PROVE  \A y : y \in ToSet(RemoveAt(s, n)) <=> \E i \in 1..Len(s) : i # n /\ y = s[i]
<1> DEFINE t == RemoveAt(s, n)
<1>1. /\ t \in Seq(S) /\ Len(t) = Len(s) - 1 /\ Len(s) \in Nat
      /\ \A i \in 1..(Len(s) - 1) : t[i] = IF i < n THEN s[i] ELSE s[i + 1]
  BY RemoveAtElements, LenProperties
<1> HIDE DEF t
<1>2. \A y : y \in ToSet(t) <=> \E i \in 1..Len(t) : y = t[i]
  BY <1>1, ToSetElement
<1>3. ASSUME NEW y, NEW i \in 1..Len(t), y = t[i]
      PROVE  \E j \in 1..Len(s) : j # n /\ y = s[j]
  <2>1. CASE i < n
    <3>1. i \in 1..Len(s) /\ i # n /\ y = s[i]
      BY <1>1, <1>3, <2>1
    <3>. QED  BY <3>1
  <2>2. CASE ~(i < n)
    <3>1. i + 1 \in 1..Len(s) /\ i + 1 # n /\ y = s[i + 1]
      BY <1>1, <1>3, <2>2
    <3>. QED  BY <3>1
  <2>. QED  BY <2>1, <2>2
<1>4. ASSUME NEW y, NEW j \in 1..Len(s), j # n, y = s[j]
      PROVE  \E i \in 1..Len(t) : y = t[i]
  <2>1. CASE j < n
    <3>1. j \in 1..Len(t) /\ t[j] = s[j]
      BY <1>1, <2>1
    <3>. QED  BY <1>4, <3>1
  <2>2. CASE j > n
    <3>1. j - 1 \in 1..Len(t) /\ ~(j - 1 < n) /\ (j - 1) + 1 = j
      BY <1>1, <2>2
    <3>2. t[j - 1] = s[j]
      BY <1>1, <3>1
    <3>. QED  BY <1>4, <3>1, <3>2
  <2>. QED  BY <1>4, <2>1, <2>2
<1>. QED  BY <1>2, <1>3, <1>4 DEF t

\* A function on the indices of a sequence is a sequence.
LEMMA MappedSeq ==
  ASSUME NEW S, NEW s \in Seq(S), NEW T, NEW f \in [DOMAIN s -> T]
  PROVE  f \in Seq(T) /\ Len(f) = Len(s)
<1>1. DOMAIN s = 1..Len(s) /\ Len(s) \in Nat
  BY LenProperties
<1>2. f \in Seq(T)
  BY <1>1, SeqDef
<1>3. DOMAIN f = 1..Len(f) /\ Len(f) \in Nat
  BY <1>2, LenProperties
<1>. QED  BY <1>1, <1>2, <1>3

Sorted(s) == \A i, k \in 1..Len(s) : i < k => s[i] < s[k]

\* The lists are in the order of registration, the batch before the rest.
ListsOK ==
  /\ Sorted(pending) /\ Sorted(runnable)
  /\ \A a \in ToSet(runnable), b \in ToSet(pending) : a < b
  /\ \A h \in Waiting : h <= identifier /\ h \notin over
  /\ \A h \in over : h <= identifier

\* A timeout that was registered earlier and is not longer has not more left.
TimeoutsOK ==
  /\ \A h \in Handle : timeoutLeft[h] # None => h \in Waiting /\ timeoutLeft[h] <= timeout[h]
  /\ \A a, b \in Handle :
       /\ a < b /\ timeout[a] <= timeout[b]
       /\ timeoutLeft[a] # None /\ timeoutLeft[b] # None
       => timeoutLeft[a] <= timeoutLeft[b]

\* When a timeout has its task, it and those before it are over.
Expiry(t) ==
  t.kind = "timeout" =>
    /\ t.handle \in Handle /\ t.handle <= identifier /\ timeoutLeft[t.handle] = None
    /\ \A a \in Handle : a < t.handle /\ timeout[a] <= timeout[t.handle] => timeoutLeft[a] = None
QueuedOK == \A t \in ToSet(idleTasks) : Expiry(t)

TimesOK == TimeoutsOK /\ QueuedOK /\ TimeoutsAreKept

\* The flag and the delivery task go together, and no delivery is queued while one runs.
IsDelivery(i) == idleTasks[i].kind = "deliver"
NoDelivery == \A i \in 1..Len(idleTasks) : ~IsDelivery(i)
OneDelivery ==
  \E i \in 1..Len(idleTasks) : IsDelivery(i) /\ \A k \in 1..Len(idleTasks) : IsDelivery(k) => k = i
FlagOK ==
  /\ ~destroyed => IF idleTaskQueued THEN OneDelivery ELSE NoDelivery
  /\ running.kind = "delivered" => ~idleTaskQueued

\* Tasks are of the Window's document as long as it has its first one.
DocumentsOK ==
  /\ destroyed => activeDocument = None
  /\ document = 1 => \A i \in 1..Len(idleTasks) : idleTasks[i].document = 1

DeliveryOK == FlagOK /\ DocumentsOK

Base == TypeOK /\ ListsOK
IInv == Base /\ TimesOK /\ DeliveryOK /\ IdleWorkIsOffered

-----------------------------------------------------------------------------
(* Lists.                                                                   *)

LEMMA Handles ==
  /\ IsFiniteSet(Handle) /\ Cardinality(Handle) \in Nat
  /\ \A h \in Handle : h \in Nat /\ h # 0
  /\ \A s \in Seq(Handle) : \A i \in 1..Len(s) : s[i] \in Handle /\ s[i] \in Nat
<1>1. IsFiniteSet(Handle) /\ Cardinality(Handle) \in Nat /\ Handle = 1..Cardinality(Handle)
  BY IdleCallbacksAssumption, FS_CardinalityType
<1>2. \A h \in Handle : h \in Nat /\ h # 0
  BY <1>1
<1>3. ASSUME NEW s \in Seq(Handle), NEW i \in 1..Len(s)
      PROVE  s[i] \in Handle
  BY ElementOfSeq
<1>. QED  BY <1>1, <1>2, <1>3

LEMMA SortedConcat ==
  ASSUME NEW s \in Seq(Handle), NEW t \in Seq(Handle), Sorted(s), Sorted(t),
         \A a \in ToSet(s), b \in ToSet(t) : a < b
  PROVE  /\ s \o t \in Seq(Handle) /\ Sorted(s \o t)
         /\ ToSet(s \o t) = ToSet(s) \cup ToSet(t)
<1> DEFINE u == s \o t
<1>1. /\ u \in Seq(Handle) /\ Len(u) = Len(s) + Len(t) /\ Len(s) \in Nat /\ Len(t) \in Nat
      /\ \A i \in 1..Len(u) : u[i] = IF i <= Len(s) THEN s[i] ELSE t[i - Len(s)]
  BY ConcatProperties, LenProperties
<1> HIDE DEF u
<1>2. /\ \A y : y \in ToSet(s) <=> \E i \in 1..Len(s) : y = s[i]
      /\ \A y : y \in ToSet(t) <=> \E i \in 1..Len(t) : y = t[i]
      /\ \A y : y \in ToSet(u) <=> \E i \in 1..Len(u) : y = u[i]
  BY <1>1, ToSetElement
<1>3. ASSUME NEW i \in 1..Len(u)
      PROVE  \/ i \in 1..Len(s) /\ u[i] = s[i] /\ s[i] \in ToSet(s)
             \/ i - Len(s) \in 1..Len(t) /\ u[i] = t[i - Len(s)] /\ t[i - Len(s)] \in ToSet(t)
                /\ i > Len(s)
  <2>1. CASE i <= Len(s)
    BY <2>1, <1>1, <1>2
  <2>2. CASE ~(i <= Len(s))
    <3>1. i - Len(s) \in 1..Len(t) /\ i > Len(s)
      BY <2>2, <1>1
    <3>. QED  BY <2>2, <3>1, <1>1, <1>2
  <2>. QED  BY <2>1, <2>2
<1>4. Sorted(u)
  <2>1. SUFFICES ASSUME NEW i \in 1..Len(u), NEW k \in 1..Len(u), i < k
                 PROVE  u[i] < u[k]
    BY DEF Sorted
  <2>2. CASE k \in 1..Len(s) /\ u[k] = s[k]
    <3>1. i \in 1..Len(s) /\ u[i] = s[i]
      BY <1>1, <2>1, <2>2
    <3>. QED  BY <2>1, <2>2, <3>1 DEF Sorted
  <2>3. CASE /\ k - Len(s) \in 1..Len(t) /\ u[k] = t[k - Len(s)] /\ t[k - Len(s)] \in ToSet(t)
             /\ k > Len(s)
    <3>1. CASE i \in 1..Len(s) /\ u[i] = s[i] /\ s[i] \in ToSet(s)
      BY <2>3, <3>1
    <3>2. CASE i - Len(s) \in 1..Len(t) /\ u[i] = t[i - Len(s)]
      <4>1. i - Len(s) < k - Len(s)
        BY <1>1, <2>1
      <4>. QED  BY <2>3, <3>2, <4>1 DEF Sorted
    <3>. QED  BY <1>3, <3>1, <3>2
  <2>. QED  BY <1>3, <2>2, <2>3
<1>5. ASSUME NEW y \in ToSet(t)
      PROVE  y \in ToSet(u)
  <2>1. PICK i \in 1..Len(t) : y = t[i]
    BY <1>2
  <2>2. Len(s) + i \in 1..Len(u) /\ ~(Len(s) + i <= Len(s)) /\ (Len(s) + i) - Len(s) = i
    BY <1>1
  <2>3. u[Len(s) + i] = t[i]
    BY <1>1, <2>2
  <2>. QED  BY <1>2, <2>1, <2>2, <2>3
<1>6. ASSUME NEW y \in ToSet(s)
      PROVE  y \in ToSet(u)
  <2>1. PICK i \in 1..Len(s) : y = s[i]
    BY <1>2
  <2>2. i \in 1..Len(u) /\ u[i] = s[i]
    BY <1>1
  <2>. QED  BY <1>2, <2>1, <2>2
<1>7. \A y \in ToSet(u) : y \in ToSet(s) \/ y \in ToSet(t)
  BY <1>2, <1>3
<1>8. ToSet(u) = ToSet(s) \cup ToSet(t)
  BY <1>5, <1>6, <1>7
<1>. QED  BY <1>1, <1>4, <1>8 DEF u

LEMMA SortedAppend ==
  ASSUME NEW s \in Seq(Handle), NEW h \in Handle, Sorted(s), \A a \in ToSet(s) : a < h
  PROVE  /\ Append(s, h) \in Seq(Handle) /\ Sorted(Append(s, h))
         /\ ToSet(Append(s, h)) = ToSet(s) \cup {h}
<1>1. /\ Append(s, h) \in Seq(Handle) /\ Len(Append(s, h)) = Len(s) + 1 /\ Len(s) \in Nat
      /\ \A i \in 1..Len(s) : Append(s, h)[i] = s[i]
      /\ Append(s, h)[Len(s) + 1] = h
  BY AppendProperties, LenProperties
<1>2. \A i \in 1..Len(s) : s[i] \in ToSet(s)
  BY ToSetElement
<1>3. ASSUME NEW i \in 1..(Len(s) + 1), NEW k \in 1..(Len(s) + 1), i < k
      PROVE  Append(s, h)[i] < Append(s, h)[k]
  <2>1. i \in 1..Len(s)
    BY <1>1, <1>3
  <2>2. CASE k = Len(s) + 1
    BY <1>1, <1>2, <2>1, <2>2
  <2>3. CASE k \in 1..Len(s)
    BY <1>1, <1>3, <2>1, <2>3 DEF Sorted
  <2>. QED  BY <1>1, <2>2, <2>3
<1>. QED  BY <1>1, <1>3, ToSetAppend DEF Sorted

LEMMA SortedTail ==
  ASSUME NEW s \in Seq(Handle), s # <<>>, Sorted(s)
  PROVE  /\ Tail(s) \in Seq(Handle) /\ Sorted(Tail(s)) /\ Head(s) \in ToSet(s)
         /\ ToSet(Tail(s)) = ToSet(s) \ {Head(s)}
         /\ \A a \in ToSet(s) : Head(s) <= a
<1>1. /\ Tail(s) \in Seq(Handle) /\ Len(Tail(s)) = Len(s) - 1 /\ Len(s) \in Nat \ {0}
      /\ \A i \in 1..Len(Tail(s)) : Tail(s)[i] = s[i + 1]
      /\ Head(s) = s[1]
  BY HeadTailProperties, EmptySeq
<1>2. /\ \A y : y \in ToSet(s) <=> \E i \in 1..Len(s) : y = s[i]
      /\ \A y : y \in ToSet(Tail(s)) <=> \E i \in 1..Len(Tail(s)) : y = Tail(s)[i]
  BY <1>1, ToSetElement
<1>3. \A i \in 1..Len(s) : s[i] \in Int
  BY Handles
<1>4. Sorted(Tail(s))
  <2>1. \A i \in 1..Len(Tail(s)) : i + 1 \in 1..Len(s)
    BY <1>1
  <2>2. \A i, k \in 1..Len(Tail(s)) : i < k => i + 1 < k + 1
    BY <1>1
  <2>. QED  BY <1>1, <2>1, <2>2 DEF Sorted
<1>5. \A i \in 1..Len(s) : s[1] <= s[i] /\ (i # 1 => s[1] < s[i])
  BY <1>1, <1>3 DEF Sorted
<1>6. \A a \in ToSet(Tail(s)) : Head(s) < a
  <2>1. \A i \in 1..Len(Tail(s)) : i + 1 \in 1..Len(s) /\ i + 1 # 1
    BY <1>1
  <2>. QED  BY <1>1, <1>2, <1>5, <2>1
<1>7. Head(s) \in Int /\ Head(s) \notin ToSet(Tail(s))
  <2>1. 1 \in 1..Len(s)
    BY <1>1
  <2>2. Head(s) \in Int
    BY <2>1, <1>1, <1>3
  <2>. QED  BY <1>6, <2>2
<1>. QED  BY <1>1, <1>2, <1>4, <1>5, <1>7, ToSetTail

LEMMA SortedWithout ==
  ASSUME NEW s \in Seq(Handle), NEW h, Sorted(s)
  PROVE  /\ Without(s, h) \in Seq(Handle) /\ Sorted(Without(s, h))
         /\ ToSet(Without(s, h)) = ToSet(s) \ {h}
<1>1. CASE h \notin ToSet(s)
  BY <1>1 DEF Without
<1>2. CASE h \in ToSet(s)
  <2> DEFINE n == CHOOSE i \in DOMAIN s : s[i] = h
             t == RemoveAt(s, n)
  <2>1. DOMAIN s = 1..Len(s) /\ Len(s) \in Nat
    BY LenProperties
  <2>2. n \in 1..Len(s) /\ s[n] = h
    <3>1. \E i \in DOMAIN s : s[i] = h
      BY <1>2 DEF ToSet
    <3>. QED  BY <2>1, <3>1
  <2>3. Without(s, h) = t
    BY <1>2 DEF Without
  <2> HIDE DEF n
  <2>4. /\ t \in Seq(Handle) /\ Len(t) = Len(s) - 1
        /\ \A i \in 1..(Len(s) - 1) : t[i] = IF i < n THEN s[i] ELSE s[i + 1]
    BY <2>2, RemoveAtElements
  <2>5. \A y : y \in ToSet(t) <=> \E i \in 1..Len(s) : i # n /\ y = s[i]
    BY <2>2, ToSetRemoveAt
  <2> HIDE DEF t
  <2>6. \A y : y \in ToSet(s) <=> \E i \in 1..Len(s) : y = s[i]
    BY ToSetElement
  <2>7. \A i \in 1..Len(s) : s[i] \in Int
    BY Handles
  <2>8. \A i \in 1..Len(s) : i # n => s[i] # h
    BY <2>1, <2>2, <2>7 DEF Sorted
  <2>9. ToSet(t) = ToSet(s) \ {h}
    BY <2>2, <2>5, <2>6, <2>8
  <2>10. Sorted(t)
    <3>1. SUFFICES ASSUME NEW i \in 1..Len(t), NEW k \in 1..Len(t), i < k
                   PROVE  t[i] < t[k]
      BY DEF Sorted
    <3>2. PICK p \in 1..Len(s) : t[i] = s[p] /\ p = IF i < n THEN i ELSE i + 1
      BY <2>1, <2>4
    <3>3. PICK q \in 1..Len(s) : t[k] = s[q] /\ q = IF k < n THEN k ELSE k + 1
      BY <2>1, <2>4
    <3>4. p < q
      BY <2>1, <2>2, <3>1, <3>2, <3>3
    <3>. QED  BY <3>2, <3>3, <3>4 DEF Sorted
  <2>. QED  BY <2>3, <2>4, <2>9, <2>10
<1>. QED  BY <1>1, <1>2

LEMMA Elements ==
  ASSUME TypeOK
  PROVE  /\ Waiting \subseteq Handle /\ Waiting = ToSet(pending) \cup ToSet(runnable)
         /\ idleTasks \in Seq(Task) /\ Len(idleTasks) \in Nat /\ DOMAIN idleTasks = 1..Len(idleTasks)
         /\ \A i \in 1..Len(idleTasks) : idleTasks[i] \in Task /\ idleTasks[i] \in ToSet(idleTasks)
         /\ \A t : t \in ToSet(idleTasks) <=> \E i \in 1..Len(idleTasks) : t = idleTasks[i]
<1>1. pending \in Seq(Handle) /\ runnable \in Seq(Handle) /\ idleTasks \in Seq(Task)
  BY DEF TypeOK
<1>. QED  BY <1>1, LenProperties, ElementOfSeq, ToSetElement, ToSetTyped DEF Waiting

\* Waiting is known from the lists alone.
LEMMA WaitingNext == Waiting' = ToSet(pending') \cup ToSet(runnable')
BY DEF Waiting

LEMMA Forgotten ==
  ASSUME Base, NEW h \in Handle, h <= identifier, Forget(h), identifier' = identifier
  PROVE  /\ pending' \in Seq(Handle) /\ runnable' \in Seq(Handle)
         /\ Waiting' = Waiting \ {h} /\ ListsOK'
<1>1. /\ pending \in Seq(Handle) /\ runnable \in Seq(Handle)
      /\ Sorted(pending) /\ Sorted(runnable)
  BY DEF Base, TypeOK, ListsOK
<1>2. pending' = Without(pending, h) /\ runnable' = Without(runnable, h) /\ over' = over \cup {h}
  BY DEF Forget, Release
<1>3. /\ pending' \in Seq(Handle) /\ Sorted(pending') /\ ToSet(pending') = ToSet(pending) \ {h}
      /\ runnable' \in Seq(Handle) /\ Sorted(runnable') /\ ToSet(runnable') = ToSet(runnable) \ {h}
  BY <1>1, <1>2, SortedWithout
<1>4. Waiting' = Waiting \ {h}
  BY <1>3, WaitingNext DEF Waiting
<1>5. ListsOK'
  <2>1. Sorted(pending)' /\ Sorted(runnable)'
    BY <1>3 DEF Sorted
  <2>. QED  BY <1>2, <1>3, <1>4, <2>1 DEF Base, ListsOK
<1>. QED  BY <1>3, <1>4, <1>5

LEMMA Batched ==
  ASSUME Base, pending' = <<>>, runnable' = NextBatch, UNCHANGED <<identifier, over>>
  PROVE  /\ pending' \in Seq(Handle) /\ runnable' \in Seq(Handle)
         /\ Waiting' = Waiting /\ ListsOK'
<1>1. /\ pending \in Seq(Handle) /\ runnable \in Seq(Handle)
      /\ Sorted(pending) /\ Sorted(runnable)
      /\ \A a \in ToSet(runnable), b \in ToSet(pending) : a < b
  BY DEF Base, TypeOK, ListsOK
<1>2. /\ runnable' \in Seq(Handle) /\ Sorted(runnable')
      /\ ToSet(runnable') = ToSet(runnable) \cup ToSet(pending)
  BY <1>1, SortedConcat DEF NextBatch
<1>3. pending' \in Seq(Handle) /\ Sorted(pending') /\ ToSet(pending') = {}
  BY EmptySeq DEF Sorted, ToSet
<1>4. Waiting' = Waiting
  BY <1>2, <1>3, WaitingNext DEF Waiting
<1>5. Sorted(pending)' /\ Sorted(runnable)'
  BY <1>2, <1>3 DEF Sorted
<1>. QED  BY <1>2, <1>3, <1>4, <1>5 DEF Base, ListsOK

LEMMA Requested ==
  ASSUME Base, NEW ms, Request(ms)
  PROVE  /\ pending' \in Seq(Handle) /\ identifier' = identifier + 1 /\ identifier + 1 \in Handle
         /\ Waiting' = Waiting \cup {identifier + 1} /\ ListsOK'
<1> DEFINE h == identifier + 1
<1>1. /\ pending \in Seq(Handle) /\ runnable \in Seq(Handle) /\ identifier \in Nat
      /\ Sorted(pending) /\ Sorted(runnable) /\ over \subseteq Handle
      /\ \A a \in ToSet(runnable), b \in ToSet(pending) : a < b
      /\ \A k \in Waiting : k <= identifier /\ k \notin over /\ k \in Nat
      /\ \A k \in over : k <= identifier /\ k \in Nat
  <2>1. TypeOK /\ ListsOK
    BY DEF Base
  <2>2. over \subseteq Handle /\ identifier \in Handle \cup {0} /\ Waiting \subseteq Handle
    BY <2>1, Elements DEF TypeOK
  <2>3. identifier \in Nat /\ (\A k \in Waiting : k \in Nat) /\ \A k \in over : k \in Nat
    <3>1. \A k \in Handle : k \in Nat
      BY Handles
    <3>. QED  BY <2>2, <3>1
  <2>. QED  BY <2>1, <2>2, <2>3 DEF TypeOK, ListsOK
<1>2. /\ h \in Handle /\ identifier' = h /\ pending' = Append(pending, h)
      /\ UNCHANGED <<runnable, over>>
  BY DEF Request
<1>3. \A k \in Waiting : k < h
  BY <1>1
<1>4. /\ pending' \in Seq(Handle) /\ Sorted(pending') /\ ToSet(pending') = ToSet(pending) \cup {h}
  <2>1. \A a \in ToSet(pending) : a < h
    BY <1>3 DEF Waiting
  <2>. QED  BY <1>1, <1>2, <2>1, SortedAppend
<1>5. Waiting' = Waiting \cup {h}
  BY <1>2, <1>4, WaitingNext DEF Waiting
<1>6. Sorted(pending)' /\ Sorted(runnable)'
  BY <1>1, <1>2, <1>4 DEF Sorted
<1>7. \A a \in ToSet(runnable)', b \in ToSet(pending)' : a < b
  <2>1. \A a \in ToSet(runnable) : a < h
    BY <1>3 DEF Waiting
  <2>. QED  BY <1>1, <1>2, <1>4, <2>1
<1>8. /\ \A k \in Waiting' : k <= identifier' /\ k \notin over'
      /\ \A k \in over' : k <= identifier'
  BY <1>1, <1>2, <1>3, <1>5
<1>. QED  BY <1>2, <1>4, <1>5, <1>6, <1>7, <1>8 DEF ListsOK

LEMMA DeliveryStarted ==
  ASSUME Base, NEW i, StartDelivery(i)
  PROVE  /\ runnable # <<>> /\ Head(runnable) \in Waiting /\ \A k \in Waiting : Head(runnable) <= k
         /\ runnable' \in Seq(Handle) /\ Waiting' = Waiting \ {Head(runnable)} /\ ListsOK'
<1> DEFINE h == Head(runnable)
<1>1. /\ pending \in Seq(Handle) /\ runnable \in Seq(Handle)
      /\ Sorted(pending) /\ Sorted(runnable)
      /\ \A a \in ToSet(runnable), b \in ToSet(pending) : a < b
      /\ \A k \in Waiting : k <= identifier /\ k \notin over /\ k \in Nat
      /\ \A k \in over : k <= identifier
  BY Handles, Elements DEF Base, TypeOK, ListsOK
<1>2. /\ runnable # <<>> /\ runnable' = Tail(runnable) /\ pending' = pending
      /\ over' = over \cup {h} /\ identifier' = identifier
  BY DEF StartDelivery, DeliveryPasses
<1>3. /\ runnable' \in Seq(Handle) /\ Sorted(runnable') /\ h \in ToSet(runnable)
      /\ ToSet(runnable') = ToSet(runnable) \ {h}
      /\ \A a \in ToSet(runnable) : h <= a
  BY <1>1, <1>2, SortedTail
<1>4. \A k \in ToSet(pending) : h < k
  BY <1>1, <1>3
<1>5. h \in Waiting /\ \A k \in Waiting : h <= k
  BY <1>1, <1>3, <1>4 DEF Waiting
<1>6. h \notin ToSet(pending)
  BY <1>1, <1>4, <1>5
<1>7. Waiting' = Waiting \ {h}
  BY <1>2, <1>3, <1>6, WaitingNext DEF Waiting
<1>8. Sorted(pending)' /\ Sorted(runnable)'
  BY <1>1, <1>2, <1>3 DEF Sorted
<1>9. \A a \in ToSet(runnable)', b \in ToSet(pending)' : a < b
  BY <1>1, <1>2, <1>3
<1>. QED  BY <1>1, <1>2, <1>3, <1>5, <1>7, <1>8, <1>9 DEF ListsOK

-----------------------------------------------------------------------------
(* Idle tasks.                                                              *)

LEMMA Listed ==
  ASSUME NEW S, IsFiniteSet(S), NEW f \in SetToSeqs(S)
  PROVE  /\ f \in Seq(S) /\ Len(f) \in Nat /\ DOMAIN f = 1..Len(f)
         /\ \A i \in 1..Len(f) : f[i] \in S
         /\ \A i, k \in 1..Len(f) : i # k => f[i] # f[k]
         /\ \A x \in S : \E i \in 1..Len(f) : f[i] = x
<1> DEFINE n == Cardinality(S)
<1>1. /\ n \in Nat /\ f \in [1..n -> S]
      /\ \A i, k \in 1..n : i # k => f[i] # f[k]
  BY FS_CardinalityType DEF SetToSeqs
<1>2. f \in Seq(S) /\ Len(f) = n
  <2>1. f \in Seq(S)
    BY <1>1, SeqDef
  <2>2. DOMAIN f = 1..Len(f) /\ Len(f) \in Nat
    BY <2>1, LenProperties
  <2>. QED  BY <1>1, <2>1, <2>2
<1>3. f \in Injection(1..n, S)
  BY <1>1 DEF Injection, IsInjective
<1>4. Cardinality(1..n) = n
  BY <1>1, FS_Interval
<1>5. f \in Surjection(1..n, S)
  BY <1>3, <1>4, FS_Injection
<1>. QED  BY <1>1, <1>2, <1>5 DEF Surjection

\* What is left of the queue keeps its order.
Kept(f) ==
  /\ idleTasks' \in Seq(Task)
  /\ f \in [1..Len(idleTasks') -> 1..Len(idleTasks)]
  /\ \A i, k \in 1..Len(idleTasks') : i < k => f[i] < f[k]
  /\ \A i \in 1..Len(idleTasks') : idleTasks'[i] = idleTasks[f[i]]

LEMMA TaskTaken ==
  ASSUME TypeOK, NEW n \in DOMAIN idleTasks, TakeIdleTask(n)
  PROVE  /\ \E f : Kept(f) /\ \A i \in 1..Len(idleTasks) : i # n => \E k \in 1..Len(idleTasks') : f[k] = i
         /\ n \in 1..Len(idleTasks) /\ idleTasks[n] \in Task
         /\ Len(idleTasks') = Len(idleTasks) - 1
         /\ \A i \in 1..Len(idleTasks') : idleTasks'[i] = idleTasks[IF i < n THEN i ELSE i + 1]
<1> DEFINE f == [i \in 1..Len(idleTasks') |-> IF i < n THEN i ELSE i + 1]
<1>1. /\ idleTasks \in Seq(Task) /\ Len(idleTasks) \in Nat /\ n \in 1..Len(idleTasks)
      /\ idleTasks[n] \in Task
  BY Elements
<1>2. /\ idleTasks' \in Seq(Task) /\ Len(idleTasks') = Len(idleTasks) - 1
      /\ \A i \in 1..(Len(idleTasks) - 1) :
           idleTasks'[i] = IF i < n THEN idleTasks[i] ELSE idleTasks[i + 1]
  BY <1>1, RemoveAtElements DEF TakeIdleTask
<1>3. Kept(f)
  <2>1. f \in [1..Len(idleTasks') -> 1..Len(idleTasks)]
    BY <1>1, <1>2
  <2>2. \A i, k \in 1..Len(idleTasks') : i < k => f[i] < f[k]
    BY <1>1, <1>2
  <2>3. \A i \in 1..Len(idleTasks') : idleTasks'[i] = idleTasks[f[i]]
    BY <1>1, <1>2
  <2>. QED  BY <1>2, <2>1, <2>2, <2>3 DEF Kept
<1>4. ASSUME NEW i \in 1..Len(idleTasks), i # n
      PROVE  \E k \in 1..Len(idleTasks') : f[k] = i
  <2>1. CASE i < n
    <3>1. i \in 1..Len(idleTasks') /\ f[i] = i
      BY <1>1, <1>2, <2>1
    <3>. QED  BY <3>1
  <2>2. CASE i > n
    <3>1. i - 1 \in 1..Len(idleTasks') /\ ~(i - 1 < n) /\ (i - 1) + 1 = i
      BY <1>1, <1>2, <2>2
    <3>2. f[i - 1] = i
      BY <3>1
    <3>. QED  BY <3>1, <3>2
  <2>. QED  BY <1>1, <1>4, <2>1, <2>2
<1>. QED  BY <1>1, <1>2, <1>3, <1>4

LEMMA TasksRemoved ==
  ASSUME TypeOK, Destroy
  PROVE  \E f : Kept(f)
<1> DEFINE S == {i \in DOMAIN idleTasks : idleTasks[i].document # document}
<1>1. PICK f \in SetToSeqs(S) : /\ \A i, k \in DOMAIN f : i < k => f[i] < f[k]
                                /\ idleTasks' = [i \in DOMAIN f |-> idleTasks[f[i]]]
  BY DEF Destroy
<1>2. /\ Len(idleTasks) \in Nat /\ DOMAIN idleTasks = 1..Len(idleTasks)
      /\ \A i \in 1..Len(idleTasks) : idleTasks[i] \in Task
  BY Elements
<1>3. S \subseteq 1..Len(idleTasks) /\ IsFiniteSet(S)
  <2>1. IsFiniteSet(1..Len(idleTasks))
    BY <1>2, FS_Interval
  <2>. QED  BY <1>2, <2>1, FS_Subset
<1>4. /\ f \in Seq(S) /\ Len(f) \in Nat /\ DOMAIN f = 1..Len(f)
      /\ \A i \in 1..Len(f) : f[i] \in S
  BY <1>3, Listed
<1>5. idleTasks' \in Seq(Task) /\ Len(idleTasks') = Len(f)
  <2>1. idleTasks' \in [DOMAIN f -> Task]
    BY <1>1, <1>2, <1>3, <1>4
  <2>. QED  BY <1>4, <2>1, MappedSeq
<1>6. f \in [1..Len(idleTasks') -> 1..Len(idleTasks)]
  <2>1. f \in [1..Len(f) -> S]
    BY <1>4, LenProperties, SeqDef
  <2>. QED  BY <1>3, <1>5, <2>1
<1>. QED  BY <1>1, <1>4, <1>5, <1>6 DEF Kept

LEMMA DeliveryQueued ==
  ASSUME TypeOK, NEW batch, QueueIdleCallback(batch)
  PROVE  /\ idleTasks' \in Seq(Task) /\ Len(idleTasks') = Len(idleTasks) + 1
         /\ idleTasks'[Len(idleTasks) + 1] = Deliver(document)
         /\ \A i \in 1..Len(idleTasks) : idleTasks'[i] = idleTasks[i]
         /\ ToSet(idleTasks') = ToSet(idleTasks) \cup {Deliver(document)}
<1>1. idleTasks \in Seq(Task) /\ document \in {1, 2}
  BY DEF TypeOK
<1>2. Deliver(document) \in Task
  BY <1>1 DEF Deliver, Task
<1>3. idleTasks' = Append(idleTasks, Deliver(document))
  BY DEF QueueIdleCallback
<1>. QED  BY <1>1, <1>2, <1>3, AppendProperties, ToSetAppend

\* The timeouts that are queued together, in the order of their expiry.
TimedOutTogether(due) ==
  /\ due \in SetToSeqs(DueTimeouts)
  /\ \A i, k \in 1..Len(due) : i < k => Before(due[i], due[k])
  /\ idleTasks' = idleTasks \o [i \in DOMAIN due |-> TimeOut(due[i], document)]

LEMMA TogetherTimedOut ==
  ASSUME NEW h, TimeoutReached(h)
  PROVE  \/ UNCHANGED <<timeoutLeft, idleTasks>> /\ (timers' = timers \/ (timers' = timers \ {h} /\ h \notin Waiting))
         \/ /\ timers' = timers \ DueTimeouts
            /\ timeoutLeft' = [k \in Handle |-> IF k \in DueTimeouts THEN None ELSE timeoutLeft[k]]
            /\ \E due : TimedOutTogether(due)
<1>1. ASSUME NEW due \in SetToSeqs(DueTimeouts),
             \A i, k \in DOMAIN due : i < k => Before(due[i], due[k]),
             idleTasks' = idleTasks \o [i \in DOMAIN due |-> TimeOut(due[i], document)]
      PROVE  TimedOutTogether(due)
  <2>1. due \in [1..Cardinality(DueTimeouts) -> DueTimeouts]
    BY DEF SetToSeqs
  <2>2. 1..Len(due) = DOMAIN due
    OBVIOUS
  <2>. QED  BY <1>1, <2>2 DEF TimedOutTogether
<1>. QED  BY <1>1 DEF TimeoutReached, DueWith

LEMMA TimeoutsQueued ==
  ASSUME TypeOK, NEW due, TimedOutTogether(due)
  PROVE  /\ due \in Seq(Handle) /\ Len(due) \in Nat
         /\ \A i \in 1..Len(due) : due[i] \in DueTimeouts /\ due[i] \in Handle
         /\ \A i, k \in 1..Len(due) : i # k => due[i] # due[k]
         /\ \A h \in DueTimeouts : \E i \in 1..Len(due) : due[i] = h
         /\ idleTasks' \in Seq(Task) /\ Len(idleTasks') = Len(idleTasks) + Len(due)
         /\ \A i \in 1..Len(idleTasks') :
              idleTasks'[i] = IF i <= Len(idleTasks) THEN idleTasks[i]
                              ELSE TimeOut(due[i - Len(idleTasks)], document)
<1> DEFINE new == [i \in DOMAIN due |-> TimeOut(due[i], document)]
<1>1. /\ DueTimeouts \subseteq Handle /\ idleTasks \in Seq(Task) /\ Len(idleTasks) \in Nat
      /\ document \in {1, 2}
  BY Elements DEF DueTimeouts, TypeOK
<1>2. IsFiniteSet(DueTimeouts)
  BY <1>1, Handles, FS_Subset
<1>3. /\ due \in Seq(DueTimeouts) /\ Len(due) \in Nat /\ DOMAIN due = 1..Len(due)
      /\ \A i \in 1..Len(due) : due[i] \in DueTimeouts
      /\ \A i, k \in 1..Len(due) : i # k => due[i] # due[k]
      /\ \A h \in DueTimeouts : \E i \in 1..Len(due) : due[i] = h
  BY <1>2, Listed DEF TimedOutTogether
<1>4. new \in [DOMAIN due -> Task]
  <2>1. \A h \in Handle : TimeOut(h, document) \in Task
    BY <1>1 DEF TimeOut, Task
  <2>. QED  BY <1>1, <1>3, <2>1
<1>5. new \in Seq(Task) /\ Len(new) = Len(due)
  BY <1>3, <1>4, MappedSeq
<1>6. \A i \in 1..Len(due) : new[i] = TimeOut(due[i], document)
  BY <1>3
<1> HIDE DEF new
<1>7. idleTasks' = idleTasks \o new
  BY DEF TimedOutTogether, new
<1>8. /\ idleTasks' \in Seq(Task) /\ Len(idleTasks') = Len(idleTasks) + Len(new)
      /\ \A i \in 1..(Len(idleTasks) + Len(new)) :
           idleTasks'[i] = IF i <= Len(idleTasks) THEN idleTasks[i] ELSE new[i - Len(idleTasks)]
  BY <1>1, <1>5, <1>7, ConcatProperties
<1>9. due \in Seq(Handle)
  <2>1. due \in [1..Len(due) -> Handle]
    BY <1>1, <1>3, LenProperties, SeqDef
  <2>. QED  BY <1>3, <2>1, SeqDef
<1>10. ASSUME NEW i \in 1..Len(idleTasks'), ~(i <= Len(idleTasks))
       PROVE  new[i - Len(idleTasks)] = TimeOut(due[i - Len(idleTasks)], document)
  <2>1. i - Len(idleTasks) \in 1..Len(due)
    BY <1>1, <1>3, <1>5, <1>8, <1>10
  <2>. QED  BY <1>6, <2>1
<1>. QED  BY <1>1, <1>3, <1>5, <1>8, <1>9, <1>10

-----------------------------------------------------------------------------
(* Types and lists.                                                         *)

LEMMA Requests ==
  /\ RequestTurnIfNeeded => turnRequested' \in BOOLEAN
  /\ RequestIdlePeriod => turnRequested' \in BOOLEAN /\ idlePeriodRequested' \in BOOLEAN
  /\ NotifyTaskRunnabilityChanged => turnRequested' \in BOOLEAN /\ idlePeriodRequested' \in BOOLEAN
BY DEF RequestTurnIfNeeded, RequestIdlePeriod, NotifyTaskRunnabilityChanged, HasRunnableTasks

LEMMA LimitedTyped ==
  ASSUME TypeOK, NEW n \in 0..Budget, Limited(n) > 0
  PROVE  Limited(n) \in -MaxLate..Budget
<1>1. Budget \in Nat /\ MaxLate \in Nat /\ timerLeft \in Int \cup {None}
  BY IdleCallbacksAssumption DEF TypeOK
<1>2. CASE Limited(n) = n
  BY <1>1, <1>2
<1>3. CASE timerLeft \in Int /\ Limited(n) = timerLeft /\ ~(timerLeft > n)
  <2>1. timerLeft > 0 /\ timerLeft <= Budget
    BY <1>1, <1>3
  <2>. QED  BY <1>1, <1>3, <2>1
<1>. QED  BY <1>1, <1>2, <1>3 DEF Limited

LEMMA TasksTyped ==
  ASSUME TypeOK, Next
  PROVE  idleTasks' \in Seq(Task)
<1> USE DEF periodVars
<1>1. idleTasks \in Seq(Task)
  BY DEF TypeOK
<1>2. CASE idleTasks' = idleTasks
  BY <1>1, <1>2
<1>3. CASE EndTurn
  <2>1. ASSUME QueueIdleCallback(NextBatch)
        PROVE  idleTasks' \in Seq(Task)
    BY <2>1, DeliveryQueued
  <2>. QED  BY <1>1, <1>3, <2>1 DEF EndTurn, StartIdlePeriod
<1>4. CASE TaskReturns
  <2>1. ASSUME QueueIdleCallback(runnable)
        PROVE  idleTasks' \in Seq(Task)
    BY <2>1, DeliveryQueued
  <2>. QED  BY <1>1, <1>4, <2>1 DEF TaskReturns
<1>5. ASSUME NEW i \in DOMAIN idleTasks, StartDelivery(i) \/ PassDelivery(i) \/ RunTimeout(i)
      PROVE  idleTasks' \in Seq(Task)
  <2>1. TakeIdleTask(i)
    BY <1>5 DEF StartDelivery, PassDelivery, RunTimeout
  <2>2. \E f : Kept(f)
    BY <2>1, TaskTaken
  <2>. QED  BY <2>2 DEF Kept
<1>6. ASSUME NEW h \in Handle, TimeoutReached(h)
      PROVE  idleTasks' \in Seq(Task)
  <2>1. idleTasks' = idleTasks \/ \E due : TimedOutTogether(due)
    BY <1>6, TogetherTimedOut
  <2>2. ASSUME NEW due, TimedOutTogether(due)
        PROVE  idleTasks' \in Seq(Task)
    BY <2>2, TimeoutsQueued
  <2>. QED  BY <1>1, <2>1, <2>2
<1>7. CASE Destroy
  BY <1>7, TasksRemoved DEF Kept
<1>8. RunWork \/ Tick \/ QueueWork \/ PeriodEndReached \/ TimerFires \/ SuspendTimer
        \/ Activate \/ Deactivate \/ SetAssociatedDocument => idleTasks' = idleTasks
  BY DEF RunWork, Tick, QueueWork, PeriodEndReached, TimerFires, SuspendTimer,
         Activate, Deactivate, SetAssociatedDocument
<1>9. \A ms : Request(ms) \/ SetTimer(ms) \/ ResumeTimer(ms) => idleTasks' = idleTasks
  BY DEF Request, SetTimer, ResumeTimer
<1>10. \A h : Cancel(h) => idleTasks' = idleTasks
  BY DEF Cancel
<1>. QED  BY <1>2, <1>3, <1>4, <1>5, <1>6, <1>7, <1>8, <1>9, <1>10 DEF Next, Turn

\* The lists, and all that changes with them.
ListsTyped ==
  /\ pending \in Seq(Handle) /\ runnable \in Seq(Handle)
  /\ identifier \in Handle \cup {0} /\ over \subseteq Handle

LEMMA ListsStep ==
  ASSUME Base, Next
  PROVE  ListsTyped' /\ ListsOK'
<1> DEFINE Goal == ListsTyped' /\ ListsOK'
<1> USE DEF periodVars, requestVars
<1>0. /\ pending \in Seq(Handle) /\ runnable \in Seq(Handle) /\ over \subseteq Handle
      /\ identifier \in Handle \cup {0} /\ TypeOK /\ ListsOK /\ Waiting \subseteq Handle
  BY Elements DEF Base, TypeOK
<1>1. ASSUME UNCHANGED <<pending, runnable, identifier, over>>
      PROVE  Goal
  BY <1>0, <1>1 DEF ListsTyped, ListsOK, Sorted, Waiting
<1>2. CASE EndTurn
  <2>1. CASE UNCHANGED <<pending, runnable>>
    BY <1>1, <1>2, <2>1 DEF EndTurn
  <2>2. CASE pending' = <<>> /\ QueueIdleCallback(NextBatch)
    <3>1. runnable' = NextBatch /\ UNCHANGED <<identifier, over>>
      BY <1>2, <2>2 DEF EndTurn, QueueIdleCallback
    <3>. QED  BY <1>0, <2>2, <3>1, Batched DEF ListsTyped
  <2>. QED  BY <1>2, <2>1, <2>2 DEF EndTurn, StartIdlePeriod
<1>3. CASE TaskReturns
  <2>1. UNCHANGED <<pending, runnable, identifier, over>>
    BY <1>3 DEF TaskReturns, QueueIdleCallback
  <2>. QED  BY <1>1, <2>1
<1>4. ASSUME NEW ms \in Timeout, Request(ms)
      PROVE  Goal
  <2>1. UNCHANGED <<runnable, over>>
    BY <1>4 DEF Request
  <2>. QED  BY <1>0, <1>4, <2>1, Requested DEF ListsTyped
<1>5. ASSUME NEW h \in Handle, h <= identifier, Forget(h), identifier' = identifier
      PROVE  Goal
  <2>1. over' = over \cup {h}
    BY <1>5 DEF Forget, Release
  <2>. QED  BY <1>0, <1>5, <2>1, Forgotten DEF ListsTyped
<1>6. ASSUME NEW h \in Handle, Cancel(h)
      PROVE  Goal
  BY <1>5, <1>6 DEF Cancel
<1>7. ASSUME NEW i \in DOMAIN idleTasks, StartDelivery(i)
      PROVE  Goal
  <2>1. /\ over' = over \cup {Head(runnable)} /\ UNCHANGED <<pending, identifier>>
        /\ Head(runnable) \in Waiting
    BY <1>7, DeliveryStarted DEF StartDelivery
  <2>. QED  BY <1>0, <1>7, <2>1, DeliveryStarted DEF ListsTyped
<1>8. ASSUME NEW i \in DOMAIN idleTasks, RunTimeout(i)
      PROVE  Goal
  <2> DEFINE h == idleTasks[i].handle
  <2>1. CASE h \in Waiting
    <3>1. Forget(h) /\ identifier' = identifier /\ h \in Handle /\ h <= identifier
      BY <1>0, <1>8, <2>1 DEF RunTimeout, ListsOK
    <3>. QED  BY <1>5, <3>1
  <2>2. CASE h \notin Waiting
    BY <1>1, <1>8, <2>2 DEF RunTimeout
  <2>. QED  BY <2>1, <2>2
<1>9. CASE Destroy
  <2>1. /\ pending' = <<>> /\ runnable' = <<>> /\ over' = over \cup Waiting
        /\ identifier' = identifier
    BY <1>9 DEF Destroy
  <2>2. /\ pending' \in Seq(Handle) /\ runnable' \in Seq(Handle)
        /\ ToSet(pending') = {} /\ ToSet(runnable') = {}
        /\ Len(pending') = 0 /\ Len(runnable') = 0
    BY <2>1, EmptySeq DEF ToSet
  <2>3. Sorted(pending)' /\ Sorted(runnable)' /\ Waiting' = {}
    BY <2>2, WaitingNext DEF Sorted
  <2>4. \A h \in over' : h <= identifier'
    BY <1>0, <2>1 DEF ListsOK
  <2>. QED  BY <1>0, <2>1, <2>2, <2>3, <2>4 DEF ListsTyped, ListsOK
<1>10. RunWork \/ Tick \/ QueueWork \/ PeriodEndReached \/ TimerFires \/ SuspendTimer
         \/ Activate \/ Deactivate \/ SetAssociatedDocument
         => UNCHANGED <<pending, runnable, identifier, over>>
  BY DEF RunWork, Tick, QueueWork, PeriodEndReached, TimerFires, SuspendTimer,
         Activate, Deactivate, SetAssociatedDocument
<1>11. \A ms : SetTimer(ms) \/ ResumeTimer(ms) => UNCHANGED <<pending, runnable, identifier, over>>
  BY DEF SetTimer, ResumeTimer
<1>12. \A i : PassDelivery(i) => UNCHANGED <<pending, runnable, identifier, over>>
  BY DEF PassDelivery
<1>13. \A h : TimeoutReached(h) => UNCHANGED <<pending, runnable, identifier, over>>
  BY DEF TimeoutReached
<1>. QED  BY <1>1, <1>2, <1>3, <1>4, <1>6, <1>7, <1>8, <1>9, <1>10, <1>11, <1>12, <1>13 DEF Next, Turn

\* The times.
TimesTyped ==
  /\ timeout \in [Handle -> Timeout \cup {0}]
  /\ timeoutLeft \in [Handle -> Int \cup {None}]
  /\ timers \subseteq Handle
  /\ periodLeft \in 0..Budget
  /\ wakeUp \in (-MaxLate..Budget) \cup {None}
  /\ timerLeft \in Int \cup {None}

LEMMA TimesStep ==
  ASSUME TypeOK, Next
  PROVE  TimesTyped'
<1> USE DEF periodVars, requestVars, timerVars
<1> DEFINE clocks == <<timeout, timeoutLeft, timers, periodLeft, wakeUp, timerLeft>>
<1>0. TimesTyped /\ Budget \in Nat \ {0} /\ MaxLate \in Nat /\ TimerDelay \subseteq Nat /\ Timeout \subseteq Nat
  BY IdleCallbacksAssumption DEF TypeOK, TimesTyped
<1>1. ASSUME UNCHANGED clocks
      PROVE  TimesTyped'
  BY <1>0, <1>1 DEF TimesTyped
<1>2. CASE EndTurn
  <2>1. UNCHANGED <<timeout, timeoutLeft, timers, timerLeft>>
    BY <1>2 DEF EndTurn
  <2>2. periodLeft' = periodLeft \/ periodLeft' = Budget
    BY <1>2 DEF EndTurn, StartIdlePeriod
  <2>3. wakeUp' = wakeUp \/ wakeUp' = None \/ (wakeUp' = Limited(periodLeft) /\ Limited(periodLeft) > 0)
    BY <1>2 DEF EndTurn, StartIdlePeriod, AwaitPeriodEnd
  <2>4. Limited(periodLeft) > 0 => Limited(periodLeft) \in -MaxLate..Budget
    BY LimitedTyped DEF TypeOK
  <2>5. Budget \in 0..Budget
    BY <1>0
  <2>. QED  BY <1>0, <2>1, <2>2, <2>3, <2>4, <2>5 DEF TimesTyped
<1>3. ASSUME NEW ms \in Timeout, Request(ms)
      PROVE  TimesTyped'
  <2>1. /\ timeout' = [timeout EXCEPT ![identifier + 1] = ms]
        /\ timeoutLeft' = [timeoutLeft EXCEPT ![identifier + 1] = IF ms > 0 THEN ms ELSE None]
        /\ timers' \subseteq timers \cup {identifier + 1} /\ identifier + 1 \in Handle
        /\ UNCHANGED <<periodLeft, wakeUp, timerLeft>>
    BY <1>3 DEF Request
  <2>2. ms \in Int
    BY <1>0
  <2>. QED  BY <1>0, <2>1, <2>2 DEF TimesTyped
<1>4. ASSUME NEW h \in Handle, Forget(h), UNCHANGED <<timeout, periodLeft, timerLeft>>
      PROVE  TimesTyped'
  BY <1>0, <1>4 DEF TimesTyped, Forget, Release
<1>5. ASSUME NEW h \in Handle, Cancel(h)
      PROVE  TimesTyped'
  BY <1>4, <1>5 DEF Cancel
<1>6. ASSUME NEW i \in DOMAIN idleTasks, StartDelivery(i)
      PROVE  TimesTyped'
  BY <1>0, <1>6 DEF TimesTyped, StartDelivery
<1>7. ASSUME NEW i \in DOMAIN idleTasks, RunTimeout(i)
      PROVE  TimesTyped'
  <2> DEFINE h == idleTasks[i].handle
  <2>1. CASE h \in Waiting
    <3>1. h \in Handle /\ Forget(h) /\ UNCHANGED <<timeout, periodLeft, timerLeft>>
      BY <1>7, <2>1, Elements DEF RunTimeout
    <3>. QED  BY <1>4, <3>1
  <2>2. CASE h \notin Waiting
    BY <1>1, <1>7, <2>2 DEF RunTimeout
  <2>. QED  BY <2>1, <2>2
<1>8. ASSUME NEW h \in Handle, TimeoutReached(h)
      PROVE  TimesTyped'
  <2>1. UNCHANGED <<timeout, periodLeft, wakeUp, timerLeft>>
    BY <1>8 DEF TimeoutReached
  <2>2. timers' \subseteq timers /\ timeoutLeft' \in [Handle -> Int \cup {None}]
    BY <1>0, <1>8, TogetherTimedOut DEF TimesTyped
  <2>. QED  BY <1>0, <2>1, <2>2 DEF TimesTyped
<1>9. CASE Tick
  <2>1. UNCHANGED <<timeout, timers>>
    BY <1>9 DEF Tick
  <2>2. \A n \in Int \cup {None} : Passed(n) \in Int \cup {None}
    BY <1>0 DEF Passed
  <2>3. timeoutLeft' \in [Handle -> Int \cup {None}] /\ timerLeft' \in Int \cup {None}
    BY <1>0, <1>9, <2>2 DEF Tick, TimesTyped
  <2>4. periodLeft' \in 0..Budget
    BY <1>0, <1>9 DEF Tick, TimesTyped
  <2>5. wakeUp' \in (-MaxLate..Budget) \cup {None}
    <3>1. CASE wakeUp = None
      BY <1>9, <3>1 DEF Tick, Passed
    <3>2. CASE wakeUp # None
      <4>1. wakeUp \in -MaxLate..Budget /\ wakeUp > -MaxLate /\ wakeUp' = wakeUp - 1
        BY <1>0, <1>9, <3>2 DEF Tick, Passed, TimesTyped
      <4>. QED  BY <1>0, <4>1
    <3>. QED  BY <3>1, <3>2
  <2>. QED  BY <1>0, <2>1, <2>3, <2>4, <2>5 DEF TimesTyped
<1>10. ASSUME NEW ms \in TimerDelay, SetTimer(ms) \/ ResumeTimer(ms)
       PROVE  TimesTyped'
  <2>1. timerLeft' = ms /\ UNCHANGED <<timeout, timeoutLeft, timers, periodLeft, wakeUp>>
    BY <1>10 DEF SetTimer, ResumeTimer
  <2>. QED  BY <1>0, <2>1 DEF TimesTyped
<1>11. CASE Destroy \/ PeriodEndReached \/ TimerFires
  BY <1>0, <1>11 DEF TimesTyped, Destroy, PeriodEndReached, TimerFires
<1>12. RunWork \/ TaskReturns \/ QueueWork \/ SuspendTimer \/ Activate \/ Deactivate
         \/ SetAssociatedDocument => UNCHANGED clocks
  BY DEF RunWork, TaskReturns, QueueWork, SuspendTimer, Activate, Deactivate, SetAssociatedDocument
<1>13. \A i : PassDelivery(i) => UNCHANGED clocks
  BY DEF PassDelivery
<1> HIDE DEF clocks
<1>. QED  BY <1>1, <1>2, <1>3, <1>5, <1>6, <1>7, <1>8, <1>9, <1>10, <1>11, <1>12, <1>13 DEF Next, Turn

\* The loop and the document.
Turns == [kind : {"idle", "ordinary", "ending", "delivered", "timed out"}, handle : Handle \cup {0}]
LoopTyped ==
  /\ idleTaskQueued \in BOOLEAN /\ work \in Nat /\ worked \in Nat
  /\ running \in Turns
  /\ turnRequested \in BOOLEAN /\ idlePeriodRequested \in BOOLEAN
  /\ suspended \in BOOLEAN
  /\ document \in {1, 2} /\ activeDocument \in {1, 2, None} /\ destroyed \in BOOLEAN

LEMMA LoopStep ==
  ASSUME TypeOK, Next
  PROVE  LoopTyped'
<1> USE DEF periodVars, loopVars, workVars, timerVars, documentVars
<1>0. LoopTyped
  BY DEF TypeOK, LoopTyped, Turns
<1>a. /\ Idle \in Turns /\ Ordinary \in Turns /\ Ending \in Turns
      /\ \A h \in Handle : Delivered(h) \in Turns /\ TimedOut(h) \in Turns
  BY DEF Idle, Ordinary, Ending, Delivered, TimedOut, Turns
<1>b. \A n \in Nat : n + 1 \in Nat /\ (n > 0 => n - 1 \in Nat)
  OBVIOUS
<1>1. CASE EndTurn
  <2>1. /\ running' = Idle /\ UNCHANGED <<work, worked, suspended, document, activeDocument, destroyed>>
        /\ turnRequested' \in BOOLEAN
    BY <1>1 DEF EndTurn, HasRunnableTasks
  <2>2. idlePeriodRequested' \in BOOLEAN /\ idleTaskQueued' \in BOOLEAN
    BY <1>0, <1>1 DEF EndTurn, StartIdlePeriod, QueueIdleCallback, LoopTyped
  <2>. QED  BY <1>0, <1>a, <2>1, <2>2 DEF LoopTyped
<1>2. CASE TaskReturns
  <2>1. /\ running' = Ending /\ turnRequested' \in BOOLEAN
        /\ UNCHANGED <<work, worked, idlePeriodRequested, suspended, document, activeDocument, destroyed>>
    BY <1>2, Requests DEF TaskReturns
  <2>2. idleTaskQueued' \in BOOLEAN
    BY <1>0, <1>2 DEF TaskReturns, QueueIdleCallback, LoopTyped
  <2>. QED  BY <1>0, <1>a, <2>1, <2>2 DEF LoopTyped
<1>3. CASE RunWork
  <2>1. work' \in Nat
    BY <1>0, <1>3, <1>b DEF RunWork, LoopTyped
  <2>2. /\ running' = Ordinary
        /\ UNCHANGED <<idleTaskQueued, worked, turnRequested, idlePeriodRequested, suspended,
                       document, activeDocument, destroyed>>
    BY <1>3 DEF RunWork
  <2>. QED  BY <1>0, <1>a, <2>1, <2>2 DEF LoopTyped
<1>4. ASSUME NEW i \in DOMAIN idleTasks, PassDelivery(i)
      PROVE  LoopTyped'
  BY <1>0, <1>a, <1>4 DEF PassDelivery, LoopTyped
<1>5. ASSUME NEW i \in DOMAIN idleTasks, StartDelivery(i)
      PROVE  LoopTyped'
  <2>1. Head(runnable) \in Handle
    <3>1. runnable \in Seq(Handle) /\ runnable # <<>>
      BY <1>5 DEF StartDelivery, DeliveryPasses, TypeOK
    <3>. QED  BY <3>1, ToSetTail
  <2>. QED  BY <1>0, <1>a, <1>5, <2>1 DEF StartDelivery, LoopTyped
<1>6. ASSUME NEW i \in DOMAIN idleTasks, RunTimeout(i)
      PROVE  LoopTyped'
  <2>1. /\ UNCHANGED <<idleTaskQueued, work, worked, turnRequested, idlePeriodRequested, suspended,
                       document, activeDocument, destroyed>>
        /\ running' = Ending \/ (running' = TimedOut(idleTasks[i].handle) /\ idleTasks[i].handle \in Waiting)
    BY <1>6 DEF RunTimeout
  <2>2. Waiting \subseteq Handle
    BY Elements
  <2>. QED  BY <1>0, <1>a, <2>1, <2>2 DEF LoopTyped
<1>7. CASE QueueWork \/ TimerFires
  <2>1. /\ turnRequested' \in BOOLEAN /\ work' = work + 1 /\ worked' \in {worked, worked + 1}
        /\ UNCHANGED <<idleTaskQueued, running, idlePeriodRequested, suspended, document, activeDocument, destroyed>>
    BY <1>7, Requests DEF QueueWork, TimerFires
  <2>2. work' \in Nat /\ worked' \in Nat
    BY <1>0, <1>b, <2>1 DEF LoopTyped
  <2>. QED  BY <1>0, <2>1, <2>2 DEF LoopTyped
<1>8. ASSUME NEW ms \in Timeout, Request(ms)
      PROVE  LoopTyped'
  BY <1>0, <1>8, Requests DEF Request, LoopTyped
<1>9. ASSUME NEW h \in Handle, Cancel(h)
      PROVE  LoopTyped'
  BY <1>0, <1>9 DEF Cancel, LoopTyped
<1>10. ASSUME NEW h \in Handle, TimeoutReached(h)
       PROVE  LoopTyped'
  BY <1>0, <1>10, Requests DEF TimeoutReached, LoopTyped
<1>11. CASE PeriodEndReached
  BY <1>0, <1>11, Requests DEF PeriodEndReached, LoopTyped
<1>12. ASSUME NEW ms \in TimerDelay, SetTimer(ms)
       PROVE  LoopTyped'
  <2>1. worked' \in Nat
    BY <1>0, <1>12, <1>b DEF SetTimer, LoopTyped
  <2>2. UNCHANGED <<idleTaskQueued, work, running, turnRequested, idlePeriodRequested, suspended,
                    document, activeDocument, destroyed>>
    BY <1>12 DEF SetTimer
  <2>. QED  BY <1>0, <2>1, <2>2 DEF LoopTyped
<1>13. ASSUME NEW ms \in TimerDelay, ResumeTimer(ms)
       PROVE  LoopTyped'
  BY <1>0, <1>13, Requests DEF ResumeTimer, LoopTyped
<1>14. CASE Activate
  BY <1>0, <1>14, Requests DEF Activate, LoopTyped
<1>15. CASE Tick \/ SuspendTimer
  BY <1>0, <1>15 DEF Tick, SuspendTimer, LoopTyped
<1>16. CASE Deactivate \/ SetAssociatedDocument \/ Destroy
  BY <1>0, <1>16 DEF Deactivate, SetAssociatedDocument, Destroy, LoopTyped
<1>. QED  BY <1>1, <1>2, <1>3, <1>4, <1>5, <1>6, <1>7, <1>8, <1>9, <1>10, <1>11, <1>12, <1>13, <1>14,
             <1>15, <1>16 DEF Next, Turn

LEMMA BaseStep ==
  ASSUME Base, [Next]_vars
  PROVE  Base'
<1>1. CASE Next
  <2>1. TypeOK
    BY DEF Base
  <2>2. ListsTyped' /\ ListsOK'
    BY <1>1, ListsStep
  <2>3. TimesTyped' /\ LoopTyped' /\ idleTasks' \in Seq(Task)
    BY <1>1, <2>1, TimesStep, LoopStep, TasksTyped
  <2>4. TypeOK'
    BY <2>2, <2>3 DEF TypeOK, ListsTyped, TimesTyped, LoopTyped, Turns, Task
  <2>. QED  BY <2>2, <2>4 DEF Base
<1>2. CASE UNCHANGED vars
  <2>1. UNCHANGED <<pending, runnable, identifier, over>>
    BY <1>2 DEF vars, requestVars
  <2>2. UNCHANGED <<timeout, timeoutLeft, timers, periodLeft, wakeUp, timerLeft, idleTasks>>
    BY <1>2 DEF vars, requestVars, periodVars, timerVars
  <2>3. UNCHANGED <<idleTaskQueued, work, worked, running, turnRequested, idlePeriodRequested, suspended,
                    document, activeDocument, destroyed>>
    BY <1>2 DEF vars, periodVars, workVars, loopVars, timerVars, documentVars
  <2>4. ListsOK'
    BY <2>1 DEF Base, ListsOK, Sorted, Waiting
  <2>5. TypeOK'
    <3>1. ListsTyped /\ TimesTyped /\ LoopTyped /\ idleTasks \in Seq(Task)
      BY DEF Base, TypeOK, ListsTyped, TimesTyped, LoopTyped, Turns
    <3>2. ListsTyped' /\ TimesTyped'
      BY <2>1, <2>2, <3>1 DEF ListsTyped, TimesTyped
    <3>3. LoopTyped' /\ idleTasks' \in Seq(Task)
      BY <2>2, <2>3, <3>1 DEF LoopTyped, Turns, Task
    <3>. QED  BY <3>2, <3>3 DEF TypeOK, ListsTyped, TimesTyped, LoopTyped, Turns, Task
  <2>. QED  BY <2>4, <2>5 DEF Base
<1>. QED  BY <1>1, <1>2
-----------------------------------------------------------------------------
(* Timeouts.                                                                *)

TaskFor(h) == \E i \in 1..Len(idleTasks) : idleTasks[i].kind = "timeout" /\ idleTasks[i].handle = h

LEMMA TasksUnchanged ==
  ASSUME TypeOK, idleTasks' = idleTasks
  PROVE  \E f : Kept(f)
<1> DEFINE f == [i \in 1..Len(idleTasks) |-> i]
<1>1. idleTasks \in Seq(Task)
  BY DEF TypeOK
<1>2. Kept(f)
  BY <1>1 DEF Kept
<1>. QED  BY <1>2

\* Tasks that stay in order stay right, as timeouts only expire.
LEMMA QueueShrinks ==
  ASSUME TypeOK, TimesOK, TypeOK', NEW f, Kept(f), UNCHANGED <<timeout, identifier>>,
         \A h \in Handle : timeoutLeft[h] = None => timeoutLeft'[h] = None
  PROVE  QueuedOK' /\ TimeoutsKeepOrder'
<1>1. /\ \A i \in 1..Len(idleTasks') : f[i] \in 1..Len(idleTasks) /\ idleTasks'[i] = idleTasks[f[i]]
      /\ \A i, k \in 1..Len(idleTasks') : i < k => f[i] < f[k]
  BY DEF Kept
<1>2. /\ DOMAIN idleTasks = 1..Len(idleTasks)
      /\ \A i \in 1..Len(idleTasks) : idleTasks[i] \in ToSet(idleTasks)
  BY Elements
<1>3. /\ DOMAIN idleTasks' = 1..Len(idleTasks')
      /\ \A t : t \in ToSet(idleTasks') <=> \E i \in 1..Len(idleTasks') : t = idleTasks'[i]
  <2>1. idleTasks' \in Seq(Task)
    BY DEF Kept
  <2>. QED  BY <2>1, LenProperties, ToSetElement
<1>4. ASSUME NEW t \in ToSet(idleTasks')
      PROVE  Expiry(t)'
  <2>1. t \in ToSet(idleTasks)
    BY <1>1, <1>2, <1>3
  <2>. QED  BY <2>1 DEF TimesOK, QueuedOK, Expiry
<1>5. ASSUME NEW i \in 1..Len(idleTasks'), NEW k \in 1..Len(idleTasks'), i < k,
             idleTasks'[i].kind = "timeout", idleTasks'[k].kind = "timeout"
      PROVE  idleTasks'[i].handle < idleTasks'[k].handle
               \/ timeout'[idleTasks'[k].handle] > timeout'[idleTasks'[i].handle]
  <2>1. /\ f[i] \in DOMAIN idleTasks /\ f[k] \in DOMAIN idleTasks /\ f[i] < f[k]
        /\ idleTasks'[i] = idleTasks[f[i]] /\ idleTasks'[k] = idleTasks[f[k]]
    BY <1>1, <1>2, <1>5
  <2>2. /\ idleTasks[f[i]].kind = "timeout" /\ idleTasks[f[k]].kind = "timeout"
    BY <1>5, <2>1
  <2>3. \/ idleTasks[f[i]].handle < idleTasks[f[k]].handle
        \/ timeout[idleTasks[f[k]].handle] > timeout[idleTasks[f[i]].handle]
    BY <2>1, <2>2 DEF TimesOK, TimeoutsAreKept, TimeoutsKeepOrder
  <2>. QED  BY <2>1, <2>3
<1>6. QueuedOK'
  BY <1>4 DEF QueuedOK
<1>7. TimeoutsKeepOrder'
  BY <1>3, <1>5 DEF TimeoutsKeepOrder
<1>. QED  BY <1>6, <1>7

LEMMA QueueDelivers ==
  ASSUME TypeOK, TimesOK, TypeOK', NEW batch, QueueIdleCallback(batch),
         UNCHANGED <<timeout, identifier, timeoutLeft>>
  PROVE  QueuedOK' /\ TimeoutsKeepOrder' /\ \A h : TaskFor(h) => TaskFor(h)'
<1>1. /\ Len(idleTasks') = Len(idleTasks) + 1
      /\ idleTasks'[Len(idleTasks) + 1] = Deliver(document)
      /\ \A i \in 1..Len(idleTasks) : idleTasks'[i] = idleTasks[i]
      /\ ToSet(idleTasks') = ToSet(idleTasks) \cup {Deliver(document)}
      /\ idleTasks' \in Seq(Task)
  BY DeliveryQueued
<1>2. DOMAIN idleTasks = 1..Len(idleTasks) /\ Len(idleTasks) \in Nat
  BY Elements
<1>3. DOMAIN idleTasks' = 1..Len(idleTasks')
  BY <1>1, LenProperties
<1>4. Deliver(document).kind # "timeout"
  BY DEF Deliver
<1>5. QueuedOK'
  <2>1. ASSUME NEW t \in ToSet(idleTasks)
        PROVE  Expiry(t)'
    BY <2>1 DEF TimesOK, QueuedOK, Expiry
  <2>2. ASSUME NEW t \in ToSet(idleTasks')
        PROVE  Expiry(t)'
    <3>1. CASE t \in ToSet(idleTasks)
      BY <2>1, <3>1
    <3>2. CASE t = Deliver(document)
      BY <1>4, <3>2 DEF Expiry
    <3>. QED  BY <1>1, <3>1, <3>2
  <2>. QED  BY <2>2 DEF QueuedOK
<1>6. ASSUME NEW i \in 1..Len(idleTasks'), NEW k \in 1..Len(idleTasks'), i < k,
             idleTasks'[i].kind = "timeout", idleTasks'[k].kind = "timeout"
      PROVE  idleTasks'[i].handle < idleTasks'[k].handle
               \/ timeout'[idleTasks'[k].handle] > timeout'[idleTasks'[i].handle]
  <2>1. k # Len(idleTasks) + 1
    BY <1>1, <1>4, <1>6
  <2>2. i \in 1..Len(idleTasks) /\ k \in 1..Len(idleTasks)
    BY <1>1, <1>2, <1>6, <2>1
  <2>. QED  BY <1>1, <1>2, <1>6, <2>2 DEF TimesOK, TimeoutsAreKept, TimeoutsKeepOrder
<1>7. TimeoutsKeepOrder'
  BY <1>3, <1>6 DEF TimeoutsKeepOrder
<1>8. ASSUME NEW h, TaskFor(h)
      PROVE  TaskFor(h)'
  <2>1. PICK i \in 1..Len(idleTasks) : idleTasks[i].kind = "timeout" /\ idleTasks[i].handle = h
    BY <1>8 DEF TaskFor
  <2>2. i \in 1..Len(idleTasks') /\ idleTasks'[i] = idleTasks[i]
    BY <1>1, <1>2
  <2>. QED  BY <2>1, <2>2 DEF TaskFor
<1>. QED  BY <1>5, <1>7, <1>8

\* The first part of TimeoutsAreWatched, and what the second needs.
TimersOK == timers = {h \in Waiting : timeoutLeft[h] # None}

LEMMA Watched ==
  ASSUME TypeOK
  PROVE  TimeoutsAreWatched <=>
           TimersOK /\ \A h \in Waiting : timeout[h] > 0 /\ timeoutLeft[h] = None => TaskFor(h)
<1>1. DOMAIN idleTasks = 1..Len(idleTasks)
  BY Elements
<1>. QED  BY <1>1 DEF TimeoutsAreWatched, TimersOK, TaskFor

LEMMA WatchedNext ==
  ASSUME TypeOK', TimersOK',
         \A h \in Waiting' : timeout'[h] > 0 /\ timeoutLeft'[h] = None => TaskFor(h)'
  PROVE  TimeoutsAreWatched'
<1>1. DOMAIN idleTasks' = 1..Len(idleTasks')
  <2>1. idleTasks' \in Seq(Task)
    BY DEF TypeOK, Task
  <2>. QED  BY <2>1, LenProperties
<1>. QED  BY <1>1 DEF TimeoutsAreWatched, TimersOK, TaskFor

\* Callbacks leave with their timeouts.
LEMMA TimeoutsDropped ==
  ASSUME TypeOK, TimesOK, TypeOK', NEW S, Waiting' = Waiting \ S, timers' = timers \ S,
         \A h \in Handle : timeoutLeft'[h] = IF h \in S THEN None ELSE timeoutLeft[h],
         timeout' = timeout,
         \A h \in Waiting' : TaskFor(h) => TaskFor(h)'
  PROVE  TimeoutsOK' /\ TimeoutsAreWatched'
<1>1. Waiting \subseteq Handle
  BY Elements
<1>2. /\ TimeoutsOK /\ TimersOK
      /\ \A h \in Waiting : timeout[h] > 0 /\ timeoutLeft[h] = None => TaskFor(h)
  BY Watched DEF TimesOK, TimeoutsAreKept
<1>3. TimeoutsOK'
  BY <1>1, <1>2 DEF TimeoutsOK
<1>4. TimersOK'
  BY <1>1, <1>2 DEF TimersOK
<1>5. ASSUME NEW h \in Waiting', timeout'[h] > 0, timeoutLeft'[h] = None
      PROVE  TaskFor(h)'
  BY <1>1, <1>2, <1>5
<1>. QED  BY <1>3, <1>4, <1>5, WatchedNext
\* Timeouts that expire are queued after those that have expired before, in order.
LEMMA TimeoutsExpire ==
  ASSUME Base, TimesOK, Base', NEW due, TimedOutTogether(due),
         timers' = timers \ DueTimeouts,
         timeoutLeft' = [k \in Handle |-> IF k \in DueTimeouts THEN None ELSE timeoutLeft[k]],
         UNCHANGED <<timeout, identifier, pending, runnable>>
  PROVE  TimesOK'
<1> DEFINE n == Len(idleTasks)
<1>0. /\ TypeOK /\ TypeOK' /\ Waiting \subseteq Handle /\ n \in Nat /\ DOMAIN idleTasks = 1..n
      /\ \A i \in 1..n : idleTasks[i] \in ToSet(idleTasks)
      /\ Waiting' = Waiting
  BY Elements, WaitingNext DEF Base, Waiting
<1>1. /\ Len(due) \in Nat
      /\ \A i \in 1..Len(due) : due[i] \in DueTimeouts /\ due[i] \in Handle
      /\ \A i, k \in 1..Len(due) : i # k => due[i] # due[k]
      /\ \A h \in DueTimeouts : \E i \in 1..Len(due) : due[i] = h
      /\ idleTasks' \in Seq(Task) /\ Len(idleTasks') = n + Len(due)
      /\ \A i \in 1..Len(idleTasks') :
           idleTasks'[i] = IF i <= n THEN idleTasks[i] ELSE TimeOut(due[i - n], document)
  BY <1>0, TimeoutsQueued
<1>2. /\ \A h \in DueTimeouts : h \in Waiting /\ timeoutLeft[h] # None /\ timeoutLeft[h] <= 0
      /\ \A h \in Waiting : timeoutLeft[h] # None /\ timeoutLeft[h] <= 0 => h \in DueTimeouts
  BY DEF DueTimeouts
<1>3. /\ TimeoutsOK /\ QueuedOK /\ TimersOK /\ TimeoutsKeepOrder
      /\ \A h \in Waiting : timeout[h] > 0 /\ timeoutLeft[h] = None => TaskFor(h)
  BY <1>0, Watched DEF TimesOK, TimeoutsAreKept
<1>4. /\ \A h \in Handle : h \in Int /\ timeout[h] \in Int /\ timeoutLeft[h] \in Int \cup {None}
      /\ None \notin Int
      /\ \A h \in Handle : timeoutLeft'[h] = IF h \in DueTimeouts THEN None ELSE timeoutLeft[h]
  <2>1. /\ timeout \in [Handle -> Timeout \cup {0}] /\ timeoutLeft \in [Handle -> Int \cup {None}]
        /\ Timeout \subseteq Nat
    BY <1>0, IdleCallbacksAssumption DEF TypeOK
  <2>2. ASSUME NEW h \in Handle
        PROVE  timeout[h] \in Int /\ timeoutLeft[h] \in Int \cup {None}
    <3>1. timeout[h] \in Timeout \cup {0}
      BY <2>1
    <3>2. \A x \in Timeout \cup {0} : x \in Int
      BY IdleCallbacksAssumption
    <3>. QED  BY <2>1, <3>1, <3>2
  <2>3. \A h \in Handle : h \in Int
    BY Handles
  <2>4. None \notin Int
    BY IdleCallbacksAssumption
  <2>5. \A h \in Handle : timeoutLeft'[h] = IF h \in DueTimeouts THEN None ELSE timeoutLeft[h]
    OBVIOUS
  <2>. QED  BY <2>2, <2>3, <2>4, <2>5
<1>5. TimeoutsOK'
  BY <1>0, <1>3, <1>4 DEF TimeoutsOK
<1>6. TimersOK'
  BY <1>0, <1>2, <1>3, <1>4 DEF TimersOK
<1>7. \A h \in Waiting : h <= identifier
  BY DEF Base, ListsOK
\* Which task is at a place of the new queue.
<1>8. ASSUME NEW i \in 1..Len(idleTasks')
      PROVE  \/ i \in 1..n /\ idleTasks'[i] = idleTasks[i]
             \/ /\ i > n /\ i - n \in 1..Len(due) /\ idleTasks'[i] = TimeOut(due[i - n], document)
  <2>1. CASE i <= n
    BY <1>0, <1>1, <2>1
  <2>2. CASE ~(i <= n)
    <3>1. i - n \in 1..Len(due) /\ i > n
      BY <1>0, <1>1, <2>2
    <3>. QED  BY <1>1, <2>2, <3>1
  <2>. QED  BY <2>1, <2>2
<1>9. ASSUME NEW h \in Waiting', timeout'[h] > 0, timeoutLeft'[h] = None
      PROVE  TaskFor(h)'
  <2>1. CASE h \in DueTimeouts
    <3>1. PICK i \in 1..Len(due) : due[i] = h
      BY <1>1, <2>1
    <3>2. n + i \in 1..Len(idleTasks') /\ ~(n + i <= n) /\ (n + i) - n = i
      BY <1>0, <1>1
    <3>3. idleTasks'[n + i] = TimeOut(due[(n + i) - n], document)
      BY <1>1, <3>2
    <3>4. idleTasks'[n + i] = TimeOut(h, document)
      BY <3>1, <3>2, <3>3
    <3>5. idleTasks'[n + i].kind = "timeout" /\ idleTasks'[n + i].handle = h
      BY <3>4 DEF TimeOut
    <3>. QED  BY <3>2, <3>5 DEF TaskFor
  <2>2. CASE h \notin DueTimeouts
    <3>1. TaskFor(h)
      BY <1>0, <1>3, <1>4, <1>9, <2>2
    <3>2. PICK i \in 1..n : idleTasks[i].kind = "timeout" /\ idleTasks[i].handle = h
      BY <3>1 DEF TaskFor
    <3>3. i \in 1..Len(idleTasks') /\ idleTasks'[i] = idleTasks[i]
      BY <1>0, <1>1
    <3>. QED  BY <3>2, <3>3 DEF TaskFor
  <2>. QED  BY <2>1, <2>2
<1>10. TimeoutsAreWatched'
  BY <1>0, <1>6, <1>9, WatchedNext
<1>11. ASSUME NEW h \in DueTimeouts, NEW a \in Handle, a < h, timeout[a] <= timeout[h]
       PROVE  timeoutLeft'[a] = None
  <2>1. h \in Handle /\ timeoutLeft[h] # None /\ timeoutLeft[h] <= 0
    BY <1>0, <1>2
  <2>2. CASE timeoutLeft[a] = None
    BY <1>4, <2>2
  <2>3. CASE timeoutLeft[a] # None
    <3>1. timeoutLeft[a] <= timeoutLeft[h] /\ a \in Waiting
      BY <1>3, <1>11, <2>1, <2>3 DEF TimeoutsOK
    <3>2. timeoutLeft[a] <= 0
      BY <1>4, <2>1, <2>3, <3>1
    <3>. QED  BY <1>2, <1>4, <2>3, <3>1, <3>2
  <2>. QED  BY <2>2, <2>3
<1>12. ASSUME NEW t \in ToSet(idleTasks)
       PROVE  Expiry(t)'
  <2>1. Expiry(t)
    BY <1>3 DEF QueuedOK
  <2>. QED  BY <2>1, <1>4 DEF Expiry
<1>13. ASSUME NEW t, t.handle \in DueTimeouts
       PROVE  Expiry(t)'
  <2>1. t.handle \in Handle /\ t.handle <= identifier /\ timeoutLeft'[t.handle] = None
    BY <1>0, <1>2, <1>4, <1>7, <1>13
  <2>2. \A a \in Handle : a < t.handle /\ timeout[a] <= timeout[t.handle] => timeoutLeft'[a] = None
    BY <1>11, <1>13
  <2>. QED  BY <2>1, <2>2 DEF Expiry
<1>14. QueuedOK'
  <2>1. \A t : t \in ToSet(idleTasks') <=> \E i \in 1..Len(idleTasks') : t = idleTasks'[i]
    BY <1>1, ToSetElement
  <2>2. ASSUME NEW t \in ToSet(idleTasks')
        PROVE  Expiry(t)'
    <3>1. PICK i \in 1..Len(idleTasks') : t = idleTasks'[i]
      BY <2>1
    <3>2. CASE i \in 1..n /\ idleTasks'[i] = idleTasks[i]
      <4>1. t \in ToSet(idleTasks)
        BY <1>0, <3>1, <3>2
      <4>. QED  BY <1>12, <4>1
    <3>3. CASE i - n \in 1..Len(due) /\ idleTasks'[i] = TimeOut(due[i - n], document)
      <4>1. due[i - n] \in DueTimeouts
        BY <1>1, <3>3
      <4>2. t.handle = due[i - n]
        BY <3>1, <3>3 DEF TimeOut
      <4>. QED  BY <1>13, <4>1, <4>2
    <3>. QED  BY <1>8, <3>2, <3>3
  <2>. QED  BY <2>2 DEF QueuedOK
\* A timeout that has expired before, and one that expires now.
<1>15. ASSUME NEW t \in ToSet(idleTasks), t.kind = "timeout", NEW h \in DueTimeouts
       PROVE  t.handle < h \/ timeout[h] > timeout[t.handle]
  <2>1. Expiry(t) /\ h \in Handle /\ timeoutLeft[h] # None
    BY <1>0, <1>2, <1>3 DEF QueuedOK
  <2>2. t.handle \in Handle /\ timeoutLeft[t.handle] = None
    BY <1>15, <2>1 DEF Expiry
  <2>3. h # t.handle
    BY <2>1, <2>2
  <2>4. ~(h < t.handle /\ timeout[h] <= timeout[t.handle])
    BY <1>15, <2>1 DEF Expiry
  <2>. QED  BY <1>4, <2>1, <2>2, <2>3, <2>4
\* Two that expire now.
<1>16. ASSUME NEW a \in DueTimeouts, NEW b \in DueTimeouts, a # b, Before(a, b)
       PROVE  a < b \/ timeout[b] > timeout[a]
  <2>1. a \in Handle /\ b \in Handle /\ timeoutLeft[a] # None /\ timeoutLeft[b] # None
    BY <1>0, <1>2
  <2>2. b < a /\ timeout[b] <= timeout[a] => timeoutLeft[b] <= timeoutLeft[a]
    BY <1>3, <2>1 DEF TimeoutsOK
  <2>3. timeoutLeft[a] \in Int /\ timeoutLeft[b] \in Int /\ a \in Int /\ b \in Int
          /\ timeout[a] \in Int /\ timeout[b] \in Int
    BY <1>4, <2>1
  <2>. QED  BY <1>16, <2>2, <2>3 DEF Before
<1>17. TimeoutsKeepOrder'
  <2>1. DOMAIN idleTasks' = 1..Len(idleTasks')
    BY <1>1, LenProperties
  <2>2. SUFFICES ASSUME NEW i \in 1..Len(idleTasks'), NEW k \in 1..Len(idleTasks'), i < k,
                        idleTasks'[i].kind = "timeout", idleTasks'[k].kind = "timeout"
                 PROVE  idleTasks'[i].handle < idleTasks'[k].handle
                          \/ timeout[idleTasks'[k].handle] > timeout[idleTasks'[i].handle]
    BY <2>1 DEF TimeoutsKeepOrder
  <2>3. CASE k \in 1..n /\ idleTasks'[k] = idleTasks[k]
    <3>1. i \in 1..n /\ idleTasks'[i] = idleTasks[i]
      BY <1>0, <1>1, <2>2, <2>3
    <3>2. /\ i \in DOMAIN idleTasks /\ k \in DOMAIN idleTasks /\ i < k
          /\ idleTasks[i].kind = "timeout" /\ idleTasks[k].kind = "timeout"
      BY <1>0, <2>2, <2>3, <3>1
    <3>3. idleTasks[i].handle < idleTasks[k].handle
            \/ timeout[idleTasks[k].handle] > timeout[idleTasks[i].handle]
      BY <1>3, <3>2 DEF TimeoutsKeepOrder
    <3>. QED  BY <2>3, <3>1, <3>3
  <2>4. CASE k > n /\ k - n \in 1..Len(due) /\ idleTasks'[k] = TimeOut(due[k - n], document)
    <3>1. due[k - n] \in DueTimeouts /\ idleTasks'[k].handle = due[k - n]
      BY <1>1, <2>4 DEF TimeOut
    <3>2. CASE i \in 1..n /\ idleTasks'[i] = idleTasks[i]
      <4>1. idleTasks'[i] \in ToSet(idleTasks)
        BY <1>0, <3>2
      <4>. QED  BY <1>15, <2>2, <3>1, <4>1
    <3>3. CASE i > n /\ i - n \in 1..Len(due) /\ idleTasks'[i] = TimeOut(due[i - n], document)
      <4>1. due[i - n] \in DueTimeouts /\ idleTasks'[i].handle = due[i - n]
        BY <1>1, <3>3 DEF TimeOut
      <4>2. i - n < k - n /\ i - n # k - n
        BY <1>0, <2>2
      <4>3. Before(due[i - n], due[k - n])
        BY <2>4, <3>3, <4>2 DEF TimedOutTogether
      <4>4. due[i - n] # due[k - n]
        BY <1>1, <2>4, <3>3, <4>2
      <4>. QED  BY <1>16, <3>1, <4>1, <4>3, <4>4
    <3>. QED  BY <1>8, <3>2, <3>3
  <2>. QED  BY <1>8, <2>3, <2>4
<1>. QED  BY <1>5, <1>10, <1>14, <1>17 DEF TimesOK, TimeoutsAreKept
\* A registration is the last one, and its timeout is whole.
LEMMA TimeoutRegistered ==
  ASSUME Base, TimesOK, Base', NEW ms \in Timeout, Request(ms)
  PROVE  TimesOK'
<1> DEFINE r == identifier + 1
<1>0. TypeOK /\ TypeOK' /\ Waiting \subseteq Handle
  BY Elements DEF Base
<1>1. /\ r \in Handle /\ identifier' = r /\ Waiting' = Waiting \cup {r}
      /\ \A h \in Waiting : h <= identifier
  BY Requested DEF Base, ListsOK
<1>2. /\ timeout' = [timeout EXCEPT ![r] = ms]
      /\ timeoutLeft' = [timeoutLeft EXCEPT ![r] = IF ms > 0 THEN ms ELSE None]
      /\ timers' = timers \cup {t \in {r} : ms > 0}
      /\ idleTasks' = idleTasks
  BY DEF Request
<1>3. /\ TimeoutsOK /\ QueuedOK /\ TimersOK /\ TimeoutsKeepOrder
      /\ \A h \in Waiting : timeout[h] > 0 /\ timeoutLeft[h] = None => TaskFor(h)
  BY <1>0, Watched DEF TimesOK, TimeoutsAreKept
<1>4. /\ \A h \in Handle : timeout[h] \in Int /\ timeoutLeft[h] \in Int \cup {None} /\ h \in Nat
      /\ None \notin Int /\ ms \in Nat /\ identifier \in Nat
  <2>1. /\ timeout \in [Handle -> Timeout \cup {0}] /\ timeoutLeft \in [Handle -> Int \cup {None}]
        /\ identifier \in Handle \cup {0}
    BY <1>0 DEF TypeOK
  <2>2. /\ \A x \in Timeout \cup {0} : x \in Int
        /\ ms \in Nat /\ None \notin Int
    BY IdleCallbacksAssumption
  <2>3. \A h \in Handle : h \in Nat
    BY Handles
  <2>4. \A h \in Handle : timeout[h] \in Int /\ timeoutLeft[h] \in Int \cup {None}
    BY <2>1, <2>2
  <2>5. identifier \in Nat
    BY <2>1, <2>3
  <2>. QED  BY <2>2, <2>3, <2>4, <2>5
<1>5. /\ timeout'[r] = ms /\ timeoutLeft'[r] = IF ms > 0 THEN ms ELSE None
      /\ \A h \in Handle : h # r => timeout'[h] = timeout[h] /\ timeoutLeft'[h] = timeoutLeft[h]
  BY <1>0, <1>1, <1>2 DEF TypeOK
<1>6. r \notin Waiting /\ timeoutLeft[r] = None
  <2>1. ~(r <= identifier)
    BY <1>4
  <2>. QED  BY <1>1, <1>3, <2>1 DEF TimeoutsOK
<1>7. \A h \in Handle : timeoutLeft[h] # None => h < r /\ timeoutLeft[h] <= timeout[h]
  BY <1>1, <1>3, <1>4 DEF TimeoutsOK
<1>8. TimeoutsOK'
  <2>1. ASSUME NEW h \in Handle, timeoutLeft'[h] # None
        PROVE  h \in Waiting' /\ timeoutLeft'[h] <= timeout'[h]
    <3>1. CASE h = r
      BY <1>1, <1>4, <1>5, <2>1, <3>1
    <3>2. CASE h # r
      BY <1>1, <1>3, <1>5, <2>1, <3>2 DEF TimeoutsOK
    <3>. QED  BY <3>1, <3>2
  <2>2. ASSUME NEW a \in Handle, NEW b \in Handle, a < b, timeout'[a] <= timeout'[b],
               timeoutLeft'[a] # None, timeoutLeft'[b] # None
        PROVE  timeoutLeft'[a] <= timeoutLeft'[b]
    <3>1. a # r
      BY <1>4, <1>5, <1>7, <2>2
    <3>2. CASE b = r
      <4>1. timeoutLeft[a] <= timeout[a] /\ timeout[a] <= ms /\ timeoutLeft'[b] = ms
              /\ timeoutLeft'[a] = timeoutLeft[a] /\ timeoutLeft[a] \in Int
        BY <1>4, <1>5, <1>7, <2>2, <3>1, <3>2
      <4>. QED  BY <1>4, <4>1
    <3>3. CASE b # r
      BY <1>3, <1>5, <2>2, <3>1, <3>3 DEF TimeoutsOK
    <3>. QED  BY <3>2, <3>3
  <2>. QED  BY <2>1, <2>2 DEF TimeoutsOK
<1>9. TimersOK'
  <2>1. ASSUME NEW h
        PROVE  h \in timers' <=> h \in Waiting' /\ timeoutLeft'[h] # None
    <3>1. CASE h = r
      BY <1>1, <1>2, <1>3, <1>4, <1>5, <1>6, <3>1 DEF TimersOK
    <3>2. CASE h # r
      BY <1>0, <1>1, <1>2, <1>3, <1>5, <3>2 DEF TimersOK
    <3>. QED  BY <3>1, <3>2
  <2>2. timers' = {h \in Waiting' : timeoutLeft'[h] # None}
    BY <2>1
  <2>. QED  BY <2>2 DEF TimersOK
<1>10. ASSUME NEW h \in Waiting', timeout'[h] > 0, timeoutLeft'[h] = None
       PROVE  TaskFor(h)'
  <2>1. h # r
    BY <1>4, <1>5, <1>10
  <2>2. TaskFor(h)
    BY <1>0, <1>1, <1>3, <1>5, <1>10, <2>1
  <2>. QED  BY <1>2, <2>2 DEF TaskFor
<1>11. TimeoutsAreWatched'
  BY <1>0, <1>9, <1>10, WatchedNext
<1>12. ASSUME NEW t \in ToSet(idleTasks)
       PROVE  Expiry(t)'
  <2>1. Expiry(t)
    BY <1>3 DEF QueuedOK
  <2>2. SUFFICES ASSUME t.kind = "timeout"
                 PROVE  /\ t.handle \in Handle /\ t.handle <= identifier' /\ timeoutLeft'[t.handle] = None
                        /\ \A a \in Handle : a < t.handle /\ timeout'[a] <= timeout'[t.handle]
                                             => timeoutLeft'[a] = None
    BY DEF Expiry
  <2>3. t.handle \in Handle /\ t.handle <= identifier /\ t.handle \in Nat
    BY <1>4, <2>1, <2>2 DEF Expiry
  <2>4. t.handle # r /\ t.handle <= identifier' /\ \A a \in Handle : a < t.handle => a # r
    BY <1>1, <1>4, <2>3
  <2>. QED  BY <1>5, <2>1, <2>2, <2>3, <2>4 DEF Expiry
<1>13. QueuedOK'
  BY <1>2, <1>12 DEF QueuedOK
<1>14. TimeoutsKeepOrder'
  <2>1. DOMAIN idleTasks = 1..Len(idleTasks) /\ \A i \in 1..Len(idleTasks) : idleTasks[i] \in ToSet(idleTasks)
    BY <1>0, Elements
  <2>2. \A i \in DOMAIN idleTasks : idleTasks[i].kind = "timeout" =>
           idleTasks[i].handle \in Handle /\ idleTasks[i].handle # r
    <3>1. SUFFICES ASSUME NEW i \in DOMAIN idleTasks, idleTasks[i].kind = "timeout"
                   PROVE  idleTasks[i].handle \in Handle /\ idleTasks[i].handle # r
      OBVIOUS
    <3>2. Expiry(idleTasks[i])
      BY <1>3, <2>1, <3>1 DEF QueuedOK
    <3>3. idleTasks[i].handle \in Handle /\ idleTasks[i].handle <= identifier
      BY <3>1, <3>2 DEF Expiry
    <3>. QED  BY <1>4, <3>3
  <2>. QED  BY <1>2, <1>3, <1>5, <2>2 DEF TimeoutsKeepOrder
<1>. QED  BY <1>8, <1>11, <1>13, <1>14 DEF TimesOK, TimeoutsAreKept

\* Time passes for all timeouts alike.
LEMMA TimeoutsAge ==
  ASSUME Base, TimesOK, Base', Tick
  PROVE  TimesOK'
<1>0. TypeOK /\ TypeOK' /\ Waiting \subseteq Handle
  BY Elements DEF Base
<1>1. /\ timeoutLeft' = [h \in Handle |-> Passed(timeoutLeft[h])]
      /\ UNCHANGED <<timeout, timers, pending, runnable, identifier, idleTasks>>
  BY DEF Tick
<1>2. Waiting' = Waiting
  BY <1>1 DEF Waiting
<1>3. /\ TimeoutsOK /\ TimersOK
      /\ \A h \in Waiting : timeout[h] > 0 /\ timeoutLeft[h] = None => TaskFor(h)
  BY <1>0, Watched DEF TimesOK, TimeoutsAreKept
<1>4. /\ \A h \in Handle : timeout[h] \in Int /\ timeoutLeft[h] \in Int \cup {None}
      /\ None \notin Int /\ MaxLate \in Nat
  <2>1. timeout \in [Handle -> Timeout \cup {0}] /\ timeoutLeft \in [Handle -> Int \cup {None}]
    BY <1>0 DEF TypeOK
  <2>2. /\ \A x \in Timeout \cup {0} : x \in Int
        /\ MaxLate \in Nat /\ None \notin Int
    BY IdleCallbacksAssumption
  <2>3. \A h \in Handle : timeout[h] \in Int /\ timeoutLeft[h] \in Int \cup {None}
    BY <2>1, <2>2
  <2>. QED  BY <2>2, <2>3
<1>5. /\ \A x \in Int : Passed(x) \in Int /\ Passed(x) <= x
      /\ \A x, y \in Int : x <= y => Passed(x) <= Passed(y)
      /\ Passed(None) = None
  BY <1>4 DEF Passed
<1>6. \A h \in Handle : timeoutLeft'[h] = Passed(timeoutLeft[h]) /\ (timeoutLeft'[h] = None <=> timeoutLeft[h] = None)
  BY <1>1, <1>4, <1>5
<1>7. TimeoutsOK'
  <2>1. ASSUME NEW h \in Handle, timeoutLeft'[h] # None
        PROVE  h \in Waiting' /\ timeoutLeft'[h] <= timeout'[h]
    <3>1. h \in Waiting /\ timeoutLeft[h] <= timeout[h] /\ timeoutLeft[h] \in Int
      BY <1>3, <1>4, <1>6, <2>1 DEF TimeoutsOK
    <3>2. Passed(timeoutLeft[h]) <= timeoutLeft[h] /\ Passed(timeoutLeft[h]) \in Int
      BY <1>5, <3>1
    <3>3. Passed(timeoutLeft[h]) <= timeout[h]
      BY <1>4, <3>1, <3>2
    <3>. QED  BY <1>1, <1>2, <1>6, <3>1, <3>3
  <2>2. ASSUME NEW a \in Handle, NEW b \in Handle, a < b, timeout'[a] <= timeout'[b],
               timeoutLeft'[a] # None, timeoutLeft'[b] # None
        PROVE  timeoutLeft'[a] <= timeoutLeft'[b]
    <3>1. timeoutLeft[a] <= timeoutLeft[b] /\ timeoutLeft[a] \in Int /\ timeoutLeft[b] \in Int
      BY <1>1, <1>3, <1>4, <1>6, <2>2 DEF TimeoutsOK
    <3>. QED  BY <1>5, <1>6, <3>1
  <2>. QED  BY <2>1, <2>2 DEF TimeoutsOK
<1>8. TimersOK'
  BY <1>0, <1>1, <1>2, <1>3, <1>6 DEF TimersOK
<1>9. ASSUME NEW h \in Waiting', timeout'[h] > 0, timeoutLeft'[h] = None
      PROVE  TaskFor(h)'
  <2>1. TaskFor(h)
    BY <1>0, <1>1, <1>2, <1>3, <1>6, <1>9
  <2>. QED  BY <1>1, <2>1 DEF TaskFor
<1>10. TimeoutsAreWatched'
  BY <1>0, <1>8, <1>9, WatchedNext
<1>11. QueuedOK' /\ TimeoutsKeepOrder'
  <2>1. PICK f : Kept(f)
    BY <1>0, <1>1, TasksUnchanged
  <2>. QED  BY <1>0, <1>1, <1>6, <2>1, QueueShrinks
<1>. QED  BY <1>7, <1>10, <1>11 DEF TimesOK, TimeoutsAreKept

\* Callbacks leave, and tasks other than their timeouts' stay.
LEMMA CallbacksLeave ==
  ASSUME Base, TimesOK, Base', NEW S, Waiting' = Waiting \ S, timers' = timers \ S,
         \A h \in Handle : timeoutLeft'[h] = IF h \in S THEN None ELSE timeoutLeft[h],
         UNCHANGED <<timeout, identifier>>, NEW f, Kept(f),
         \A h \in Waiting' : TaskFor(h) => TaskFor(h)'
  PROVE  TimesOK'
<1>1. TypeOK /\ TypeOK'
  BY DEF Base
<1>2. TimeoutsOK' /\ TimeoutsAreWatched'
  BY <1>1, TimeoutsDropped
<1>3. QueuedOK' /\ TimeoutsKeepOrder'
  BY <1>1, QueueShrinks
<1>. QED  BY <1>2, <1>3 DEF TimesOK, TimeoutsAreKept

LEMMA TimeoutsStay ==
  ASSUME TypeOK, TimesOK, TypeOK', Waiting' = Waiting, UNCHANGED <<timeout, timeoutLeft, timers>>,
         \A h \in Waiting' : TaskFor(h) => TaskFor(h)'
  PROVE  TimeoutsOK' /\ TimeoutsAreWatched'
<1>1. /\ TimeoutsOK /\ TimersOK
      /\ \A h \in Waiting : timeout[h] > 0 /\ timeoutLeft[h] = None => TaskFor(h)
  BY Watched DEF TimesOK, TimeoutsAreKept
<1>2. TimeoutsOK' /\ TimersOK'
  BY <1>1 DEF TimeoutsOK, TimersOK
<1>. QED  BY <1>1, <1>2, WatchedNext

LEMMA CallbacksStay ==
  ASSUME Base, TimesOK, Base', Waiting' = Waiting, UNCHANGED <<timeout, timeoutLeft, timers, identifier>>,
         NEW f, Kept(f), \A h \in Waiting' : TaskFor(h) => TaskFor(h)'
  PROVE  TimesOK'
<1>1. TypeOK /\ TypeOK'
  BY DEF Base
<1>2. TimeoutsOK' /\ TimeoutsAreWatched'
  BY <1>1, TimeoutsStay
<1>3. QueuedOK' /\ TimeoutsKeepOrder'
  BY <1>1, QueueShrinks
<1>. QED  BY <1>2, <1>3 DEF TimesOK, TimeoutsAreKept

LEMMA OthersStay ==
  ASSUME TypeOK, NEW n \in DOMAIN idleTasks, TakeIdleTask(n), NEW S,
         idleTasks[n].kind = "timeout" /\ idleTasks[n].handle \in Waiting => idleTasks[n].handle \in S,
         Waiting' = Waiting \ S
  PROVE  \E f : Kept(f) /\ \A h \in Waiting' : TaskFor(h) => TaskFor(h)'
<1>1. PICK f : Kept(f) /\ \A i \in 1..Len(idleTasks) : i # n => \E k \in 1..Len(idleTasks') : f[k] = i
  BY TaskTaken
<1>2. ASSUME NEW h \in Waiting', TaskFor(h)
      PROVE  TaskFor(h)'
  <2>1. PICK i \in 1..Len(idleTasks) : idleTasks[i].kind = "timeout" /\ idleTasks[i].handle = h
    BY <1>2 DEF TaskFor
  <2>2. i # n
    BY <1>2, <2>1
  <2>3. PICK k \in 1..Len(idleTasks') : f[k] = i
    BY <1>1, <2>2
  <2>4. idleTasks'[k] = idleTasks[i]
    BY <1>1, <2>3 DEF Kept
  <2>. QED  BY <2>1, <2>3, <2>4 DEF TaskFor
<1>. QED  BY <1>1, <1>2

\* What Forget does to the timeouts.
LEMMA ForgottenTimes ==
  ASSUME Base, NEW h \in Handle, h <= identifier, Forget(h), identifier' = identifier
  PROVE  /\ Waiting' = Waiting \ {h} /\ timers' = timers \ {h}
         /\ \A k \in Handle : timeoutLeft'[k] = IF k \in {h} THEN None ELSE timeoutLeft[k]
<1>1. timeoutLeft \in [Handle -> Int \cup {None}]
  BY DEF Base, TypeOK
<1>2. timeoutLeft' = [timeoutLeft EXCEPT ![h] = None] /\ timers' = timers \ {h}
  BY DEF Forget, Release
<1>. QED  BY <1>1, <1>2, Forgotten

LEMMA TimesKept ==
  ASSUME Base, TimesOK, Base', [Next]_vars
  PROVE  TimesOK'
<1> USE DEF requestVars, periodVars
<1>0. TypeOK /\ TypeOK' /\ timeoutLeft \in [Handle -> Int \cup {None}]
  BY DEF Base, TypeOK
<1>1. ASSUME UNCHANGED <<timeout, identifier, timeoutLeft, timers, idleTasks>>, Waiting' = Waiting
      PROVE  TimesOK'
  <2>1. PICK f : Kept(f)
    BY <1>0, <1>1, TasksUnchanged
  <2>2. \A h \in Waiting' : TaskFor(h) => TaskFor(h)'
    BY <1>1 DEF TaskFor
  <2>. QED  BY <1>1, <2>1, <2>2, CallbacksStay
<1>2. ASSUME UNCHANGED <<timeout, identifier, timeoutLeft, timers>>, Waiting' = Waiting,
             NEW batch, QueueIdleCallback(batch)
      PROVE  TimesOK'
  <2>1. QueuedOK' /\ TimeoutsKeepOrder' /\ \A h : TaskFor(h) => TaskFor(h)'
    BY <1>0, <1>2, QueueDelivers
  <2>2. TimeoutsOK' /\ TimeoutsAreWatched'
    BY <1>0, <1>2, <2>1, TimeoutsStay
  <2>. QED  BY <2>1, <2>2 DEF TimesOK, TimeoutsAreKept
<1>3. CASE EndTurn
  <2>1. UNCHANGED <<timeout, identifier, timeoutLeft, timers, over>>
    BY <1>3 DEF EndTurn
  <2>2. CASE UNCHANGED <<pending, runnable, idleTasks>>
    <3>1. Waiting' = Waiting
      BY <2>2 DEF Waiting
    <3>. QED  BY <1>1, <2>1, <2>2, <3>1
  <2>3. CASE pending' = <<>> /\ QueueIdleCallback(NextBatch)
    <3>1. runnable' = NextBatch
      BY <2>3 DEF QueueIdleCallback
    <3>2. Waiting' = Waiting
      BY <2>1, <2>3, <3>1, Batched
    <3>. QED  BY <1>2, <2>1, <2>3, <3>2
  <2>. QED  BY <1>3, <2>2, <2>3 DEF EndTurn, StartIdlePeriod
<1>4. CASE TaskReturns
  <2>1. UNCHANGED <<timeout, identifier, timeoutLeft, timers, pending>>
    BY <1>4 DEF TaskReturns
  <2>2. runnable' = runnable
    BY <1>4 DEF TaskReturns, QueueIdleCallback
  <2>3. Waiting' = Waiting
    BY <2>1, <2>2 DEF Waiting
  <2>4. idleTasks' = idleTasks \/ QueueIdleCallback(runnable)
    BY <1>4 DEF TaskReturns
  <2>. QED  BY <1>1, <1>2, <2>1, <2>3, <2>4
<1>5. ASSUME NEW ms \in Timeout, Request(ms)
      PROVE  TimesOK'
  BY <1>5, TimeoutRegistered
<1>6. ASSUME NEW h \in Handle, Cancel(h)
      PROVE  TimesOK'
  <2>1. Forget(h) /\ h <= identifier /\ UNCHANGED <<identifier, timeout, idleTasks>>
    BY <1>6 DEF Cancel
  <2>2. /\ Waiting' = Waiting \ {h} /\ timers' = timers \ {h}
        /\ \A k \in Handle : timeoutLeft'[k] = IF k \in {h} THEN None ELSE timeoutLeft[k]
    BY <2>1, ForgottenTimes
  <2>3. PICK f : Kept(f)
    BY <1>0, <2>1, TasksUnchanged
  <2>4. \A k \in Waiting' : TaskFor(k) => TaskFor(k)'
    BY <2>1 DEF TaskFor
  <2>. QED  BY <2>1, <2>2, <2>3, <2>4, CallbacksLeave
<1>7. ASSUME NEW i \in DOMAIN idleTasks, PassDelivery(i)
      PROVE  TimesOK'
  <2>1. /\ TakeIdleTask(i) /\ idleTasks[i].kind # "timeout"
        /\ UNCHANGED <<pending, runnable, timeout, identifier, timeoutLeft, timers>>
    BY <1>7 DEF PassDelivery
  <2>2. Waiting' = Waiting \ {} /\ Waiting' = Waiting
    BY <2>1 DEF Waiting
  <2>3. PICK f : Kept(f) /\ \A h \in Waiting' : TaskFor(h) => TaskFor(h)'
    BY <1>0, <2>1, <2>2, OthersStay
  <2>. QED  BY <2>1, <2>2, <2>3, CallbacksStay
<1>8. ASSUME NEW i \in DOMAIN idleTasks, StartDelivery(i)
      PROVE  TimesOK'
  <2> DEFINE r == Head(runnable)
  <2>1. /\ TakeIdleTask(i) /\ idleTasks[i].kind # "timeout"
        /\ timers' = timers \ {r} /\ timeoutLeft' = [timeoutLeft EXCEPT ![r] = None]
        /\ UNCHANGED <<timeout, identifier>>
    BY <1>8 DEF StartDelivery
  <2>2. Waiting' = Waiting \ {r}
    BY <1>8, DeliveryStarted
  <2>3. PICK f : Kept(f) /\ \A h \in Waiting' : TaskFor(h) => TaskFor(h)'
    BY <1>0, <2>1, <2>2, OthersStay
  <2> HIDE DEF r
  <2>4. \A h \in Handle : timeoutLeft'[h] = IF h \in {r} THEN None ELSE timeoutLeft[h]
    BY <1>0, <2>1
  <2>. QED  BY <2>1, <2>2, <2>3, <2>4, CallbacksLeave
<1>9. ASSUME NEW i \in DOMAIN idleTasks, RunTimeout(i)
      PROVE  TimesOK'
  <2> DEFINE h == idleTasks[i].handle
  <2>1. TakeIdleTask(i) /\ UNCHANGED <<timeout, identifier>>
    BY <1>9 DEF RunTimeout
  <2>2. CASE h \in Waiting
    <3>1. Forget(h) /\ h \in Handle /\ h <= identifier
      BY <1>0, <1>9, <2>2, Elements DEF RunTimeout, Base, ListsOK
    <3>2. /\ Waiting' = Waiting \ {h} /\ timers' = timers \ {h}
          /\ \A k \in Handle : timeoutLeft'[k] = IF k \in {h} THEN None ELSE timeoutLeft[k]
      BY <2>1, <3>1, ForgottenTimes
    <3>3. PICK f : Kept(f) /\ \A k \in Waiting' : TaskFor(k) => TaskFor(k)'
      BY <1>0, <2>1, <3>2, OthersStay
    <3>. QED  BY <2>1, <3>2, <3>3, CallbacksLeave
  <2>3. CASE h \notin Waiting
    <3>1. UNCHANGED <<pending, runnable, timeoutLeft, timers>>
      BY <1>9, <2>3 DEF RunTimeout
    <3>2. Waiting' = Waiting \ {} /\ Waiting' = Waiting
      BY <3>1 DEF Waiting
    <3>3. PICK f : Kept(f) /\ \A k \in Waiting' : TaskFor(k) => TaskFor(k)'
      BY <1>0, <2>1, <2>3, <3>2, OthersStay
    <3>. QED  BY <2>1, <3>1, <3>2, <3>3, CallbacksStay
  <2>. QED  BY <2>2, <2>3
<1>10. ASSUME NEW h \in Handle, TimeoutReached(h)
       PROVE  TimesOK'
  <2>1. UNCHANGED <<timeout, identifier, pending, runnable>> /\ h \in timers
    BY <1>10 DEF TimeoutReached
  <2>2. Waiting' = Waiting
    BY <2>1 DEF Waiting
  <2>3. h \in Waiting
    <3>1. TimersOK
      BY <1>0, Watched DEF TimesOK, TimeoutsAreKept
    <3>. QED  BY <2>1, <3>1 DEF TimersOK
  <2>4. CASE UNCHANGED <<timeoutLeft, idleTasks, timers>>
    BY <1>1, <2>1, <2>2, <2>4
  <2>5. ASSUME NEW due, TimedOutTogether(due),
               timers' = timers \ DueTimeouts,
               timeoutLeft' = [k \in Handle |-> IF k \in DueTimeouts THEN None ELSE timeoutLeft[k]]
        PROVE  TimesOK'
    BY <2>1, <2>5, TimeoutsExpire
  <2>. QED  BY <1>10, <2>3, <2>4, <2>5, TogetherTimedOut
<1>11. CASE Tick
  BY <1>11, TimeoutsAge
<1>12. CASE Destroy
  <2>1. /\ pending' = <<>> /\ runnable' = <<>> /\ timers' = {}
        /\ timeoutLeft' = [h \in Handle |-> None] /\ UNCHANGED <<timeout, identifier>>
    BY <1>12 DEF Destroy
  <2>2. Waiting' = {}
    <3>1. ToSet(<<>>) = {}
      BY DEF ToSet
    <3>. QED  BY <2>1, <3>1, WaitingNext
  <2>3. Waiting' = Waiting \ Handle /\ timers' = timers \ Handle
    BY <1>0, <2>1, <2>2, Elements DEF TypeOK
  <2>4. PICK f : Kept(f)
    BY <1>0, <1>12, TasksRemoved
  <2>5. \A h \in Handle : timeoutLeft'[h] = IF h \in Handle THEN None ELSE timeoutLeft[h]
    BY <2>1
  <2>. QED  BY <2>1, <2>2, <2>3, <2>4, <2>5, CallbacksLeave
<1>13. RunWork \/ QueueWork \/ PeriodEndReached \/ TimerFires \/ SuspendTimer
         \/ Activate \/ Deactivate \/ SetAssociatedDocument \/ UNCHANGED vars
         => UNCHANGED <<timeout, identifier, timeoutLeft, timers, idleTasks, pending, runnable>>
  BY DEF RunWork, QueueWork, PeriodEndReached, TimerFires, SuspendTimer,
         Activate, Deactivate, SetAssociatedDocument, vars
<1>14. \A ms : SetTimer(ms) \/ ResumeTimer(ms)
         => UNCHANGED <<timeout, identifier, timeoutLeft, timers, idleTasks, pending, runnable>>
  BY DEF SetTimer, ResumeTimer
<1>15. UNCHANGED <<pending, runnable>> => Waiting' = Waiting
  BY DEF Waiting
<1>. QED  BY <1>1, <1>3, <1>4, <1>5, <1>6, <1>7, <1>8, <1>9, <1>10, <1>11, <1>12, <1>13, <1>14, <1>15
          DEF Next, Turn
-----------------------------------------------------------------------------
(* The delivery task.                                                       *)

LEMMA DeliveryAdded ==
  ASSUME TypeOK, NoDelivery, NEW batch, QueueIdleCallback(batch)
  PROVE  OneDelivery'
<1>1. /\ Len(idleTasks') = Len(idleTasks) + 1 /\ Len(idleTasks) \in Nat
      /\ idleTasks'[Len(idleTasks) + 1] = Deliver(document)
      /\ \A i \in 1..Len(idleTasks) : idleTasks'[i] = idleTasks[i]
  BY Elements, DeliveryQueued
<1>2. Deliver(document).kind = "deliver"
  BY DEF Deliver
<1>3. Len(idleTasks) + 1 \in 1..Len(idleTasks') /\ idleTasks'[Len(idleTasks) + 1].kind = "deliver"
  BY <1>1, <1>2
<1>4. ASSUME NEW k \in 1..Len(idleTasks'), idleTasks'[k].kind = "deliver"
      PROVE  k = Len(idleTasks) + 1
  <2>1. ~(k \in 1..Len(idleTasks))
    BY <1>1, <1>4 DEF NoDelivery, IsDelivery
  <2>. QED  BY <1>1, <1>4, <2>1
<1>. QED  BY <1>3, <1>4 DEF OneDelivery, IsDelivery

LEMMA DeliveryTaken ==
  ASSUME TypeOK, NEW n \in DOMAIN idleTasks, TakeIdleTask(n)
  PROVE  /\ IsDelivery(n) /\ OneDelivery => NoDelivery'
         /\ ~IsDelivery(n) /\ OneDelivery => OneDelivery'
         /\ NoDelivery => NoDelivery'
<1>1. PICK f : /\ Kept(f)
               /\ \A i \in 1..Len(idleTasks) : i # n => \E k \in 1..Len(idleTasks') : f[k] = i
  BY TaskTaken
<1>2. /\ n \in 1..Len(idleTasks) /\ Len(idleTasks) \in Nat
      /\ Len(idleTasks') = Len(idleTasks) - 1
      /\ \A i \in 1..Len(idleTasks') : idleTasks'[i] = idleTasks[IF i < n THEN i ELSE i + 1]
  BY Elements, TaskTaken
<1>3. \A i \in 1..Len(idleTasks') :
        \E k \in 1..Len(idleTasks) : k # n /\ k = (IF i < n THEN i ELSE i + 1) /\ idleTasks'[i] = idleTasks[k]
  BY <1>2
<1>4. NoDelivery => NoDelivery'
  BY <1>3 DEF NoDelivery, IsDelivery
<1>5. ASSUME IsDelivery(n), OneDelivery
      PROVE  NoDelivery'
  <2>1. \A k \in 1..Len(idleTasks) : IsDelivery(k) => k = n
    BY <1>2, <1>5 DEF OneDelivery
  <2>. QED  BY <1>3, <2>1 DEF NoDelivery, IsDelivery
<1>6. ASSUME ~IsDelivery(n), OneDelivery
      PROVE  OneDelivery'
  <2>1. PICK i \in 1..Len(idleTasks) : IsDelivery(i) /\ \A k \in 1..Len(idleTasks) : IsDelivery(k) => k = i
    BY <1>6 DEF OneDelivery
  <2>2. PICK j \in 1..Len(idleTasks') : f[j] = i
    BY <1>1, <1>6, <2>1
  <2>3. idleTasks'[j].kind = "deliver"
    BY <1>1, <2>1, <2>2 DEF Kept, IsDelivery
  <2>4. ASSUME NEW k \in 1..Len(idleTasks'), idleTasks'[k].kind = "deliver"
        PROVE  k = j
    <3>1. PICK p \in 1..Len(idleTasks) : p = (IF k < n THEN k ELSE k + 1) /\ idleTasks'[k] = idleTasks[p]
      BY <1>3
    <3>2. PICK q \in 1..Len(idleTasks) : q = (IF j < n THEN j ELSE j + 1) /\ idleTasks'[j] = idleTasks[q]
      BY <1>3
    <3>3. p = i /\ q = i
      BY <2>1, <2>3, <2>4, <3>1, <3>2 DEF IsDelivery
    <3>. QED  BY <1>2, <3>1, <3>2, <3>3
  <2>. QED  BY <2>3, <2>4 DEF OneDelivery, IsDelivery
<1>. QED  BY <1>4, <1>5, <1>6

LEMMA TimeoutsAdded ==
  ASSUME TypeOK, NEW due, TimedOutTogether(due)
  PROVE  (OneDelivery => OneDelivery') /\ (NoDelivery => NoDelivery')
<1>1. /\ Len(due) \in Nat /\ Len(idleTasks) \in Nat /\ Len(idleTasks') = Len(idleTasks) + Len(due)
      /\ \A i \in 1..Len(idleTasks') :
           idleTasks'[i] = IF i <= Len(idleTasks) THEN idleTasks[i]
                           ELSE TimeOut(due[i - Len(idleTasks)], document)
  BY Elements, TimeoutsQueued
<1>2. \A h : TimeOut(h, document).kind # "deliver"
  BY DEF TimeOut
<1>3. \A i \in 1..Len(idleTasks') :
        idleTasks'[i].kind = "deliver" => i \in 1..Len(idleTasks) /\ idleTasks[i].kind = "deliver"
  BY <1>1, <1>2
<1>4. \A i \in 1..Len(idleTasks) : i \in 1..Len(idleTasks') /\ idleTasks'[i] = idleTasks[i]
  BY <1>1
<1>5. NoDelivery => NoDelivery'
  BY <1>3 DEF NoDelivery, IsDelivery
<1>6. ASSUME OneDelivery
      PROVE  OneDelivery'
  <2>1. PICK i \in 1..Len(idleTasks) : IsDelivery(i) /\ \A k \in 1..Len(idleTasks) : IsDelivery(k) => k = i
    BY <1>6 DEF OneDelivery
  <2>. QED  BY <1>3, <1>4, <2>1 DEF OneDelivery, IsDelivery
<1>. QED  BY <1>5, <1>6

LEMMA DocumentIsSome ==
  ASSUME TypeOK
  PROVE  document # None
<1>1. document \in {1, 2}
  BY DEF TypeOK
<1>2. document \in Int
  BY <1>1
<1>. QED  BY <1>2, IdleCallbacksAssumption

LEMMA FlagKept ==
  ASSUME TypeOK, FlagOK, DocumentsOK, Next
  PROVE  FlagOK'
<1> USE DEF periodVars, documentVars
<1>1. ASSUME UNCHANGED <<idleTasks, idleTaskQueued, destroyed>>, running' = running \/ running'.kind # "delivered"
      PROVE  FlagOK'
  BY <1>1 DEF FlagOK, OneDelivery, NoDelivery, IsDelivery
<1>2. /\ Idle.kind # "delivered" /\ Ordinary.kind # "delivered" /\ Ending.kind # "delivered"
      /\ \A h : TimedOut(h).kind # "delivered" /\ Delivered(h).kind = "delivered"
  BY DEF Idle, Ordinary, Ending, TimedOut, Delivered
<1>3. CASE EndTurn
  <2>1. running' = Idle /\ UNCHANGED <<document, activeDocument, destroyed>>
    BY <1>3 DEF EndTurn
  <2>2. CASE UNCHANGED <<idleTasks, idleTaskQueued>>
    BY <1>1, <1>2, <2>1, <2>2
  <2>3. CASE MayOffer /\ QueueIdleCallback(NextBatch)
    <3>1. ~idleTaskQueued /\ activeDocument = document /\ document # None
      BY <2>3, DocumentIsSome DEF MayOffer
    <3>2. ~destroyed /\ NoDelivery
      BY <3>1 DEF DocumentsOK, FlagOK
    <3>3. OneDelivery' /\ idleTaskQueued'
      BY <2>3, <3>2, DeliveryAdded DEF QueueIdleCallback
    <3>. QED  BY <1>2, <2>1, <3>3 DEF FlagOK
  <2>. QED  BY <1>3, <2>2, <2>3 DEF EndTurn, StartIdlePeriod
<1>4. CASE TaskReturns
  <2>1. running' = Ending /\ UNCHANGED <<document, activeDocument, destroyed>>
    BY <1>4 DEF TaskReturns
  <2>2. CASE UNCHANGED <<idleTasks, idleTaskQueued>>
    BY <1>1, <1>2, <2>1, <2>2
  <2>3. CASE running.kind = "delivered" /\ QueueIdleCallback(runnable)
    <3>1. ~idleTaskQueued /\ idleTaskQueued'
      BY <2>3 DEF FlagOK, QueueIdleCallback
    <3>2. ~destroyed => OneDelivery'
      BY <2>3, <3>1, DeliveryAdded DEF FlagOK
    <3>. QED  BY <1>2, <2>1, <3>1, <3>2 DEF FlagOK
  <2>. QED  BY <1>4, <2>2, <2>3 DEF TaskReturns, MoreOfBatch
<1>5. ASSUME NEW i \in DOMAIN idleTasks, PassDelivery(i) \/ StartDelivery(i)
      PROVE  FlagOK'
  <2>1. TakeIdleTask(i) /\ IsDelivery(i) /\ ~idleTaskQueued' /\ destroyed' = destroyed
    BY <1>5 DEF PassDelivery, StartDelivery, IsDelivery
  <2>2. ~destroyed => NoDelivery'
    BY <2>1, DeliveryTaken DEF FlagOK
  <2>. QED  BY <2>1, <2>2 DEF FlagOK
<1>6. ASSUME NEW i \in DOMAIN idleTasks, RunTimeout(i)
      PROVE  FlagOK'
  <2>1. TakeIdleTask(i) /\ ~IsDelivery(i) /\ UNCHANGED <<idleTaskQueued, destroyed>>
    BY <1>6 DEF RunTimeout, IsDelivery
  <2>2. running' = Ending \/ \E h : running' = TimedOut(h)
    BY <1>6 DEF RunTimeout
  <2>3. (OneDelivery => OneDelivery') /\ (NoDelivery => NoDelivery')
    BY <2>1, DeliveryTaken
  <2>. QED  BY <1>2, <2>1, <2>2, <2>3 DEF FlagOK
<1>7. ASSUME NEW h \in Handle, TimeoutReached(h)
      PROVE  FlagOK'
  <2>1. UNCHANGED <<running, idleTaskQueued, destroyed>>
    BY <1>7 DEF TimeoutReached
  <2>2. CASE idleTasks' = idleTasks
    BY <1>1, <2>1, <2>2
  <2>3. ASSUME NEW due, TimedOutTogether(due)
        PROVE  FlagOK'
    <3>1. (OneDelivery => OneDelivery') /\ (NoDelivery => NoDelivery')
      BY <2>3, TimeoutsAdded
    <3>. QED  BY <2>1, <3>1 DEF FlagOK
  <2>. QED  BY <1>7, <2>2, <2>3, TogetherTimedOut
<1>8. CASE Destroy
  <2>1. destroyed' /\ UNCHANGED <<running, idleTaskQueued>>
    BY <1>8 DEF Destroy
  <2>. QED  BY <2>1 DEF FlagOK
<1>9. CASE RunWork
  <2>1. running' = Ordinary /\ UNCHANGED <<idleTasks, idleTaskQueued, destroyed>>
    BY <1>9 DEF RunWork
  <2>. QED  BY <1>1, <1>2, <2>1
<1>10. QueueWork \/ Tick \/ PeriodEndReached \/ TimerFires \/ SuspendTimer
         \/ Activate \/ Deactivate \/ SetAssociatedDocument
         => UNCHANGED <<idleTasks, idleTaskQueued, destroyed, running>>
  BY DEF QueueWork, Tick, PeriodEndReached, TimerFires, SuspendTimer,
         Activate, Deactivate, SetAssociatedDocument
<1>11. \A ms : Request(ms) \/ SetTimer(ms) \/ ResumeTimer(ms)
         => UNCHANGED <<idleTasks, idleTaskQueued, destroyed, running>>
  BY DEF Request, SetTimer, ResumeTimer
<1>12. \A h : Cancel(h) => UNCHANGED <<idleTasks, idleTaskQueued, destroyed, running>>
  BY DEF Cancel
<1>. QED  BY <1>1, <1>3, <1>4, <1>5, <1>6, <1>7, <1>8, <1>9, <1>10, <1>11, <1>12 DEF Next, Turn

LEMMA DocumentsKept ==
  ASSUME TypeOK, DocumentsOK, Next
  PROVE  DocumentsOK'
<1> USE DEF periodVars, documentVars
<1>1. ASSUME UNCHANGED <<idleTasks, document, activeDocument, destroyed>>
      PROVE  DocumentsOK'
  BY <1>1 DEF DocumentsOK
<1>2. ASSUME NEW batch, QueueIdleCallback(batch), UNCHANGED <<document, activeDocument, destroyed>>
      PROVE  DocumentsOK'
  <2>1. /\ Len(idleTasks') = Len(idleTasks) + 1 /\ Len(idleTasks) \in Nat
        /\ idleTasks'[Len(idleTasks) + 1] = Deliver(document)
        /\ \A i \in 1..Len(idleTasks) : idleTasks'[i] = idleTasks[i]
    BY <1>2, Elements, DeliveryQueued
  <2>2. Deliver(document).document = document
    BY DEF Deliver
  <2>3. \A i \in 1..Len(idleTasks') : i \in 1..Len(idleTasks) \/ i = Len(idleTasks) + 1
    BY <2>1
  <2>. QED  BY <1>2, <2>1, <2>2, <2>3 DEF DocumentsOK
<1>3. ASSUME NEW f, Kept(f), document' = document, destroyed' => activeDocument' = None
      PROVE  DocumentsOK'
  <2>1. \A i \in 1..Len(idleTasks') : f[i] \in 1..Len(idleTasks) /\ idleTasks'[i] = idleTasks[f[i]]
    BY <1>3 DEF Kept
  <2>. QED  BY <1>3, <2>1 DEF DocumentsOK
<1>4. CASE EndTurn
  <2>1. UNCHANGED <<document, activeDocument, destroyed>>
    BY <1>4 DEF EndTurn
  <2>2. idleTasks' = idleTasks \/ QueueIdleCallback(NextBatch)
    BY <1>4 DEF EndTurn, StartIdlePeriod
  <2>. QED  BY <1>1, <1>2, <2>1, <2>2
<1>5. CASE TaskReturns
  <2>1. UNCHANGED <<document, activeDocument, destroyed>>
    BY <1>5 DEF TaskReturns
  <2>2. idleTasks' = idleTasks \/ QueueIdleCallback(runnable)
    BY <1>5 DEF TaskReturns
  <2>. QED  BY <1>1, <1>2, <2>1, <2>2
<1>6. ASSUME NEW i \in DOMAIN idleTasks, PassDelivery(i) \/ StartDelivery(i) \/ RunTimeout(i)
      PROVE  DocumentsOK'
  <2>1. TakeIdleTask(i) /\ UNCHANGED <<document, activeDocument, destroyed>>
    BY <1>6 DEF PassDelivery, StartDelivery, RunTimeout
  <2>2. PICK f : Kept(f)
    BY <2>1, TaskTaken
  <2>. QED  BY <1>3, <2>1, <2>2 DEF DocumentsOK
<1>7. ASSUME NEW h \in Handle, TimeoutReached(h)
      PROVE  DocumentsOK'
  <2>1. UNCHANGED <<document, activeDocument, destroyed>>
    BY <1>7 DEF TimeoutReached
  <2>2. ASSUME NEW due, TimedOutTogether(due)
        PROVE  DocumentsOK'
    <3>1. /\ Len(idleTasks) \in Nat
          /\ \A i \in 1..Len(idleTasks') :
               idleTasks'[i] = IF i <= Len(idleTasks) THEN idleTasks[i]
                               ELSE TimeOut(due[i - Len(idleTasks)], document)
      BY <2>2, Elements, TimeoutsQueued
    <3>2. \A k : TimeOut(k, document).document = document
      BY DEF TimeOut
    <3>3. \A i \in 1..Len(idleTasks') :
            idleTasks'[i].document = document \/ (i \in 1..Len(idleTasks) /\ idleTasks'[i] = idleTasks[i])
      BY <3>1, <3>2
    <3>. QED  BY <2>1, <3>3 DEF DocumentsOK
  <2>. QED  BY <1>1, <1>7, <2>1, <2>2, TogetherTimedOut
<1>8. CASE Destroy
  <2>1. activeDocument' = None /\ document' = document
    BY <1>8 DEF Destroy
  <2>2. PICK f : Kept(f)
    BY <1>8, TasksRemoved
  <2>. QED  BY <1>3, <2>1, <2>2
<1>9. CASE Activate
  <2>1. ~destroyed /\ UNCHANGED <<idleTasks, document, destroyed>>
    BY <1>9 DEF Activate
  <2>. QED  BY <2>1 DEF DocumentsOK
<1>10. CASE Deactivate
  <2>1. activeDocument' = None /\ UNCHANGED <<idleTasks, document, destroyed>>
    BY <1>10 DEF Deactivate
  <2>. QED  BY <2>1 DEF DocumentsOK
<1>11. CASE SetAssociatedDocument
  <2>1. document' = 2 /\ UNCHANGED <<idleTasks, activeDocument, destroyed>>
    BY <1>11 DEF SetAssociatedDocument
  <2>. QED  BY <2>1 DEF DocumentsOK
<1>12. RunWork \/ QueueWork \/ Tick \/ PeriodEndReached \/ TimerFires \/ SuspendTimer
         => UNCHANGED <<idleTasks, document, activeDocument, destroyed>>
  BY DEF RunWork, QueueWork, Tick, PeriodEndReached, TimerFires, SuspendTimer
<1>13. \A ms : Request(ms) \/ SetTimer(ms) \/ ResumeTimer(ms)
         => UNCHANGED <<idleTasks, document, activeDocument, destroyed>>
  BY DEF Request, SetTimer, ResumeTimer
<1>14. \A h : Cancel(h) => UNCHANGED <<idleTasks, document, activeDocument, destroyed>>
  BY DEF Cancel
<1>. QED  BY <1>1, <1>4, <1>5, <1>6, <1>7, <1>8, <1>9, <1>10, <1>11, <1>12, <1>13, <1>14 DEF Next, Turn
-----------------------------------------------------------------------------
(* Offers.                                                                  *)

Overdue == timerLeft # None /\ timerLeft <= 0

\* At the end of a turn callbacks that wait are offered, or wait for what brings a turn.
LEMMA OfferedAtEnd ==
  ASSUME Base, DeliveryOK, EndTurn, document = 1, activeDocument = document, Waiting # {}
  PROVE  turnRequested' \/ wakeUp' # None \/ Overdue'
<1> USE DEF periodVars, workVars, timerVars, documentVars
<1>1. /\ turnRequested' = HasRunnableTasks'
      /\ UNCHANGED <<work, timerLeft, document, activeDocument>>
  BY DEF EndTurn
<1>2. /\ TypeOK /\ FlagOK /\ DocumentsOK /\ DOMAIN idleTasks = 1..Len(idleTasks) /\ Len(idleTasks) \in Nat
  BY Elements DEF Base, DeliveryOK
<1>3. ~destroyed
  BY <1>2, DocumentIsSome DEF DocumentsOK
<1>4. CASE ~MayOffer /\ idleTasks' = idleTasks
  <2>1. HasRunnableTasks
    <3>1. CASE idleTaskQueued
      <4>1. PICK i \in 1..Len(idleTasks) : IsDelivery(i)
        BY <1>2, <1>3, <3>1 DEF FlagOK, OneDelivery
      <4>2. IsRunnable(idleTasks[i])
        BY <1>2 DEF DocumentsOK, IsRunnable
      <4>. QED  BY <1>2, <4>2 DEF HasRunnableTasks
    <3>2. CASE ~idleTaskQueued
      BY <1>4, <3>2 DEF MayOffer
    <3>. QED  BY <3>1, <3>2
  <2>2. HasRunnableTasks'
    BY <1>1, <1>4, <2>1 DEF HasRunnableTasks, IsRunnable
  <2>. QED  BY <1>1, <2>2
<1>5. CASE Limited(Budget) <= 0
  <2>1. Budget \in Int /\ Budget > 0 /\ timerLeft \in Int \cup {None}
    <3>1. timerLeft \in Int \cup {None}
      BY <1>2 DEF TypeOK
    <3>2. Budget \in Nat \ {0}
      BY IdleCallbacksAssumption
    <3>. QED  BY <3>1, <3>2
  <2>2. Overdue
    BY <1>5, <2>1 DEF Limited, Overdue
  <2>. QED  BY <1>1, <2>2 DEF Overdue
<1>6. CASE AwaitPeriodEnd /\ Limited(periodLeft) > 0
  <2>1. periodLeft \in 0..Budget
    BY <1>2 DEF TypeOK
  <2>2. Limited(periodLeft) \in -MaxLate..Budget
    BY <1>2, <1>6, <2>1, LimitedTyped
  <2>3. Limited(periodLeft) # None
    <3>1. Limited(periodLeft) \in Int
      BY <2>2
    <3>. QED  BY <3>1, IdleCallbacksAssumption
  <2>. QED  BY <1>6, <2>3 DEF AwaitPeriodEnd
<1>7. CASE QueueIdleCallback(NextBatch)
  <2>1. /\ Len(idleTasks') = Len(idleTasks) + 1 /\ idleTasks' \in Seq(Task)
        /\ idleTasks'[Len(idleTasks) + 1] = Deliver(document)
    BY <1>2, <1>7, DeliveryQueued
  <2>2. Len(idleTasks) + 1 \in DOMAIN idleTasks'
    BY <1>2, <2>1, LenProperties
  <2>3. HasRunnableTasks'
    <3>1. idleTasks'[Len(idleTasks) + 1].document = activeDocument'
      BY <1>1, <2>1 DEF Deliver
    <3>. QED  BY <2>2, <3>1 DEF HasRunnableTasks, IsRunnable
  <2>. QED  BY <1>1, <2>3
<1>. QED  BY <1>4, <1>5, <1>6, <1>7 DEF EndTurn, StartIdlePeriod

LEMMA OfferKept ==
  ASSUME Base, DeliveryOK, IdleWorkIsOffered, Base', Next
  PROVE  IdleWorkIsOffered'
<1> USE DEF requestVars, periodVars, loopVars, workVars, timerVars, documentVars
<1>0. TypeOK /\ TypeOK' /\ None \notin Int
  BY IdleCallbacksAssumption DEF Base
<1>1. IdleWorkIsOffered <=>
        (document = 1 => (AtRest /\ Waiting # {} /\ activeDocument = document =>
                            turnRequested \/ wakeUp # None \/ Overdue))
  BY DEF IdleWorkIsOffered, Offered, Overdue
<1>2. IdleWorkIsOffered' <=>
        (document' = 1 => (AtRest' /\ Waiting' # {} /\ activeDocument' = document' =>
                            turnRequested' \/ wakeUp' # None \/ Overdue'))
  BY DEF IdleWorkIsOffered, Offered, Overdue
\* Within a turn there is nothing to show.
<1>3. /\ Ordinary.kind # "idle" /\ Ending.kind # "idle" /\ Idle.kind = "idle"
      /\ \A h : Delivered(h).kind # "idle" /\ TimedOut(h).kind # "idle"
  BY DEF Ordinary, Ending, Idle, Delivered, TimedOut
<1>4. ASSUME running'.kind # "idle"
      PROVE  IdleWorkIsOffered'
  BY <1>2, <1>3, <1>4 DEF AtRest
<1>5. ASSUME turnRequested'
      PROVE  IdleWorkIsOffered'
  BY <1>2, <1>5
\* Nothing that an offer depends on is lost.
<1>6. ASSUME UNCHANGED <<running, document, activeDocument>>,
             Waiting' \subseteq Waiting, turnRequested => turnRequested',
             wakeUp' = None => wakeUp = None \/ Waiting' = {}, Overdue => Overdue'
      PROVE  IdleWorkIsOffered'
  BY <1>1, <1>2, <1>6 DEF AtRest
<1>7. RequestTurnIfNeeded => (turnRequested => turnRequested') /\ (HasRunnableTasks' => turnRequested')
                               /\ (idlePeriodRequested' => turnRequested')
  BY DEF RequestTurnIfNeeded
<1>8. UNCHANGED <<pending, runnable>> => Waiting' = Waiting
  BY DEF Waiting
<1>9. CASE EndTurn
  <2>1. UNCHANGED <<document, activeDocument, over, identifier>>
    BY <1>9 DEF EndTurn
  <2>2. Waiting' = Waiting
    <3>1. UNCHANGED <<pending, runnable>> \/ (pending' = <<>> /\ runnable' = NextBatch)
      BY <1>9 DEF EndTurn, StartIdlePeriod, QueueIdleCallback
    <3>. QED  BY <1>8, <2>1, <3>1, Batched
  <2>. QED  BY <1>2, <1>9, <2>1, <2>2, OfferedAtEnd
<1>10. CASE TaskReturns \/ RunWork
  BY <1>3, <1>4, <1>10 DEF TaskReturns, RunWork
<1>11. ASSUME NEW i, StartDelivery(i) \/ PassDelivery(i) \/ RunTimeout(i)
       PROVE  IdleWorkIsOffered'
  BY <1>3, <1>4, <1>11 DEF StartDelivery, PassDelivery, RunTimeout
<1>12. ASSUME NEW ms, Request(ms)
       PROVE  IdleWorkIsOffered'
  BY <1>5, <1>7, <1>12 DEF Request, RequestIdlePeriod
<1>13. ASSUME NEW h \in Handle, Cancel(h)
       PROVE  IdleWorkIsOffered'
  <2>1. /\ UNCHANGED <<running, document, activeDocument, turnRequested, timerLeft>>
        /\ Forget(h) /\ h <= identifier /\ identifier' = identifier
    BY <1>13 DEF Cancel
  <2>2. wakeUp' = IF Waiting \subseteq {h} THEN None ELSE wakeUp
    BY <2>1 DEF Forget, Release
  <2>3. Waiting' = Waiting \ {h}
    BY <2>1, Forgotten
  <2>4. Overdue => Overdue'
    BY <2>1 DEF Overdue
  <2>. QED  BY <1>6, <2>1, <2>2, <2>3, <2>4
<1>14. CASE QueueWork
  <2>1. UNCHANGED <<running, document, activeDocument, pending, runnable, wakeUp, timerLeft>>
    BY <1>14 DEF QueueWork
  <2>2. turnRequested => turnRequested'
    BY <1>7, <1>14 DEF QueueWork
  <2>. QED  BY <1>6, <1>8, <2>1, <2>2 DEF Overdue
<1>15. ASSUME NEW h, TimeoutReached(h)
       PROVE  IdleWorkIsOffered'
  <2>1. UNCHANGED <<running, document, activeDocument, pending, runnable, wakeUp, timerLeft>>
    BY <1>15 DEF TimeoutReached
  <2>2. turnRequested => turnRequested'
    BY <1>7, <1>15 DEF TimeoutReached
  <2>. QED  BY <1>6, <1>8, <2>1, <2>2 DEF Overdue
<1>16. CASE PeriodEndReached
  BY <1>5, <1>7, <1>16 DEF PeriodEndReached, RequestIdlePeriod
<1>17. CASE TimerFires
  <2>1. work' > 0
    <3>1. work \in Nat /\ work' = work + 1
      BY <1>0, <1>17 DEF TypeOK, TimerFires
    <3>. QED  BY <3>1
  <2>2. HasRunnableTasks' /\ RequestTurnIfNeeded
    BY <1>17, <2>1 DEF TimerFires, HasRunnableTasks
  <2>. QED  BY <1>5, <1>7, <2>2
<1>18. CASE SuspendTimer
  <2>1. UNCHANGED <<running, document, activeDocument, pending, runnable, wakeUp, timerLeft, turnRequested>>
    BY <1>18 DEF SuspendTimer
  <2>. QED  BY <1>6, <1>8, <2>1 DEF Overdue
<1>19. ASSUME NEW ms, SetTimer(ms)
       PROVE  IdleWorkIsOffered'
  <2>1. /\ UNCHANGED <<running, document, activeDocument, pending, runnable, wakeUp, turnRequested>>
        /\ ~Overdue
    BY <1>19 DEF SetTimer, Overdue
  <2>. QED  BY <1>6, <1>8, <2>1
\* When a document becomes active, what waits requests a period.
<1>20. ASSUME NotifyTaskRunnabilityChanged, UNCHANGED <<pending, runnable>>
       PROVE  IdleWorkIsOffered'
  <2>1. CASE Waiting = {}
    BY <1>2, <1>8, <1>20, <2>1
  <2>2. CASE Waiting # {}
    BY <1>5, <1>7, <1>20, <2>2 DEF NotifyTaskRunnabilityChanged
  <2>. QED  BY <2>1, <2>2
<1>21. ASSUME NEW ms, ResumeTimer(ms)
       PROVE  IdleWorkIsOffered'
  BY <1>20, <1>21 DEF ResumeTimer
<1>22. CASE Activate
  BY <1>20, <1>22 DEF Activate
<1>23. CASE Deactivate
  <2>1. activeDocument' = None
    BY <1>23 DEF Deactivate
  <2>2. document' # None
    <3>1. document' = document
      BY <1>23 DEF Deactivate
    <3>. QED  BY <1>0, <3>1, DocumentIsSome
  <2>. QED  BY <1>2, <2>1, <2>2
<1>24. CASE SetAssociatedDocument
  <2>1. document' # 1
    BY <1>24 DEF SetAssociatedDocument
  <2>. QED  BY <1>2, <2>1
<1>25. CASE Destroy
  <2>1. activeDocument' = None /\ document' = document
    BY <1>25 DEF Destroy
  <2>. QED  BY <1>0, <1>2, <2>1, DocumentIsSome
<1>26. CASE Tick
  <2>1. /\ UNCHANGED <<running, document, activeDocument, pending, runnable, turnRequested>>
        /\ wakeUp' = Passed(wakeUp) /\ timerLeft' = Passed(timerLeft)
    BY <1>26 DEF Tick
  <2>2. \A x \in Int : Passed(x) \in Int /\ Passed(x) <= x
    <3>1. MaxLate \in Nat
      BY IdleCallbacksAssumption
    <3>. QED  BY <1>0, <3>1 DEF Passed
  <2>3. wakeUp # None => wakeUp' # None
    <3>1. wakeUp # None => wakeUp \in Int
      <4>1. wakeUp \in (-MaxLate..Budget) \cup {None}
        BY <1>0 DEF TypeOK
      <4>2. \A x \in -MaxLate..Budget : x \in Int
        OBVIOUS
      <4>. QED  BY <4>1, <4>2
    <3>. QED  BY <1>0, <2>1, <2>2, <3>1
  <2>4. Overdue => Overdue'
    <3>1. timerLeft # None => timerLeft \in Int
      BY <1>0 DEF TypeOK
    <3>. QED  BY <1>0, <2>1, <2>2, <3>1 DEF Overdue
  <2>. QED  BY <1>6, <1>8, <2>1, <2>3, <2>4
<1>. QED  BY <1>9, <1>10, <1>11, <1>12, <1>13, <1>14, <1>15, <1>16, <1>17, <1>18, <1>19, <1>21, <1>22,
             <1>23, <1>24, <1>25, <1>26 DEF Next, Turn
-----------------------------------------------------------------------------
(* The invariant and the theorems.                                          *)

LEMMA InitInv == Init => IInv
<1> SUFFICES ASSUME Init
             PROVE  IInv
  OBVIOUS
<1>1. /\ pending = <<>> /\ runnable = <<>> /\ idleTasks = <<>> /\ timers = {} /\ over = {}
      /\ identifier = 0 /\ document = 1 /\ activeDocument = 1 /\ destroyed = FALSE
      /\ idleTaskQueued = FALSE /\ running = Idle /\ wakeUp = None /\ timerLeft = None
      /\ timeout = [h \in Handle |-> 0] /\ timeoutLeft = [h \in Handle |-> None]
  BY DEF Init
<1>2. /\ \A S : <<>> \in Seq(S)
      /\ Len(<<>>) = 0 /\ DOMAIN <<>> = {} /\ ToSet(<<>>) = {}
      /\ 1..0 = {}
  BY DEF ToSet
<1>3. Waiting = {} /\ ToSet(idleTasks) = {} /\ ToSet(pending) = {} /\ ToSet(runnable) = {}
  BY <1>1, <1>2 DEF Waiting
<1>4. ListsTyped /\ idleTasks \in Seq(Task)
  BY <1>1, <1>2 DEF ListsTyped
<1>5. TimesTyped
  <2>1. Budget \in Nat /\ periodLeft = 0
    BY IdleCallbacksAssumption DEF Init
  <2>2. periodLeft \in 0..Budget
    BY <2>1
  <2>. QED  BY <1>1, <2>2 DEF TimesTyped
<1>6. LoopTyped
  <2>1. running \in Turns
    BY <1>1 DEF Idle, Turns
  <2>2. /\ work = 0 /\ worked = 0 /\ turnRequested = FALSE /\ idlePeriodRequested = FALSE
        /\ suspended = FALSE
    BY DEF Init
  <2>. QED  BY <1>1, <2>1, <2>2 DEF LoopTyped
<1>7. TypeOK
  BY <1>4, <1>5, <1>6 DEF TypeOK, ListsTyped, TimesTyped, LoopTyped, Turns
<1>8. ListsOK
  BY <1>1, <1>2, <1>3 DEF ListsOK, Sorted
<1>9. TimesOK
  <2>1. TimeoutsOK
    BY <1>1 DEF TimeoutsOK
  <2>2. QueuedOK
    BY <1>3 DEF QueuedOK
  <2>3. TimeoutsAreWatched
    BY <1>1, <1>3 DEF TimeoutsAreWatched
  <2>4. TimeoutsKeepOrder
    BY <1>1, <1>2 DEF TimeoutsKeepOrder
  <2>. QED  BY <2>1, <2>2, <2>3, <2>4 DEF TimesOK, TimeoutsAreKept
<1>10. DeliveryOK
  BY <1>1, <1>2 DEF DeliveryOK, FlagOK, DocumentsOK, NoDelivery, Idle
<1>11. IdleWorkIsOffered
  BY <1>3 DEF IdleWorkIsOffered, Offered
<1>. QED  BY <1>7, <1>8, <1>9, <1>10, <1>11 DEF IInv, Base

LEMMA InvStep ==
  ASSUME IInv, [Next]_vars
  PROVE  IInv'
<1>1. Base /\ TimesOK /\ FlagOK /\ DocumentsOK /\ DeliveryOK /\ IdleWorkIsOffered /\ TypeOK
  BY DEF IInv, DeliveryOK, Base
<1>2. Base'
  BY <1>1, BaseStep
<1>3. TimesOK'
  BY <1>1, <1>2, TimesKept
<1>4. CASE Next
  BY <1>1, <1>2, <1>3, <1>4, FlagKept, DocumentsKept, OfferKept DEF IInv, DeliveryOK
<1>5. CASE UNCHANGED vars
  <2>1. UNCHANGED <<pending, runnable, idleTaskQueued, wakeUp, idleTasks, running, turnRequested,
                    timerLeft, document, activeDocument, destroyed>>
    BY <1>5 DEF vars, requestVars, periodVars, loopVars, timerVars, documentVars
  <2>2. DeliveryOK'
    BY <1>1, <2>1 DEF DeliveryOK, FlagOK, DocumentsOK, OneDelivery, NoDelivery, IsDelivery
  <2>3. IdleWorkIsOffered'
    BY <1>1, <2>1 DEF IdleWorkIsOffered, Offered, Waiting, AtRest
  <2>. QED  BY <1>2, <1>3, <2>2, <2>3 DEF IInv
<1>. QED  BY <1>4, <1>5

\* What waits, its timeouts, the delivery task and the offers agree in every
\* reachable state (idle-callback.ts).
THEOREM Invariance == Spec => []IInv
<1>1. Init => IInv
  BY InitInv
<1>2. IInv /\ [Next]_vars => IInv'
  BY InvStep
<1>. QED  BY <1>1, <1>2, PTL DEF Spec

\* Every variable keeps its type.
THEOREM TypeCorrect == Spec => []TypeOK
<1>1. IInv => TypeOK
  BY DEF IInv, Base
<1>. QED  BY <1>1, Invariance, PTL

\* A Window that lives on has the one delivery task its flag stands for, whatever
\* is canceled, timed out or passed over (#queueIdleCallback).
THEOREM DeliveryIsUnique == Spec => []OneDeliveryTask
<1>1. IInv => OneDeliveryTask
  <2> SUFFICES ASSUME IInv, ~destroyed
               PROVE  Cardinality({i \in DOMAIN idleTasks : idleTasks[i].kind = "deliver"})
                        = IF idleTaskQueued THEN 1 ELSE 0
    BY DEF OneDeliveryTask
  <2> DEFINE deliveries == {i \in DOMAIN idleTasks : idleTasks[i].kind = "deliver"}
  <2>1. FlagOK /\ DOMAIN idleTasks = 1..Len(idleTasks)
    BY Elements DEF IInv, Base, DeliveryOK
  <2>2. CASE idleTaskQueued
    <3>1. PICK i \in 1..Len(idleTasks) :
             IsDelivery(i) /\ \A k \in 1..Len(idleTasks) : IsDelivery(k) => k = i
      BY <2>1, <2>2 DEF FlagOK, OneDelivery
    <3>2. deliveries = {i}
      BY <2>1, <3>1 DEF IsDelivery
    <3>3. Cardinality(deliveries) = 1
      BY <3>2, FS_Singleton
    <3>. QED  BY <2>2, <3>3
  <2>3. CASE ~idleTaskQueued
    <3>1. deliveries = {}
      BY <2>1, <2>3 DEF FlagOK, NoDelivery, IsDelivery
    <3>2. Cardinality(deliveries) = 0
      BY <3>1, FS_EmptySet
    <3>. QED  BY <2>3, <3>2
  <2>. QED  BY <2>2, <2>3
<1>. QED  BY <1>1, Invariance, PTL

\* A timeout has its host timer until it has its task, and timeouts are queued in
\* the order of their expiry and registration (#idleTimeoutReached).
THEOREM TimeoutsKept == Spec => []TimeoutsAreKept
<1>1. IInv => TimeoutsAreKept
  BY DEF IInv, TimesOK
<1>. QED  BY <1>1, Invariance, PTL

\* At rest, callbacks of an active document have a turn, a wake-up or an overdue
\* timer to wait for, as long as their Window keeps its document (startIdlePeriod).
THEOREM WorkIsOffered == Spec => []IdleWorkIsOffered
<1>1. IInv => IdleWorkIsOffered
  BY DEF IInv
<1>. QED  BY <1>1, Invariance, PTL

LEMMA CallbackStarts ==
  ASSUME Base, Next, NEW h, running' # running
  PROVE  /\ running' = TimedOut(h) => h \in Waiting
         /\ running' = Delivered(h) => h \in Waiting /\ \A k \in Waiting : h <= k
<1> USE DEF requestVars, workVars
<1> DEFINE Goal == /\ running' = TimedOut(h) => h \in Waiting
                   /\ running' = Delivered(h) => h \in Waiting /\ \A k \in Waiting : h <= k
<1>1. /\ \A k : Delivered(k) # TimedOut(h) /\ TimedOut(k) # Delivered(h)
      /\ \A k : (Delivered(k) = Delivered(h) => k = h) /\ (TimedOut(k) = TimedOut(h) => k = h)
      /\ Idle # TimedOut(h) /\ Idle # Delivered(h)
      /\ Ordinary # TimedOut(h) /\ Ordinary # Delivered(h)
      /\ Ending # TimedOut(h) /\ Ending # Delivered(h)
  <2>1. /\ \A k : Delivered(k).kind = "delivered" /\ TimedOut(k).kind = "timed out"
                  /\ Delivered(k).handle = k /\ TimedOut(k).handle = k
        /\ Idle.kind = "idle" /\ Ordinary.kind = "ordinary" /\ Ending.kind = "ending"
    BY DEF Delivered, TimedOut, Idle, Ordinary, Ending
  <2>2. /\ \A k : Delivered(k) # TimedOut(h) /\ TimedOut(k) # Delivered(h)
        /\ \A k : (Delivered(k) = Delivered(h) => k = h) /\ (TimedOut(k) = TimedOut(h) => k = h)
    <3>1. SUFFICES ASSUME NEW k
                   PROVE  /\ Delivered(k) # TimedOut(h) /\ TimedOut(k) # Delivered(h)
                          /\ Delivered(k) = Delivered(h) => k = h
                          /\ TimedOut(k) = TimedOut(h) => k = h
      OBVIOUS
    <3>2. /\ Delivered(k).kind = "delivered" /\ TimedOut(k).kind = "timed out"
          /\ Delivered(h).kind = "delivered" /\ TimedOut(h).kind = "timed out"
          /\ Delivered(k).handle = k /\ TimedOut(k).handle = k
          /\ Delivered(h).handle = h /\ TimedOut(h).handle = h
      BY <2>1
    <3>. QED  BY <3>2
  <2>3. /\ Idle # TimedOut(h) /\ Idle # Delivered(h)
        /\ Ordinary # TimedOut(h) /\ Ordinary # Delivered(h)
        /\ Ending # TimedOut(h) /\ Ending # Delivered(h)
    BY <2>1
  <2>. QED  BY <2>2, <2>3
<1>2. CASE running' \in {Idle, Ordinary, Ending}
  BY <1>1, <1>2
<1>3. ASSUME NEW i, StartDelivery(i)
      PROVE  Goal
  <2>1. running' = Delivered(Head(runnable))
    BY <1>3 DEF StartDelivery
  <2>2. Head(runnable) \in Waiting /\ \A k \in Waiting : Head(runnable) <= k
    BY <1>3, DeliveryStarted
  <2>. QED  BY <1>1, <2>1, <2>2
<1>4. ASSUME NEW i, RunTimeout(i)
      PROVE  Goal
  <2>1. running' = Ending \/ (running' = TimedOut(idleTasks[i].handle) /\ idleTasks[i].handle \in Waiting)
    BY <1>4 DEF RunTimeout
  <2>. QED  BY <1>1, <2>1
<1>5. EndTurn \/ TaskReturns \/ RunWork => running' \in {Idle, Ordinary, Ending}
  BY DEF EndTurn, TaskReturns, RunWork
<1>6. \A i : PassDelivery(i) => running' \in {Idle, Ordinary, Ending}
  BY DEF PassDelivery
<1>7. ~(Tick \/ QueueWork \/ PeriodEndReached \/ TimerFires \/ SuspendTimer
          \/ Activate \/ Deactivate \/ SetAssociatedDocument \/ Destroy)
  BY DEF Tick, QueueWork, PeriodEndReached, TimerFires, SuspendTimer,
         Activate, Deactivate, SetAssociatedDocument, Destroy
<1>8. \A k : ~(Request(k) \/ SetTimer(k) \/ ResumeTimer(k) \/ Cancel(k) \/ TimeoutReached(k))
  BY DEF Request, SetTimer, ResumeTimer, Cancel, TimeoutReached
<1>. QED  BY <1>2, <1>3, <1>4, <1>5, <1>6, <1>7, <1>8 DEF Next, Turn

\* A callback runs at most once, by its period or its timeout, never after its
\* cancel, and idle deliveries follow the order of registration.
THEOREM OnceAndInOrder == Spec => RunsOnceInOrder
<1>1. IInv /\ [Next]_vars =>
        [\A h \in Handle : running' # running /\ running' \in {Delivered(h), TimedOut(h)} => h \notin over]_vars
  <2> SUFFICES ASSUME IInv, Next, NEW h \in Handle, running' # running,
                      running' \in {Delivered(h), TimedOut(h)}
               PROVE  h \notin over
    BY Zenon
  <2>1. Base /\ \A k \in Waiting : k \notin over
    BY DEF IInv, Base, ListsOK
  <2>. QED  BY <2>1, CallbackStarts
<1>2. IInv /\ [Next]_vars =>
        [\A h \in Handle : running' # running /\ running' = Delivered(h) => \A k \in Waiting : h <= k]_vars
  <2> SUFFICES ASSUME IInv, Next, NEW h \in Handle, running' # running, running' = Delivered(h)
               PROVE  \A k \in Waiting : h <= k
    BY Zenon
  <2>1. Base
    BY DEF IInv
  <2>. QED  BY <2>1, CallbackStarts
<1>. QED  BY <1>1, <1>2, Invariance, PTL DEF Spec, RunsOnceInOrder, RunsAtMostOnce, DeliveredInOrder
=============================================================================
