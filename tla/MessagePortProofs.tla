-------------------------- MODULE MessagePortProofs --------------------------
(***************************************************************************)
(* Messages follow their end of a channel once and in order, the port that *)
(* holds it alone delivers them, and each end learns who holds the other,  *)
(* for every set of threads and every number of messages and transfers.    *)
(***************************************************************************)
EXTENDS MessagePort, SequencesExt, SequenceTheorems, TLAPS

\* The last element of a sequence is the one just appended.
LEMMA LastOfAppend ==
  ASSUME NEW S, NEW s \in Seq(S), NEW x \in S
  PROVE  Append(s, x) # <<>> /\ Last(Append(s, x)) = x
BY AppendProperties, LenProperties DEF Last

\* The last element stays last while the head is taken away.
LEMMA LastOfTail ==
  ASSUME NEW S, NEW s \in Seq(S), s # <<>>
  PROVE  /\ Tail(s) = <<>> => Last(s) = Head(s)
         /\ Tail(s) # <<>> => Last(Tail(s)) = Last(s)
<1>1. /\ Len(s) \in Nat \ {0} /\ Tail(s) \in Seq(S) /\ Len(Tail(s)) = Len(s) - 1
      /\ \A i \in 1..Len(Tail(s)) : Tail(s)[i] = s[i + 1]
      /\ Tail(s) # <<>> => Len(Tail(s)) \in Nat \ {0}
      /\ Tail(s) = <<>> => Len(Tail(s)) = 0
  BY EmptySeq, HeadTailProperties
<1>2. Head(s) = s[1]
  OBVIOUS
<1>. QED  BY <1>1, <1>2 DEF Last

\* Removing the first element leaves the tail.
LEMMA RemoveAtFirst ==
  ASSUME NEW S, NEW s \in Seq(S), s # <<>>
  PROVE  RemoveAt(s, 1) = Tail(s)
<1>1. Len(s) \in Nat \ {0} /\ \A i \in 1..Len(s) : s[i] \in S
  BY EmptySeq, ElementOfSeq
<1>2. SubSeq(s, 1, 0) = <<>> /\ Tail(s) = SubSeq(s, 2, Len(s)) /\ Tail(s) \in Seq(S)
  BY SubSeqEmpty, TailIsSubSeq, HeadTailProperties
<1>3. <<>> \o Tail(s) = Tail(s)
  BY <1>2, ConcatEmptySeq
<1>4. RemoveAt(s, 1) = SubSeq(s, 1, 1 - 1) \o SubSeq(s, 1 + 1, Len(s))
  BY DEF RemoveAt
<1>. QED  BY <1>2, <1>3, <1>4

\* What an end received (r), keeps (m) and has in its pipe (p) are the first
\* messages posted to it, and all n of them while it is connected.
Counts(s, k) == \A i \in 1..Len(s) : s[i] = k + i

InOrder(r, m, p, n, connected) ==
  /\ Counts(r, 0) /\ Counts(m, Len(r)) /\ Counts(p, Len(r) + Len(m))
  /\ Len(r) + Len(m) + Len(p) <= n
  /\ connected => Len(r) + Len(m) + Len(p) = n

\* The delivery tasks of the messages m of one port.
TasksOf(p, s, m) ==
  [i \in DOMAIN m |-> [port |-> p, shipped |-> s, message |-> m[i]]]

Ordered(e) ==
  InOrder(received[e], messages[e], pipe[e], posted[e], remote \/ native[e])

Linked(e) == /\ remote => ~native[e]
             /\ ~native[e] => pipe[e] = <<>> /\ notices[e] = <<>>

Tasked(e) == IF place[e] = "held"
             THEN tasks[e] = TasksOf(port[e], shipped[e], messages[e])
             ELSE tasks[e] = <<>> /\ shipped[e]

Told(e) == IF notices[e] = <<>> THEN remoteEnvId[e] ELSE Last(notices[e])
Holder(e) == IF place[e] = "held" THEN thread[e] ELSE NoThread
Known(e) == native[e] /\ native[Peer(e)] => Told(e) = Holder(Peer(e))

IInv == TypeOK /\ \A e \in Ends : Ordered(e) /\ Linked(e) /\ Tasked(e) /\ Known(e)

-----------------------------------------------------------------------------
(* Sequences.                                                               *)

LEMMA TasksOfSeq ==
  ASSUME NEW p \in Nat, NEW s \in BOOLEAN, NEW m \in Seq(Nat)
  PROVE  /\ TasksOf(p, s, m) \in Seq(Tasks) /\ Len(TasksOf(p, s, m)) = Len(m)
         /\ \A i \in 1..Len(m) : TasksOf(p, s, m)[i] = [port |-> p, shipped |-> s, message |-> m[i]]
<1>1. Len(m) \in Nat /\ DOMAIN m = 1..Len(m) /\ \A i \in 1..Len(m) : m[i] \in Nat
  BY LenProperties, ElementOfSeq
<1>2. \A i \in 1..Len(m) : [port |-> p, shipped |-> s, message |-> m[i]] \in Tasks
  BY <1>1 DEF Tasks
<1>3. TasksOf(p, s, m) \in [1..Len(m) -> Tasks]
  BY <1>1, <1>2 DEF TasksOf
<1>4. TasksOf(p, s, m) \in Seq(Tasks)
  BY <1>1, <1>3, SeqDef
<1>5. DOMAIN TasksOf(p, s, m) = 1..Len(TasksOf(p, s, m)) /\ Len(TasksOf(p, s, m)) \in Nat
  BY <1>4, LenProperties
<1>. QED  BY <1>1, <1>3, <1>4, <1>5 DEF TasksOf

LEMMA TasksAppend ==
  ASSUME NEW p \in Nat, NEW s \in BOOLEAN, NEW m \in Seq(Nat), NEW x \in Nat
  PROVE  Append(TasksOf(p, s, m), [port |-> p, shipped |-> s, message |-> x])
           = TasksOf(p, s, Append(m, x))
<1> DEFINE t == [port |-> p, shipped |-> s, message |-> x]
           a == TasksOf(p, s, m)   b == TasksOf(p, s, Append(m, x))
<1>1. t \in Tasks
  BY DEF Tasks
<1>2. /\ Append(m, x) \in Seq(Nat) /\ Len(Append(m, x)) = Len(m) + 1 /\ Len(m) \in Nat
      /\ \A i \in 1..Len(m) : Append(m, x)[i] = m[i]
      /\ Append(m, x)[Len(m) + 1] = x
  BY AppendProperties, LenProperties
<1> DEFINE mx == Append(m, x)
<1>3. /\ a \in Seq(Tasks) /\ Len(a) = Len(m)
      /\ \A i \in 1..Len(m) : a[i] = [port |-> p, shipped |-> s, message |-> m[i]]
  BY TasksOfSeq
<1>0. mx \in Seq(Nat) /\ b = TasksOf(p, s, mx)
  BY <1>2
<1> HIDE DEF t, a, b, mx
<1>4. /\ b \in Seq(Tasks) /\ Len(b) = Len(mx)
      /\ \A i \in 1..Len(mx) : b[i] = [port |-> p, shipped |-> s, message |-> mx[i]]
  BY <1>0, TasksOfSeq
<1> DEFINE at == Append(a, t)
<1>5. /\ at \in Seq(Tasks) /\ Len(at) = Len(m) + 1
      /\ \A i \in 1..Len(m) : at[i] = a[i]
      /\ at[Len(m) + 1] = t
  BY <1>1, <1>3, AppendProperties
<1>8. /\ Len(mx) = Len(m) + 1 /\ Len(m) \in Nat
      /\ \A i \in 1..Len(m) : mx[i] = m[i]
      /\ mx[Len(m) + 1] = x
  BY <1>2 DEF mx
<1> HIDE DEF at
<1>6. \A i \in 1..(Len(m) + 1) : at[i] = b[i]
  <2> SUFFICES ASSUME NEW i \in 1..(Len(m) + 1)
               PROVE  at[i] = b[i]
    OBVIOUS
  <2>1. CASE i \in 1..Len(m)
    BY <2>1, <1>8, <1>3, <1>4, <1>5
  <2>2. CASE i = Len(m) + 1
    BY <2>2, <1>8, <1>4, <1>5 DEF t
  <2>. QED  BY <2>1, <2>2, <1>8
<1>7. at = b
  BY <1>4, <1>5, <1>6, <1>8, SeqEqual
<1>. QED  BY <1>7 DEF a, b, t, at, mx

LEMMA TasksTail ==
  ASSUME NEW p \in Nat, NEW s \in BOOLEAN, NEW m \in Seq(Nat), m # <<>>
  PROVE  /\ TasksOf(p, s, m) # <<>>
         /\ RemoveAt(TasksOf(p, s, m), 1) = TasksOf(p, s, RemoveAt(m, 1))
<1> DEFINE a == TasksOf(p, s, m)   b == TasksOf(p, s, Tail(m))
<1>1. /\ Tail(m) \in Seq(Nat) /\ Len(Tail(m)) = Len(m) - 1 /\ Len(m) \in Nat \ {0}
      /\ \A i \in 1..(Len(m) - 1) : Tail(m)[i] = m[i + 1]
  BY HeadTailProperties, EmptySeq
<1>2. /\ a \in Seq(Tasks) /\ Len(a) = Len(m)
      /\ \A i \in 1..Len(m) : a[i] = [port |-> p, shipped |-> s, message |-> m[i]]
  BY TasksOfSeq
<1> DEFINE mt == Tail(m)
<1>0. mt \in Seq(Nat) /\ b = TasksOf(p, s, mt)
  BY <1>1
<1> HIDE DEF a, b, mt
<1>3. /\ b \in Seq(Tasks) /\ Len(b) = Len(mt)
      /\ \A i \in 1..Len(mt) : b[i] = [port |-> p, shipped |-> s, message |-> mt[i]]
  BY <1>0, TasksOfSeq
<1>4. a # <<>>
  BY <1>1, <1>2, EmptySeq
<1> DEFINE at == Tail(a)
<1>5. /\ at \in Seq(Tasks) /\ Len(at) = Len(m) - 1
      /\ \A i \in 1..(Len(m) - 1) : at[i] = a[i + 1]
  BY <1>2, <1>4, HeadTailProperties
<1>9. /\ Len(mt) = Len(m) - 1 /\ Len(m) \in Nat \ {0}
      /\ \A i \in 1..(Len(m) - 1) : mt[i] = m[i + 1]
  BY <1>1 DEF mt
<1> HIDE DEF at
<1>6. \A i \in 1..(Len(m) - 1) : at[i] = b[i]
  <2> SUFFICES ASSUME NEW i \in 1..(Len(m) - 1)
               PROVE  at[i] = b[i]
    OBVIOUS
  <2>1. i + 1 \in 1..Len(m) /\ i \in 1..Len(mt)
    BY <1>9
  <2>2. at[i] = a[i + 1] /\ mt[i] = m[i + 1]
    BY <1>5, <1>9
  <2>3. a[i + 1] = [port |-> p, shipped |-> s, message |-> m[i + 1]]
    BY <2>1, <1>2
  <2>4. b[i] = [port |-> p, shipped |-> s, message |-> mt[i]]
    BY <2>1, <1>3
  <2>. QED  BY <2>2, <2>3, <2>4
<1>7. at = b
  BY <1>3, <1>5, <1>6, <1>9, SeqEqual
<1>8. RemoveAt(a, 1) = Tail(a) /\ RemoveAt(m, 1) = Tail(m)
  BY <1>2, <1>4, RemoveAtFirst
<1>. QED  BY <1>4, <1>7, <1>8 DEF a, b, at, mt

LEMMA TasksShipped ==
  ASSUME NEW p \in Nat, NEW s \in BOOLEAN, NEW m \in Seq(Nat)
  PROVE  [i \in DOMAIN TasksOf(p, s, m) |-> [TasksOf(p, s, m)[i] EXCEPT !.shipped = TRUE]]
           = TasksOf(p, TRUE, m)
<1>1. DOMAIN TasksOf(p, s, m) = DOMAIN m
  BY DEF TasksOf
<1>2. \A i \in DOMAIN m : [TasksOf(p, s, m)[i] EXCEPT !.shipped = TRUE]
                            = [port |-> p, shipped |-> TRUE, message |-> m[i]]
  <2> SUFFICES ASSUME NEW i \in DOMAIN m
               PROVE  [TasksOf(p, s, m)[i] EXCEPT !.shipped = TRUE]
                        = [port |-> p, shipped |-> TRUE, message |-> m[i]]
    OBVIOUS
  <2>1. TasksOf(p, s, m)[i] = [port |-> p, shipped |-> s, message |-> m[i]]
    BY DEF TasksOf
  <2>2. [[port |-> p, shipped |-> s, message |-> m[i]] EXCEPT !.shipped = TRUE]
          = [port |-> p, shipped |-> TRUE, message |-> m[i]]
    <3> DEFINE a == [port |-> p, shipped |-> s, message |-> m[i]]
               b == [a EXCEPT !.shipped = TRUE]
    <3>1. /\ DOMAIN b = {"port", "shipped", "message"}
          /\ b.port = p /\ b.shipped = TRUE /\ b.message = m[i]
      OBVIOUS
    <3>2. b = [port |-> b.port, shipped |-> b.shipped, message |-> b.message]
      <4>1. m[i] \in Nat
        BY LenProperties, ElementOfSeq
      <4>2. a \in Tasks
        BY <4>1 DEF Tasks
      <4>3. b \in Tasks
        BY <4>2 DEF Tasks
      <4>4. \A t \in Tasks : t = [port |-> t.port, shipped |-> t.shipped, message |-> t.message]
        BY DEF Tasks
      <4>. QED  BY <4>3, <4>4, Zenon
    <3>. QED  BY <3>1, <3>2, Zenon
  <2>. QED  BY <2>1, <2>2, Zenon
<1>. QED  BY <1>1, <1>2 DEF TasksOf

-----------------------------------------------------------------------------
(* The order of messages.                                                   *)

LEMMA CountsAppend ==
  ASSUME NEW s \in Seq(Nat), NEW k \in Nat, Counts(s, k)
  PROVE  /\ Counts(Append(s, k + Len(s) + 1), k)
         /\ Len(Append(s, k + Len(s) + 1)) = Len(s) + 1
<1> DEFINE x == k + Len(s) + 1   sx == Append(s, x)
<1>1. x \in Nat /\ Len(s) \in Nat
  BY LenProperties
<1> HIDE DEF x
<1>2. /\ Len(sx) = Len(s) + 1 /\ sx[Len(s) + 1] = x
      /\ \A i \in 1..Len(s) : sx[i] = s[i]
  BY <1>1, AppendProperties
<1> HIDE DEF sx
<1>3. ASSUME NEW i \in 1..(Len(s) + 1)
      PROVE  sx[i] = k + i
  <2>1. CASE i \in 1..Len(s)
    BY <2>1, <1>2 DEF Counts
  <2>2. CASE i = Len(s) + 1
    BY <2>2, <1>1, <1>2 DEF x
  <2>. QED  BY <2>1, <2>2, <1>1
<1>4. Counts(sx, k) /\ Len(sx) = Len(s) + 1
  BY <1>2, <1>3 DEF Counts
<1>. QED  BY <1>4 DEF sx, x

LEMMA CountsTail ==
  ASSUME NEW s \in Seq(Nat), NEW k \in Nat, Counts(s, k), s # <<>>
  PROVE  /\ Counts(Tail(s), k + 1) /\ Len(Tail(s)) = Len(s) - 1
         /\ Tail(s) \in Seq(Nat) /\ Head(s) = s[1] /\ s[1] = k + 1
<1> DEFINE t == Tail(s)
<1>1. /\ t \in Seq(Nat) /\ Len(t) = Len(s) - 1 /\ Len(s) \in Nat \ {0}
      /\ \A i \in 1..Len(t) : t[i] = s[i + 1]
      /\ Head(s) = s[1]
  BY HeadTailProperties, EmptySeq
<1>2. s[1] = k + 1
  BY <1>1 DEF Counts
<1> HIDE DEF t
<1>3. ASSUME NEW i \in 1..Len(t)
      PROVE  t[i] = k + 1 + i
  <2>1. i + 1 \in 1..Len(s) /\ t[i] = s[i + 1]
    BY <1>1
  <2>2. s[i + 1] = k + (i + 1)
    BY <2>1 DEF Counts
  <2>. QED  BY <2>1, <2>2
<1>4. Counts(t, k + 1)
  BY <1>3 DEF Counts
<1>. QED  BY <1>1, <1>2, <1>4 DEF t

LEMMA OrderArrives ==
  ASSUME NEW r \in Seq(Nat), NEW m \in Seq(Nat), NEW p \in Seq(Nat), NEW n \in Nat,
         NEW c \in BOOLEAN, InOrder(r, m, p, n, c), p # <<>>
  PROVE  InOrder(r, Append(m, Head(p)), Tail(p), n, c)
<1> DEFINE mm == Append(m, Head(p))   pp == Tail(p)
<1>0. Len(r) \in Nat /\ Len(m) \in Nat /\ Len(p) \in Nat
  BY LenProperties
<1>1. Counts(r, 0) /\ Counts(m, Len(r)) /\ Counts(p, Len(r) + Len(m))
  BY DEF InOrder
<1>2. /\ Counts(pp, Len(r) + Len(m) + 1) /\ Len(pp) = Len(p) - 1
      /\ Head(p) = Len(r) + Len(m) + 1
  BY <1>0, <1>1, CountsTail
<1>3. Counts(mm, Len(r)) /\ Len(mm) = Len(m) + 1
  BY <1>0, <1>1, <1>2, CountsAppend
<1> HIDE DEF mm, pp
<1>4. Len(r) + Len(mm) = Len(r) + Len(m) + 1
  BY <1>0, <1>3
<1>5. Counts(pp, Len(r) + Len(mm))
  BY <1>2, <1>4, Zenon
<1>6. /\ Len(r) + Len(mm) + Len(pp) <= n
      /\ c => Len(r) + Len(mm) + Len(pp) = n
  <2>1. Len(r) + Len(m) + Len(p) <= n /\ (c => Len(r) + Len(m) + Len(p) = n)
    BY DEF InOrder
  <2>2. Len(mm) = Len(m) + 1 /\ Len(pp) = Len(p) - 1
    BY <1>2, <1>3
  <2>3. Len(r) + Len(mm) + Len(pp) = Len(r) + Len(m) + Len(p)
    BY <2>2, <1>0
  <2>. QED  BY <2>1, <2>3
<1>7. InOrder(r, mm, pp, n, c)
  BY <1>1, <1>3, <1>5, <1>6, Zenon DEF InOrder
<1>. QED  BY <1>7 DEF mm, pp

LEMMA OrderDelivers ==
  ASSUME NEW r \in Seq(Nat), NEW m \in Seq(Nat), NEW p \in Seq(Nat), NEW n \in Nat,
         NEW c \in BOOLEAN, InOrder(r, m, p, n, c), m # <<>>
  PROVE  /\ InOrder(Append(r, m[1]), RemoveAt(m, 1), p, n, c)
         /\ m[1] = Len(r) + 1 /\ Len(r) < n
<1> DEFINE mm == RemoveAt(m, 1)   rr == Append(r, m[1])
<1>0. Len(r) \in Nat /\ Len(m) \in Nat /\ Len(p) \in Nat
  BY LenProperties
<1>1. Counts(r, 0) /\ Counts(m, Len(r)) /\ Counts(p, Len(r) + Len(m))
  BY DEF InOrder
<1>2. Counts(mm, Len(r) + 1) /\ Len(mm) = Len(m) - 1 /\ m[1] = Len(r) + 1
  <2>1. mm = Tail(m)
    BY RemoveAtFirst
  <2>2. /\ Counts(Tail(m), Len(r) + 1) /\ Len(Tail(m)) = Len(m) - 1
        /\ m[1] = Len(r) + 1
    BY <1>0, <1>1, CountsTail
  <2>. QED  BY <2>1, <2>2, Zenon
<1>3. m[1] = 0 + Len(r) + 1
  BY <1>0, <1>2
<1>4. Counts(rr, 0) /\ Len(rr) = Len(r) + 1
  BY <1>1, <1>3, CountsAppend
<1> HIDE DEF mm, rr
<1>5. Len(rr) + Len(mm) = Len(r) + Len(m) /\ Len(mm) \in Nat
  BY <1>0, <1>2, <1>4, EmptySeq
<1>6. Counts(mm, Len(rr)) /\ Counts(p, Len(rr) + Len(mm))
  BY <1>1, <1>2, <1>4, <1>5, Zenon
<1>7. /\ Len(rr) + Len(mm) + Len(p) <= n
      /\ c => Len(rr) + Len(mm) + Len(p) = n
      /\ Len(r) < n
  BY <1>0, <1>2, <1>4, <1>5 DEF InOrder
<1>8. InOrder(rr, mm, p, n, c)
  BY <1>4, <1>6, <1>7, Zenon DEF InOrder
<1>. QED  BY <1>2, <1>7, <1>8 DEF mm, rr

LEMMA OrderPiped ==
  ASSUME NEW r \in Seq(Nat), NEW m \in Seq(Nat), NEW p \in Seq(Nat), NEW n \in Nat,
         NEW c \in BOOLEAN, InOrder(r, m, p, n, TRUE)
  PROVE  InOrder(r, m, Append(p, n + 1), n + 1, c)
<1> DEFINE pp == Append(p, n + 1)
<1>0. Len(r) \in Nat /\ Len(m) \in Nat /\ Len(p) \in Nat
  BY LenProperties
<1>1. /\ Counts(r, 0) /\ Counts(m, Len(r)) /\ Counts(p, Len(r) + Len(m))
      /\ n = Len(r) + Len(m) + Len(p)
  BY DEF InOrder
<1>2. Counts(pp, Len(r) + Len(m)) /\ Len(pp) = Len(p) + 1
  BY <1>0, <1>1, CountsAppend
<1> HIDE DEF pp
<1>3. InOrder(r, m, pp, n + 1, c)
  BY <1>0, <1>1, <1>2 DEF InOrder
<1>. QED  BY <1>3 DEF pp

LEMMA OrderPosted ==
  ASSUME NEW r \in Seq(Nat), NEW m \in Seq(Nat), NEW n \in Nat, NEW c \in BOOLEAN,
         InOrder(r, m, <<>>, n, TRUE)
  PROVE  InOrder(r, Append(m, n + 1), <<>>, n + 1, c)
<1> DEFINE mm == Append(m, n + 1)
<1>0. Len(r) \in Nat /\ Len(m) \in Nat /\ Len(<<>>) = 0
  BY LenProperties
<1>1. /\ Counts(r, 0) /\ Counts(m, Len(r)) /\ n = Len(r) + Len(m)
  BY <1>0 DEF InOrder
<1>2. Counts(mm, Len(r)) /\ Len(mm) = Len(m) + 1
  BY <1>0, <1>1, CountsAppend
<1> HIDE DEF mm
<1>3. InOrder(r, mm, <<>>, n + 1, c)
  BY <1>0, <1>1, <1>2 DEF InOrder, Counts
<1>. QED  BY <1>3 DEF mm

LEMMA OrderLost ==
  ASSUME NEW r \in Seq(Nat), NEW m \in Seq(Nat), NEW p \in Seq(Nat), NEW n \in Nat,
         NEW c \in BOOLEAN, InOrder(r, m, p, n, c)
  PROVE  /\ InOrder(r, m, p, n, FALSE) /\ InOrder(r, m, <<>>, n, FALSE)
         /\ InOrder(r, <<>>, <<>>, n, FALSE) /\ InOrder(r, m, p, n + 1, FALSE)
<1>1. Len(r) \in Nat /\ Len(m) \in Nat /\ Len(p) \in Nat /\ Len(<<>>) = 0
  BY LenProperties
<1>. QED  BY <1>1 DEF InOrder, Counts

LEMMA OrderWeaker ==
  ASSUME NEW r, NEW m, NEW p, NEW n, NEW c \in BOOLEAN, NEW b \in BOOLEAN,
         InOrder(r, m, p, n, c), b => c
  PROVE  InOrder(r, m, p, n, b)
BY DEF InOrder

-----------------------------------------------------------------------------
(* What the actions do in the states of the invariant.                      *)

LEMMA PeerFacts ==
  ASSUME NEW e \in Ends
  PROVE  /\ Peer(e) \in Ends /\ Peer(e) # e /\ Peer(Peer(e)) = e
         /\ \A x \in Ends : x = e \/ x = Peer(e)
BY DEF Ends, Peer

LEMMA Typed ==
  ASSUME TypeOK, NEW e \in Ends
  PROVE  /\ place[e] \in {"held", "transit", "portable", "discarded"}
         /\ thread[e] \in Thread /\ port[e] \in Nat
         /\ started[e] \in BOOLEAN /\ closed[e] \in BOOLEAN /\ shipped[e] \in BOOLEAN
         /\ messages[e] \in Seq(Nat) /\ tasks[e] \in Seq(Tasks)
         /\ remote \in BOOLEAN /\ native[e] \in BOOLEAN
         /\ pipe[e] \in Seq(Nat) /\ notices[e] \in Seq(Thread \cup {NoThread})
         /\ hangup[e] \in BOOLEAN /\ remoteEnvId[e] \in Thread \cup {NoThread}
         /\ posted[e] \in Nat /\ received[e] \in Seq(Nat)
BY DEF TypeOK

LEMMA DeliverFacts ==
  ASSUME IInv, NEW e \in Ends, Deliver(e)
  PROVE  /\ place[e] = "held" /\ messages[e] # <<>>
         /\ received' = [received EXCEPT ![e] = Append(@, messages[e][1])]
         /\ messages' = [messages EXCEPT ![e] = RemoveAt(@, 1)]
         /\ tasks' = [tasks EXCEPT ![e] = RemoveAt(@, 1)]
         /\ UNCHANGED <<object, shipped, link, posted>>
<1>0. TypeOK /\ Tasked(e) /\ Ordered(e)
  BY DEF IInv
<1>1. PICK i \in DOMAIN tasks[e] :
        /\ IsFirst(e, i)
        /\ tasks' = [tasks EXCEPT ![e] = RemoveAt(@, i)]
        /\ received' = [received EXCEPT ![e] = Append(@, tasks[e][i].message)]
        /\ IF place[e] = "held" /\ tasks[e][i].port = port[e]
           THEN \E k \in DOMAIN messages[e] :
                  /\ messages[e][k] = tasks[e][i].message
                  /\ messages' = [messages EXCEPT ![e] = RemoveAt(@, k)]
           ELSE UNCHANGED messages
        /\ UNCHANGED <<object, shipped, link, posted>>
  BY Zenon DEF Deliver
<1> DEFINE p == port[e]   s == shipped[e]   m == messages[e]   t == tasks[e]
<1>2. p \in Nat /\ s \in BOOLEAN /\ m \in Seq(Nat) /\ t \in Seq(Tasks)
  BY <1>0, Typed
<1>3. DOMAIN t = 1..Len(t) /\ DOMAIN m = 1..Len(m) /\ Len(t) \in Nat /\ Len(m) \in Nat
  BY <1>2, LenProperties
<1>4. place[e] = "held"
  <2> SUFFICES ASSUME place[e] # "held"
               PROVE  FALSE
    OBVIOUS
  <2>1. t = <<>>
    BY <1>0 DEF Tasked
  <2>. QED  BY <1>1, <1>3, <2>1
<1>5. t = TasksOf(p, s, m)
  BY <1>0, <1>4 DEF Tasked
<1> HIDE DEF p, s, m, t
<1>6. /\ Len(t) = Len(m)
      /\ \A j \in 1..Len(m) : t[j] = [port |-> p, shipped |-> s, message |-> m[j]]
  BY <1>2, <1>5, TasksOfSeq
<1>7. i \in 1..Len(m) /\ 1 \in 1..Len(m)
  BY <1>1, <1>3, <1>6 DEF t
<1>13. t[1] = [port |-> p, shipped |-> s, message |-> m[1]]
  BY <1>6, <1>7
<1>14. t[i] = [port |-> p, shipped |-> s, message |-> m[i]]
  BY <1>6, <1>7
<1>8. i = 1
  <2> SUFFICES ASSUME i # 1
               PROVE  FALSE
    OBVIOUS
  <2>1. 1 \in 1..(i - 1)
    BY <1>7, <1>3
  <2>2. t[1].port # t[i].port \/ t[1].shipped # t[i].shipped
    BY <1>1, <2>1 DEF IsFirst, t
  <2>. QED  BY <1>13, <1>14, <2>2
<1>9. t[1].port = p /\ t[1].message = m[1]
  BY <1>13
<1>10. PICK k \in DOMAIN messages[e] :
         /\ m[k] = m[1]
         /\ messages' = [messages EXCEPT ![e] = RemoveAt(@, k)]
  BY <1>1, <1>4, <1>8, <1>9, Zenon DEF p, m, t
<1>11. k = 1
  <2>1. \A j \in 1..Len(m) : m[j] = Len(received[e]) + j
    BY <1>0 DEF Ordered, InOrder, Counts, m
  <2>2. Len(received[e]) \in Nat
    BY <1>0, Typed, LenProperties
  <2>3. k \in 1..Len(m)
    BY <1>3, <1>10 DEF m
  <2>4. m[k] = Len(received[e]) + k /\ m[1] = Len(received[e]) + 1
    BY <1>7, <2>1, <2>3
  <2>5. Len(received[e]) + k = Len(received[e]) + 1
    BY <1>10, <2>4
  <2>. QED  BY <2>2, <2>3, <2>5, <1>3
<1>12. m # <<>>
  BY <1>7
<1>. QED  BY <1>1, <1>4, <1>8, <1>9, <1>10, <1>11, <1>12, Zenon DEF m, t

LEMMA ShippedFacts ==
  ASSUME IInv, NEW e \in Ends
  PROVE  IF place[e] = "held"
         THEN Shipped(e) = TasksOf(port[e], TRUE, messages[e])
         ELSE Shipped(e) = <<>>
<1>0. Tasked(e)
  BY DEF IInv
<1>1. port[e] \in Nat /\ shipped[e] \in BOOLEAN /\ messages[e] \in Seq(Nat)
  BY Typed DEF IInv
<1>2. CASE place[e] # "held"
  BY <1>0, <1>2 DEF Tasked, Shipped
<1>3. CASE place[e] = "held" /\ shipped[e]
  BY <1>0, <1>1, <1>3 DEF Tasked, Shipped
<1>4. CASE place[e] = "held" /\ ~shipped[e]
  <2>1. tasks[e] = TasksOf(port[e], shipped[e], messages[e])
    BY <1>0, <1>4 DEF Tasked
  <2>2. Shipped(e) = [i \in DOMAIN tasks[e] |-> [tasks[e][i] EXCEPT !.shipped = TRUE]]
    BY <1>4, Zenon DEF Shipped
  <2> DEFINE t == TasksOf(port[e], shipped[e], messages[e])
  <2>3. [i \in DOMAIN t |-> [t[i] EXCEPT !.shipped = TRUE]] = TasksOf(port[e], TRUE, messages[e])
    BY <1>1, TasksShipped, Zenon
  <2> HIDE DEF t
  <2>4. tasks[e] = t
    BY <2>1 DEF t
  <2>. QED  BY <1>4, <2>2, <2>3, <2>4
<1>. QED  BY <1>2, <1>3, <1>4

LEMMA GivenFacts ==
  ASSUME IInv, NEW e \in Ends, place[e] = "held"
  PROVE  /\ Given(e) \in [Ends -> Seq(Tasks)] /\ Given(e)[e] = <<>>
         /\ Given(e)[Peer(e)] =
              IF place[Peer(e)] = "held"
              THEN TasksOf(port[Peer(e)], shipped[Peer(e)] \/ remote, messages[Peer(e)])
              ELSE <<>>
<1> DEFINE d == Peer(e)
<1>0. TypeOK /\ Tasked(e) /\ Tasked(d) /\ d \in Ends /\ d # e
  BY PeerFacts DEF IInv
<1>1. /\ port[e] \in Nat /\ shipped[e] \in BOOLEAN /\ messages[e] \in Seq(Nat)
      /\ port[d] \in Nat /\ shipped[d] \in BOOLEAN /\ messages[d] \in Seq(Nat)
      /\ remote \in BOOLEAN /\ tasks \in [Ends -> Seq(Tasks)]
  BY <1>0, Typed DEF TypeOK
<1>2. OfOthers(e) = <<>>
  <2>1. tasks[e] = TasksOf(port[e], shipped[e], messages[e])
    BY <1>0 DEF Tasked
  <2>2. \A i \in DOMAIN tasks[e] : tasks[e][i].port = port[e]
    BY <2>1 DEF TasksOf
  <2>. QED  BY <2>2, Zenon DEF OfOthers
<1>3. Given(e) = [tasks EXCEPT ![e] = <<>>, ![d] = IF remote THEN Shipped(d) ELSE @]
  BY <1>2, Zenon DEF Given
<1>4. (IF remote THEN Shipped(d) ELSE tasks[d])
        = IF place[d] = "held" THEN TasksOf(port[d], shipped[d] \/ remote, messages[d]) ELSE <<>>
  <2>1. CASE remote
    <3>1. (shipped[d] \/ remote) = TRUE
      BY <2>1, <1>1
    <3>. QED  BY <1>0, <2>1, <3>1, ShippedFacts, Zenon
  <2>2. CASE ~remote
    <3>1. (shipped[d] \/ remote) = shipped[d]
      BY <2>2, <1>1
    <3>. QED  BY <1>0, <2>2, <3>1, Zenon DEF Tasked
  <2>. QED  BY <2>1, <2>2
<1>5. (IF remote THEN Shipped(d) ELSE tasks[d]) \in Seq(Tasks) /\ <<>> \in Seq(Tasks)
  <2>1. (shipped[d] \/ remote) \in BOOLEAN
    BY <1>1
  <2>2. TasksOf(port[d], shipped[d] \/ remote, messages[d]) \in Seq(Tasks)
    BY <1>1, <2>1, TasksOfSeq
  <2>3. CASE place[d] = "held"
    BY <1>4, <2>2, <2>3
  <2>4. CASE place[d] # "held"
    <3>1. (IF remote THEN Shipped(d) ELSE tasks[d]) = <<>>
      BY <1>4, <2>4
    <3>2. <<>> \in Seq(Tasks)
      OBVIOUS
    <3>. QED  BY <3>1, <3>2, Zenon
  <2>5. <<>> \in Seq(Tasks)
    OBVIOUS
  <2>. QED  BY <2>3, <2>4, <2>5
<1> HIDE DEF d
<1>6. /\ Given(e) \in [Ends -> Seq(Tasks)] /\ Given(e)[e] = <<>>
      /\ Given(e)[d] = IF remote THEN Shipped(d) ELSE tasks[d]
  BY <1>0, <1>1, <1>3, <1>5
<1>. QED  BY <1>4, <1>6, Zenon DEF d

LEMMA RequeuedFacts ==
  ASSUME IInv, NEW e \in Ends, place[e] # "held"
  PROVE  /\ shipped[e] /\ Requeued(e) = TasksOf(port[e] + 1, TRUE, messages[e])
         /\ Requeued(e) \in Seq(Tasks)
<1>0. TypeOK /\ tasks[e] = <<>> /\ shipped[e]
  BY DEF IInv, Tasked
<1>1. port[e] + 1 \in Nat /\ messages[e] \in Seq(Nat)
  BY <1>0, Typed
<1> DEFINE q == TasksOf(port[e] + 1, TRUE, messages[e])
<1>2. q \in Seq(Tasks)
  BY <1>1, TasksOfSeq
<1>3. Requeued(e) = tasks[e] \o q
  BY DEF Requeued, TasksOf
<1> HIDE DEF q
<1>4. <<>> \o q = q
  BY <1>2, ConcatEmptySeq
<1>. QED  BY <1>0, <1>2, <1>3, <1>4 DEF q

-----------------------------------------------------------------------------
(* The invariant holds at first.                                            *)

LEMMA InitInv ==
  ASSUME Init
  PROVE  IInv
<1>1. TypeOK
  BY DEF Init, TypeOK, Every
<1>2. ASSUME NEW e \in Ends
      PROVE  Ordered(e) /\ Linked(e) /\ Tasked(e) /\ Known(e)
  <2>1. /\ received[e] = <<>> /\ messages[e] = <<>> /\ pipe[e] = <<>> /\ posted[e] = 0
        /\ tasks[e] = <<>> /\ place[e] = "held" /\ native[e] = FALSE /\ notices[e] = <<>>
    BY DEF Init, Every
  <2>2. Ordered(e)
    BY <2>1 DEF Ordered, InOrder, Counts
  <2>3. Tasked(e)
    BY <2>1 DEF Tasked, TasksOf
  <2>4. Linked(e) /\ Known(e)
    BY <2>1 DEF Linked, Known
  <2>. QED  BY <2>2, <2>3, <2>4
<1>. QED  BY <1>1, <1>2 DEF IInv

-----------------------------------------------------------------------------
(* Every action keeps it: types.                                            *)

LEMMA DisentangleTyped ==
  ASSUME TypeOK, NEW e \in Ends, Disentangle(e)
  PROVE  /\ remote' \in BOOLEAN /\ native' \in [Ends -> BOOLEAN]
         /\ pipe' \in [Ends -> Seq(Nat)] /\ hangup' \in [Ends -> BOOLEAN]
         /\ remoteEnvId' \in [Ends -> Thread \cup {NoThread}]
<1> DEFINE d == Peer(e)   h == hangup[d] \/ (native[e] /\ native[d])
<1>1. d \in Ends /\ d # e
  BY PeerFacts
<1>2. h \in BOOLEAN
  OBVIOUS
<1>3. hangup' = [hangup EXCEPT ![e] = FALSE, ![d] = h]
  <2>1. [hangup EXCEPT ![e] = FALSE][d] = hangup[d]
    BY <1>1 DEF TypeOK
  <2>2. hangup' = [hangup EXCEPT ![e] = FALSE, ![d] = @ \/ (native[e] /\ native[d])]
    BY DEF Disentangle
  <2>. QED  BY <2>1, <2>2
<1> HIDE DEF h, d
<1>4. hangup' \in [Ends -> BOOLEAN]
  BY <1>1, <1>2, <1>3 DEF TypeOK
<1>5. remote' \in BOOLEAN /\ native' \in [Ends -> BOOLEAN]
  BY DEF TypeOK, Disentangle
<1>6. pipe' \in [Ends -> Seq(Nat)]
  <2>1. <<>> \in Seq(Nat)
    OBVIOUS
  <2>. QED  BY <2>1 DEF TypeOK, Disentangle
<1>7. remoteEnvId' \in [Ends -> Thread \cup {NoThread}]
  BY DEF TypeOK, Disentangle
<1>. QED  BY <1>4, <1>5, <1>6, <1>7

LEMMA ShippedWithTyped ==
  ASSUME TypeOK, NEW e \in Ends
  PROVE  /\ ShippedWith(e) \in [Ends -> BOOLEAN]
         /\ ShippedWith(e)[e] = TRUE
         /\ ShippedWith(e)[Peer(e)] = (shipped[Peer(e)] \/ remote)
<1> DEFINE d == Peer(e)   h == shipped[d] \/ remote
<1>1. d \in Ends /\ d # e
  BY PeerFacts
<1>2. h \in BOOLEAN
  OBVIOUS
<1>3. ShippedWith(e) = [shipped EXCEPT ![e] = TRUE, ![d] = h]
  <2>1. [shipped EXCEPT ![e] = TRUE][d] = shipped[d]
    BY <1>1 DEF TypeOK
  <2>2. ShippedWith(e) = [shipped EXCEPT ![e] = TRUE, ![d] = @ \/ remote]
    BY DEF ShippedWith
  <2>. QED  BY <2>1, <2>2
<1> HIDE DEF h, d
<1>4. /\ ShippedWith(e) \in [Ends -> BOOLEAN] /\ ShippedWith(e)[e] = TRUE
      /\ ShippedWith(e)[d] = h
  BY <1>1, <1>2, <1>3 DEF TypeOK
<1>. QED  BY <1>4, Zenon DEF h, d

LEMMA TypeStep ==
  ASSUME IInv, NEW e \in Ends,
         \/ Start(e) \/ Deliveries(e) \/ Receipt(e)
         \/ PostToPipe(e) \/ PostLocally(e) \/ PostDoomed(e)
         \/ Transfer(e) \/ Prepare(e) \/ Close(e) \/ Discard(e)
  PROVE  TypeOK'
<1> DEFINE d == Peer(e)
<1>0. TypeOK /\ d \in Ends /\ d # e
  BY PeerFacts DEF IInv
<1>e. <<>> \in Seq(Nat) /\ <<>> \in Seq(Tasks) /\ <<>> \in Seq(Thread \cup {NoThread})
  OBVIOUS
<1> USE DEF object, queue, link, history
<1>1. CASE Start(e)
  BY <1>0, <1>1 DEF TypeOK, Start
<1>2. CASE Deliver(e)
  <2>1. /\ place[e] = "held" /\ messages[e] # <<>>
        /\ received' = [received EXCEPT ![e] = Append(@, messages[e][1])]
        /\ messages' = [messages EXCEPT ![e] = RemoveAt(@, 1)]
        /\ tasks' = [tasks EXCEPT ![e] = RemoveAt(@, 1)]
        /\ UNCHANGED <<object, shipped, link, posted>>
    BY <1>2, DeliverFacts
  <2>2. messages[e] \in Seq(Nat) /\ tasks[e] \in Seq(Tasks) /\ received[e] \in Seq(Nat)
    BY <1>0, Typed
  <2>3. Append(received[e], messages[e][1]) \in Seq(Nat)
    <3>1. messages[e][1] \in Nat
      BY <2>1, <2>2, EmptySeq, ElementOfSeq
    <3>. QED  BY <2>2, <3>1, AppendProperties
  <2>4. RemoveAt(messages[e], 1) \in Seq(Nat)
    BY <2>1, <2>2, RemoveAtFirst, HeadTailProperties
  <2>5. RemoveAt(tasks[e], 1) \in Seq(Tasks)
    <3>1. tasks[e] # <<>>
      <4>1. tasks[e] = TasksOf(port[e], shipped[e], messages[e])
        BY <2>1 DEF IInv, Tasked
      <4>. QED  BY <4>1, <1>0, Typed, <2>1, TasksTail
    <3>. QED  BY <2>2, <3>1, RemoveAtFirst, HeadTailProperties
  <2>. QED  BY <1>0, <2>1, <2>3, <2>4, <2>5 DEF TypeOK
<1>3. CASE MessageArrives(e)
  <2>1. pipe[e] \in Seq(Nat) /\ pipe[e] # <<>> /\ messages[e] \in Seq(Nat) /\ tasks[e] \in Seq(Tasks)
    BY <1>0, <1>3, Typed DEF MessageArrives
  <2>2. Head(pipe[e]) \in Nat /\ Tail(pipe[e]) \in Seq(Nat)
    BY <2>1, HeadTailProperties
  <2>3. TaskFor(e, Head(pipe[e])) \in Tasks
    BY <1>0, <2>2, Typed DEF TaskFor, Tasks
  <2>4. /\ Append(messages[e], Head(pipe[e])) \in Seq(Nat)
        /\ Append(tasks[e], TaskFor(e, Head(pipe[e]))) \in Seq(Tasks)
    BY <2>1, <2>2, <2>3, AppendProperties
  <2>. QED  BY <1>0, <1>3, <2>2, <2>4 DEF TypeOK, MessageArrives
<1>4. CASE OwnerArrives(e)
  <2>1. notices[e] \in Seq(Thread \cup {NoThread}) /\ notices[e] # <<>>
    BY <1>0, <1>4, Typed DEF OwnerArrives
  <2>2. Head(notices[e]) \in Thread \cup {NoThread} /\ Tail(notices[e]) \in Seq(Thread \cup {NoThread})
    BY <2>1, HeadTailProperties
  <2>. QED  BY <1>0, <1>4, <2>2 DEF TypeOK, OwnerArrives
<1>5. CASE HangupArrives(e)
  BY <1>0, <1>5 DEF TypeOK, HangupArrives
<1>6. ASSUME NEW t \in Thread \cup {NoThread}
      PROVE  Notified(e, t) \in [Ends -> Seq(Thread \cup {NoThread})]
  <2>1. notices[d] \in Seq(Thread \cup {NoThread})
    BY <1>0, Typed
  <2>2. Append(notices[d], t) \in Seq(Thread \cup {NoThread})
    BY <2>1, AppendProperties
  <2>. QED  BY <1>0, <2>2 DEF TypeOK, Notified
<1>7. ASSUME NEW t \in Thread, Receive(e, t)
      PROVE  TypeOK'
  <2>1. place[e] # "held"
    BY <1>7 DEF Receive
  <2>2. Requeued(e) \in Seq(Tasks)
    BY <2>1, RequeuedFacts
  <2>3. Notified(e, t) \in [Ends -> Seq(Thread \cup {NoThread})]
    BY <1>6
  <2>4. notices' \in [Ends -> Seq(Thread \cup {NoThread})]
    BY <1>0, <1>7, <2>3 DEF Receive, TypeOK
  <2>5. port[e] + 1 \in Nat
    BY <1>0, Typed
  <2>6. /\ place' \in [Ends -> {"held", "transit", "portable", "discarded"}]
        /\ thread' \in [Ends -> Thread] /\ port' \in [Ends -> Nat]
        /\ started' \in [Ends -> BOOLEAN]
    BY <1>0, <1>7, <2>5 DEF TypeOK, Receive
  <2>7. tasks' \in [Ends -> Seq(Tasks)]
    BY <1>0, <1>7, <2>2 DEF TypeOK, Receive
  <2>8. UNCHANGED <<closed, shipped, messages, remote, native, pipe, hangup,
                    remoteEnvId, history>>
    BY <1>7 DEF Receive
  <2>. QED  BY <1>0, <2>4, <2>6, <2>7, <2>8 DEF TypeOK
<1>8. posted[d] + 1 \in Nat /\ Append(pipe[d], posted[d] + 1) \in Seq(Nat)
      /\ Append(messages[d], posted[d] + 1) \in Seq(Nat)
  BY <1>0, Typed, AppendProperties
<1>9. CASE PostToPipe(e)
  BY <1>0, <1>8, <1>9 DEF TypeOK, PostToPipe, CanPost
<1>10. CASE PostLocally(e)
  <2>1. TaskFor(d, posted[d] + 1) \in Tasks /\ tasks[d] \in Seq(Tasks)
    BY <1>0, <1>8, Typed DEF TaskFor, Tasks
  <2>2. Append(tasks[d], TaskFor(d, posted[d] + 1)) \in Seq(Tasks)
    BY <2>1, AppendProperties
  <2>. QED  BY <1>0, <1>8, <1>10, <2>2 DEF TypeOK, PostLocally, CanPost
<1>11. CASE PostDoomed(e)
  <2>1. /\ place[d] = "held" /\ tasks' = Given(d)
        /\ Peer(d) = e
    BY <1>11, PeerFacts DEF PostDoomed, CanTransfer
  <2>2. Given(d) \in [Ends -> Seq(Tasks)]
    BY <1>0, <2>1, GivenFacts
  <2>3. Append(notices[e], NoThread) \in Seq(Thread \cup {NoThread})
    BY <1>0, Typed, AppendProperties
  <2>4. /\ Disentangle(d) /\ shipped' = ShippedWith(d)
        /\ place' = [place EXCEPT ![d] = "discarded"]
        /\ messages' = [messages EXCEPT ![d] = <<>>]
        /\ notices' = [notices EXCEPT
                         ![d] = <<>>,
                         ![e] = IF native[d] THEN Append(@, NoThread) ELSE @]
        /\ UNCHANGED <<thread, port, started, closed, history>>
    BY <1>11 DEF PostDoomed
  <2>5. shipped' \in [Ends -> BOOLEAN]
    BY <1>0, <2>4, ShippedWithTyped
  <2>6. /\ remote' \in BOOLEAN /\ native' \in [Ends -> BOOLEAN]
        /\ pipe' \in [Ends -> Seq(Nat)] /\ hangup' \in [Ends -> BOOLEAN]
        /\ remoteEnvId' \in [Ends -> Thread \cup {NoThread}]
    BY <1>0, <2>4, DisentangleTyped
  <2>7. notices' \in [Ends -> Seq(Thread \cup {NoThread})]
    <3>1. notices[e] \in Seq(Thread \cup {NoThread})
      BY <1>0, Typed
    <3> DEFINE n == IF native[d] THEN Append(notices[e], NoThread) ELSE notices[e]
    <3>2. n \in Seq(Thread \cup {NoThread})
      BY <2>3, <3>1
    <3>3. [notices EXCEPT ![d] = <<>>][e] = notices[e]
      BY <1>0 DEF TypeOK
    <3>4. notices' = [notices EXCEPT ![d] = <<>>, ![e] = n]
      BY <2>4, <3>3
    <3> HIDE DEF n
    <3>. QED  BY <1>0, <1>e, <3>2, <3>4 DEF TypeOK
  <2>8. /\ place' \in [Ends -> {"held", "transit", "portable", "discarded"}]
        /\ messages' \in [Ends -> Seq(Nat)]
    BY <1>0, <1>e, <2>4 DEF TypeOK
  <2>9. tasks' \in [Ends -> Seq(Tasks)]
    BY <2>1, <2>2
  <2>10. UNCHANGED <<thread, port, started, closed, history>>
    BY <2>4
  <2>. QED  BY <1>0, <2>5, <2>6, <2>7, <2>8, <2>9, <2>10 DEF TypeOK
<1>12. CASE Transfer(e)
  <2>1. place[e] = "held" /\ tasks' = Given(e)
    BY <1>12 DEF Transfer, CanTransfer
  <2>2. Given(e) \in [Ends -> Seq(Tasks)]
    BY <2>1, GivenFacts
  <2>3. Notified(e, NoThread) \in [Ends -> Seq(Thread \cup {NoThread})]
    BY <1>6
  <2>. QED  BY <1>0, <1>12, <2>2, <2>3, ShippedWithTyped DEF TypeOK, Transfer
<1>13. CASE Prepare(e)
  <2> DEFINE owner == IF place[d] = "held" THEN thread[d] ELSE NoThread
  <2>1. owner \in Thread \cup {NoThread}
    BY <1>0, Typed
  <2>2. Append(notices[e], owner) \in Seq(Thread \cup {NoThread})
    BY <1>0, <2>1, Typed, AppendProperties
  <2>3. CASE remote
    <3> HIDE DEF owner
    <3>1. /\ native' = Every(TRUE)
          /\ remoteEnvId' = [remoteEnvId EXCEPT ![e] = owner, ![d] = NoThread]
          /\ notices' = IF place[d] = "held" THEN [notices EXCEPT ![e] = Append(@, owner)]
                                             ELSE notices
      BY <1>13, <2>3, Zenon DEF Prepare, owner
    <3>2. /\ place' = [place EXCEPT ![e] = "portable"] /\ remote' = FALSE
          /\ UNCHANGED <<thread, port, started, closed, queue, pipe, hangup, history>>
      BY <1>13 DEF Prepare
    <3>. QED  BY <1>0, <2>1, <2>2, <3>1, <3>2 DEF TypeOK, Every
  <2>4. CASE ~remote
    BY <1>0, <1>13, <2>4 DEF TypeOK, Prepare
  <2>. QED  BY <2>3, <2>4
<1>14. CASE Close(e)
  <2>1. /\ remote' \in BOOLEAN /\ native' \in [Ends -> BOOLEAN]
        /\ pipe' \in [Ends -> Seq(Nat)] /\ hangup' \in [Ends -> BOOLEAN]
        /\ remoteEnvId' \in [Ends -> Thread \cup {NoThread}]
    BY <1>0, <1>14, DisentangleTyped DEF Close
  <2>2. /\ closed' \in [Ends -> BOOLEAN]
        /\ notices' \in [Ends -> Seq(Thread \cup {NoThread})]
        /\ UNCHANGED <<place, thread, port, started, queue, history>>
    BY <1>0, <1>e, <1>14 DEF TypeOK, Close
  <2>. QED  BY <1>0, <2>1, <2>2 DEF TypeOK
<1>15. CASE Discard(e)
  <2>1. /\ remote' \in BOOLEAN /\ native' \in [Ends -> BOOLEAN]
        /\ pipe' \in [Ends -> Seq(Nat)] /\ hangup' \in [Ends -> BOOLEAN]
        /\ remoteEnvId' \in [Ends -> Thread \cup {NoThread}]
    BY <1>0, <1>15, DisentangleTyped DEF Discard
  <2>2. /\ place' \in [Ends -> {"held", "transit", "portable", "discarded"}]
        /\ messages' \in [Ends -> Seq(Nat)]
        /\ notices' \in [Ends -> Seq(Thread \cup {NoThread})]
        /\ UNCHANGED <<thread, port, started, closed, shipped, tasks, history>>
    BY <1>0, <1>e, <1>15 DEF TypeOK, Discard
  <2>. QED  BY <1>0, <2>1, <2>2 DEF TypeOK
<1>. QED  BY <1>1, <1>2, <1>3, <1>4, <1>5, <1>7, <1>9, <1>10, <1>11, <1>12, <1>13, <1>14, <1>15
          DEF Deliveries, Receipt

-----------------------------------------------------------------------------
(* Every action keeps it: the order of messages.                            *)

LEMMA OrderedSame ==
  ASSUME NEW x \in Ends, Ordered(x),
         received'[x] = received[x], messages'[x] = messages[x],
         pipe'[x] = pipe[x], posted'[x] = posted[x],
         remote' \/ native'[x] => remote \/ native[x]
  PROVE  Ordered(x)'
<1> DEFINE c == remote \/ native[x]   b == remote' \/ native'[x]
<1>1. c \in BOOLEAN /\ b \in BOOLEAN /\ (b => c)
  OBVIOUS
<1>2. InOrder(received[x], messages[x], pipe[x], posted[x], c)
  BY DEF Ordered
<1> HIDE DEF c, b
<1>3. InOrder(received[x], messages[x], pipe[x], posted[x], b)
  BY <1>1, <1>2, OrderWeaker
<1>4. InOrder(received'[x], messages'[x], pipe'[x], posted'[x], b)
  BY <1>3, Zenon
<1>. QED  BY <1>4, Zenon DEF Ordered, b

LEMMA OrderedStep ==
  ASSUME IInv, NEW e \in Ends,
         \/ Start(e) \/ Deliveries(e) \/ Receipt(e)
         \/ PostToPipe(e) \/ PostLocally(e) \/ PostDoomed(e)
         \/ Transfer(e) \/ Prepare(e) \/ Close(e) \/ Discard(e)
  PROVE  Ordered(e)' /\ Ordered(Peer(e))'
<1> DEFINE d == Peer(e)
<1>0. TypeOK /\ d \in Ends /\ d # e /\ Ordered(e) /\ Ordered(d) /\ Linked(e) /\ Linked(d)
  BY PeerFacts DEF IInv
<1>t. /\ received[e] \in Seq(Nat) /\ messages[e] \in Seq(Nat) /\ pipe[e] \in Seq(Nat)
      /\ received[d] \in Seq(Nat) /\ messages[d] \in Seq(Nat) /\ pipe[d] \in Seq(Nat)
      /\ posted[e] \in Nat /\ posted[d] \in Nat
  BY <1>0, Typed
<1> DEFINE ce == remote \/ native[e]   cd == remote \/ native[d]
<1>c. ce \in BOOLEAN /\ cd \in BOOLEAN
  OBVIOUS
<1>o. /\ InOrder(received[e], messages[e], pipe[e], posted[e], ce)
      /\ InOrder(received[d], messages[d], pipe[d], posted[d], cd)
  BY <1>0, Zenon DEF Ordered
<1> USE DEF object, queue, link, history
<1>1. CASE Start(e) \/ OwnerArrives(e) \/ Transfer(e) \/ Receipt(e)
  <2>1. UNCHANGED <<received, messages, pipe, posted, remote, native>>
    BY <1>1 DEF Start, OwnerArrives, Transfer, Receipt, Receive
  <2>. QED  BY <1>0, <2>1, OrderedSame
<1>2. CASE Deliver(e)
  <2>1. /\ messages[e] # <<>>
        /\ received' = [received EXCEPT ![e] = Append(@, messages[e][1])]
        /\ messages' = [messages EXCEPT ![e] = RemoveAt(@, 1)]
        /\ UNCHANGED <<pipe, posted, remote, native>>
    BY <1>2, DeliverFacts
  <2>2. InOrder(Append(received[e], messages[e][1]), RemoveAt(messages[e], 1), pipe[e],
                posted[e], ce)
    BY <1>t, <1>c, <1>o, <2>1, OrderDelivers
  <2>3. received'[e] = Append(received[e], messages[e][1]) /\ messages'[e] = RemoveAt(messages[e], 1)
    BY <1>0, <2>1 DEF TypeOK
  <2>4. Ordered(e)'
    BY <2>1, <2>2, <2>3, Zenon DEF Ordered
  <2>5. received'[d] = received[d] /\ messages'[d] = messages[d]
    BY <1>0, <2>1 DEF TypeOK
  <2>6. Ordered(d)'
    BY <1>0, <2>1, <2>5, OrderedSame
  <2>. QED  BY <2>4, <2>6
<1>3. CASE MessageArrives(e)
  <2>1. /\ pipe[e] # <<>> /\ pipe'[e] = Tail(pipe[e])
        /\ messages'[e] = Append(messages[e], Head(pipe[e]))
        /\ pipe'[d] = pipe[d] /\ messages'[d] = messages[d]
        /\ UNCHANGED <<received, posted, remote, native>>
    BY <1>0, <1>3 DEF TypeOK, MessageArrives
  <2>2. InOrder(received[e], Append(messages[e], Head(pipe[e])), Tail(pipe[e]), posted[e], ce)
    BY <1>t, <1>c, <1>o, <2>1, OrderArrives
  <2>3. Ordered(e)'
    BY <2>1, <2>2, Zenon DEF Ordered
  <2>4. Ordered(d)'
    BY <1>0, <2>1, OrderedSame
  <2>. QED  BY <2>3, <2>4
<1>4. CASE HangupArrives(e)
  <2>1. /\ UNCHANGED <<received, messages, pipe, posted, remote>>
        /\ native'[e] => native[e]
        /\ native'[d] = native[d]
    BY <1>0, <1>4 DEF TypeOK, HangupArrives
  <2>. QED  BY <1>0, <2>1, OrderedSame
<1>5. CASE PostToPipe(e)
  <2>1. /\ native[e] /\ posted'[d] = posted[d] + 1 /\ posted'[e] = posted[e]
        /\ pipe'[e] = pipe[e]
        /\ IF native[d] THEN pipe'[d] = Append(pipe[d], posted[d] + 1) ELSE pipe'[d] = pipe[d]
        /\ UNCHANGED <<received, messages, remote, native>>
    BY <1>0, <1>5 DEF TypeOK, PostToPipe, CanPost
  <2>2. Ordered(e)'
    BY <1>0, <2>1, OrderedSame
  <2>3. CASE native[d]
    <3>1. cd = TRUE
      BY <2>3
    <3>2. InOrder(received[d], messages[d], Append(pipe[d], posted[d] + 1), posted[d] + 1, cd)
      BY <1>t, <1>o, <3>1, OrderPiped
    <3>. QED  BY <2>1, <2>2, <2>3, <3>2, Zenon DEF Ordered
  <2>4. CASE ~native[d]
    <3>1. cd = FALSE
      BY <1>0, <2>1, <2>4 DEF Linked
    <3>2. InOrder(received[d], messages[d], pipe[d], posted[d] + 1, cd)
      BY <1>t, <1>o, <3>1, OrderLost
    <3>. QED  BY <2>1, <2>2, <2>4, <3>2, Zenon DEF Ordered
  <2>. QED  BY <2>3, <2>4
<1>6. CASE PostLocally(e)
  <2>1. /\ remote /\ posted'[d] = posted[d] + 1 /\ posted'[e] = posted[e]
        /\ messages'[d] = Append(messages[d], posted[d] + 1) /\ messages'[e] = messages[e]
        /\ UNCHANGED <<received, pipe, remote, native>>
    BY <1>0, <1>6 DEF TypeOK, PostLocally, CanPost
  <2>2. Ordered(e)'
    BY <1>0, <2>1, OrderedSame
  <2>3. cd = TRUE /\ pipe[d] = <<>>
    BY <1>0, <2>1 DEF Linked
  <2>4. InOrder(received[d], Append(messages[d], posted[d] + 1), <<>>, posted[d] + 1, cd)
    BY <1>t, <1>o, <2>3, OrderPosted
  <2>5. Ordered(d)'
    BY <2>1, <2>3, <2>4, Zenon DEF Ordered
  <2>. QED  BY <2>2, <2>5
<1>7. CASE Prepare(e)
  <2>1. /\ UNCHANGED <<received, messages, pipe, posted>> /\ remote' = FALSE
        /\ \/ remote
           \/ ~remote /\ native' = native
    BY <1>7 DEF Prepare
  <2>. QED  BY <1>0, <2>1, OrderedSame
<1>8. ASSUME NEW x \in Ends, NEW y \in Ends, x # y, Ordered(x), Ordered(y), Disentangle(x),
             received' = received, posted' = posted,
             messages'[x] \in {<<>>, messages[x]}, messages'[y] = messages[y]
      PROVE  Ordered(x)' /\ Ordered(y)'
  <2>1. /\ pipe'[x] = <<>> /\ native'[x] = FALSE /\ remote' = FALSE
        /\ pipe'[y] = pipe[y] /\ native'[y] = native[y]
    BY <1>0, <1>8 DEF TypeOK, Disentangle
  <2>2. Ordered(y)'
    BY <1>8, <2>1, OrderedSame
  <2> DEFINE c == remote \/ native[x]
  <2>3. /\ received[x] \in Seq(Nat) /\ messages[x] \in Seq(Nat) /\ pipe[x] \in Seq(Nat)
        /\ posted[x] \in Nat /\ c \in BOOLEAN
    BY <1>0, Typed
  <2>4. InOrder(received[x], messages[x], pipe[x], posted[x], c)
    BY <1>8, Zenon DEF Ordered
  <2>5. /\ InOrder(received[x], messages[x], <<>>, posted[x], FALSE)
        /\ InOrder(received[x], <<>>, <<>>, posted[x], FALSE)
    BY <2>3, <2>4, OrderLost
  <2>6. InOrder(received[x], messages'[x], <<>>, posted[x], FALSE)
    BY <1>8, <2>5
  <2>7. (remote' \/ native'[x]) = FALSE
    BY <2>1
  <2>8. Ordered(x)'
    BY <1>8, <2>1, <2>6, <2>7, Zenon DEF Ordered
  <2>. QED  BY <2>2, <2>8
<1>9. CASE Close(e)
  BY <1>0, <1>8, <1>9 DEF Close
<1>10. CASE Discard(e)
  <2>1. Disentangle(e) /\ received' = received /\ posted' = posted
        /\ messages'[e] = <<>> /\ messages'[d] = messages[d]
    BY <1>0, <1>10 DEF Discard, TypeOK
  <2>. QED  BY <1>0, <1>8, <2>1
<1>11. CASE PostDoomed(e)
  <2>1. Disentangle(d) /\ received' = received /\ posted' = posted
        /\ messages'[d] = <<>> /\ messages'[e] = messages[e]
    BY <1>0, <1>11 DEF PostDoomed, TypeOK
  <2>. QED  BY <1>0, <1>8, <2>1
<1>. QED  BY <1>1, <1>2, <1>3, <1>4, <1>5, <1>6, <1>7, <1>9, <1>10, <1>11 DEF Deliveries

-----------------------------------------------------------------------------
(* Every action keeps it: the link between the ends.                        *)

LEMMA LinkedStep ==
  ASSUME IInv, NEW e \in Ends,
         \/ Start(e) \/ Deliveries(e) \/ Receipt(e)
         \/ PostToPipe(e) \/ PostLocally(e) \/ PostDoomed(e)
         \/ Transfer(e) \/ Prepare(e) \/ Close(e) \/ Discard(e)
  PROVE  Linked(e)' /\ Linked(Peer(e))'
<1> DEFINE d == Peer(e)
<1>0. TypeOK /\ d \in Ends /\ d # e /\ Linked(e) /\ Linked(d) /\ Peer(d) = e
  BY PeerFacts DEF IInv
<1> USE DEF object, queue, link, history
<1>1. CASE Start(e) \/ PostLocally(e)
  <2>1. UNCHANGED <<remote, native, pipe, notices>>
    BY <1>1 DEF Start, PostLocally
  <2>. QED  BY <1>0, <2>1 DEF Linked
<1>2. CASE Deliver(e)
  <2>1. UNCHANGED <<remote, native, pipe, notices>>
    BY <1>2, DeliverFacts
  <2>. QED  BY <1>0, <2>1 DEF Linked
<1>3. CASE MessageArrives(e)
  <2>1. /\ native[e] /\ pipe'[d] = pipe[d] /\ UNCHANGED <<remote, native, notices>>
    BY <1>0, <1>3 DEF TypeOK, MessageArrives, Listening
  <2>. QED  BY <1>0, <2>1 DEF Linked
<1>4. CASE OwnerArrives(e)
  <2>1. /\ native[e] /\ notices'[d] = notices[d] /\ UNCHANGED <<remote, native, pipe>>
    BY <1>0, <1>4 DEF TypeOK, OwnerArrives, Listening
  <2>. QED  BY <1>0, <2>1 DEF Linked
<1>5. CASE HangupArrives(e)
  <2>1. /\ pipe[e] = <<>> /\ notices[e] = <<>> /\ native[e]
        /\ native'[d] = native[d] /\ UNCHANGED <<remote, pipe, notices>>
    BY <1>0, <1>5 DEF TypeOK, HangupArrives
  <2>2. ~remote
    BY <1>0, <2>1 DEF Linked
  <2>. QED  BY <1>0, <2>1, <2>2 DEF Linked
<1>6. CASE PostToPipe(e)
  <2>1. /\ pipe'[e] = pipe[e] /\ (~native[d] => pipe'[d] = pipe[d])
        /\ UNCHANGED <<remote, native, notices>>
    BY <1>0, <1>6 DEF TypeOK, PostToPipe
  <2>. QED  BY <1>0, <2>1 DEF Linked
<1>7. ASSUME NEW t, notices' = (IF native[e] THEN Notified(e, t) ELSE notices),
             UNCHANGED <<remote, native, pipe>>
      PROVE  Linked(e)' /\ Linked(d)'
  <2>1. notices'[e] = notices[e] /\ (~native[d] => notices'[d] = notices[d])
    BY <1>0, <1>7 DEF TypeOK, Notified
  <2>. QED  BY <1>0, <1>7, <2>1 DEF Linked
<1>8. CASE Receipt(e)
  BY <1>7, <1>8 DEF Receipt, Receive
<1>9. CASE Transfer(e)
  BY <1>7, <1>9 DEF Transfer
<1>10. CASE Prepare(e)
  <2>1. CASE remote
    <3>1. native'[e] = TRUE /\ native'[d] = TRUE /\ remote' = FALSE
      BY <1>0, <1>10, <2>1 DEF Prepare, Every
    <3>. QED  BY <3>1 DEF Linked
  <2>2. CASE ~remote
    <3>1. UNCHANGED <<native, notices, pipe>> /\ remote' = FALSE
      BY <1>10, <2>2 DEF Prepare
    <3>. QED  BY <1>0, <3>1 DEF Linked
  <2>. QED  BY <2>1, <2>2
<1>11. CASE Close(e) \/ Discard(e)
  <2>1. Disentangle(e) /\ notices' = [notices EXCEPT ![e] = <<>>]
    BY <1>11 DEF Close, Discard
  <2>2. /\ remote' = FALSE /\ pipe'[e] = <<>> /\ notices'[e] = <<>>
        /\ pipe'[d] = pipe[d] /\ notices'[d] = notices[d] /\ native'[d] = native[d]
    BY <1>0, <2>1 DEF TypeOK, Disentangle
  <2>. QED  BY <1>0, <2>2 DEF Linked
<1>12. CASE PostDoomed(e)
  <2>1. /\ Disentangle(d) /\ (remote \/ native[e])
        /\ notices' = [notices EXCEPT ![d] = <<>>,
                                      ![e] = IF native[d] THEN Append(@, NoThread) ELSE @]
    BY <1>12 DEF PostDoomed
  <2>2. /\ remote' = FALSE /\ pipe'[d] = <<>> /\ notices'[d] = <<>>
        /\ pipe'[e] = pipe[e] /\ native'[e] = native[e]
        /\ ~native[d] => notices'[e] = notices[e]
    BY <1>0, <2>1 DEF TypeOK, Disentangle
  <2>3. ~native[e] => ~native[d]
    BY <1>0, <2>1 DEF Linked
  <2>. QED  BY <1>0, <2>2, <2>3 DEF Linked
<1>. QED  BY <1>1, <1>2, <1>3, <1>4, <1>5, <1>6, <1>8, <1>9, <1>10, <1>11, <1>12 DEF Deliveries

-----------------------------------------------------------------------------
(* Every action keeps it: the delivery tasks.                               *)

LEMMA TaskedStep ==
  ASSUME IInv, NEW e \in Ends,
         \/ Start(e) \/ Deliveries(e) \/ Receipt(e)
         \/ PostToPipe(e) \/ PostLocally(e) \/ PostDoomed(e)
         \/ Transfer(e) \/ Prepare(e) \/ Close(e) \/ Discard(e)
  PROVE  Tasked(e)' /\ Tasked(Peer(e))'
<1> DEFINE d == Peer(e)
<1>0. TypeOK /\ d \in Ends /\ d # e /\ Tasked(e) /\ Tasked(d) /\ Peer(d) = e
  BY PeerFacts DEF IInv
<1>t. /\ port[e] \in Nat /\ shipped[e] \in BOOLEAN /\ messages[e] \in Seq(Nat)
      /\ port[d] \in Nat /\ shipped[d] \in BOOLEAN /\ messages[d] \in Seq(Nat)
  BY <1>0, Typed
<1>s. ASSUME NEW x \in Ends, Tasked(x),
             place'[x] = place[x], port'[x] = port[x], shipped'[x] = shipped[x],
             messages'[x] = messages[x], tasks'[x] = tasks[x]
      PROVE  Tasked(x)'
  BY <1>s, Zenon DEF Tasked
<1> USE DEF object, queue, link, history
<1>1. CASE Start(e) \/ OwnerArrives(e) \/ HangupArrives(e) \/ PostToPipe(e) \/ Close(e)
  <2>1. UNCHANGED <<place, port, shipped, messages, tasks>>
    BY <1>1 DEF Start, OwnerArrives, HangupArrives, PostToPipe, Close
  <2>. QED  BY <1>0, <1>s, <2>1
<1>2. CASE Deliver(e)
  <2>1. /\ place[e] = "held" /\ messages[e] # <<>>
        /\ messages' = [messages EXCEPT ![e] = RemoveAt(@, 1)]
        /\ tasks' = [tasks EXCEPT ![e] = RemoveAt(@, 1)]
        /\ UNCHANGED <<place, port, shipped>>
    BY <1>2, DeliverFacts
  <2>2. /\ messages'[e] = RemoveAt(messages[e], 1) /\ tasks'[e] = RemoveAt(tasks[e], 1)
        /\ messages'[d] = messages[d] /\ tasks'[d] = tasks[d]
    BY <1>0, <2>1 DEF TypeOK
  <2>3. tasks[e] = TasksOf(port[e], shipped[e], messages[e])
    BY <1>0, <2>1 DEF Tasked
  <2>4. tasks'[e] = TasksOf(port[e], shipped[e], messages'[e])
    BY <1>t, <2>1, <2>2, <2>3, TasksTail
  <2>5. Tasked(e)'
    BY <2>1, <2>4 DEF Tasked
  <2>6. Tasked(d)'
    BY <1>0, <1>s, <2>1, <2>2
  <2>. QED  BY <2>5, <2>6
<1>3. ASSUME NEW x \in Ends, NEW y \in Ends, x # y, Tasked(x), Tasked(y), place[x] = "held",
             NEW m \in Nat,
             messages' = [messages EXCEPT ![x] = Append(@, m)],
             tasks' = [tasks EXCEPT ![x] = Append(@, TaskFor(x, m))],
             UNCHANGED <<place, port, shipped>>
      PROVE  Tasked(x)' /\ Tasked(y)'
  <2>1. /\ messages'[x] = Append(messages[x], m) /\ tasks'[x] = Append(tasks[x], TaskFor(x, m))
        /\ messages'[y] = messages[y] /\ tasks'[y] = tasks[y]
    BY <1>0, <1>3 DEF TypeOK
  <2>2. tasks[x] = TasksOf(port[x], shipped[x], messages[x])
    BY <1>3 DEF Tasked
  <2>3. port[x] \in Nat /\ shipped[x] \in BOOLEAN /\ messages[x] \in Seq(Nat)
    BY <1>0, Typed
  <2>4. Append(TasksOf(port[x], shipped[x], messages[x]), TaskFor(x, m))
          = TasksOf(port[x], shipped[x], Append(messages[x], m))
    BY <2>3, TasksAppend DEF TaskFor
  <2>5. tasks'[x] = TasksOf(port[x], shipped[x], messages'[x])
    BY <2>1, <2>2, <2>4, Zenon
  <2>6. Tasked(x)'
    BY <1>3, <2>5 DEF Tasked
  <2>7. Tasked(y)'
    BY <1>3, <1>s, <2>1
  <2>. QED  BY <2>6, <2>7
<1>4. CASE MessageArrives(e)
  <2>1. Head(pipe[e]) \in Nat
    BY <1>0, <1>4, Typed, HeadTailProperties DEF MessageArrives
  <2>. QED  BY <1>0, <1>3, <1>4, <2>1 DEF MessageArrives, Listening
<1>5. CASE PostLocally(e)
  <2>1. posted[d] + 1 \in Nat
    BY <1>0, Typed
  <2>2. CASE place[d] = "held"
    <3>1. /\ messages' = [messages EXCEPT ![d] = Append(@, posted[d] + 1)]
          /\ tasks' = [tasks EXCEPT ![d] = Append(@, TaskFor(d, posted[d] + 1))]
          /\ UNCHANGED <<place, port, shipped>>
      BY <1>5, <2>2 DEF PostLocally
    <3>. QED  BY <1>0, <1>3, <2>1, <2>2, <3>1
  <2>3. CASE place[d] # "held"
    <3>1. messages'[e] = messages[e] /\ UNCHANGED <<place, port, shipped, tasks>>
      BY <1>0, <1>5, <2>3 DEF TypeOK, PostLocally
    <3>2. Tasked(d)'
      BY <1>0, <2>3, <3>1 DEF Tasked
    <3>. QED  BY <1>0, <1>s, <3>1, <3>2
  <2>. QED  BY <2>2, <2>3
<1>6. ASSUME NEW x \in Ends, NEW y \in Ends, x # y, Peer(x) = y, place[x] = "held",
             tasks' = Given(x), shipped' = ShippedWith(x), port' = port,
             place'[x] # "held", place'[y] = place[y], messages'[y] = messages[y]
      PROVE  Tasked(x)' /\ Tasked(y)'
  <2>1. /\ tasks'[x] = <<>> /\ shipped'[x] = TRUE
        /\ tasks'[y] = IF place[y] = "held"
                       THEN TasksOf(port[y], shipped[y] \/ remote, messages[y]) ELSE <<>>
        /\ shipped'[y] = (shipped[y] \/ remote)
    BY <1>0, <1>6, GivenFacts, ShippedWithTyped
  <2>2. Tasked(x)'
    BY <1>6, <2>1 DEF Tasked
  <2>3. CASE place[y] = "held"
    <3>1. tasks'[y] = TasksOf(port[y], shipped[y] \/ remote, messages[y])
      BY <2>1, <2>3
    <3>. QED  BY <1>6, <2>1, <2>2, <2>3, <3>1, Zenon DEF Tasked
  <2>4. CASE place[y] # "held"
    <3>1. shipped[y]
      BY <2>4 DEF IInv, Tasked
    <3>. QED  BY <1>6, <2>1, <2>2, <2>4, <3>1 DEF Tasked
  <2>. QED  BY <2>3, <2>4
<1>7. CASE Transfer(e)
  <2>1. /\ place[e] = "held" /\ tasks' = Given(e) /\ shipped' = ShippedWith(e)
        /\ place'[e] = "transit" /\ place'[d] = place[d] /\ UNCHANGED <<port, messages>>
    BY <1>0, <1>7 DEF TypeOK, Transfer, CanTransfer
  <2>. QED  BY <1>0, <1>6, <2>1
<1>8. CASE PostDoomed(e)
  <2>1. /\ place[d] = "held" /\ tasks' = Given(d) /\ shipped' = ShippedWith(d)
        /\ place'[d] = "discarded" /\ place'[e] = place[e]
        /\ messages'[e] = messages[e] /\ port' = port
    BY <1>0, <1>8 DEF TypeOK, PostDoomed, CanTransfer
  <2>. QED  BY <1>0, <1>6, <2>1
<1>9. CASE Prepare(e) \/ Discard(e)
  <2>1. /\ place[e] # "held" /\ place'[e] # "held" /\ place'[d] = place[d]
        /\ messages'[d] = messages[d] /\ UNCHANGED <<port, shipped, tasks>>
    BY <1>0, <1>9 DEF TypeOK, Prepare, Discard
  <2>2. Tasked(e)'
    BY <1>0, <2>1 DEF Tasked
  <2>. QED  BY <1>0, <1>s, <2>1, <2>2
<1>10. CASE Receipt(e)
  <2>1. /\ place[e] # "held" /\ place'[e] = "held" /\ place'[d] = place[d]
        /\ port'[e] = port[e] + 1 /\ port'[d] = port[d]
        /\ tasks'[e] = Requeued(e) /\ tasks'[d] = tasks[d]
        /\ UNCHANGED <<shipped, messages>>
    BY <1>0, <1>10 DEF TypeOK, Receipt, Receive
  <2>2. shipped[e] = TRUE /\ Requeued(e) = TasksOf(port[e] + 1, TRUE, messages[e])
    BY <1>t, <2>1, RequeuedFacts
  <2>3. Tasked(e)'
    BY <2>1, <2>2, Zenon DEF Tasked
  <2>. QED  BY <1>0, <1>s, <2>1, <2>3
<1>. QED  BY <1>1, <1>2, <1>4, <1>5, <1>7, <1>8, <1>9, <1>10 DEF Deliveries

-----------------------------------------------------------------------------
(* Every action keeps it: who holds the other end.                          *)

LEMMA KnownStep ==
  ASSUME IInv, NEW e \in Ends,
         \/ Start(e) \/ Deliveries(e) \/ Receipt(e)
         \/ PostToPipe(e) \/ PostLocally(e) \/ PostDoomed(e)
         \/ Transfer(e) \/ Prepare(e) \/ Close(e) \/ Discard(e)
  PROVE  Known(e)' /\ Known(Peer(e))'
<1> DEFINE d == Peer(e)
<1>0. /\ TypeOK /\ d \in Ends /\ d # e /\ Peer(d) = e
      /\ Known(e) /\ Known(d) /\ Linked(e) /\ Linked(d)
  BY PeerFacts DEF IInv
<1>s. ASSUME NEW x \in Ends, Known(x),
             native'[x] => native[x], native'[Peer(x)] => native[Peer(x)],
             notices'[x] = notices[x], remoteEnvId'[x] = remoteEnvId[x],
             Holder(Peer(x))' = Holder(Peer(x))
      PROVE  Known(x)'
  <2>1. Told(x)' = Told(x)
    BY <1>s DEF Told
  <2>. QED  BY <1>s, <2>1 DEF Known
<1>v. ASSUME NEW x \in Ends, native'[x] = FALSE
      PROVE  Known(x)' /\ Known(Peer(x))'
  <2>1. Peer(Peer(x)) = x
    BY PeerFacts
  <2>. QED  BY <1>v, <2>1 DEF Known
<1>n. ASSUME NEW S, NEW q \in Seq(S), NEW t \in S
      PROVE  Append(q, t) # <<>> /\ Last(Append(q, t)) = t
  BY LastOfAppend
<1> USE DEF object, queue, link, history
<1>1. CASE Start(e) \/ MessageArrives(e) \/ PostToPipe(e) \/ PostLocally(e)
  <2>1. UNCHANGED <<native, notices, remoteEnvId, place, thread>>
    BY <1>1 DEF Start, MessageArrives, PostToPipe, PostLocally
  <2>2. Holder(e)' = Holder(e) /\ Holder(d)' = Holder(d)
    BY <2>1 DEF Holder
  <2>. QED  BY <1>0, <1>s, <2>1, <2>2
<1>2. CASE Deliver(e)
  <2>1. UNCHANGED <<native, notices, remoteEnvId, place, thread>>
    BY <1>2, DeliverFacts
  <2>2. Holder(e)' = Holder(e) /\ Holder(d)' = Holder(d)
    BY <2>1 DEF Holder
  <2>. QED  BY <1>0, <1>s, <2>1, <2>2
<1>3. CASE OwnerArrives(e)
  <2>1. /\ notices[e] # <<>> /\ notices'[e] = Tail(notices[e]) /\ notices'[d] = notices[d]
        /\ remoteEnvId'[e] = Head(notices[e]) /\ remoteEnvId'[d] = remoteEnvId[d]
        /\ UNCHANGED <<native, place, thread>>
    BY <1>0, <1>3 DEF TypeOK, OwnerArrives
  <2>2. Holder(e)' = Holder(e) /\ Holder(d)' = Holder(d)
    BY <2>1 DEF Holder
  <2>3. Told(e)' = Told(e)
    <3>1. notices[e] \in Seq(Thread \cup {NoThread})
      BY <1>0, Typed
    <3>2. /\ Tail(notices[e]) = <<>> => Last(notices[e]) = Head(notices[e])
          /\ Tail(notices[e]) # <<>> => Last(Tail(notices[e])) = Last(notices[e])
      BY <2>1, <3>1, LastOfTail
    <3>. QED  BY <2>1, <3>2, Zenon DEF Told
  <2>4. Known(e)'
    BY <1>0, <2>1, <2>2, <2>3 DEF Known
  <2>. QED  BY <1>0, <1>s, <2>1, <2>2, <2>4
<1>4. CASE HangupArrives(e)
  <2>1. CASE place[e] = "held"
    <3>1. native'[e] = FALSE
      BY <1>0, <1>4, <2>1 DEF TypeOK, HangupArrives
    <3>. QED  BY <1>v, <3>1
  <2>2. CASE place[e] # "held"
    <3>1. UNCHANGED <<native, notices, remoteEnvId, place, thread>>
      BY <1>4, <2>2 DEF HangupArrives
    <3>2. Holder(e)' = Holder(e) /\ Holder(d)' = Holder(d)
      BY <3>1 DEF Holder
    <3>. QED  BY <1>0, <1>s, <3>1, <3>2
  <2>. QED  BY <2>1, <2>2
<1>5. ASSUME NEW t \in Thread \cup {NoThread}, Holder(e)' = t, Holder(d)' = Holder(d),
             notices' = (IF native[e] THEN Notified(e, t) ELSE notices),
             UNCHANGED <<native, remoteEnvId>>
      PROVE  Known(e)' /\ Known(d)'
  <2>1. CASE ~native[e] \/ ~native[d]
    <3>1. native'[e] = FALSE \/ native'[d] = FALSE
      BY <1>0, <1>5, <2>1 DEF TypeOK
    <3>. QED  BY <1>0, <1>v, <3>1
  <2>2. CASE native[e] /\ native[d]
    <3>1. notices[d] \in Seq(Thread \cup {NoThread})
      BY <1>0, Typed
    <3>2. notices'[d] = Append(notices[d], t) /\ notices'[e] = notices[e]
      BY <1>0, <1>5, <2>2 DEF TypeOK, Notified
    <3>3. Told(d)' = t
      BY <1>n, <3>1, <3>2 DEF Told
    <3>4. Known(d)'
      BY <1>0, <1>5, <3>3 DEF Known
    <3>. QED  BY <1>0, <1>s, <1>5, <3>2, <3>4
  <2>. QED  BY <2>1, <2>2
<1>6. CASE Transfer(e)
  <2>1. /\ notices' = (IF native[e] THEN Notified(e, NoThread) ELSE notices)
        /\ place'[e] = "transit" /\ place'[d] = place[d]
        /\ UNCHANGED <<native, remoteEnvId, thread>>
    BY <1>0, <1>6 DEF TypeOK, Transfer
  <2>2. Holder(e)' = NoThread /\ Holder(d)' = Holder(d)
    BY <2>1 DEF Holder
  <2>. QED  BY <1>5, <2>1, <2>2
<1>7. ASSUME NEW t \in Thread, Receive(e, t)
      PROVE  Known(e)' /\ Known(d)'
  <2>1. /\ notices' = (IF native[e] THEN Notified(e, t) ELSE notices)
        /\ place'[e] = "held" /\ place'[d] = place[d]
        /\ thread'[e] = t /\ thread'[d] = thread[d]
        /\ UNCHANGED <<native, remoteEnvId>>
    BY <1>0, <1>7 DEF TypeOK, Receive
  <2>2. Holder(e)' = t /\ Holder(d)' = Holder(d)
    BY <2>1 DEF Holder
  <2>. QED  BY <1>5, <2>1, <2>2
<1>8. CASE Prepare(e)
  <2>1. /\ place[e] = "transit" /\ place'[e] = "portable" /\ place'[d] = place[d]
        /\ thread' = thread
    BY <1>0, <1>8 DEF TypeOK, Prepare
  <2>2. Holder(e) = NoThread /\ Holder(e)' = NoThread /\ Holder(d)' = Holder(d)
    BY <2>1 DEF Holder
  <2>3. CASE ~remote
    <3>1. UNCHANGED <<native, notices, remoteEnvId>>
      BY <1>8, <2>3 DEF Prepare
    <3>. QED  BY <1>0, <1>s, <2>2, <3>1
  <2>4. CASE remote
    <3>1. notices[e] = <<>> /\ notices[d] = <<>>
      BY <1>0, <2>4 DEF Linked
    <3>2. Holder(d) \in Thread \cup {NoThread}
      BY <1>0, Typed DEF Holder
    <3>3. /\ remoteEnvId' = [remoteEnvId EXCEPT ![e] = Holder(d), ![d] = NoThread]
          /\ notices' = IF place[d] = "held" THEN [notices EXCEPT ![e] = Append(@, Holder(d))]
                                             ELSE notices
      BY <1>8, <2>4 DEF Prepare, Holder
    <3>4. /\ remoteEnvId'[e] = Holder(d) /\ remoteEnvId'[d] = NoThread
          /\ notices'[d] = <<>>
          /\ IF place[d] = "held" THEN notices'[e] = Append(<<>>, Holder(d))
                                  ELSE notices'[e] = <<>>
      <4> DEFINE h == Holder(d)
      <4> HIDE DEF h
      <4>1. /\ remoteEnvId' = [remoteEnvId EXCEPT ![e] = h, ![d] = NoThread]
            /\ notices' = IF place[d] = "held" THEN [notices EXCEPT ![e] = Append(@, h)]
                                               ELSE notices
        BY <3>3 DEF h
      <4>2. /\ remoteEnvId'[e] = h /\ remoteEnvId'[d] = NoThread
            /\ notices'[d] = <<>>
            /\ IF place[d] = "held" THEN notices'[e] = Append(<<>>, h) ELSE notices'[e] = <<>>
        BY <1>0, <3>1, <4>1 DEF TypeOK
      <4>. QED  BY <4>2 DEF h
    <3>5. Told(d)' = NoThread
      BY <3>4 DEF Told
    <3>6. Told(e)' = Holder(d)
      <4>1. <<>> \in Seq(Thread \cup {NoThread})
        OBVIOUS
      <4>2. Append(<<>>, Holder(d)) # <<>> /\ Last(Append(<<>>, Holder(d))) = Holder(d)
        BY <1>n, <3>2, <4>1
      <4>. QED  BY <3>4, <4>2, Zenon DEF Told
    <3>. QED  BY <1>0, <2>2, <3>5, <3>6 DEF Known
  <2>. QED  BY <2>3, <2>4
<1>9. CASE Close(e) \/ Discard(e)
  <2>1. native'[e] = FALSE
    BY <1>0, <1>9 DEF TypeOK, Close, Discard, Disentangle
  <2>. QED  BY <1>v, <2>1
<1>10. CASE PostDoomed(e)
  <2>1. native'[d] = FALSE
    BY <1>0, <1>10 DEF TypeOK, PostDoomed, Disentangle
  <2>. QED  BY <1>0, <1>v, <2>1
<1>. QED  BY <1>1, <1>2, <1>3, <1>4, <1>6, <1>7, <1>8, <1>9, <1>10 DEF Deliveries, Receipt

-----------------------------------------------------------------------------
(* The theorems.                                                            *)

\* Ends, messages, tasks and owner packets agree in every reachable state.
THEOREM Invariance == Spec => []IInv
<1>1. Init => IInv
  BY InitInv
<1>2. IInv /\ [Next]_vars => IInv'
  <2> SUFFICES ASSUME IInv, [Next]_vars
               PROVE  IInv'
    OBVIOUS
  <2>1. CASE Next
    <3>1. PICK e \in Ends :
            \/ Start(e) \/ Deliveries(e) \/ Receipt(e)
            \/ PostToPipe(e) \/ PostLocally(e) \/ PostDoomed(e)
            \/ Transfer(e) \/ Prepare(e) \/ Close(e) \/ Discard(e)
      BY <2>1, Zenon DEF Next
    <3>2. TypeOK'
      BY <3>1, TypeStep
    <3>3. /\ Ordered(e)' /\ Linked(e)' /\ Tasked(e)' /\ Known(e)'
          /\ Ordered(Peer(e))' /\ Linked(Peer(e))' /\ Tasked(Peer(e))' /\ Known(Peer(e))'
      BY <3>1, OrderedStep, LinkedStep, TaskedStep, KnownStep
    <3>4. \A x \in Ends : x = e \/ x = Peer(e)
      BY PeerFacts
    <3>. QED  BY <3>2, <3>3, <3>4, Zenon DEF IInv
  <2>2. CASE UNCHANGED vars
    BY <2>2 DEF IInv, TypeOK, Ordered, Linked, Tasked, Known, Told, Holder,
                vars, object, queue, link, history
  <2>. QED  BY <2>1, <2>2
<1>. QED  BY <1>1, <1>2, PTL DEF Spec

\* Every variable keeps its type: the two ends of a channel in any place.
THEOREM TypeCorrect == Spec => []TypeOK
<1>1. IInv => TypeOK
  BY DEF IInv
<1>. QED  BY <1>1, Invariance, PTL

\* Exactly the port that holds an end has its delivery tasks, one per pending
\* message, in order and in one source (transferSteps, transferReceivingSteps).
THEOREM TasksStayWithHolder == Spec => []TasksOfHolder
<1>1. IInv => TasksOfHolder
  <2> SUFFICES ASSUME IInv, NEW e \in Ends
               PROVE  tasks[e] = IF place[e] = "held"
                                 THEN [i \in DOMAIN messages[e] |-> TaskFor(e, messages[e][i])]
                                 ELSE <<>>
    BY DEF TasksOfHolder
  <2>1. Tasked(e)
    BY DEF IInv
  <2>. QED  BY <2>1 DEF Tasked, TasksOf, TaskFor
<1>. QED  BY <1>1, Invariance, PTL

\* After the owner packets on their way, each end of a native channel knows
\* which thread holds the other (isEntangledOutsideGlobal).
THEOREM OwnersAreKnown == Spec => []OwnersKnown
<1>1. IInv => OwnersKnown
  <2> SUFFICES ASSUME IInv, NEW e \in Ends, native[e] /\ native[Peer(e)]
               PROVE  Told(e) = Holder(Peer(e))
    BY DEF OwnersKnown, Told, Holder
  <2>. QED  BY DEF IInv, Known
<1>. QED  BY <1>1, Invariance, PTL

\* A channel delivers what was posted to each end once and in order, through
\* transfers, promotion, closing and discarding: it implements Channel.
THEOREM ChannelIsReliable == Spec => Reliable
<1>1. Init => C!Init
  BY DEF Init, C!Init, Every
<1>2. IInv /\ [Next]_vars => [C!Next]_<<posted, received>>
  <2> SUFFICES ASSUME IInv, [Next]_vars
               PROVE  C!Next \/ UNCHANGED <<posted, received>>
    BY Zenon
  <2> USE DEF object, queue, link, history
  <2>1. CASE UNCHANGED vars
    BY <2>1 DEF vars
  <2>2. ASSUME NEW e \in Ends, Deliver(e)
        PROVE  C!Next
    <3>1. /\ received' = [received EXCEPT ![e] = Append(@, messages[e][1])]
          /\ messages[e] # <<>> /\ posted' = posted
      BY <2>2, DeliverFacts
    <3> DEFINE c == remote \/ native[e]
    <3>2. InOrder(received[e], messages[e], pipe[e], posted[e], c)
      BY Zenon DEF IInv, Ordered
    <3>3. /\ received[e] \in Seq(Nat) /\ messages[e] \in Seq(Nat) /\ pipe[e] \in Seq(Nat)
          /\ posted[e] \in Nat /\ c \in BOOLEAN
      BY Typed DEF IInv
    <3>4. messages[e][1] = Len(received[e]) + 1 /\ Len(received[e]) < posted[e]
      BY <3>1, <3>2, <3>3, OrderDelivers
    <3>5. received' = [received EXCEPT ![e] = Append(@, Len(@) + 1)]
      BY <3>1, <3>4, Zenon
    <3>6. C!Receive(e)
      BY <3>1, <3>4, <3>5, Zenon DEF C!Receive
    <3>. QED  BY <3>6, Zenon DEF C!Next
  <2>3. ASSUME NEW e \in Ends, PostToPipe(e) \/ PostLocally(e)
        PROVE  C!Next
    <3>1. Peer(e) \in Ends
      BY PeerFacts
    <3>2. C!Post(Peer(e))
      BY <2>3 DEF PostToPipe, PostLocally, CanPost, C!Post
    <3>. QED  BY <3>1, <3>2, Zenon DEF C!Next
  <2>4. ASSUME NEW e \in Ends,
               \/ Start(e) \/ MessageArrives(e) \/ OwnerArrives(e) \/ HangupArrives(e)
               \/ Receipt(e) \/ PostDoomed(e)
               \/ Transfer(e) \/ Prepare(e) \/ Close(e) \/ Discard(e)
        PROVE  UNCHANGED <<posted, received>>
    BY <2>4 DEF Start, MessageArrives, OwnerArrives, HangupArrives, Receipt, Receive,
                PostDoomed, Transfer, Prepare, Close, Discard
  <2>. QED  BY <2>1, <2>2, <2>3, <2>4 DEF Next, Deliveries
<1>. QED  BY <1>1, <1>2, Invariance, PTL DEF Spec, Reliable, C!Spec
=============================================================================
