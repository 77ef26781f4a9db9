------------------------- MODULE WorkerThreadProofs -------------------------
(***************************************************************************)
(* A terminated worker stays silent, and the exit of its thread releases   *)
(* everything that belongs to it, whatever the thread does and whenever    *)
(* it ends, for any number of commands, fetches and messages.              *)
(***************************************************************************)
EXTENDS WorkerThread, SequencesExt, SequenceTheorems, TLAPS

\* Removing the first element leaves the tail.
LEMMA RemoveAtFirst ==
  ASSUME NEW S, NEW s \in Seq(S), s # <<>>
  PROVE  RemoveAt(s, 1) = Tail(s)
<1>1. Len(s) \in Nat \ {0} /\ \A i \in 1..Len(s) : s[i] \in S
  BY EmptySeq, ElementOfSeq
<1>2. SubSeq(s, 1, 0) = <<>> /\ Tail(s) = SubSeq(s, 2, Len(s)) /\ Tail(s) \in Seq(S)
  BY SubSeqEmpty, TailIsSubSeq, HeadTailProperties
<1>3. <<>> \o Tail(s) = Tail(s)
  BY <1>2, ConcatEmptySeq
<1>4. RemoveAt(s, 1) = SubSeq(s, 1, 1 - 1) \o SubSeq(s, 1 + 1, Len(s))
  BY DEF RemoveAt
<1>. QED  BY <1>2, <1>3, <1>4

\* What is behind a removed element moves up by one.
LEMMA RemoveAtElements ==
  ASSUME NEW S, NEW s \in Seq(S), NEW n \in 1..Len(s)
  PROVE  /\ RemoveAt(s, n) \in Seq(S) /\ Len(RemoveAt(s, n)) = Len(s) - 1
         /\ \A i \in 1..(Len(s) - 1) :
              RemoveAt(s, n)[i] = IF i < n THEN s[i] ELSE s[i + 1]
<1> DEFINE a == SubSeq(s, 1, n - 1)   b == SubSeq(s, n + 1, Len(s))
<1>1. Len(s) \in Nat /\ \A i \in 1..Len(s) : s[i] \in S
  BY LenProperties, ElementOfSeq
<1>2. /\ a \in Seq(S) /\ Len(a) = IF 1 <= n - 1 THEN n - 1 - 1 + 1 ELSE 0
      /\ \A i \in 1..(n - 1 - 1 + 1) : a[i] = s[1 + i - 1]
  <2>1. \A i \in 1..(n - 1) : s[i] \in S
    BY <1>1
  <2>. QED  BY <2>1, <1>1, SubSeqProperties
<1>3. /\ b \in Seq(S) /\ Len(b) = IF n + 1 <= Len(s) THEN Len(s) - (n + 1) + 1 ELSE 0
      /\ \A i \in 1..(Len(s) - (n + 1) + 1) : b[i] = s[n + 1 + i - 1]
  <2>1. \A i \in (n + 1)..Len(s) : s[i] \in S
    BY <1>1
  <2>. QED  BY <2>1, <1>1, SubSeqProperties
<1>4. RemoveAt(s, n) = a \o b
  BY DEF RemoveAt
<1> HIDE DEF a, b
<1>5. Len(a) = n - 1 /\ Len(b) = Len(s) - n
  BY <1>1, <1>2, <1>3
<1>6. /\ a \o b \in Seq(S) /\ Len(a \o b) = Len(a) + Len(b)
      /\ \A i \in 1..(Len(a) + Len(b)) :
           (a \o b)[i] = IF i <= Len(a) THEN a[i] ELSE b[i - Len(a)]
  BY <1>2, <1>3, ConcatProperties
<1>7. ASSUME NEW i \in 1..(Len(s) - 1)
      PROVE  (a \o b)[i] = IF i < n THEN s[i] ELSE s[i + 1]
  <2>1. (a \o b)[i] = IF i <= Len(a) THEN a[i] ELSE b[i - Len(a)]
    BY <1>1, <1>5, <1>6
  <2>2. CASE i < n
    <3>1. i \in 1..(n - 1 - 1 + 1) /\ i <= Len(a) /\ 1 + i - 1 = i
      BY <2>2, <1>5
    <3>. QED  BY <2>1, <2>2, <3>1, <1>2
  <2>3. CASE ~(i < n)
    <3>1. /\ i - Len(a) \in 1..(Len(s) - (n + 1) + 1) /\ ~(i <= Len(a))
          /\ n + 1 + (i - Len(a)) - 1 = i + 1
      BY <2>3, <1>1, <1>5
    <3>. QED  BY <2>1, <2>3, <3>1, <1>3
  <2>. QED  BY <2>2, <2>3
<1>. QED  BY <1>1, <1>4, <1>5, <1>6, <1>7

\* How the state of the worker goes with its promise and the thread's flags.
Lifecycle ==
  /\ state = "starting" => ~stopping
  /\ state = "running" => ~stopping /\ ready # "pending"
  /\ state = "stopping" => ready # "pending"
  /\ state = "closed" => exited

IInv == Lifecycle /\ SilentOnceTerminated /\ ReleasedWhenClosed

-----------------------------------------------------------------------------
(* Types.                                                                   *)

LEMMA TypeStep ==
  ASSUME TypeOK, [Next]_vars
  PROVE  TypeOK'
<1> USE DEF vars, outside, inside, native
<1>a. ASSUME NEW kind \in Kinds \cup {"post"}, Counted(kind)
      PROVE  sent' \in [Kinds \cup {"post"} -> Nat] /\ sent[kind] + 1 \in Nat
  BY <1>a DEF TypeOK, Counted
<1>b. ASSUME NEW kind \in Kinds, NEW n \in Nat, ToThread(kind, n)
      PROVE  toThread' \in Seq(Commands)
  <2>1. [kind |-> kind, number |-> n] \in Commands
    BY DEF Commands
  <2>2. toThread \in Seq(Commands)
    BY DEF TypeOK
  <2>3. Append(toThread, [kind |-> kind, number |-> n]) \in Seq(Commands)
    BY <2>1, <2>2, AppendProperties
  <2>. QED  BY <1>b, <2>3 DEF ToThread
<1>k. "message" \in Kinds /\ "connect" \in Kinds /\ "script" \in Kinds
  BY DEF Kinds
<1>p. ready' \in {"pending", "fulfilled", "rejected"}
  <2>1. \/ ready' = ready \/ Settle("rejected") \/ Settle("fulfilled")
    BY Zenon DEF Next, Events, Inside, Send, ConnectMessagePort, FetchScript, Terminate,
       ResponseArrives, ThreadMessageArrives, Exit, CleanUp, ReadySettles, PortMessageArrives,
       Deliver, HangupArrives, Start, CommandArrives, RunTask, Compose, Report, PostMessage,
       Disconnect, InsideHangup, End
  <2>. QED  BY <2>1 DEF TypeOK, Settle
<1>1. CASE Send
  <2>1. sent["message"] + 1 \in Nat /\ sent' \in [Kinds \cup {"post"} -> Nat]
    BY <1>1, <1>a, <1>k DEF Send
  <2>2. toThread' \in Seq(Commands)
    BY <1>1, <1>b, <1>k, <2>1 DEF Send
  <2>. QED  BY <1>1, <2>1, <2>2 DEF TypeOK, Send
<1>2. CASE ConnectMessagePort
  <2>1. sent["connect"] + 1 \in Nat /\ sent' \in [Kinds \cup {"post"} -> Nat]
    BY <1>2, <1>a, <1>k DEF ConnectMessagePort
  <2>2. toThread' \in Seq(Commands)
    BY <1>2, <1>b, <1>k, <2>1 DEF ConnectMessagePort
  <2>. QED  BY <1>2, <2>1, <2>2 DEF TypeOK, ConnectMessagePort
<1>3. CASE FetchScript
  <2>1. sent["script"] + 1 \in Nat /\ sent' \in [Kinds \cup {"post"} -> Nat]
    BY <1>3, <1>a, <1>k DEF FetchScript
  <2>. QED  BY <1>3, <2>1 DEF TypeOK, FetchScript
<1>4. CASE Terminate
  BY <1>4, <1>p DEF TypeOK, Terminate, StopDelivery
<1>5. ASSUME NEW n \in fetching, ResponseArrives(n)
      PROVE  TypeOK'
  <2>1. n \in Nat
    BY DEF TypeOK
  <2>2. toThread' \in Seq(Commands)
    BY <1>5, <1>b, <1>k, <2>1 DEF ResponseArrives, HandOn, TypeOK
  <2>. QED  BY <1>5, <2>2 DEF TypeOK, ResponseArrives
<1>6. CASE ThreadMessageArrives
  <2>1. Tail(fromThread) \in Seq({"ready", "message", "error"})
    BY <1>6, HeadTailProperties DEF ThreadMessageArrives, TypeOK
  <2>. QED  BY <1>6, <1>p, <2>1 DEF TypeOK, ThreadMessageArrives
<1>7. CASE PortMessageArrives
  BY <1>7 DEF TypeOK, PortMessageArrives
<1>8. CASE Deliver
  BY <1>8 DEF TypeOK, Deliver
<1>9. CASE HangupArrives
  BY <1>9 DEF TypeOK, HangupArrives
<1>10. CASE Exit
  BY <1>10 DEF TypeOK, Exit
<1>11. CASE CleanUp
  BY <1>11, <1>p DEF TypeOK, CleanUp, Canceled
<1>12. CASE Start
  <2>1. Append(fromThread, "ready") \in Seq({"ready", "message", "error"})
    BY AppendProperties DEF TypeOK
  <2>. QED  BY <1>12, <2>1 DEF TypeOK, Start
<1>13. CASE CommandArrives
  <2>1. toThread \in Seq(Commands) /\ toThread # <<>> /\ tasks \in Seq(Commands)
    BY <1>13 DEF TypeOK, CommandArrives
  <2>2. Head(toThread) \in Commands /\ Tail(toThread) \in Seq(Commands)
    BY <2>1, HeadTailProperties
  <2>3. Append(tasks, Head(toThread)) \in Seq(Commands)
    BY <2>1, <2>2, AppendProperties
  <2>. QED  BY <1>13, <2>2, <2>3 DEF TypeOK, CommandArrives
<1>14. CASE RunTask
  <2>1. PICK i \in DOMAIN tasks :
          /\ tasks' = RemoveAt(tasks, i)
          /\ IF tasks[i].kind = "connect"
             THEN Attach(tasks[i].number, composed) /\ UNCHANGED handed
             ELSE handed' = Append(handed, tasks[i]) /\ UNCHANGED <<waiting, insidePort>>
          /\ UNCHANGED <<outside, native, alive, endpoint, composed, sent>>
    BY <1>14, Zenon DEF RunTask
  <2>2. tasks \in Seq(Commands) /\ handed \in Seq(Commands) /\ i \in 1..Len(tasks)
    BY <2>1, LenProperties DEF TypeOK
  <2>3. tasks[i] \in Commands /\ RemoveAt(tasks, i) \in Seq(Commands)
    BY <2>2, ElementOfSeq, RemoveAtElements
  <2>4. tasks[i].number \in Nat
    BY <2>3 DEF Commands
  <2>5. Append(handed, tasks[i]) \in Seq(Commands)
    BY <2>2, <2>3, AppendProperties
  <2>6. handed' \in Seq(Commands) /\ waiting' \in Nat /\ insidePort' \in Nat
    <3>1. CASE tasks[i].kind = "connect"
      <4>1. Attach(tasks[i].number, composed) /\ handed' = handed
        BY <2>1, <3>1
      <4>2. waiting' \in Nat /\ insidePort' \in Nat
        BY <2>4, <4>1 DEF TypeOK, Attach
      <4>. QED  BY <2>2, <4>1, <4>2
    <3>2. CASE tasks[i].kind # "connect"
      BY <2>1, <2>5, <3>2 DEF TypeOK
    <3>. QED  BY <3>1, <3>2
  <2>. QED  BY <2>1, <2>3, <2>6 DEF TypeOK
<1>15. CASE Compose
  BY <1>15 DEF TypeOK, Compose, AttachWaiting, Attach
<1>16. CASE Report
  <2>1. PICK kind \in {"message", "error"} :
          /\ CanPost /\ fromThread' = Append(fromThread, kind)
          /\ UNCHANGED <<outside, toThread, pipe, inside>>
    BY <1>16 DEF Report
  <2>2. fromThread' \in Seq({"ready", "message", "error"})
    BY <2>1, AppendProperties DEF TypeOK
  <2>3. sent' \in [Kinds \cup {"post"} -> Nat]
    BY <2>1, <1>a DEF CanPost
  <2>. QED  BY <2>1, <2>2, <2>3 DEF TypeOK
<1>17. CASE PostMessage
  <2>1. sent' \in [Kinds \cup {"post"} -> Nat]
    BY <1>17, <1>a DEF PostMessage, CanPost
  <2>. QED  BY <1>17, <2>1 DEF TypeOK, PostMessage
<1>18. CASE Disconnect \/ InsideHangup \/ End
  <2>1. CASE Disconnect
    BY <2>1 DEF TypeOK, Disconnect
  <2>2. CASE InsideHangup
    BY <2>2 DEF TypeOK, InsideHangup
  <2>3. CASE End
    BY <2>3 DEF TypeOK, End
  <2>. QED  BY <1>18, <2>1, <2>2, <2>3
<1>19. CASE UNCHANGED vars
  BY <1>19 DEF TypeOK
<1>. QED  BY <1>1, <1>2, <1>3, <1>4, <1>5, <1>6, <1>7, <1>8, <1>9, <1>10, <1>11, <1>12, <1>13,
             <1>14, <1>15, <1>16, <1>17, <1>18, <1>19, Zenon DEF Next, Events, Inside

\* Every variable keeps its type, for any number of commands and messages.
THEOREM TypeCorrect == Spec => []TypeOK
<1>1. Init => TypeOK
  <2>1. <<>> \in Seq(Commands) /\ <<>> \in Seq({"ready", "message", "error"})
    OBVIOUS
  <2>2. [kind \in Kinds \cup {"post"} |-> 0] \in [Kinds \cup {"post"} -> Nat]
    OBVIOUS
  <2>. QED  BY <2>1, <2>2 DEF Init, TypeOK
<1>. QED  BY <1>1, TypeStep, PTL DEF Spec

-----------------------------------------------------------------------------
(* The life of the thread.                                                  *)

LEMMA LifeStep ==
  ASSUME TypeOK, IInv, [Next]_vars
  PROVE  IInv'
<1> USE DEF vars, outside, inside, native, IInv, Lifecycle, SilentOnceTerminated,
            ReleasedWhenClosed, Accepts, CleaningUp
<1>1. CASE Send
  BY <1>1 DEF Send
<1>2. CASE ConnectMessagePort
  BY <1>2 DEF ConnectMessagePort
<1>3. CASE FetchScript
  BY <1>3 DEF FetchScript
<1>4. CASE Terminate
  BY <1>4 DEF Terminate, StopDelivery, Settle
<1>5. ASSUME NEW n \in fetching, ResponseArrives(n)
      PROVE  IInv'
  BY <1>5 DEF ResponseArrives
<1>6. CASE ThreadMessageArrives
  <2>1. \/ state' = state /\ ready' = ready
        \/ Takes /\ state' = "running" /\ Settle("fulfilled")
    BY <1>6 DEF ThreadMessageArrives
  <2>. QED  BY <1>6, <2>1 DEF ThreadMessageArrives, Takes, Settle
<1>7. CASE PortMessageArrives
  BY <1>7 DEF PortMessageArrives
<1>8. CASE Deliver
  BY <1>8 DEF Deliver
<1>9. CASE HangupArrives
  BY <1>9 DEF HangupArrives
<1>10. CASE Exit
  BY <1>10 DEF Exit
<1>11. CASE CleanUp
  <2>1. ready' # "pending"
    BY <1>11 DEF CleanUp, ReadySettles, Settle, TypeOK
  <2>. QED  BY <1>11, <2>1 DEF CleanUp, Canceled
<1>12. CASE Inside \/ Compose \/ Report \/ PostMessage \/ Disconnect \/ InsideHangup \/ End
  <2>1. UNCHANGED outside
    BY <1>12 DEF Inside, Start, CommandArrives, RunTask, Compose, Report, PostMessage,
                 Disconnect, InsideHangup, End
  <2>. QED  BY <2>1
<1>13. CASE UNCHANGED vars
  BY <1>13
<1>. QED  BY <1>1, <1>2, <1>3, <1>4, <1>5, <1>6, <1>7, <1>8, <1>9, <1>10, <1>11, <1>12, <1>13,
             Zenon DEF Next, Events

\* The worker's state, its promise and the flags of its thread go together.
THEOREM Invariance == Spec => []IInv
<1>1. Init => IInv
  BY DEF Init, IInv, Lifecycle, SilentOnceTerminated, ReleasedWhenClosed
<1>2. TypeOK /\ IInv /\ [Next]_vars => IInv'
  BY LifeStep
<1>. QED  BY <1>1, <1>2, TypeCorrect, PTL DEF Spec

\* From terminate() on nothing reaches the outside queue (worker-thread.ts).
THEOREM Silence == Spec => []SilentOnceTerminated
<1>1. IInv => SilentOnceTerminated
  BY DEF IInv
<1>. QED  BY <1>1, Invariance, PTL

\* The reaction to the exit releases all that waits for the thread.
THEOREM Release == Spec => []ReleasedWhenClosed
<1>1. IInv => ReleasedWhenClosed
  BY DEF IInv
<1>. QED  BY <1>1, Invariance, PTL

-----------------------------------------------------------------------------
(* The line of scripts to the worker.                                       *)

Ordered(s) == \A i, j \in 1..Len(s) :
  i < j /\ s[i].kind = "script" /\ s[j].kind = "script" => s[i].number < s[j].number

Precedes(s, t) == \A i \in 1..Len(s), j \in 1..Len(t) :
  s[i].kind = "script" /\ t[j].kind = "script" => s[i].number < t[j].number

Below(s, n) == \A i \in 1..Len(s) : s[i].kind = "script" => s[i].number < n

\* The three parts of the line are ordered, each before the next, and before a
\* fetch that can still answer; there is one such fetch at most.
ScriptInv ==
  /\ Ordered(handed) /\ Ordered(tasks) /\ Ordered(toThread)
  /\ Precedes(handed, tasks) /\ Precedes(handed, toThread) /\ Precedes(tasks, toThread)
  /\ fetching \subseteq {scriptFetch} \cap (1..sent["script"])
  /\ \A s \in {handed, tasks, toThread} :
       Below(s, sent["script"] + 1) /\ \A n \in fetching : Below(s, n)

\* A command that is no script, or one above the others, goes to the end.
LEMMA ScriptAppend ==
  ASSUME NEW s \in Seq(Commands), NEW c \in Commands, Ordered(s),
         c.kind = "script" => Below(s, c.number)
  PROVE  /\ Ordered(Append(s, c))
         /\ \A t \in Seq(Commands) :
              /\ Precedes(s, t) /\ (c.kind = "script" =>
                   \A j \in 1..Len(t) : t[j].kind = "script" => c.number < t[j].number)
                   => Precedes(Append(s, c), t)
              /\ Precedes(t, s) /\ (c.kind = "script" => Below(t, c.number))
                   => Precedes(t, Append(s, c))
         /\ \A n \in Nat : Below(s, n) /\ (c.kind = "script" => c.number < n)
              => Below(Append(s, c), n)
<1> DEFINE a == Append(s, c)
<1>1. /\ Len(s) \in Nat /\ Len(a) = Len(s) + 1
      /\ \A i \in 1..Len(s) : a[i] = s[i]
      /\ a[Len(s) + 1] = c
  BY AppendProperties, LenProperties
<1> HIDE DEF a
<1>2. \A i \in 1..Len(a) : \/ i \in 1..Len(s) /\ a[i] = s[i]
                           \/ i = Len(s) + 1 /\ a[i] = c
  BY <1>1
<1>3. Ordered(a)
  BY <1>1, <1>2 DEF Ordered, Below
<1>4. ASSUME NEW t \in Seq(Commands), Precedes(s, t),
             c.kind = "script" =>
               \A j \in 1..Len(t) : t[j].kind = "script" => c.number < t[j].number
      PROVE  Precedes(a, t)
  BY <1>2, <1>4 DEF Precedes
<1>5. ASSUME NEW t \in Seq(Commands), Precedes(t, s), c.kind = "script" => Below(t, c.number)
      PROVE  Precedes(t, a)
  BY <1>2, <1>5 DEF Precedes, Below
<1>6. ASSUME NEW n \in Nat, Below(s, n), c.kind = "script" => c.number < n
      PROVE  Below(a, n)
  BY <1>2, <1>6 DEF Below
<1>. QED  BY <1>3, <1>4, <1>5, <1>6 DEF a

\* What is left when one command is removed.
LEMMA ScriptRemove ==
  ASSUME NEW s \in Seq(Commands), NEW k \in 1..Len(s)
  PROVE  /\ RemoveAt(s, k) \in Seq(Commands)
         /\ Ordered(s) => Ordered(RemoveAt(s, k))
         /\ \A t \in Seq(Commands) :
              /\ Precedes(s, t) => Precedes(RemoveAt(s, k), t)
              /\ Precedes(t, s) => Precedes(t, RemoveAt(s, k))
         /\ \A n \in Nat : Below(s, n) => Below(RemoveAt(s, k), n)
<1> DEFINE r == RemoveAt(s, k)   f == [i \in 1..Len(r) |-> IF i < k THEN i ELSE i + 1]
<1>1. /\ r \in Seq(Commands) /\ Len(r) = Len(s) - 1 /\ Len(s) \in Nat
      /\ \A i \in 1..(Len(s) - 1) : r[i] = IF i < k THEN s[i] ELSE s[i + 1]
  BY RemoveAtElements, LenProperties
<1> HIDE DEF r
<1>2. \A i \in 1..Len(r) : f[i] \in 1..Len(s) /\ r[i] = s[f[i]]
  BY <1>1
<1>3. \A i, j \in 1..Len(r) : i < j => f[i] < f[j]
  BY <1>1
<1> HIDE DEF f
<1>4. ASSUME Ordered(s)
      PROVE  Ordered(r)
  <2>1. SUFFICES ASSUME NEW i \in 1..Len(r), NEW j \in 1..Len(r), i < j,
                        r[i].kind = "script", r[j].kind = "script"
                 PROVE  r[i].number < r[j].number
    BY DEF Ordered
  <2>2. f[i] < f[j] /\ f[i] \in 1..Len(s) /\ f[j] \in 1..Len(s) /\ r[i] = s[f[i]] /\ r[j] = s[f[j]]
    BY <1>2, <1>3, <2>1
  <2>. QED  BY <1>4, <2>1, <2>2 DEF Ordered
<1>5. ASSUME NEW t \in Seq(Commands)
      PROVE  (Precedes(s, t) => Precedes(r, t)) /\ (Precedes(t, s) => Precedes(t, r))
  BY <1>2 DEF Precedes
<1>6. ASSUME NEW n \in Nat
      PROVE  Below(s, n) => Below(r, n)
  BY <1>2 DEF Below
<1>. QED  BY <1>1, <1>4, <1>5, <1>6 DEF r

\* A command for the thread that is no script, or the script of the pending fetch.
LEMMA ScriptSent ==
  ASSUME TypeOK, ScriptInv, NEW kind \in Kinds, NEW n \in Nat, ToThread(kind, n),
         kind = "script" => n \in fetching, UNCHANGED <<handed, tasks>>,
         fetching' \subseteq fetching,
         kind = "script" => fetching' = {},
         fetching' \subseteq {scriptFetch'} \cap (1..sent["script"]),
         sent'["script"] = sent["script"]
  PROVE  ScriptInv'
<1> DEFINE c == [kind |-> kind, number |-> n]
<1>1. c \in Commands /\ c.kind = kind /\ c.number = n /\ toThread' = Append(toThread, c)
  BY DEF Commands, ToThread
<1>2. /\ handed \in Seq(Commands) /\ tasks \in Seq(Commands) /\ toThread \in Seq(Commands)
      /\ sent["script"] \in Nat
  BY DEF TypeOK, Kinds
<1>3. \A s \in {handed, tasks, toThread} :
        Below(s, sent["script"] + 1) /\ \A m \in fetching : Below(s, m)
  BY DEF ScriptInv
<1>4. kind = "script" => Below(handed, n) /\ Below(tasks, n) /\ Below(toThread, n)
  BY <1>3
<1>5. kind = "script" => n < sent["script"] + 1
  BY <1>2 DEF ScriptInv
<1> HIDE DEF c
<1>6. /\ Ordered(toThread') /\ Precedes(handed, toThread') /\ Precedes(tasks, toThread')
      /\ Below(toThread', sent["script"] + 1)
  BY <1>1, <1>2, <1>3, <1>4, <1>5, ScriptAppend DEF ScriptInv
<1>7. \A m \in fetching' : Below(toThread', m)
  <2>1. CASE kind = "script"
    BY <2>1
  <2>2. CASE kind # "script"
    <3>1. ASSUME NEW m \in fetching'
          PROVE  Below(toThread', m)
      <4>1. m \in Nat /\ Below(toThread, m)
        BY <1>2, <1>3, <3>1
      <4>. QED  BY <4>1, <1>1, <1>2, <1>3, <2>2, ScriptAppend DEF ScriptInv
    <3>. QED  BY <3>1
  <2>. QED  BY <2>1, <2>2
<1>8. fetching' \subseteq {scriptFetch'} \cap (1..sent'["script"])
  OBVIOUS
<1>9. \A s \in {handed', tasks', toThread'} :
        Below(s, sent'["script"] + 1) /\ \A m \in fetching' : Below(s, m)
  BY <1>3, <1>6, <1>7
<1>. QED  BY <1>6, <1>8, <1>9 DEF ScriptInv

LEMMA ScriptStep ==
  ASSUME TypeOK, ScriptInv, [Next]_vars
  PROVE  ScriptInv'
<1> USE DEF vars, outside, inside, native
<1>0. /\ handed \in Seq(Commands) /\ tasks \in Seq(Commands) /\ toThread \in Seq(Commands)
      /\ sent["script"] \in Nat /\ scriptFetch \in Nat
      /\ "script" \in Kinds /\ "message" \in Kinds /\ "connect" \in Kinds
      /\ sent["message"] \in Nat /\ sent["connect"] \in Nat
      /\ sent \in [Kinds \cup {"post"} -> Nat]
  BY DEF TypeOK, Kinds
<1>1. ASSUME UNCHANGED <<handed, tasks, toThread>>, fetching' \subseteq fetching,
             fetching' # {} => scriptFetch' = scriptFetch,
             sent'["script"] = sent["script"]
      PROVE  ScriptInv'
  BY <1>1 DEF ScriptInv
<1>2. CASE Send
  <2>1. sent'["script"] = sent["script"]
    BY <1>2, <1>0 DEF Send, Counted
  <2>2. /\ ToThread("message", sent["message"] + 1) /\ UNCHANGED <<handed, tasks>>
        /\ fetching' = fetching /\ scriptFetch' = scriptFetch
    BY <1>2 DEF Send
  <2>3. /\ sent["message"] + 1 \in Nat /\ "message" # "script" /\ fetching' \subseteq fetching
        /\ fetching' \subseteq {scriptFetch'} \cap (1..sent["script"])
    BY <1>0, <2>2 DEF ScriptInv
  <2>. QED  BY ONLY TypeOK, ScriptInv, <1>0, <2>1, <2>2, <2>3, ScriptSent
<1>3. CASE ConnectMessagePort
  <2>1. sent'["script"] = sent["script"]
    BY <1>3, <1>0 DEF ConnectMessagePort, Counted
  <2>2. /\ ToThread("connect", sent["connect"] + 1) /\ UNCHANGED <<handed, tasks>>
        /\ fetching' = fetching /\ scriptFetch' = scriptFetch
    BY <1>3 DEF ConnectMessagePort
  <2>3. /\ sent["connect"] + 1 \in Nat /\ "connect" # "script" /\ fetching' \subseteq fetching
        /\ fetching' \subseteq {scriptFetch'} \cap (1..sent["script"])
    BY <1>0, <2>2 DEF ScriptInv
  <2>. QED  BY ONLY TypeOK, ScriptInv, <1>0, <2>1, <2>2, <2>3, ScriptSent
<1>4. CASE FetchScript
  <2>1. sent'["script"] = sent["script"] + 1
    BY <1>4, <1>0 DEF FetchScript, Counted
  <2>2. fetching = {}
    BY <1>4 DEF FetchScript, NoFetchPending, ScriptInv
  <2>3. /\ fetching' = {sent["script"] + 1} /\ scriptFetch' = sent["script"] + 1
        /\ UNCHANGED <<handed, tasks, toThread>>
    BY <1>4, <2>2 DEF FetchScript
  <2>4. \A s \in {handed, tasks, toThread} :
          Below(s, sent["script"] + 1) /\ Below(s, sent["script"] + 1 + 1)
    <3>1. ASSUME NEW s \in Seq(Commands), Below(s, sent["script"] + 1)
          PROVE  Below(s, sent["script"] + 1 + 1)
      <4>1. \A i \in 1..Len(s) : s[i] \in Commands
        BY ElementOfSeq
      <4>2. \A i \in 1..Len(s) : s[i].number \in Nat
        BY <4>1 DEF Commands
      <4>. QED  BY <1>0, <3>1, <4>2 DEF Below
    <3>. QED  BY <1>0, <3>1 DEF ScriptInv
  <2>. QED  BY <1>0, <2>1, <2>2, <2>3, <2>4 DEF ScriptInv
<1>5. CASE Terminate
  BY <1>5, <1>1 DEF Terminate
<1>6. ASSUME NEW n \in fetching, ResponseArrives(n)
      PROVE  ScriptInv'
  <2>1. fetching' = {} /\ UNCHANGED <<handed, tasks, sent>>
    BY <1>6 DEF ResponseArrives, ScriptInv
  <2>2. CASE state = "running"
    <3>1. ToThread("script", n) /\ n \in Nat
      BY <1>6, <2>2 DEF ResponseArrives, HandOn, TypeOK
    <3>. QED  BY <1>0, <2>1, <3>1, ScriptSent
  <2>3. CASE state # "running"
    BY <1>6, <1>1, <2>1, <2>3 DEF ResponseArrives, HandOn
  <2>. QED  BY <2>2, <2>3
<1>7. CASE ThreadMessageArrives
  BY <1>7, <1>1 DEF ThreadMessageArrives
<1>8. CASE PortMessageArrives \/ Deliver \/ HangupArrives \/ Exit
  BY <1>8, <1>1 DEF PortMessageArrives, Deliver, HangupArrives, Exit
<1>9. CASE CleanUp
  BY <1>9, <1>1 DEF CleanUp, Canceled
<1>10. CASE Start \/ Compose \/ Disconnect \/ InsideHangup \/ End
  BY <1>10, <1>1 DEF Start, Compose, Disconnect, InsideHangup, End
<1>11. CASE Report
  <2>1. sent'["script"] = sent["script"]
    BY <1>11, <1>0 DEF Report, CanPost, Counted
  <2>. QED  BY <1>11, <1>1, <2>1 DEF Report
<1>12. CASE PostMessage
  <2>1. sent'["script"] = sent["script"]
    BY <1>12, <1>0 DEF PostMessage, CanPost, Counted
  <2>. QED  BY <1>12, <1>1, <2>1 DEF PostMessage
<1>13. CASE CommandArrives
  <2> DEFINE c == Head(toThread)
  <2>1. /\ toThread' = Tail(toThread) /\ tasks' = Append(tasks, c) /\ toThread # <<>>
        /\ UNCHANGED <<handed, fetching, scriptFetch, sent>>
    BY <1>13 DEF CommandArrives
  <2>2. /\ c = toThread[1] /\ c \in Commands /\ 1 \in 1..Len(toThread)
        /\ toThread' = RemoveAt(toThread, 1) /\ toThread' \in Seq(Commands)
        /\ Len(toThread') = Len(toThread) - 1 /\ Len(toThread) \in Nat
        /\ \A j \in 1..Len(toThread') : toThread'[j] = toThread[j + 1]
    BY <1>0, <2>1, HeadTailProperties, RemoveAtFirst, EmptySeq, LenProperties
  <2> HIDE DEF c
  <2>3. c.kind = "script" =>
          \A j \in 1..Len(toThread') : toThread'[j].kind = "script" => c.number < toThread'[j].number
    BY <2>2 DEF ScriptInv, Ordered
  <2>4. c.kind = "script" => Below(tasks, c.number) /\ Below(handed, c.number)
    BY <2>2 DEF ScriptInv, Precedes, Below
  <2>5. \A m \in Nat : Below(toThread, m) => (c.kind = "script" => c.number < m)
    BY <2>2 DEF Below
  <2>6. /\ Ordered(tasks') /\ Precedes(handed, tasks') /\ Precedes(tasks', toThread')
        /\ \A m \in Nat : Below(tasks, m) /\ Below(toThread, m) => Below(tasks', m)
    <3>1. Precedes(tasks, toThread')
      BY <1>0, <2>2, ScriptRemove DEF ScriptInv
    <3>2. Ordered(tasks) /\ Precedes(handed, tasks)
      BY DEF ScriptInv
    <3>3. Ordered(tasks') /\ Precedes(handed, tasks') /\ Precedes(tasks', toThread')
      BY <1>0, <2>1, <2>2, <2>3, <2>4, <3>1, <3>2, ScriptAppend
    <3>4. ASSUME NEW m \in Nat, Below(tasks, m), Below(toThread, m)
          PROVE  Below(tasks', m)
      BY <1>0, <2>1, <2>2, <2>4, <2>5, <3>2, <3>4, ScriptAppend
    <3>. QED  BY <3>3, <3>4
  <2>7. /\ Ordered(toThread') /\ Precedes(handed, toThread')
        /\ \A m \in Nat : Below(toThread, m) => Below(toThread', m)
    BY <1>0, <2>2, ScriptRemove DEF ScriptInv
  <2>8. \A m \in fetching : m \in Nat
    BY DEF TypeOK
  <2>. QED  BY <1>0, <2>1, <2>6, <2>7, <2>8 DEF ScriptInv
<1>14. CASE RunTask
  <2>1. PICK k \in DOMAIN tasks :
          /\ IsFirst(k) /\ tasks' = RemoveAt(tasks, k)
          /\ IF tasks[k].kind = "connect"
             THEN Attach(tasks[k].number, composed) /\ UNCHANGED handed
             ELSE handed' = Append(handed, tasks[k]) /\ UNCHANGED <<waiting, insidePort>>
          /\ UNCHANGED <<outside, native, alive, endpoint, composed, sent>>
    BY <1>14, Zenon DEF RunTask
  <2> DEFINE c == tasks[k]
  <2>2. k \in 1..Len(tasks) /\ c \in Commands /\ Len(tasks) \in Nat
    BY <1>0, <2>1, ElementOfSeq, LenProperties
  <2>3. /\ tasks' \in Seq(Commands) /\ Len(tasks') = Len(tasks) - 1
        /\ \A i \in 1..(Len(tasks) - 1) : tasks'[i] = IF i < k THEN tasks[i] ELSE tasks[i + 1]
    BY <1>0, <2>1, <2>2, RemoveAtElements
  <2>4. /\ Ordered(tasks') /\ Precedes(handed, tasks') /\ Precedes(tasks', toThread)
        /\ \A m \in Nat : Below(tasks, m) => Below(tasks', m)
    BY <1>0, <2>1, <2>2, ScriptRemove DEF ScriptInv
  <2>5. UNCHANGED <<toThread, fetching, scriptFetch, sent>>
    BY <2>1
  <2>6. \A m \in fetching : m \in Nat
    BY DEF TypeOK
  <2>7. CASE tasks[k].kind = "connect"
    <3>1. UNCHANGED handed
      BY <2>1, <2>7
    <3>. QED  BY <1>0, <2>4, <2>5, <2>6, <3>1 DEF ScriptInv
  <2>8. CASE tasks[k].kind # "connect"
    <3>1. handed' = Append(handed, c)
      BY <2>1, <2>8
    <3>2. c.kind = "script" =>
            \A j \in 1..Len(tasks') : tasks'[j].kind = "script" => c.number < tasks'[j].number
      <4>1. SUFFICES ASSUME c.kind = "script", NEW j \in 1..Len(tasks'), tasks'[j].kind = "script"
                     PROVE  c.number < tasks'[j].number
        OBVIOUS
      <4>2. ~(j < k)
        <5>1. SUFFICES ASSUME j < k PROVE FALSE
          OBVIOUS
        <5>2. tasks'[j] = tasks[j] /\ j \in 1..(k - 1)
          BY <2>2, <2>3, <5>1
        <5>. QED  BY <2>1, <4>1, <5>2 DEF IsFirst
      <4>3. tasks'[j] = tasks[j + 1] /\ j + 1 \in 1..Len(tasks) /\ k < j + 1
        BY <2>2, <2>3, <4>2
      <4>. QED  BY <2>2, <4>1, <4>3 DEF ScriptInv, Ordered
    <3>3. c.kind = "script" => Below(handed, c.number)
      BY <2>2 DEF ScriptInv, Precedes, Below
    <3>4. c.kind = "script" =>
            \A j \in 1..Len(toThread) : toThread[j].kind = "script" => c.number < toThread[j].number
      BY <2>2 DEF ScriptInv, Precedes
    <3>5. \A m \in Nat : Below(tasks, m) => (c.kind = "script" => c.number < m)
      BY <2>2 DEF Below
    <3>6. Ordered(handed) /\ Precedes(handed, toThread)
      BY DEF ScriptInv
    <3> HIDE DEF c
    <3>7. /\ Ordered(handed') /\ Precedes(handed', tasks') /\ Precedes(handed', toThread)
          /\ \A m \in Nat : Below(handed, m) /\ Below(tasks, m) => Below(handed', m)
      BY <1>0, <2>2, <2>3, <2>4, <3>1, <3>2, <3>3, <3>4, <3>5, <3>6, ScriptAppend
    <3>. QED  BY <1>0, <2>4, <2>5, <2>6, <3>7 DEF ScriptInv
  <2>. QED  BY <2>7, <2>8
<1>15. CASE UNCHANGED vars
  BY <1>15, <1>1
<1>. QED  BY <1>2, <1>3, <1>4, <1>5, <1>6, <1>7, <1>8, <1>9, <1>10, <1>11, <1>12, <1>13, <1>14,
             <1>15, Zenon DEF Next, Events, Inside

LEMMA ScriptConcat ==
  ASSUME NEW s \in Seq(Commands), NEW t \in Seq(Commands),
         Ordered(s), Ordered(t), Precedes(s, t)
  PROVE  /\ s \o t \in Seq(Commands) /\ Ordered(s \o t)
         /\ \A u : Precedes(s, u) /\ Precedes(t, u) => Precedes(s \o t, u)
<1> DEFINE a == s \o t
<1>1. /\ a \in Seq(Commands) /\ Len(a) = Len(s) + Len(t)
      /\ \A i \in 1..(Len(s) + Len(t)) : a[i] = IF i <= Len(s) THEN s[i] ELSE t[i - Len(s)]
      /\ Len(s) \in Nat /\ Len(t) \in Nat
  BY ConcatProperties, LenProperties
<1> HIDE DEF a
<1>2. ASSUME NEW i \in 1..Len(a), ~(i <= Len(s))
      PROVE  i - Len(s) \in 1..Len(t) /\ a[i] = t[i - Len(s)]
  BY <1>1, <1>2
<1>3. ASSUME NEW i \in 1..Len(a), i <= Len(s)
      PROVE  i \in 1..Len(s) /\ a[i] = s[i]
  BY <1>1, <1>3
<1>4. Ordered(a)
  <2>1. SUFFICES ASSUME NEW i \in 1..Len(a), NEW j \in 1..Len(a), i < j,
                        a[i].kind = "script", a[j].kind = "script"
                 PROVE  a[i].number < a[j].number
    BY DEF Ordered
  <2>2. CASE j <= Len(s)
    <3>1. i <= Len(s)
      BY <1>1, <2>1, <2>2
    <3>. QED  BY <1>3, <2>1, <2>2, <3>1 DEF Ordered
  <2>3. CASE ~(j <= Len(s)) /\ i <= Len(s)
    BY <1>2, <1>3, <2>1, <2>3 DEF Precedes
  <2>4. CASE ~(j <= Len(s)) /\ ~(i <= Len(s))
    <3>1. i - Len(s) < j - Len(s)
      BY <1>1, <2>1
    <3>. QED  BY <1>2, <2>1, <2>4, <3>1 DEF Ordered
  <2>. QED  BY <2>2, <2>3, <2>4
<1>5. ASSUME NEW u, Precedes(s, u), Precedes(t, u)
      PROVE  Precedes(a, u)
  BY <1>2, <1>3, <1>5 DEF Precedes
<1>. QED  BY <1>1, <1>4, <1>5 DEF a

LEMMA ScriptLine ==
  ASSUME TypeOK, ScriptInv
  PROVE  ScriptsOnce
<1> DEFINE a == handed \o tasks   line == a \o toThread
<1>1. handed \in Seq(Commands) /\ tasks \in Seq(Commands) /\ toThread \in Seq(Commands)
  BY DEF TypeOK
<1>2. a \in Seq(Commands) /\ Ordered(a) /\ Precedes(a, toThread)
  BY <1>1, ScriptConcat DEF ScriptInv
<1> HIDE DEF a
<1>3. line \in Seq(Commands) /\ Ordered(line)
  BY <1>1, <1>2, ScriptConcat DEF ScriptInv
<1>4. DOMAIN line = 1..Len(line)
  BY <1>3, LenProperties
<1>. QED  BY <1>3, <1>4 DEF ScriptsOnce, Ordered, a

\* The scripts of successive fetches reach the worker in order, each once, however
\* responses, termination and exit interleave.
THEOREM ScriptsInOrder == Spec => []ScriptsOnce
<1>1. Init => ScriptInv
  <2>1. ASSUME NEW n \in Nat
        PROVE  Ordered(<<>>) /\ Precedes(<<>>, <<>>) /\ Below(<<>>, n)
    BY DEF Ordered, Precedes, Below
  <2>. QED  BY <2>1 DEF Init, ScriptInv, Kinds
<1>2. TypeOK /\ ScriptInv /\ [Next]_vars => ScriptInv'
  BY ScriptStep
<1>3. TypeOK /\ ScriptInv => ScriptsOnce
  BY ScriptLine
<1>. QED  BY <1>1, <1>2, <1>3, TypeCorrect, PTL DEF Spec
=============================================================================
