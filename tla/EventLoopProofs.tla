--------------------------- MODULE EventLoopProofs --------------------------
(***************************************************************************)
(* The inductive invariant of the event loop, and the proof that it holds  *)
(* for every set of tasks, sources and documents, every kind of agent and  *)
(* every depth of nesting.                                                 *)
(***************************************************************************)
EXTENDS EventLoop, SequenceTheorems, TLAPS

TurnKinds == {"turn", "spun", "endTurn", "endCheckpoint"}
ContextsAbove(f) == IF f.kind \in {"script", "platform"} THEN f.base + 1 ELSE f.base

\* Each activity of the stack fs records the contexts below it, so that their
\* number c is known all the way down.
Contexts(fs, c) ==
  /\ fs = <<>> => c = 0
  /\ fs # <<>> => fs[1].base = 0 /\ c = ContextsAbove(fs[Len(fs)])
  /\ \A i \in 2..Len(fs) : fs[i].base = ContextsAbove(fs[i - 1])

\* Which activities stand where; run: a task turn is in progress.
Shape(fs, run) ==
  /\ fs # <<>> => fs[1].kind \notin {"platform", "microtask", "pause"}
  /\ \A i \in 2..Len(fs) :
       /\ fs[i].kind \notin TurnKinds \cup {"tick"}
       /\ fs[i].kind = "host" => run \/ fs[i - 1].kind \in {"script", "platform", "microtask"}
       /\ fs[i].kind = "microtask" =>
            /\ fs[i - 1].kind \in {"drain", "tick"}
            /\ fs[i].flag <=> fs[i - 1].kind = "drain"
  /\ \A i \in 1..Len(fs) : fs[i].kind = "pause" => i = Len(fs)
  /\ \A i, j \in 1..Len(fs) :
       fs[i].kind = "drain" /\ j < i => fs[j].kind \notin {"drain", "microtask"}
  /\ \A i \in 1..Len(fs) : fs[i].kind = "drain" => fs[i].base = 0
  /\ Len(fs) > 1 /\ fs[1].kind = "host" =>
       fs[2].kind = "drain" \/ (fs[2].kind = "script" /\ fs[2].flag)
  /\ Len(fs) > 1 /\ fs[1].kind \in {"spun", "endTurn", "endCheckpoint"} => fs[2].kind = "drain"
  /\ fs # <<>> /\ fs[1].kind = "tick" => Ambient

\* The loop's flags say what the stack says.
Flags(fs, run, perf, pse) ==
  /\ run \in BOOLEAN /\ perf \in BOOLEAN /\ pse \in BOOLEAN
  /\ run <=> fs # <<>> /\ fs[1].kind \in {"turn", "spun", "endTurn"}
  /\ perf <=> \E i \in 1..Len(fs) : fs[i].kind \in {"drain", "microtask"}
  /\ pse <=> fs # <<>> /\ fs[Len(fs)].kind = "pause"

Stack(fs, run, perf, pse, c) == Contexts(fs, c) /\ Shape(fs, run) /\ Flags(fs, run, perf, pse)

StackOK == Stack(frames, runningTaskTurn, performing, paused, contexts)

Bottom(kinds) == ~AtRest /\ frames[1].kind \in kinds
KindsOf(fs) == {fs[i].kind : i \in 1..Len(fs)}
Present(kind) == kind \in KindsOf(frames)

\* The current task is owned by an activity in progress.
CurrentOK ==
  /\ turnTask # None <=> Bottom({"turn", "spun"})
  /\ current \in Task => current = turnTask
  /\ current = Microtask => Present("microtask")
  /\ current = HostEntry => Present("host")

\* The task of the turn is not queued, and cannot be; nor is any task of a closing loop.
TasksOK ==
  /\ turnTask # None => fate[turnTask] \in {"running", "spun"}
  /\ closing \/ destroyed => \A t \in Task : fate[t] # "queued"

\* No checkpoint is in progress on a destroyed loop.
DrainsOK == performing /\ destroyed => Ambient

\* Pending microtasks have somebody who will run them, unless nested direct
\* evaluations left them behind.
MicrotasksOK ==
  microtasks > unannounced /\ ~Ambient =>
    /\ ~destroyed
    /\ checkpointRequested \/ runningTaskTurn \/ performing \/ Bottom({"host"})
    /\ ~(Bottom({"host"}) /\ Len(frames) = 1)

\* A turn in progress keeps its request until its end.
TurnOK ==
  /\ Bottom(TurnKinds) => turnRequested /\ ~destroyed
  /\ destroyed => ~turnRequested

IInv ==
  /\ TypeOK /\ StackOK /\ CurrentOK /\ TasksOK
  /\ DrainsOK /\ MicrotasksOK /\ TurnOK /\ NoLostWakeup /\ TurnEndsDrained
-----------------------------------------------------------------------------
(* Sequences *)

LEMMA PushFacts ==
  ASSUME NEW S, NEW s \in Seq(S), NEW e \in S
  PROVE  /\ Append(s, e) \in Seq(S)
         /\ Len(Append(s, e)) = Len(s) + 1
         /\ DOMAIN Append(s, e) = 1..(Len(s) + 1)
         /\ \A i \in 1..Len(s) : Append(s, e)[i] = s[i]
         /\ Append(s, e)[Len(s) + 1] = e
         /\ Append(s, e) # <<>>
  BY AppendProperties

LEMMA PopFacts ==
  ASSUME NEW S, NEW s \in Seq(S), s # <<>>
  PROVE  /\ Front(s) \in Seq(S)
         /\ Len(s) \in Nat \ {0}
         /\ Len(Front(s)) = Len(s) - 1
         /\ DOMAIN Front(s) = 1..(Len(s) - 1)
         /\ \A i \in 1..(Len(s) - 1) : Front(s)[i] = s[i]
         /\ Last(s) = s[Len(s)] /\ Last(s) \in S
<1>1. Len(s) \in Nat \ {0}
  BY EmptySeq, LenProperties
<1>2. Front(s) = SubSeq(s, 1, Len(s) - 1) /\ Last(s) = s[Len(s)]
  BY DEF Front, Last
<1>3. \A i \in 1..(Len(s) - 1) : s[i] \in S
  BY ElementOfSeq, <1>1
<1>4. Last(s) \in S
  BY ElementOfSeq, <1>1, <1>2
<1>5. /\ Front(s) \in Seq(S)
      /\ Len(Front(s)) = Len(s) - 1
      /\ \A i \in 1..(Len(s) - 1) : Front(s)[i] = s[i]
  <2> DEFINE n == Len(s) - 1
  <2>1. n \in Nat /\ \A i \in 1..n : s[i] \in S
    BY <1>1, <1>3
  <2>2. /\ SubSeq(s, 1, n) \in Seq(S)
        /\ Len(SubSeq(s, 1, n)) = IF 1 <= n THEN n - 1 + 1 ELSE 0
        /\ \A i \in 1..(n - 1 + 1) : SubSeq(s, 1, n)[i] = s[1 + i - 1]
    <3> HIDE DEF n
    <3> QED  BY SubSeqProperties, <2>1
  <2>3. Len(SubSeq(s, 1, n)) = n /\ \A i \in 1..n : SubSeq(s, 1, n)[i] = s[i]
    <3> HIDE DEF n
    <3>1. n - 1 + 1 = n /\ \A i \in 1..n : 1 + i - 1 = i
      BY <2>1
    <3> QED  BY <2>1, <2>2, <3>1
  <2>4. Front(s) = SubSeq(s, 1, n) /\ n = Len(s) - 1
    BY <1>2
  <2>. HIDE DEF n
  <2>. QED  BY <2>2, <2>3, <2>4
<1>6. DOMAIN Front(s) = 1..(Len(s) - 1)
  BY <1>5, LenProperties
<1>. QED  BY <1>1, <1>2, <1>4, <1>5, <1>6
-----------------------------------------------------------------------------
(* Type correctness *)

LEMMA BeginCheckpointType ==
  ASSUME NEW fs \in Seq(Frame), contexts' \in Nat, BeginCheckpoint(fs), TypeOK
  PROVE  frames' \in Seq(Frame) /\ performing' \in BOOLEAN /\ checkpointRequested' \in BOOLEAN
<1> DEFINE drain == [kind |-> "drain", flag |-> FALSE, base |-> contexts']
<1>1. performing \in BOOLEAN /\ checkpointRequested \in BOOLEAN
  BY DEF TypeOK
<1>2. Append(fs, drain) \in Seq(Frame)
  <2>1. drain \in Frame
    BY DEF Frame
  <2>. HIDE DEF drain
  <2>. QED  BY <2>1, PushFacts
<1>3. \/ frames' = fs /\ performing' = performing /\ checkpointRequested' = checkpointRequested
      \/ frames' = Append(fs, drain) /\ performing' = TRUE /\ checkpointRequested' = FALSE
  BY DEF BeginCheckpoint, checkpointVars
<1>. HIDE DEF drain
<1>. QED  BY <1>1, <1>2, <1>3

LEMMA NewFrameType ==
  ASSUME TypeOK, NEW flag \in BOOLEAN,
         NEW kind \in {"turn", "endCheckpoint", "script", "host", "platform", "tick",
                       "microtask", "pause"}
  PROVE  NewFrame(kind, flag) \in Frame
BY DEF NewFrame, Frame, TypeOK

LEMMA TurnRequestType ==
  /\ RequestTurnIfNeeded => turnRequested' \in BOOLEAN
  /\ FinishTurnCallback => turnRequested' \in BOOLEAN
  /\ TypeOK /\ NotifyTaskRunnabilityChanged =>
       turnRequested' \in BOOLEAN /\ idleRequested' \in BOOLEAN
<1>1. RequestTurnIfNeeded => turnRequested' \in BOOLEAN
  BY DEF RequestTurnIfNeeded
<1>2. FinishTurnCallback => turnRequested' \in BOOLEAN
  BY DEF FinishTurnCallback, NeedsTurn
<1>3. TypeOK /\ NotifyTaskRunnabilityChanged =>
        turnRequested' \in BOOLEAN /\ idleRequested' \in BOOLEAN
  BY <1>1 DEF NotifyTaskRunnabilityChanged, TypeOK
<1>. QED  BY <1>1, <1>2, <1>3

LEMMA QueueType ==
  ASSUME TypeOK
  PROVE  /\ \A s \in Source : OpenQueue(s) => queueOrder' \in Seq(Source)
         /\ \A t \in Task : EnqueueTask(t) =>
              /\ fate' \in [Task -> Fate] /\ ahead' \in [Task -> SUBSET Task]
              /\ queueOrder' \in Seq(Source)
         /\ \A ts \in SUBSET Task : Discard(ts) =>
              fate' \in [Task -> Fate] /\ ahead' \in [Task -> SUBSET Task]
<1>0. /\ fate \in [Task -> Fate] /\ ahead \in [Task -> SUBSET Task]
      /\ queueOrder \in Seq(Source)
  BY DEF TypeOK
<1>1. ASSUME NEW s \in Source, OpenQueue(s) PROVE queueOrder' \in Seq(Source)
  BY <1>0, <1>1, PushFacts DEF OpenQueue
<1>2. ASSUME NEW t \in Task, EnqueueTask(t)
      PROVE  /\ fate' \in [Task -> Fate] /\ ahead' \in [Task -> SUBSET Task]
             /\ queueOrder' \in Seq(Source)
  <2>1. CASE destroyed \/ closing
    BY <1>0, <1>2, <2>1 DEF EnqueueTask, Dropped, Fate
  <2>2. CASE ~(destroyed \/ closing)
    <3>1. /\ fate' = [fate EXCEPT ![t] = "queued"]
          /\ ahead' = [ahead EXCEPT ![t] = Queue(SourceOf[t])]
          /\ OpenQueue(SourceOf[t])
      BY <1>2, <2>2 DEF EnqueueTask
    <3>2. SourceOf[t] \in Source
      BY ConstantAssumption
    <3>3. Queue(SourceOf[t]) \in SUBSET Task
      BY DEF Queue
    <3>. QED  BY <1>0, <1>1, <3>1, <3>2, <3>3 DEF Fate
  <2>. QED  BY <2>1, <2>2
<1>3. ASSUME NEW ts \in SUBSET Task, Discard(ts)
      PROVE  fate' \in [Task -> Fate] /\ ahead' \in [Task -> SUBSET Task]
  BY <1>0, <1>3 DEF Discard, Dequeue, Fate
<1>. QED  BY <1>1, <1>2, <1>3

LEMMA FrameType ==
  ASSUME TypeOK
  PROVE  /\ \A f \in Frame : Append(frames, f) \in Seq(Frame)
         /\ ~AtRest => Front(frames) \in Seq(Frame) /\ Last(frames) \in Frame
         /\ \A f \in Frame : <<f>> \in Seq(Frame)
<1>1. frames \in Seq(Frame)
  BY DEF TypeOK
<1>. QED  BY <1>1, PushFacts, PopFacts DEF AtRest

LEMMA TopContext ==
  ASSUME TypeOK, StackOK, TopIs({"script", "platform"})
  PROVE  /\ contexts = frames[Len(frames)].base + 1 /\ frames[Len(frames)].base \in Nat
         /\ contexts - 1 \in Nat
<1>1. frames \in Seq(Frame) /\ frames # <<>>
  BY DEF TypeOK, TopIs, AtRest
<1>2. /\ frames[Len(frames)] \in Frame
      /\ frames[Len(frames)].kind \in {"script", "platform"}
  BY <1>1, PopFacts DEF TopIs
<1>3. contexts = frames[Len(frames)].base + 1
  BY <1>1, <1>2 DEF StackOK, Stack, Contexts, ContextsAbove
<1>. QED  BY <1>2, <1>3 DEF Frame

LEMMA RenameType ==
  ASSUME TypeOK, ~AtRest, NEW kind \in {"spun", "endTurn"}
  PROVE  [frames[1] EXCEPT !.kind = kind] \in Frame
<1>1. frames[1] \in Frame
  BY PopFacts, ElementOfSeq DEF TypeOK, AtRest
<1>. QED  BY <1>1 DEF Frame

LEMMA TurnFramesType ==
  ASSUME NEW n \in Nat
  PROVE  /\ TurnFrames(n) \in Seq(Frame)
         /\ Len(TurnFrames(n)) = n + 1
         /\ TurnFrames(n) # <<>>
<1> DEFINE f(i) == IF i = 1 THEN [kind |-> "turn", flag |-> FALSE, base |-> 0]
                            ELSE [kind |-> "script", flag |-> TRUE, base |-> i - 2]
<1>1. n + 1 \in Nat /\ \A i \in 1..(n + 1) : f(i) \in Frame
  BY DEF Frame
<1>2. TurnFrames(n) = [i \in 1..(n + 1) |-> f(i)]
  BY DEF TurnFrames
<1>3. TurnFrames(n) \in [1..(n + 1) -> Frame]
  BY <1>1, <1>2
<1>4. TurnFrames(n) \in Seq(Frame)
  BY <1>1, <1>3, SeqDef
<1>5. DOMAIN TurnFrames(n) = 1..(n + 1)
  BY <1>2
<1>6. Len(TurnFrames(n)) = n + 1
  BY <1>1, <1>4, <1>5, LenProperties
<1>. QED  BY <1>1, <1>4, <1>6, EmptySeq

-----------------------------------------------------------------------------
(* The stack *)

\* The activity f may be started on top of fs, and the flags follow.
Push(fs, run, perf, pse, c, f, perf2, pse2, c2) ==
  /\ ~pse /\ f.base = c /\ c2 = ContextsAbove(f)
  /\ f.kind \in {"script", "host", "platform", "drain", "microtask", "pause"}
  /\ fs = <<>> => f.kind \in {"script", "host", "drain"}
  /\ f.kind = "host" =>
       fs = <<>> \/ run \/ fs[Len(fs)].kind \in {"script", "platform", "microtask"}
  /\ f.kind = "microtask" =>
       /\ fs # <<>> /\ fs[Len(fs)].kind \in {"drain", "tick"}
       /\ f.flag <=> fs[Len(fs)].kind = "drain"
  /\ f.kind = "drain" => ~perf /\ c = 0
  /\ Len(fs) = 1 /\ fs[1].kind = "host" => f.kind = "drain" \/ (f.kind = "script" /\ f.flag)
  /\ Len(fs) = 1 /\ fs[1].kind \in {"spun", "endTurn", "endCheckpoint"} => f.kind = "drain"
  /\ perf2 \in BOOLEAN /\ pse2 \in BOOLEAN
  /\ perf2 <=> perf \/ f.kind \in {"drain", "microtask"}
  /\ pse2 <=> f.kind = "pause"

\* The last activity of fs may end, and the flags follow.
Pop(fs, run, perf, run2, perf2, c2) ==
  /\ fs # <<>>
  /\ run2 \in BOOLEAN /\ perf2 \in BOOLEAN
  /\ run2 <=> Len(fs) > 1 /\ run
  /\ Last(fs).kind = "drain" => ~perf2
  /\ Last(fs).kind = "microtask" => (perf2 <=> Last(fs).flag)
  /\ Last(fs).kind \notin {"drain", "microtask"} => (perf2 <=> perf)
  /\ c2 = Last(fs).base

LEMMA StackPush ==
  ASSUME NEW fs \in Seq(Frame), NEW run, NEW perf, NEW pse, NEW c, NEW f \in Frame,
         NEW perf2, NEW pse2, NEW c2,
         Stack(fs, run, perf, pse, c), Push(fs, run, perf, pse, c, f, perf2, pse2, c2)
  PROVE  Stack(Append(fs, f), run, perf2, pse2, c2)
<1> USE DEF Push
<1> DEFINE gs == Append(fs, f)
           n == Len(fs)
<1>1. /\ n \in Nat /\ Len(gs) = n + 1 /\ gs # <<>> /\ gs[n + 1] = f
      /\ \A i \in 1..n : gs[i] = fs[i]
      /\ fs = <<>> <=> n = 0
  BY PushFacts, LenProperties, EmptySeq
<1> HIDE DEF gs, n
<1>2. Contexts(gs, ContextsAbove(f))
  <2>1. Contexts(fs, c) /\ f.base = c /\ n = Len(fs)
    BY DEF Stack, n
  <2>2. gs[1].base = 0
    BY <1>1, <2>1 DEF Contexts
  <2>3. ASSUME NEW i \in 2..(n + 1) PROVE gs[i].base = ContextsAbove(gs[i - 1])
    <3>1. CASE i \in 2..n
      <4>1. gs[i] = fs[i] /\ gs[i - 1] = fs[i - 1]
        BY <1>1, <3>1
      <4>. QED  BY <2>1, <3>1, <4>1 DEF Contexts
    <3>2. CASE i = n + 1
      <4>1. gs[i] = f /\ gs[i - 1] = fs[n] /\ fs # <<>>
        BY <1>1, <3>2
      <4>. QED  BY <2>1, <4>1 DEF Contexts
    <3>. QED  BY <1>1, <3>1, <3>2
  <2>. QED  BY <1>1, <2>2, <2>3 DEF Contexts
<1>3. Shape(gs, run)
  <2>0. /\ Shape(fs, run) /\ Contexts(fs, c) /\ Flags(fs, run, perf, pse)
        /\ Len(gs) = n + 1 /\ gs # <<>> /\ n = Len(fs)
    BY <1>1 DEF Stack, n
  <2>1. gs[1].kind \notin {"platform", "microtask", "pause"}
    BY <1>1, <2>0 DEF Shape
  <2>2. \A i \in 2..(n + 1) :
          /\ gs[i].kind \notin TurnKinds \cup {"tick"}
          /\ gs[i].kind = "host" => run \/ gs[i - 1].kind \in {"script", "platform", "microtask"}
          /\ gs[i].kind = "microtask" =>
               /\ gs[i - 1].kind \in {"drain", "tick"}
               /\ gs[i].flag <=> gs[i - 1].kind = "drain"
    <3>1. \A i \in 2..n : gs[i] = fs[i] /\ gs[i - 1] = fs[i - 1]
      BY <1>1
    <3>2. n > 0 => gs[n + 1] = f /\ gs[n] = fs[n] /\ n + 1 - 1 = n
      BY <1>1
    <3>3. n > 0 => fs # <<>>
      BY <1>1
    <3>4. f.kind \notin TurnKinds \cup {"tick"}
      BY DEF TurnKinds
    <3>. QED  BY <1>1, <2>0, <3>1, <3>2, <3>3, <3>4 DEF Shape
  <2>3. \A i \in 1..(n + 1) : gs[i].kind = "pause" => i = n + 1
    BY <1>1, <2>0 DEF Shape, Flags
  <2>4. \A i, j \in 1..(n + 1) :
          gs[i].kind = "drain" /\ j < i => gs[j].kind \notin {"drain", "microtask"}
    <3>1. f.kind = "drain" => \A j \in 1..n : fs[j].kind \notin {"drain", "microtask"}
      BY <2>0 DEF Flags
    <3>2. \A i, j \in 1..n :
            fs[i].kind = "drain" /\ j < i => fs[j].kind \notin {"drain", "microtask"}
      BY <2>0 DEF Shape
    <3>3. ASSUME NEW i \in 1..(n + 1), NEW j \in 1..(n + 1), gs[i].kind = "drain", j < i
          PROVE  gs[j].kind \notin {"drain", "microtask"}
      <4>1. j \in 1..n /\ gs[j] = fs[j]
        BY <1>1, <3>3
      <4>2. CASE i = n + 1
        BY <1>1, <3>1, <3>3, <4>1, <4>2
      <4>3. CASE i \in 1..n
        BY <1>1, <3>2, <3>3, <4>1, <4>3
      <4>. QED  BY <1>1, <4>2, <4>3
    <3>. QED  BY <3>3
  <2>5. \A i \in 1..(n + 1) : gs[i].kind = "drain" => gs[i].base = 0
    BY <1>1, <2>0 DEF Shape
  <2>6. n + 1 > 1 /\ gs[1].kind = "host" =>
          gs[2].kind = "drain" \/ (gs[2].kind = "script" /\ gs[2].flag)
    BY <1>1, <2>0 DEF Shape
  <2>7. gs[1].kind = "tick" => Ambient
    BY <1>1, <2>0 DEF Shape
  <2>8. n + 1 > 1 /\ gs[1].kind \in {"spun", "endTurn", "endCheckpoint"} => gs[2].kind = "drain"
    BY <1>1, <2>0 DEF Shape
  <2>. QED  BY <2>0, <2>1, <2>2, <2>3, <2>4, <2>5, <2>6, <2>7, <2>8 DEF Shape
<1>4. Flags(gs, run, perf2, pse2)
  BY <1>1 DEF Stack, Flags, n
<1>. QED  BY <1>2, <1>3, <1>4 DEF Stack, gs

LEMMA StackEmpty == Stack(<<>>, FALSE, FALSE, FALSE, 0)
BY DEF Stack, Contexts, Shape, Flags

LEMMA StackSingle ==
  ASSUME NEW f \in Frame, f.kind \in TurnKinds \cup {"tick"}, f.base = 0,
         f.kind = "tick" => Ambient
  PROVE  Stack(<<f>>, f.kind \in {"turn", "spun", "endTurn"}, FALSE, FALSE, 0)
<1>1. Len(<<f>>) = 1 /\ <<f>>[1] = f /\ <<f>> # <<>>
  OBVIOUS
<1> DEFINE fs == <<f>>
<1> HIDE DEF fs
<1>2. Contexts(fs, 0)
  BY <1>1 DEF Contexts, ContextsAbove, TurnKinds, fs
<1>3. Shape(fs, f.kind \in {"turn", "spun", "endTurn"})
  BY <1>1 DEF Shape, TurnKinds, fs
<1>4. Flags(fs, f.kind \in {"turn", "spun", "endTurn"}, FALSE, FALSE)
  BY <1>1 DEF Flags, TurnKinds, fs
<1>. QED  BY <1>2, <1>3, <1>4 DEF Stack, fs

LEMMA StackPop ==
  ASSUME NEW fs \in Seq(Frame), NEW run, NEW perf, NEW pse, NEW c,
         NEW run2, NEW p, NEW c2,
         Stack(fs, run, perf, pse, c), Pop(fs, run, perf, run2, p, c2)
  PROVE  Stack(Front(fs), run2, p, FALSE, c2)
<1> USE DEF Pop
<1> DEFINE gs == Front(fs)
           n == Len(fs)
           f == Last(fs)
<1>1. /\ n \in Nat \ {0} /\ Len(gs) = n - 1 /\ f = fs[n] /\ f \in Frame
      /\ \A i \in 1..(n - 1) : gs[i] = fs[i]
      /\ gs = <<>> <=> n = 1
      /\ gs \in Seq(Frame)
  <2>1. gs \in Seq(Frame) /\ n \in Nat \ {0} /\ Len(gs) = n - 1 /\ f = fs[n] /\ f \in Frame
        /\ \A i \in 1..(n - 1) : gs[i] = fs[i]
    BY PopFacts
  <2>. HIDE DEF gs, n, f
  <2>2. gs = <<>> <=> n = 1
    BY <2>1, EmptySeq, LenProperties
  <2>. QED  BY <2>1, <2>2
<1>2. Contexts(fs, c) /\ Shape(fs, run) /\ Flags(fs, run, perf, pse)
  BY DEF Stack
<1>3. n = Len(fs)
  OBVIOUS
<1>7. /\ run2 <=> n > 1 /\ run
      /\ f.kind = "drain" => ~p
      /\ f.kind = "microtask" => (p <=> f.flag)
      /\ f.kind \notin {"drain", "microtask"} => (p <=> perf)
      /\ c2 = f.base
  OBVIOUS
<1> HIDE DEF gs, n, f
<1>4. Contexts(gs, f.base)
  <2>1. n > 1 => f.base = ContextsAbove(fs[n - 1])
    BY <1>1, <1>2, <1>3 DEF Contexts
  <2>2. n = 1 => f.base = 0
    BY <1>1, <1>2, <1>3 DEF Contexts
  <2>3. n > 1 => gs # <<>> /\ gs[1] = fs[1] /\ gs[Len(gs)] = fs[n - 1] /\ fs # <<>>
    BY <1>1
  <2>4. \A i \in 2..Len(gs) : gs[i] = fs[i] /\ gs[i - 1] = fs[i - 1] /\ i \in 2..n
    BY <1>1
  <2>. QED  BY <1>1, <1>2, <1>3, <2>1, <2>2, <2>3, <2>4 DEF Contexts
<1>5. Shape(gs, run2)
  <2>1. n > 1 => gs[1] = fs[1] /\ gs # <<>>
    BY <1>1
  <2>2. \A i \in 2..Len(gs) : gs[i] = fs[i] /\ gs[i - 1] = fs[i - 1] /\ i \in 2..n /\ n > 1
    BY <1>1
  <2>3. gs # <<>> => fs # <<>> /\ gs[1] = fs[1]
    BY <1>1
  <2>4. Len(gs) > 1 => gs[2] = fs[2] /\ gs[1] = fs[1] /\ n > 1
    BY <1>1
  <2>5. \A i \in 1..Len(gs) : gs[i].kind # "pause"
    BY <1>1, <1>2, <1>3 DEF Shape
  <2>6. \A i, j \in 1..Len(gs) :
          gs[i].kind = "drain" /\ j < i => gs[j].kind \notin {"drain", "microtask"}
    BY <1>1, <1>2, <1>3 DEF Shape
  <2>7. \A i \in 1..Len(gs) : gs[i].kind = "drain" => gs[i].base = 0
    BY <1>1, <1>2, <1>3 DEF Shape
  <2>. QED  BY <1>2, <1>3, <1>7, <2>2, <2>3, <2>4, <2>5, <2>6, <2>7 DEF Shape
<1>6. Flags(gs, run2, p, FALSE)
  <2>1. run2 <=> gs # <<>> /\ gs[1].kind \in {"turn", "spun", "endTurn"}
    BY <1>1, <1>2, <1>3, <1>7 DEF Flags
  <2>3. gs # <<>> => gs[Len(gs)].kind # "pause"
    BY <1>1, <1>2, <1>3 DEF Shape
  <2>4. p <=> \E i \in 1..Len(gs) : gs[i].kind \in {"drain", "microtask"}
    <3>1. CASE f.kind = "drain"
      BY <1>1, <1>2, <1>3, <1>7, <3>1 DEF Shape
    <3>2. CASE f.kind = "microtask"
      <4>1. n > 1 /\ fs[n - 1].kind \in {"drain", "tick"} /\ (f.flag <=> fs[n - 1].kind = "drain")
        BY <1>1, <1>2, <1>3, <3>2 DEF Shape
      <4>2. p <=> f.flag
        BY <1>7, <3>2
      <4>3. CASE fs[n - 1].kind = "drain"
        BY <1>1, <4>1, <4>2, <4>3
      <4>4. CASE fs[n - 1].kind = "tick"
        <5>1. n = 2
          BY <1>1, <1>2, <1>3, <4>1, <4>4 DEF Shape
        <5>. QED  BY <1>1, <4>1, <4>2, <4>4, <5>1
      <4>. QED  BY <4>1, <4>3, <4>4
    <3>3. CASE f.kind \notin {"drain", "microtask"}
      BY <1>1, <1>2, <1>3, <1>7, <3>3 DEF Flags
    <3>. QED  BY <3>1, <3>2, <3>3
  <2>. QED  BY <2>1, <2>3, <2>4 DEF Flags
<1>. QED  BY <1>4, <1>5, <1>6, <1>7 DEF Stack, gs, n, f

LEMMA StackTurnFrames ==
  ASSUME NEW n \in Nat
  PROVE  Stack(TurnFrames(n), TRUE, FALSE, FALSE, n)
<1> DEFINE fs == TurnFrames(n)
<1>0. n \in Nat /\ Len(fs) = n + 1 /\ fs # <<>>
  BY TurnFramesType
<1>1. ASSUME NEW i \in 2..(n + 1)
      PROVE  fs[i].kind = "script" /\ fs[i].flag = TRUE /\ fs[i].base = i - 2
  <2>1. fs[i] = [kind |-> "script", flag |-> TRUE, base |-> i - 2]
    BY DEF TurnFrames
  <2>. QED  BY <2>1
<1>4. fs[1].kind = "turn" /\ fs[1].base = 0
  BY DEF TurnFrames
<1> HIDE DEF fs
<1>2. \A i \in 1..(n + 1) : ContextsAbove(fs[i]) = i - 1
  <2>1. ContextsAbove(fs[1]) = 0
    BY <1>4 DEF ContextsAbove
  <2>2. ASSUME NEW i \in 2..(n + 1) PROVE ContextsAbove(fs[i]) = i - 1
    <3>1. fs[i].kind = "script" /\ fs[i].base = i - 2
      BY <1>1
    <3>. QED  BY <3>1 DEF ContextsAbove
  <2>. QED  BY <2>1, <2>2
<1>3. Contexts(fs, n)
  <2>1. n = ContextsAbove(fs[n + 1])
    BY <1>2
  <2>2. ASSUME NEW i \in 2..(n + 1) PROVE fs[i].base = ContextsAbove(fs[i - 1])
    <3>1. fs[i].base = i - 2
      BY <1>1
    <3>2. i - 1 \in 1..(n + 1) /\ i - 1 - 1 = i - 2
      OBVIOUS
    <3>. QED  BY <1>2, <3>1, <3>2
  <2>. QED  BY <1>0, <1>4, <2>1, <2>2 DEF Contexts
<1>5. \A i \in 1..(n + 1) : fs[i].kind \in {"turn", "script"}
  <2>1. ASSUME NEW i \in 1..(n + 1) PROVE fs[i].kind \in {"turn", "script"}
    <3>1. i = 1 \/ i \in 2..(n + 1)
      OBVIOUS
    <3>. QED  BY <1>1, <1>4, <3>1
  <2>. QED  BY <2>1
<1>6. \A i \in 2..(n + 1) : fs[i].kind = "script"
  BY <1>1
<1>7. Shape(fs, TRUE)
  BY <1>0, <1>4, <1>5, <1>6 DEF Shape, TurnKinds
<1>8. Flags(fs, TRUE, FALSE, FALSE)
  BY <1>0, <1>4, <1>5 DEF Flags
<1>. QED  BY <1>3, <1>7, <1>8 DEF Stack, fs

\* A checkpoint begun over an empty execution context stack.
LEMMA StackCheckpoint ==
  ASSUME NEW fs \in Seq(Frame), NEW run, contexts' = 0,
         Stack(fs, run, performing, paused, 0), BeginCheckpoint(fs)
  PROVE  Stack(frames', run, performing', paused, 0)
<1> DEFINE drain == [kind |-> "drain", flag |-> FALSE, base |-> 0]
<1>1. CASE destroyed \/ paused \/ performing
  BY <1>1 DEF BeginCheckpoint, checkpointVars
<1>2. CASE ~(destroyed \/ paused \/ performing)
  <2>1. drain \in Frame /\ drain.kind = "drain" /\ drain.base = 0 /\ ContextsAbove(drain) = 0
    BY DEF Frame, ContextsAbove
  <2>2. frames' = Append(fs, drain) /\ performing' = TRUE
    BY <1>2 DEF BeginCheckpoint
  <2>3. performing \in BOOLEAN /\ paused \in BOOLEAN
    BY DEF Stack, Flags
  <2> HIDE DEF drain
  <2>4. Push(fs, run, performing, paused, 0, drain, performing', paused, 0)
    BY <1>2, <2>1, <2>2, <2>3 DEF Push
  <2>5. Stack(Append(fs, drain), run, performing', paused, 0)
    BY <2>1, <2>4, StackPush
  <2>. QED  BY <2>2, <2>5
<1>. QED  BY <1>1, <1>2

LEMMA TypeStep == TypeOK /\ StackOK /\ [Next]_vars => TypeOK'
<1> SUFFICES ASSUME TypeOK, StackOK, [Next]_vars PROVE TypeOK'
  OBVIOUS
<1> USE DEF queueVars, readiness, microtaskVars, turnVars, checkpointVars, lifeVars, stackVars
<1>1. ASSUME NEW t \in Task, QueueTask(t) PROVE TypeOK'
  BY <1>1, QueueType, TurnRequestType DEF QueueTask, TypeOK
<1>2. ASSUME NEW t \in Task, RemoveTask(t) PROVE TypeOK'
  BY <1>2, QueueType DEF RemoveTask, TypeOK
<1>3. ASSUME NEW d \in Document, RemoveTasksForDocument(d) PROVE TypeOK'
  BY <1>3, QueueType DEF RemoveTasksForDocument, TypeOK
<1>4. ASSUME NEW d \in Document, MakeFullyActive(d) PROVE TypeOK'
  BY <1>4, TurnRequestType DEF MakeFullyActive, TypeOK
<1>5. ASSUME NEW d \in Document, MakeInactive(d) PROVE TypeOK'
  BY <1>5 DEF MakeInactive, TypeOK
<1>6. ASSUME NEW t \in Task, EnableTask(t) PROVE TypeOK'
  BY <1>6, TurnRequestType DEF EnableTask, TypeOK
<1>7. RequestIdlePeriod => TypeOK'
  BY TurnRequestType DEF RequestIdlePeriod, TypeOK
<1>8. Close => TypeOK'
  <2>1. ASSUME Close
        PROVE  fate' \in [Task -> Fate] /\ ahead' \in [Task -> SUBSET Task]
    BY <2>1 DEF Close, Dequeue, Dropped, Fate, TypeOK
  <2>. QED  BY <2>1, TurnRequestType DEF Close, TypeOK
<1>9. ASSUME QueueMicrotask PROVE TypeOK'
  <2>1. microtasks' \in Nat /\ unannounced' \in 0..microtasks'
    BY <1>9 DEF QueueMicrotask, TypeOK
  <2>2. checkpointRequested' \in BOOLEAN /\ turnRequested' \in BOOLEAN
    BY <1>9, TurnRequestType DEF QueueMicrotask, RequestMicrotaskCheckpoint, TypeOK
  <2>. QED  BY <1>9, <2>1, <2>2 DEF QueueMicrotask, TypeOK
<1>10. ScheduleRejectedPromiseNotification => TypeOK'
  BY DEF ScheduleRejectedPromiseNotification, TypeOK
<1>11. ASSUME RunMicrotask PROVE TypeOK'
  <2>1. frames' \in Seq(Frame)
    BY <1>11, FrameType, NewFrameType DEF RunMicrotask, TypeOK
  <2>2. microtasks' \in Nat /\ unannounced' \in 0..microtasks'
    BY <1>11 DEF RunMicrotask, TypeOK
  <2>. QED  BY <1>11, <2>1, <2>2 DEF RunMicrotask, TypeOK
<1>12. ASSUME MicrotaskReturns PROVE TypeOK'
  <2>1. frames' \in Seq(Frame) /\ performing' \in BOOLEAN
    BY <1>12, FrameType DEF MicrotaskReturns, TopIs, Frame
  <2>. QED  BY <1>12, <2>1 DEF MicrotaskReturns, TypeOK
<1>13. ASSUME EndCheckpoint PROVE TypeOK'
  <2>1. frames' \in Seq(Frame)
    BY <1>13, FrameType DEF EndCheckpoint, TopIs
  <2>2. /\ fate' \in [Task -> Fate] /\ ahead' \in [Task -> SUBSET Task]
        /\ queueOrder' \in Seq(Source)
    BY <1>13, QueueType DEF EndCheckpoint, TypeOK
  <2>. QED  BY <1>13, <2>1, <2>2, TurnRequestType DEF EndCheckpoint, TypeOK
<1>14. ASSUME ParserCheckpoint PROVE TypeOK'
  <2>1. frames \in Seq(Frame) /\ contexts' \in Nat /\ BeginCheckpoint(frames)
    BY <1>14 DEF ParserCheckpoint, TypeOK
  <2>2. /\ frames' \in Seq(Frame) /\ performing' \in BOOLEAN
        /\ checkpointRequested' \in BOOLEAN
    BY <2>1, BeginCheckpointType
  <2>. QED  BY <1>14, <2>2 DEF ParserCheckpoint, TypeOK
<1>15. ASSUME NodeTick PROVE TypeOK'
  <2>1. frames' \in Seq(Frame)
    BY <1>15, FrameType, NewFrameType DEF NodeTick
  <2>2. UNCHANGED <<queueVars, readiness, microtaskVars, rejections, current, turnVars,
                    checkpointVars, idleRequested, turnRequested, lifeVars, contexts, saved>>
    BY <1>15 DEF NodeTick
  <2>. QED  BY <2>1, <2>2 DEF TypeOK
<1>16. ASSUME NodeTickReturns PROVE TypeOK'
  <2>1. frames' \in Seq(Frame)
    BY <1>16, FrameType DEF NodeTickReturns, TopIs
  <2>. QED  BY <1>16, <2>1 DEF NodeTickReturns, TypeOK
<1>17. ASSUME PrepareToRunScript PROVE TypeOK'
  <2>1. NewFrame("script", current # None) \in Frame
    BY NewFrameType
  <2>2. frames' \in Seq(Frame) /\ contexts' \in Nat
    BY <1>17, <2>1, FrameType DEF PrepareToRunScript, TypeOK
  <2>. QED  BY <1>17, <2>2 DEF PrepareToRunScript, TypeOK
<1>18. ASSUME CleanUpAfterRunningScript PROVE TypeOK'
  <2>1. /\ contexts' \in Nat
        /\ Front(frames) \in Seq(Frame)
    BY <1>18, TopContext, FrameType DEF CleanUpAfterRunningScript, TopIs
  <2>2. /\ frames' \in Seq(Frame) /\ performing' \in BOOLEAN
        /\ checkpointRequested' \in BOOLEAN
    <3>1. CASE BeginCheckpoint(Front(frames))
      BY <2>1, <3>1, BeginCheckpointType
    <3>2. CASE frames' = Front(frames) /\ UNCHANGED checkpointVars
      BY <2>1, <3>2 DEF TypeOK
    <3>. QED  BY <1>18, <3>1, <3>2 DEF CleanUpAfterRunningScript
  <2>. QED  BY <1>18, <2>1, <2>2 DEF CleanUpAfterRunningScript, TypeOK
<1>19. ASSUME RunScriptEvaluation PROVE TypeOK'
  <2>1. /\ NewFrame("host", FALSE) \in Frame
        /\ NewFrame("script", TRUE) \in Frame
    BY NewFrameType
  <2>2. frames' \in Seq(Frame)
    BY <1>19, <2>1, FrameType, PushFacts DEF RunScriptEvaluation
  <2>3. contexts' \in Nat /\ current' \in Task \cup {None, Microtask, HostEntry}
    BY <1>19 DEF RunScriptEvaluation, TypeOK
  <2>4. UNCHANGED <<queueVars, readiness, microtaskVars, rejections, turnVars, checkpointVars,
                    idleRequested, turnRequested, lifeVars, saved>>
    BY <1>19 DEF RunScriptEvaluation
  <2>. QED  BY <2>2, <2>3, <2>4 DEF TypeOK
<1>20. ASSUME FinishHostScriptEntry PROVE TypeOK'
  <2>1. frames' \in Seq(Frame)
    BY <1>20, FrameType DEF FinishHostScriptEntry, TopIs
  <2>. QED  BY <1>20, <2>1 DEF FinishHostScriptEntry, TypeOK
<1>21. ASSUME RunPlatformCall PROVE TypeOK'
  <2>1. frames' \in Seq(Frame)
    BY <1>21, FrameType, NewFrameType DEF RunPlatformCall
  <2>2. contexts' \in Nat
    BY <1>21 DEF RunPlatformCall, TypeOK
  <2>3. UNCHANGED <<queueVars, readiness, microtaskVars, rejections, current, turnVars,
                    checkpointVars, idleRequested, turnRequested, lifeVars, saved>>
    BY <1>21 DEF RunPlatformCall
  <2>. QED  BY <2>1, <2>2, <2>3 DEF TypeOK
<1>22. ASSUME PlatformCallReturns PROVE TypeOK'
  <2>1. frames' \in Seq(Frame) /\ contexts' \in Nat
    BY <1>22, FrameType, TopContext DEF PlatformCallReturns, TopIs
  <2>. QED  BY <1>22, <2>1 DEF PlatformCallReturns, TypeOK
<1>23. ASSUME Pause PROVE TypeOK'
  <2>1. frames' \in Seq(Frame)
    BY <1>23, FrameType, NewFrameType DEF Pause
  <2>. QED  BY <1>23, <2>1 DEF Pause, TypeOK
<1>24. ASSUME Unpause PROVE TypeOK'
  <2>1. frames' \in Seq(Frame)
    BY <1>24, FrameType DEF Unpause, TopIs
  <2>. QED  BY <1>24, <2>1, TurnRequestType DEF Unpause, TypeOK
<1>25. ASSUME NEW t \in Task, SpinUntil(t) PROVE TypeOK'
  <2>1. <<[frames[1] EXCEPT !.kind = "spun"]>> \in Seq(Frame) /\ contexts' \in Nat
    BY <1>25, RenameType, FrameType DEF SpinUntil, Running, TopIs
  <2>2. /\ frames' \in Seq(Frame) /\ performing' \in BOOLEAN
        /\ checkpointRequested' \in BOOLEAN
    BY <1>25, <2>1, BeginCheckpointType DEF SpinUntil
  <2>3. fate' \in [Task -> Fate] /\ saved' \in [Task -> Nat]
    BY <1>25 DEF SpinUntil, Fate, TypeOK
  <2>. QED  BY <1>25, <2>1, <2>2, <2>3 DEF SpinUntil, TypeOK
<1>26. ASSUME NEW t \in Task, RegisterWait(t) PROVE TypeOK'
  BY <1>26 DEF RegisterWait, Fate, TypeOK
<1>27. ASSUME NEW t \in Task, Ready(t) PROVE TypeOK'
  BY <1>27, QueueType, TurnRequestType DEF Ready, TypeOK
<1>28. ASSUME RunCheckpointTurn PROVE TypeOK'
  <2>1. <<NewFrame("endCheckpoint", FALSE)>> \in Seq(Frame) /\ contexts' \in Nat
    BY <1>28, NewFrameType, FrameType DEF RunCheckpointTurn, TypeOK
  <2>2. /\ frames' \in Seq(Frame) /\ performing' \in BOOLEAN
        /\ checkpointRequested' \in BOOLEAN
    BY <1>28, <2>1, BeginCheckpointType DEF RunCheckpointTurn
  <2>. QED  BY <1>28, <2>2 DEF RunCheckpointTurn, TypeOK
<1>29. ASSUME NEW t \in Task, RunTaskTurn(t) PROVE TypeOK'
  <2>1. saved[t] \in Nat /\ saved' = [saved EXCEPT ![t] = 0] /\ saved \in [Task -> Nat]
    BY <1>29 DEF RunTaskTurn, TypeOK
  <2>2. frames' = TurnFrames(saved[t]) /\ contexts' = saved[t]
    BY <1>29 DEF RunTaskTurn
  <2>3. frames' \in Seq(Frame) /\ contexts' \in Nat /\ saved' \in [Task -> Nat]
    BY <2>1, <2>2, TurnFramesType
  <2>4. fate' \in [Task -> Fate] /\ ahead' \in [Task -> SUBSET Task]
    BY <1>29 DEF RunTaskTurn, Dequeue, Fate, TypeOK
  <2>5. /\ runningTaskTurn' = TRUE /\ turnTask' = t /\ current' = t
        /\ UNCHANGED <<queueOrder, readiness, microtaskVars, rejections, checkpointVars,
                       idleRequested, turnRequested, lifeVars>>
    BY <1>29 DEF RunTaskTurn
  <2>. QED  BY <2>3, <2>4, <2>5 DEF TypeOK
<1>30. ASSUME StartIdlePeriod
       PROVE  /\ fate' \in [Task -> Fate] /\ ahead' \in [Task -> SUBSET Task]
              /\ queueOrder' \in Seq(Source) /\ idleRequested' \in BOOLEAN
  BY <1>30, QueueType, ConstantAssumption DEF StartIdlePeriod, TypeOK
<1>31. ASSUME RunEmptyTurn PROVE TypeOK'
  BY <1>30, <1>31, TurnRequestType DEF RunEmptyTurn, FinishWorkerTurn, TypeOK
<1>32. ASSUME TaskStepsReturn PROVE TypeOK'
  <2>1. <<[frames[1] EXCEPT !.kind = "endTurn"]>> \in Seq(Frame) /\ contexts' \in Nat
    BY <1>32, RenameType, FrameType DEF TaskStepsReturn, TopIs, TypeOK
  <2>2. /\ frames' \in Seq(Frame) /\ performing' \in BOOLEAN
        /\ checkpointRequested' \in BOOLEAN
    BY <1>32, <2>1, BeginCheckpointType DEF TaskStepsReturn
  <2>3. fate' \in [Task -> Fate]
    BY <1>32 DEF TaskStepsReturn, Fate, TypeOK
  <2>. QED  BY <1>32, <2>1, <2>2, <2>3 DEF TaskStepsReturn, TypeOK
<1>33. ASSUME HostTurnReturns PROVE TypeOK'
  <2>1. frames' \in Seq(Frame)
    BY <1>33, FrameType DEF HostTurnReturns, TopIs
  <2>. QED  BY <1>30, <1>33, <2>1, TurnRequestType DEF HostTurnReturns, FinishWorkerTurn, TypeOK
<1>34. ASSUME HostTurnThrows PROVE TypeOK'
  BY <1>34, EmptySeq, TurnRequestType DEF HostTurnThrows, TypeOK
<1>35. ASSUME UNCHANGED vars PROVE TypeOK'
  BY <1>35 DEF vars, TypeOK
<1>. QED
  BY <1>1, <1>2, <1>3, <1>4, <1>5, <1>6, <1>7, <1>8, <1>9, <1>10, <1>11, <1>12, <1>13, <1>14,
     <1>15, <1>16, <1>17, <1>18, <1>19, <1>20, <1>21, <1>22, <1>23, <1>24, <1>25, <1>26,
     <1>27, <1>28, <1>29, <1>31, <1>32, <1>33, <1>34, <1>35
  DEF Next, HostTurn, Unwind, Environment
-----------------------------------------------------------------------------
(* Preservation of the stack *)

\* The steps that leave the activities in progress alone.
Quiet ==
  \/ \E t \in Task : QueueTask(t) \/ RemoveTask(t) \/ EnableTask(t) \/ RegisterWait(t) \/ Ready(t)
  \/ \E d \in Document : RemoveTasksForDocument(d) \/ MakeFullyActive(d) \/ MakeInactive(d)
  \/ RequestIdlePeriod \/ Close
  \/ QueueMicrotask \/ ScheduleRejectedPromiseNotification
  \/ RunEmptyTurn \/ UNCHANGED vars

LEMMA QuietFacts ==
  Quiet => UNCHANGED <<frames, contexts, runningTaskTurn, performing, paused, current, turnTask>>
<1> USE DEF queueVars, readiness, microtaskVars, turnVars, checkpointVars, lifeVars, stackVars
<1>1. ASSUME NEW t \in Task,
             QueueTask(t) \/ RemoveTask(t) \/ EnableTask(t) \/ RegisterWait(t) \/ Ready(t)
      PROVE  UNCHANGED <<frames, contexts, runningTaskTurn, performing, paused, current, turnTask>>
  BY <1>1 DEF QueueTask, RemoveTask, EnableTask, RegisterWait, Ready
<1>2. ASSUME NEW d \in Document,
             RemoveTasksForDocument(d) \/ MakeFullyActive(d) \/ MakeInactive(d)
      PROVE  UNCHANGED <<frames, contexts, runningTaskTurn, performing, paused, current, turnTask>>
  BY <1>2 DEF RemoveTasksForDocument, MakeFullyActive, MakeInactive
<1>3. ASSUME \/ RequestIdlePeriod \/ Close
             \/ QueueMicrotask \/ ScheduleRejectedPromiseNotification
             \/ RunEmptyTurn \/ UNCHANGED vars
      PROVE  UNCHANGED <<frames, contexts, runningTaskTurn, performing, paused, current, turnTask>>
  BY <1>3 DEF RequestIdlePeriod, Close, QueueMicrotask, ScheduleRejectedPromiseNotification,
              RunEmptyTurn, vars
<1>. QED  BY <1>1, <1>2, <1>3 DEF Quiet

\* What the innermost activity says about the whole stack.
LEMMA TopFacts ==
  ASSUME TypeOK, StackOK, ~AtRest
  PROVE  /\ frames \in Seq(Frame) /\ frames # <<>> /\ Len(frames) \in Nat \ {0}
         /\ Last(frames) = frames[Len(frames)] /\ Last(frames) \in Frame
         /\ contexts = ContextsAbove(Last(frames))
         /\ Last(frames).kind \in TurnKinds \cup {"tick"} =>
              Len(frames) = 1 /\ Last(frames) = frames[1] /\ contexts = 0 /\ ~performing
         /\ Last(frames).kind = "drain" => contexts = 0 /\ performing
         /\ runningTaskTurn <=> frames[1].kind \in {"turn", "spun", "endTurn"}
         /\ paused <=> Last(frames).kind = "pause"
<1> DEFINE n == Len(frames)
<1>1. /\ frames \in Seq(Frame) /\ frames # <<>> /\ n \in Nat \ {0}
      /\ Last(frames) = frames[n] /\ Last(frames) \in Frame
  BY PopFacts DEF TypeOK, AtRest
<1>2. /\ Contexts(frames, contexts) /\ Shape(frames, runningTaskTurn)
      /\ Flags(frames, runningTaskTurn, performing, paused)
  BY DEF StackOK, Stack
<1>3. contexts = ContextsAbove(Last(frames))
  BY <1>1, <1>2 DEF Contexts
<1>4. ASSUME Last(frames).kind \in TurnKinds \cup {"tick"}
      PROVE  n = 1 /\ Last(frames) = frames[1] /\ contexts = 0 /\ ~performing
  <2>0. \A i \in 2..n : frames[i].kind \notin TurnKinds \cup {"tick"}
    BY <1>2 DEF Shape
  <2>1. n = 1
    <3> HIDE DEF n
    <3>1. n # 1 => n \in 2..n
      BY <1>1
    <3>. QED  BY <1>1, <1>4, <2>0, <3>1
  <2>2. contexts = 0
    BY <1>1, <1>2, <1>4, <2>1 DEF Contexts, ContextsAbove, TurnKinds
  <2>. QED  BY <1>1, <1>2, <1>4, <2>1, <2>2 DEF Flags, TurnKinds
<1>5. ASSUME Last(frames).kind = "drain" PROVE contexts = 0 /\ performing
  <2>1. n \in 1..n
    BY <1>1
  <2>2. contexts = Last(frames).base
    BY <1>3, <1>5 DEF ContextsAbove
  <2>. QED  BY <1>1, <1>2, <1>5, <2>1, <2>2 DEF Shape, Flags
<1>6. /\ runningTaskTurn <=> frames[1].kind \in {"turn", "spun", "endTurn"}
      /\ paused <=> Last(frames).kind = "pause"
  BY <1>1, <1>2 DEF Flags
<1>. QED  BY <1>1, <1>3, <1>4, <1>5, <1>6

\* An activity of a new kind on top of the stack.
LEMMA PushStep ==
  ASSUME TypeOK, StackOK, NEW f \in Frame, frames' = Append(frames, f),
         runningTaskTurn' = runningTaskTurn,
         Push(frames, runningTaskTurn, performing, paused, contexts, f, performing', paused', contexts')
  PROVE  StackOK'
<1>1. frames \in Seq(Frame)
  BY DEF TypeOK
<1>2. Stack(Append(frames, f), runningTaskTurn, performing', paused', contexts')
  BY <1>1, StackPush DEF StackOK
<1>. QED  BY <1>2 DEF StackOK

LEMMA PopStep ==
  ASSUME TypeOK, StackOK, frames' = Front(frames), ~paused',
         Pop(frames, runningTaskTurn, performing, runningTaskTurn', performing', contexts'),
         paused' \in BOOLEAN
  PROVE  StackOK'
<1>1. frames \in Seq(Frame)
  BY DEF TypeOK
<1>2. Stack(Front(frames), runningTaskTurn', performing', FALSE, contexts')
  BY <1>1, StackPop DEF StackOK
<1>3. paused' = FALSE
  OBVIOUS
<1>. QED  BY <1>2, <1>3 DEF StackOK

\* The activities in progress stay well formed.
LEMMA StackStep == TypeOK /\ StackOK /\ CurrentOK /\ [Next]_vars => StackOK'
<1> SUFFICES ASSUME TypeOK, StackOK, CurrentOK, [Next]_vars PROVE StackOK'
  OBVIOUS
<1> USE DEF queueVars, readiness, microtaskVars, turnVars, checkpointVars, lifeVars, stackVars
<1>0. /\ frames \in Seq(Frame) /\ contexts \in Nat
      /\ performing \in BOOLEAN /\ paused \in BOOLEAN /\ runningTaskTurn \in BOOLEAN
  BY DEF TypeOK
<1>1. ASSUME Quiet PROVE StackOK'
  BY <1>1, QuietFacts DEF StackOK
<1>2. ASSUME RunMicrotask PROVE StackOK'
  <2> DEFINE f == NewFrame("microtask", performing)
  <2>1. /\ f \in Frame /\ f.kind = "microtask" /\ f.flag = performing /\ f.base = contexts
        /\ ContextsAbove(f) = contexts
    BY <1>0, NewFrameType DEF NewFrame, ContextsAbove
  <2>2. /\ ~AtRest /\ Last(frames).kind \in {"drain", "tick"} /\ frames' = Append(frames, f)
        /\ performing' = TRUE /\ UNCHANGED <<runningTaskTurn, paused, contexts>>
    BY <1>2 DEF RunMicrotask, TopIs
  <2> HIDE DEF f
  <2>3. performing <=> frames[Len(frames)].kind = "drain"
    BY <1>0, <2>2, TopFacts
  <2>4. ~paused /\ frames # <<>> /\ frames[Len(frames)].kind \in {"drain", "tick"}
    BY <2>2, TopFacts
  <2>5. Len(frames) = 1 => frames[1].kind \notin {"host", "spun", "endTurn", "endCheckpoint"}
    BY <2>4
  <2>6. Push(frames, runningTaskTurn, performing, paused, contexts, f, performing', paused', contexts')
    BY <1>0, <2>1, <2>2, <2>3, <2>4, <2>5 DEF Push
  <2>. QED  BY <2>1, <2>2, <2>6, PushStep
<1>3. ASSUME MicrotaskReturns PROVE StackOK'
  <2>1. /\ ~AtRest /\ Last(frames).kind = "microtask" /\ frames' = Front(frames)
        /\ performing' = Last(frames).flag /\ UNCHANGED <<runningTaskTurn, paused, contexts>>
    BY <1>3 DEF MicrotaskReturns, TopIs
  <2>2. /\ Last(frames) \in Frame /\ frames # <<>> /\ ~paused
        /\ contexts = Last(frames).base
    BY <2>1, TopFacts DEF ContextsAbove
  <2>3. runningTaskTurn <=> Len(frames) > 1 /\ runningTaskTurn
    BY <2>1, TopFacts
  <2>4. performing' \in BOOLEAN
    BY <2>1, <2>2 DEF Frame
  <2>5. Pop(frames, runningTaskTurn, performing, runningTaskTurn', performing', contexts')
    BY <1>0, <2>1, <2>2, <2>3, <2>4 DEF Pop
  <2>. QED  BY <1>0, <2>1, <2>2, <2>5, PopStep
<1>4. ASSUME EndCheckpoint PROVE StackOK'
  <2>1. /\ ~AtRest /\ Last(frames).kind = "drain" /\ frames' = Front(frames)
        /\ performing' = FALSE /\ UNCHANGED <<runningTaskTurn, paused, contexts>>
    BY <1>4 DEF EndCheckpoint, TopIs
  <2>2. /\ Last(frames) \in Frame /\ frames # <<>> /\ ~paused
        /\ contexts = Last(frames).base
    BY <2>1, TopFacts DEF ContextsAbove
  <2>3. runningTaskTurn <=> Len(frames) > 1 /\ runningTaskTurn
    BY <2>1, TopFacts
  <2>4. Pop(frames, runningTaskTurn, performing, runningTaskTurn', performing', contexts')
    BY <1>0, <2>1, <2>2, <2>3 DEF Pop
  <2>. QED  BY <1>0, <2>1, <2>2, <2>4, PopStep
<1>5. ASSUME ParserCheckpoint PROVE StackOK'
  <2>1. contexts = 0 /\ contexts' = 0 /\ BeginCheckpoint(frames)
        /\ UNCHANGED <<runningTaskTurn, paused>>
    BY <1>5 DEF ParserCheckpoint
  <2>2. Stack(frames', runningTaskTurn, performing', paused, 0)
    BY <1>0, <2>1, StackCheckpoint DEF StackOK
  <2>. QED  BY <2>1, <2>2 DEF StackOK
<1>6. ASSUME NodeTick PROVE StackOK'
  <2> DEFINE f == NewFrame("tick", FALSE)
  <2>1. /\ AtRest /\ frames' = <<f>>
        /\ UNCHANGED <<runningTaskTurn, performing, paused, contexts>> /\ Ambient
    BY <1>6 DEF NodeTick
  <2>2. contexts = 0 /\ runningTaskTurn = FALSE /\ performing = FALSE /\ paused = FALSE
    BY <2>1 DEF StackOK, Stack, Contexts, Flags, AtRest
  <2>3. f \in Frame /\ f.kind = "tick" /\ f.base = 0
    BY <1>0, <2>2, NewFrameType DEF NewFrame
  <2> HIDE DEF f
  <2>4. Stack(<<f>>, f.kind \in {"turn", "spun", "endTurn"}, FALSE, FALSE, 0)
    BY <2>1, <2>3, StackSingle
  <2>5. (f.kind \in {"turn", "spun", "endTurn"}) = FALSE
    BY <2>3
  <2>. QED  BY <2>1, <2>2, <2>4, <2>5 DEF StackOK
<1>7. ASSUME NodeTickReturns PROVE StackOK'
  <2>1. /\ ~AtRest /\ Last(frames).kind = "tick" /\ frames' = Front(frames)
        /\ UNCHANGED <<runningTaskTurn, performing, paused, contexts>>
    BY <1>7 DEF NodeTickReturns, TopIs
  <2>2. /\ Last(frames) \in Frame /\ frames # <<>> /\ ~paused
        /\ contexts = Last(frames).base
    BY <2>1, TopFacts DEF ContextsAbove
  <2>3. runningTaskTurn <=> Len(frames) > 1 /\ runningTaskTurn
    BY <2>1, TopFacts
  <2>4. Pop(frames, runningTaskTurn, performing, runningTaskTurn', performing', contexts')
    BY <1>0, <2>1, <2>2, <2>3 DEF Pop
  <2>. QED  BY <1>0, <2>1, <2>2, <2>4, PopStep
<1>8. ASSUME PrepareToRunScript PROVE StackOK'
  <2> DEFINE f == NewFrame("script", current # None)
  <2>1. /\ f \in Frame /\ f.kind = "script" /\ f.base = contexts
        /\ ContextsAbove(f) = contexts + 1
    BY <1>0, NewFrameType DEF NewFrame, ContextsAbove
  <2>2. /\ AtRest \/ Running
        /\ frames' = Append(frames, f) /\ contexts' = contexts + 1
        /\ UNCHANGED <<runningTaskTurn, performing, paused>>
    BY <1>8 DEF PrepareToRunScript
  <2> HIDE DEF f
  <2>3. ~paused
    BY <2>2, TopFacts DEF Running, TopIs, StackOK, Stack, Flags, AtRest
  <2>4. Len(frames) = 1 => frames[1].kind \notin {"host", "spun", "endTurn", "endCheckpoint"}
    BY <2>2, TopFacts, EmptySeq, LenProperties DEF Running, TopIs, AtRest
  <2>5. Push(frames, runningTaskTurn, performing, paused, contexts, f, performing', paused', contexts')
    BY <1>0, <2>1, <2>2, <2>3, <2>4 DEF Push
  <2>. QED  BY <2>1, <2>2, <2>5, PushStep
<1>9. ASSUME CleanUpAfterRunningScript PROVE StackOK'
  <2>1. /\ ~AtRest /\ Last(frames).kind = "script" /\ contexts' = contexts - 1
        /\ UNCHANGED <<runningTaskTurn, paused>>
    BY <1>9 DEF CleanUpAfterRunningScript, TopIs
  <2>2. /\ Last(frames) \in Frame /\ frames # <<>> /\ ~paused /\ Len(frames) \in Nat \ {0}
        /\ contexts' = Last(frames).base
        /\ Front(frames) \in Seq(Frame)
    BY <2>1, TopFacts, FrameType DEF ContextsAbove, Frame
  <2>3. runningTaskTurn <=> Len(frames) > 1 /\ runningTaskTurn
    BY <2>1, TopFacts
  <2>4. Pop(frames, runningTaskTurn, performing, runningTaskTurn, performing, contexts')
    BY <1>0, <2>1, <2>2, <2>3 DEF Pop
  <2>5. Stack(Front(frames), runningTaskTurn, performing, FALSE, contexts')
    BY <1>0, <2>4, StackPop DEF StackOK
  <2>6. paused = FALSE
    BY <1>0, <2>2
  <2>7. CASE CheckpointDue(Last(frames).flag)
    <3>1. contexts' = 0 /\ BeginCheckpoint(Front(frames))
      BY <1>9, <2>7 DEF CleanUpAfterRunningScript, CheckpointDue
    <3>2. Stack(Front(frames), runningTaskTurn, performing, paused, 0)
      BY <2>5, <2>6, <3>1
    <3>3. Stack(frames', runningTaskTurn, performing', paused, 0)
      BY <2>2, <3>1, <3>2, StackCheckpoint
    <3>. QED  BY <2>1, <3>1, <3>3 DEF StackOK
  <2>8. CASE ~CheckpointDue(Last(frames).flag)
    <3>1. frames' = Front(frames) /\ UNCHANGED checkpointVars
      BY <1>9, <2>8 DEF CleanUpAfterRunningScript
    <3>. QED  BY <2>1, <2>5, <2>6, <3>1 DEF StackOK
  <2>. QED  BY <2>7, <2>8
<1>10. ASSUME RunScriptEvaluation PROVE StackOK'
  <2> DEFINE g == NewFrame("host", FALSE)
             f == NewFrame("script", TRUE)
  <2>1. /\ g \in Frame /\ g.kind = "host" /\ g.base = contexts
        /\ f \in Frame /\ f.kind = "script" /\ f.base = contexts /\ f.flag = TRUE
        /\ ContextsAbove(g) = contexts /\ ContextsAbove(f) = contexts + 1
    BY <1>0, NewFrameType DEF NewFrame, ContextsAbove
  <2>2. /\ AtRest \/ Running
        /\ frames' = Append(Append(frames, g), f) /\ contexts' = contexts + 1
        /\ UNCHANGED <<runningTaskTurn, performing, paused>>
    BY <1>10 DEF RunScriptEvaluation
  <2> HIDE DEF f, g
  <2>3. ~paused
    BY <2>2, TopFacts DEF Running, TopIs, StackOK, Stack, Flags, AtRest
  <2>4. Len(frames) = 1 => frames[1].kind \notin {"host", "spun", "endTurn", "endCheckpoint"}
    <3>1. CASE AtRest
      BY <3>1 DEF AtRest
    <3>2. CASE ~AtRest
      BY <2>2, <3>2, TopFacts DEF Running, TopIs
    <3>. QED  BY <3>1, <3>2
  <2>10. frames = <<>> \/ runningTaskTurn \/ frames[Len(frames)].kind \in {"script", "platform", "microtask"}
    <3>1. CASE ~AtRest
      <4>1. /\ Last(frames) = frames[Len(frames)]
            /\ Last(frames).kind \in {"turn", "script", "platform", "microtask"}
        BY <2>2, <3>1, TopFacts DEF Running, TopIs
      <4>2. Last(frames).kind = "turn" => runningTaskTurn
        BY <3>1, TopFacts DEF TurnKinds
      <4>. QED  BY <4>1, <4>2
    <3>. QED  BY <3>1 DEF AtRest
  <2>5. Push(frames, runningTaskTurn, performing, paused, contexts, g, performing, paused, contexts)
    BY <1>0, <2>1, <2>2, <2>3, <2>4, <2>10 DEF Push, AtRest
  <2>6. Stack(Append(frames, g), runningTaskTurn, performing, paused, contexts)
    BY <1>0, <2>1, <2>5, StackPush DEF StackOK
  <2>7. Append(frames, g) \in Seq(Frame) /\ Append(frames, g) # <<>>
    BY <1>0, <2>1, PushFacts
  <2>8. Push(Append(frames, g), runningTaskTurn, performing, paused, contexts, f,
             performing', paused', contexts')
    BY <1>0, <2>1, <2>2, <2>3, <2>7 DEF Push
  <2>9. Stack(Append(Append(frames, g), f), runningTaskTurn, performing', paused', contexts')
    BY <2>1, <2>6, <2>7, <2>8, StackPush
  <2>. QED  BY <2>2, <2>9 DEF StackOK
<1>11. ASSUME FinishHostScriptEntry PROVE StackOK'
  <2>1. /\ ~AtRest /\ Last(frames).kind = "host" /\ frames' = Front(frames)
        /\ UNCHANGED <<runningTaskTurn, performing, paused, contexts>>
    BY <1>11 DEF FinishHostScriptEntry, TopIs
  <2>2. /\ Last(frames) \in Frame /\ frames # <<>> /\ ~paused
        /\ contexts = Last(frames).base
    BY <2>1, TopFacts DEF ContextsAbove
  <2>3. runningTaskTurn <=> Len(frames) > 1 /\ runningTaskTurn
    BY <2>1, TopFacts
  <2>4. Pop(frames, runningTaskTurn, performing, runningTaskTurn', performing', contexts')
    BY <1>0, <2>1, <2>2, <2>3 DEF Pop
  <2>. QED  BY <1>0, <2>1, <2>2, <2>4, PopStep
<1>12. ASSUME RunPlatformCall PROVE StackOK'
  <2> DEFINE f == NewFrame("platform", FALSE)
  <2>1. /\ f \in Frame /\ f.kind = "platform" /\ f.base = contexts
        /\ ContextsAbove(f) = contexts + 1
    BY <1>0, NewFrameType DEF NewFrame, ContextsAbove
  <2>2. /\ ~AtRest /\ Last(frames).kind \in {"script", "platform"}
        /\ frames' = Append(frames, f) /\ contexts' = contexts + 1
        /\ UNCHANGED <<runningTaskTurn, performing, paused>>
    BY <1>12 DEF RunPlatformCall, TopIs
  <2> HIDE DEF f
  <2>3. ~paused /\ frames # <<>> /\ (Len(frames) = 1 => frames[1].kind \notin {"host", "spun", "endTurn", "endCheckpoint"})
    BY <2>2, TopFacts
  <2>5. Push(frames, runningTaskTurn, performing, paused, contexts, f, performing', paused', contexts')
    BY <1>0, <2>1, <2>2, <2>3 DEF Push
  <2>. QED  BY <2>1, <2>2, <2>5, PushStep
<1>13. ASSUME PlatformCallReturns PROVE StackOK'
  <2>1. /\ ~AtRest /\ Last(frames).kind = "platform" /\ frames' = Front(frames)
        /\ contexts' = contexts - 1 /\ UNCHANGED <<runningTaskTurn, performing, paused>>
    BY <1>13 DEF PlatformCallReturns, TopIs
  <2>2. /\ Last(frames) \in Frame /\ frames # <<>> /\ ~paused
        /\ contexts' = Last(frames).base
    BY <2>1, TopFacts DEF ContextsAbove, Frame
  <2>3. runningTaskTurn <=> Len(frames) > 1 /\ runningTaskTurn
    BY <2>1, TopFacts
  <2>4. Pop(frames, runningTaskTurn, performing, runningTaskTurn', performing', contexts')
    BY <1>0, <2>1, <2>2, <2>3 DEF Pop
  <2>. QED  BY <1>0, <2>1, <2>2, <2>4, PopStep
<1>14. ASSUME Pause PROVE StackOK'
  <2> DEFINE f == NewFrame("pause", FALSE)
  <2>1. /\ f \in Frame /\ f.kind = "pause" /\ f.base = contexts /\ ContextsAbove(f) = contexts
    BY <1>0, NewFrameType DEF NewFrame, ContextsAbove
  <2>2. /\ ~AtRest /\ Last(frames).kind \in {"turn", "script", "platform", "microtask"}
        /\ frames' = Append(frames, f) /\ paused' = TRUE
        /\ UNCHANGED <<runningTaskTurn, performing, contexts>>
    BY <1>14 DEF Pause, Running, TopIs
  <2> HIDE DEF f
  <2>3. ~paused /\ frames # <<>> /\ (Len(frames) = 1 => frames[1].kind \notin {"host", "spun", "endTurn", "endCheckpoint"})
    BY <2>2, TopFacts
  <2>5. Push(frames, runningTaskTurn, performing, paused, contexts, f, performing', paused', contexts')
    BY <1>0, <2>1, <2>2, <2>3 DEF Push
  <2>. QED  BY <2>1, <2>2, <2>5, PushStep
<1>15. ASSUME Unpause PROVE StackOK'
  <2>1. /\ ~AtRest /\ Last(frames).kind = "pause" /\ frames' = Front(frames)
        /\ paused' = FALSE /\ UNCHANGED <<runningTaskTurn, performing, contexts>>
    BY <1>15 DEF Unpause, TopIs
  <2>2. /\ Last(frames) \in Frame /\ frames # <<>>
        /\ contexts = Last(frames).base
    BY <2>1, TopFacts DEF ContextsAbove
  <2>3. runningTaskTurn <=> Len(frames) > 1 /\ runningTaskTurn
    BY <2>1, TopFacts
  <2>4. Pop(frames, runningTaskTurn, performing, runningTaskTurn', performing', contexts')
    BY <1>0, <2>1, <2>2, <2>3 DEF Pop
  <2>. QED  BY <1>0, <2>1, <2>2, <2>4, PopStep
<1>16. ASSUME NEW t \in Task, SpinUntil(t) PROVE StackOK'
  <2> DEFINE g == [frames[1] EXCEPT !.kind = "spun"]
  <2>1. /\ ~AtRest /\ Last(frames).kind \in {"turn", "script", "platform", "microtask"}
        /\ current = t /\ contexts' = 0 /\ BeginCheckpoint(<<g>>)
        /\ \A i \in 2..Len(frames) : frames[i].kind = "script"
        /\ UNCHANGED <<runningTaskTurn, paused>>
    BY <1>16 DEF SpinUntil, Running, TopIs
  <2>2. frames[1].kind \in {"turn", "spun"}
    BY <2>1, ConstantAssumption DEF CurrentOK, Bottom
  <2>3. paused = FALSE /\ runningTaskTurn = TRUE
    BY <1>0, <2>1, <2>2, TopFacts
  <2>4. performing = FALSE
    <3>1. \A i \in 1..Len(frames) : frames[i].kind \notin {"drain", "microtask"}
      BY <1>0, <2>1, <2>2, LenProperties
    <3>. QED  BY <1>0, <3>1 DEF StackOK, Stack, Flags
  <2>5. g \in Frame
    BY <2>1, RenameType
  <2>6. g.kind = "spun" /\ g.base = 0
    <3>1. frames[1] \in Frame
      BY <1>0, <2>1, TopFacts, ElementOfSeq
    <3>2. frames[1].base = 0
      BY <2>1 DEF StackOK, Stack, Contexts, AtRest
    <3>. QED  BY <3>1, <3>2 DEF Frame
  <2> HIDE DEF g
  <2>7. Stack(<<g>>, g.kind \in {"turn", "spun", "endTurn"}, FALSE, FALSE, 0) /\ <<g>> \in Seq(Frame)
    BY <2>5, <2>6, StackSingle, FrameType DEF TurnKinds
  <2>8. (g.kind \in {"turn", "spun", "endTurn"}) = TRUE
    BY <2>6
  <2>9. Stack(<<g>>, runningTaskTurn, performing, paused, 0)
    BY <2>3, <2>4, <2>7, <2>8
  <2>10. Stack(frames', runningTaskTurn, performing', paused, 0)
    BY <2>1, <2>7, <2>9, StackCheckpoint
  <2>. QED  BY <2>1, <2>10 DEF StackOK
<1>17. AtRest => contexts = 0 /\ runningTaskTurn = FALSE /\ performing = FALSE /\ paused = FALSE
  BY DEF StackOK, Stack, Contexts, Flags, AtRest
<1>18. ASSUME RunCheckpointTurn PROVE StackOK'
  <2> DEFINE g == NewFrame("endCheckpoint", FALSE)
  <2>1. AtRest /\ contexts' = contexts /\ BeginCheckpoint(<<g>>) /\ UNCHANGED <<runningTaskTurn, paused>>
    BY <1>18 DEF RunCheckpointTurn, BeginHostTurn
  <2>2. g \in Frame /\ g.kind = "endCheckpoint" /\ g.base = 0
    BY <1>17, <2>1, NewFrameType DEF NewFrame
  <2> HIDE DEF g
  <2>3. Stack(<<g>>, g.kind \in {"turn", "spun", "endTurn"}, FALSE, FALSE, 0) /\ <<g>> \in Seq(Frame)
    BY <2>2, StackSingle, FrameType DEF TurnKinds
  <2>4. (g.kind \in {"turn", "spun", "endTurn"}) = FALSE
    BY <2>2
  <2>5. Stack(<<g>>, runningTaskTurn, performing, paused, 0)
    BY <1>17, <2>1, <2>3, <2>4
  <2>6. Stack(frames', runningTaskTurn, performing', paused, 0)
    BY <1>17, <2>1, <2>3, <2>5, StackCheckpoint
  <2>. QED  BY <1>17, <2>1, <2>6 DEF StackOK
<1>19. ASSUME NEW t \in Task, RunTaskTurn(t) PROVE StackOK'
  <2>1. /\ AtRest /\ frames' = TurnFrames(saved[t]) /\ contexts' = saved[t]
        /\ runningTaskTurn' = TRUE /\ UNCHANGED <<performing, paused>>
    BY <1>19 DEF RunTaskTurn, BeginHostTurn
  <2>2. saved[t] \in Nat
    BY DEF TypeOK
  <2>3. Stack(TurnFrames(saved[t]), TRUE, FALSE, FALSE, saved[t])
    BY <2>2, StackTurnFrames
  <2>4. performing' = FALSE /\ paused' = FALSE
    BY <1>17, <2>1
  <2>. QED  BY <2>1, <2>3, <2>4 DEF StackOK
<1>20. ASSUME TaskStepsReturn PROVE StackOK'
  <2> DEFINE g == [frames[1] EXCEPT !.kind = "endTurn"]
  <2>1. /\ ~AtRest /\ Last(frames).kind \in {"turn", "spun"}
        /\ contexts' = contexts /\ BeginCheckpoint(<<g>>) /\ UNCHANGED <<runningTaskTurn, paused>>
    BY <1>20 DEF TaskStepsReturn, TopIs
  <2>2. /\ Last(frames).kind \in TurnKinds /\ Last(frames).kind # "pause"
        /\ Last(frames) = frames[1] => frames[1].kind \in {"turn", "spun", "endTurn"}
    BY <2>1 DEF TurnKinds
  <2>3. contexts = 0 /\ performing = FALSE /\ paused = FALSE /\ runningTaskTurn = TRUE
    BY <1>0, <2>1, <2>2, TopFacts
  <2>5. g \in Frame
    BY <2>1, RenameType
  <2>6. g.kind = "endTurn" /\ g.base = 0
    <3>1. frames[1] \in Frame
      BY <2>1, <2>2, TopFacts
    <3>2. frames[1].base = 0
      BY <2>1 DEF StackOK, Stack, Contexts, AtRest
    <3>. QED  BY <3>1, <3>2 DEF Frame
  <2> HIDE DEF g
  <2>7. Stack(<<g>>, g.kind \in {"turn", "spun", "endTurn"}, FALSE, FALSE, 0) /\ <<g>> \in Seq(Frame)
    BY <2>5, <2>6, StackSingle, FrameType DEF TurnKinds
  <2>8. (g.kind \in {"turn", "spun", "endTurn"}) = TRUE
    BY <2>6
  <2>9. Stack(<<g>>, runningTaskTurn, performing, paused, 0)
    BY <2>3, <2>7, <2>8
  <2>10. Stack(frames', runningTaskTurn, performing', paused, 0)
    BY <2>1, <2>3, <2>7, <2>9, StackCheckpoint
  <2>. QED  BY <2>1, <2>3, <2>10 DEF StackOK
<1>21. ASSUME HostTurnReturns PROVE StackOK'
  <2>1. /\ ~AtRest /\ Last(frames).kind \in {"endTurn", "endCheckpoint"}
        /\ frames' = Front(frames) /\ runningTaskTurn' = FALSE
        /\ UNCHANGED <<performing, paused, contexts>>
    BY <1>21 DEF HostTurnReturns, TopIs
  <2>2. Last(frames).kind \in TurnKinds
    BY <2>1 DEF TurnKinds
  <2>3. /\ Last(frames) \in Frame /\ frames # <<>> /\ ~paused
        /\ contexts = Last(frames).base /\ Len(frames) = 1
    BY <2>1, <2>2, TopFacts DEF ContextsAbove
  <2>4. Pop(frames, runningTaskTurn, performing, runningTaskTurn', performing', contexts')
    <3>1. ~(Len(frames) > 1) /\ Last(frames).kind \notin {"drain", "microtask"}
      BY <2>1, <2>3
    <3>. QED  BY <1>0, <2>1, <2>3, <3>1 DEF Pop
  <2>. QED  BY <1>0, <2>1, <2>3, <2>4, PopStep
<1>22. ASSUME HostTurnThrows PROVE StackOK'
  <2>1. /\ ~AtRest /\ Last(frames).kind = "drain" /\ frames' = <<>>
        /\ performing' = FALSE /\ runningTaskTurn' = FALSE /\ UNCHANGED <<contexts, paused>>
    BY <1>22 DEF HostTurnThrows, TopIs
  <2>2. contexts = 0 /\ paused = FALSE
    BY <1>0, <2>1, TopFacts
  <2>. QED  BY <2>1, <2>2, StackEmpty DEF StackOK
<1>. QED
  BY <1>1, <1>2, <1>3, <1>4, <1>5, <1>6, <1>7, <1>8, <1>9, <1>10, <1>11, <1>12, <1>13, <1>14,
     <1>15, <1>16, <1>18, <1>19, <1>20, <1>21, <1>22
  DEF Next, HostTurn, Unwind, Environment, Quiet
-----------------------------------------------------------------------------
(* The current task *)

LEMMA PushView ==
  ASSUME NEW fs \in Seq(Frame), NEW f \in Frame
  PROVE  /\ Append(fs, f) # <<>> /\ Len(Append(fs, f)) = Len(fs) + 1
         /\ fs = <<>> => Append(fs, f)[1] = f
         /\ fs # <<>> => Append(fs, f)[1] = fs[1]
         /\ Last(Append(fs, f)) = f
         /\ KindsOf(fs) \subseteq KindsOf(Append(fs, f)) /\ f.kind \in KindsOf(Append(fs, f))
<1> DEFINE gs == Append(fs, f)
<1>1. /\ gs \in Seq(Frame) /\ Len(gs) = Len(fs) + 1 /\ gs # <<>> /\ gs[Len(fs) + 1] = f
      /\ \A i \in 1..Len(fs) : gs[i] = fs[i]
      /\ Len(fs) \in Nat /\ (fs # <<>> => Len(fs) > 0)
  BY PushFacts, LenProperties, EmptySeq
<1> HIDE DEF gs
<1>2. Last(gs) = f
  BY <1>1 DEF Last
<1>3. fs # <<>> => gs[1] = fs[1]
  BY <1>1
<1>4. fs = <<>> => gs[1] = f
  BY <1>1
<1>5. KindsOf(fs) \subseteq KindsOf(gs)
  BY <1>1 DEF KindsOf
<1>6. f.kind \in KindsOf(gs)
  BY <1>1 DEF KindsOf
<1>. QED  BY <1>1, <1>2, <1>3, <1>4, <1>5, <1>6 DEF gs

LEMMA PopView ==
  ASSUME NEW fs \in Seq(Frame), fs # <<>>
  PROVE  /\ Len(fs) \in Nat \ {0}
         /\ Front(fs) = <<>> <=> Len(fs) = 1
         /\ Len(fs) > 1 => Front(fs)[1] = fs[1] /\ Len(Front(fs)) = Len(fs) - 1
         /\ KindsOf(fs) \subseteq KindsOf(Front(fs)) \cup {Last(fs).kind}
<1> DEFINE gs == Front(fs)
           n == Len(fs)
<1>1. /\ gs \in Seq(Frame) /\ n \in Nat \ {0} /\ Len(gs) = n - 1
      /\ Last(fs) = fs[n] /\ n = Len(fs)
      /\ \A i \in 1..(n - 1) : gs[i] = fs[i]
  BY PopFacts
<1> HIDE DEF gs, n
<1>2. gs = <<>> <=> n = 1
  BY <1>1, EmptySeq, LenProperties
<1>3. n > 1 => gs[1] = fs[1]
  BY <1>1
<1>4. ASSUME NEW i \in 1..n PROVE fs[i].kind \in KindsOf(gs) \cup {Last(fs).kind}
  <2>1. CASE i = n
    BY <1>1, <2>1
  <2>2. CASE i \in 1..(n - 1)
    BY <1>1, <2>2 DEF KindsOf
  <2>. QED  BY <1>1, <2>1, <2>2
<1>5. KindsOf(fs) \subseteq KindsOf(gs) \cup {Last(fs).kind}
  BY <1>1, <1>4 DEF KindsOf
<1>. QED  BY <1>1, <1>2, <1>3, <1>5 DEF gs, n

LEMMA CheckpointView ==
  ASSUME NEW fs \in Seq(Frame), contexts' \in Nat, BeginCheckpoint(fs)
  PROVE  /\ KindsOf(fs) \subseteq KindsOf(frames')
         /\ fs # <<>> => frames' # <<>> /\ frames'[1] = fs[1]
         /\ fs = <<>> /\ frames' # <<>> => frames'[1].kind = "drain"
         /\ \/ /\ destroyed \/ paused \/ performing
               /\ frames' = fs /\ UNCHANGED <<performing, checkpointRequested>>
            \/ /\ ~destroyed /\ ~paused /\ ~performing
               /\ frames' # <<>> /\ Last(frames').kind = "drain" /\ Len(frames') = Len(fs) + 1
               /\ performing' = TRUE /\ checkpointRequested' = FALSE
<1> DEFINE d == [kind |-> "drain", flag |-> FALSE, base |-> contexts']
<1>1. CASE destroyed \/ paused \/ performing
  BY <1>1 DEF BeginCheckpoint, checkpointVars
<1>2. CASE ~(destroyed \/ paused \/ performing)
  <2>1. /\ frames' = Append(fs, d) /\ performing' = TRUE /\ checkpointRequested' = FALSE
        /\ d \in Frame /\ d.kind = "drain"
    BY <1>2 DEF BeginCheckpoint, Frame
  <2> HIDE DEF d
  <2>. QED  BY <1>2, <2>1, PushView
<1>. QED  BY <1>1, <1>2

\* At rest nothing is current.
LEMMA RestFacts ==
  ASSUME TypeOK, StackOK, CurrentOK, AtRest
  PROVE  /\ current = None /\ turnTask = None /\ contexts = 0
         /\ ~performing /\ ~runningTaskTurn /\ ~paused
<1>1. frames = <<>> /\ Len(frames) = 0
  BY DEF AtRest
<1>2. contexts = 0 /\ ~performing /\ ~runningTaskTurn /\ ~paused
  BY <1>1 DEF StackOK, Stack, Contexts, Flags
<1>3. turnTask = None
  BY DEF CurrentOK, Bottom
<1>4. KindsOf(frames) = {}
  BY <1>1 DEF KindsOf
<1>5. current = None
  BY <1>3, <1>4, ConstantAssumption DEF CurrentOK, Present, TypeOK
<1>. QED  BY <1>2, <1>3, <1>5

\* The current task stays owned by an activity in progress.
LEMMA CurrentStep == TypeOK /\ StackOK /\ CurrentOK /\ [Next]_vars => CurrentOK'
<1> SUFFICES ASSUME TypeOK, StackOK, CurrentOK, [Next]_vars PROVE CurrentOK'
  OBVIOUS
<1> USE DEF queueVars, readiness, microtaskVars, turnVars, checkpointVars, lifeVars, stackVars
<1>0. /\ frames \in Seq(Frame) /\ contexts \in Nat /\ turnTask \in Task \cup {None}
      /\ None \notin Task /\ Microtask \notin Task /\ HostEntry \notin Task
      /\ None # Microtask /\ None # HostEntry /\ Microtask # HostEntry
  BY ConstantAssumption DEF TypeOK
<1>1. ASSUME Quiet PROVE CurrentOK'
  BY <1>1, QuietFacts DEF CurrentOK, Bottom, Present, AtRest
\* A push above a stack in progress keeps the current task or makes it the microtask.
<1>2. ASSUME ~AtRest, NEW f \in Frame, frames' = Append(frames, f), turnTask' = turnTask,
             current' = current \/ (current' = Microtask /\ f.kind = "microtask")
                \/ (current' = HostEntry /\ f.kind = "host")
      PROVE  CurrentOK'
  <2>1. /\ frames' # <<>> /\ frames'[1] = frames[1]
        /\ KindsOf(frames) \subseteq KindsOf(frames') /\ f.kind \in KindsOf(frames')
    BY <1>0, <1>2, PushView DEF AtRest
  <2>. QED  BY <1>0, <1>2, <2>1 DEF CurrentOK, Bottom, Present, AtRest
\* A pop clears the current task, or ends an activity that does not own it.
<1>3. ASSUME ~AtRest, frames' = Front(frames), turnTask' = turnTask,
             Len(frames) = 1 => frames[1].kind \notin {"turn", "spun"},
             current' = None \/ (current' = current /\ Last(frames).kind \notin {"microtask", "host"})
      PROVE  CurrentOK'
  <2> DEFINE n == Len(frames)
  <2>1. /\ n \in Nat \ {0} /\ (n = 1 => frames[1].kind \notin {"turn", "spun"})
        /\ frames' = <<>> <=> n = 1
        /\ n > 1 => frames'[1] = frames[1]
    BY <1>0, <1>3, PopView DEF AtRest
  <2>5. KindsOf(frames) \subseteq KindsOf(frames') \cup {Last(frames).kind}
    BY <1>0, <1>3, PopView DEF AtRest
  <2> HIDE DEF n
  <2>2. turnTask # None <=> Bottom({"turn", "spun"})'
    <3>1. turnTask # None <=> frames[1].kind \in {"turn", "spun"}
      BY <1>3 DEF CurrentOK, Bottom
    <3>2. CASE n = 1
      BY <1>3, <2>1, <3>1, <3>2 DEF Bottom, AtRest
    <3>3. CASE n > 1
      <4>1. frames' # <<>> /\ frames'[1] = frames[1]
        BY <2>1, <3>3
      <4>. QED  BY <3>1, <4>1 DEF Bottom, AtRest
    <3>4. n = 1 \/ n > 1
      BY <2>1
    <3>. QED  BY <3>2, <3>3, <3>4
  <2>3. current' = Microtask => Present("microtask")'
    BY <1>0, <1>3, <2>5 DEF CurrentOK, Present
  <2>4. current' = HostEntry => Present("host")'
    BY <1>0, <1>3, <2>5 DEF CurrentOK, Present
  <2>. QED  BY <1>0, <1>3, <2>2, <2>3, <2>4 DEF CurrentOK
<1>4. ASSUME RunMicrotask PROVE CurrentOK'
  <2>1. /\ ~AtRest /\ frames' = Append(frames, NewFrame("microtask", performing))
        /\ current' = Microtask /\ turnTask' = turnTask
    BY <1>4 DEF RunMicrotask, TopIs
  <2>2. NewFrame("microtask", performing) \in Frame /\ NewFrame("microtask", performing).kind = "microtask"
    BY NewFrameType DEF TypeOK, NewFrame
  <2>. QED  BY <1>2, <2>1, <2>2
<1>5. ~AtRest => (Len(frames) = 1 => Last(frames) = frames[1])
  BY TopFacts
<1>6. ASSUME MicrotaskReturns PROVE CurrentOK'
  <2>1. /\ ~AtRest /\ frames' = Front(frames) /\ Last(frames).kind = "microtask"
        /\ current' = None /\ turnTask' = turnTask
    BY <1>6 DEF MicrotaskReturns, TopIs
  <2>. QED  BY <1>3, <1>5, <2>1
<1>7. ASSUME EndCheckpoint \/ NodeTickReturns \/ PlatformCallReturns \/ Unpause \/ HostTurnReturns
      PROVE CurrentOK'
  <2>1. /\ ~AtRest /\ frames' = Front(frames)
        /\ Last(frames).kind \in {"drain", "tick", "platform", "pause", "endTurn", "endCheckpoint"}
        /\ UNCHANGED <<current, turnTask>>
    BY <1>7 DEF EndCheckpoint, NodeTickReturns, PlatformCallReturns, Unpause, HostTurnReturns, TopIs
  <2>. QED  BY <1>3, <1>5, <2>1
<1>8. ASSUME FinishHostScriptEntry PROVE CurrentOK'
  <2>1. /\ ~AtRest /\ frames' = Front(frames) /\ Last(frames).kind = "host"
        /\ current' = None /\ turnTask' = turnTask
    BY <1>8 DEF FinishHostScriptEntry, TopIs
  <2>. QED  BY <1>3, <1>5, <2>1
\* A checkpoint keeps the current task and the bottom of the stack.
<1>9. ASSUME NEW fs \in Seq(Frame), contexts' \in Nat, BeginCheckpoint(fs),
             turnTask # None <=> fs # <<>> /\ fs[1].kind \in {"turn", "spun"},
             current \in Task => current = turnTask,
             current = Microtask => "microtask" \in KindsOf(fs),
             current = HostEntry => "host" \in KindsOf(fs),
             UNCHANGED <<current, turnTask>>
      PROVE  CurrentOK'
  <2>1. /\ KindsOf(fs) \subseteq KindsOf(frames')
        /\ fs # <<>> => frames' # <<>> /\ frames'[1] = fs[1]
        /\ fs = <<>> /\ frames' # <<>> => frames'[1].kind = "drain"
    BY <1>9, CheckpointView
  <2>2. turnTask # None <=> frames' # <<>> /\ frames'[1].kind \in {"turn", "spun"}
    BY <1>9, <2>1
  <2>. QED  BY <1>9, <2>1, <2>2 DEF CurrentOK, Bottom, Present, AtRest
<1>10. ASSUME ParserCheckpoint PROVE CurrentOK'
  <2>1. contexts' \in Nat /\ BeginCheckpoint(frames) /\ UNCHANGED <<current, turnTask>>
    BY <1>0, <1>10 DEF ParserCheckpoint
  <2>. QED  BY <1>0, <1>9, <2>1 DEF CurrentOK, Bottom, Present, AtRest
<1>11. ASSUME AtRest, frames' # <<>> => frames'[1].kind \notin {"turn", "spun"},
              turnTask' = turnTask,
              current' = None \/ current' = current \/ (current' = HostEntry /\ "host" \in KindsOf(frames'))
       PROVE  CurrentOK'
  <2>1. current = None /\ turnTask = None
    BY <1>11, RestFacts
  <2>. QED  BY <1>0, <1>11, <2>1 DEF CurrentOK, Bottom, Present, AtRest
<1>12. ASSUME NodeTick PROVE CurrentOK'
  <2>1. AtRest /\ frames'[1].kind = "tick" /\ UNCHANGED <<current, turnTask>>
    BY <1>12 DEF NodeTick, NewFrame
  <2>. QED  BY <1>11, <2>1
<1>13. ASSUME PrepareToRunScript PROVE CurrentOK'
  <2> DEFINE f == NewFrame("script", current # None)
  <2>1. frames' = Append(frames, f) /\ UNCHANGED <<current, turnTask>>
    BY <1>13 DEF PrepareToRunScript
  <2>2. f \in Frame /\ f.kind = "script"
    BY NewFrameType DEF NewFrame
  <2> HIDE DEF f
  <2>3. AtRest => frames'[1].kind = "script"
    BY <1>0, <2>1, <2>2, PushView DEF AtRest
  <2>. QED  BY <1>2, <1>11, <2>1, <2>2, <2>3
<1>14. ASSUME RunPlatformCall \/ Pause PROVE CurrentOK'
  <2>1. PICK kind \in {"platform", "pause"} :
          ~AtRest /\ frames' = Append(frames, NewFrame(kind, FALSE)) /\ UNCHANGED <<current, turnTask>>
    BY <1>14 DEF RunPlatformCall, Pause, Running, TopIs
  <2>2. NewFrame(kind, FALSE) \in Frame
    BY NewFrameType
  <2>. QED  BY <1>2, <2>1, <2>2
<1>15. ASSUME RunScriptEvaluation PROVE CurrentOK'
  <2> DEFINE g == NewFrame("host", FALSE)
             f == NewFrame("script", TRUE)
             gs == Append(frames, g)
  <2>1. /\ frames' = Append(Append(frames, g), f) /\ current' = HostEntry /\ turnTask' = turnTask
    BY <1>15 DEF RunScriptEvaluation
  <2>2. g \in Frame /\ g.kind = "host" /\ f \in Frame
    BY NewFrameType DEF NewFrame
  <2> HIDE DEF f, g
  <2>3. /\ gs \in Seq(Frame) /\ gs # <<>> /\ "host" \in KindsOf(gs)
        /\ AtRest => gs[1] = g
        /\ ~AtRest => gs[1] = frames[1]
    BY <1>0, <2>2, PushView, PushFacts DEF AtRest
  <2> HIDE DEF gs
  <2>4. frames' = Append(gs, f)
    BY <2>1 DEF gs
  <2>5. frames' # <<>> /\ frames'[1] = gs[1] /\ "host" \in KindsOf(frames')
    BY <2>2, <2>3, <2>4, PushView
  <2>6. CASE AtRest
    BY <1>11, <2>1, <2>2, <2>3, <2>5, <2>6
  <2>7. CASE ~AtRest
    BY <1>0, <2>1, <2>3, <2>5, <2>7 DEF CurrentOK, Bottom, Present, AtRest
  <2>. QED  BY <2>6, <2>7
<1>16. ASSUME CleanUpAfterRunningScript PROVE CurrentOK'
  <2>1. ~AtRest /\ Last(frames).kind = "script" /\ contexts' = contexts - 1
        /\ UNCHANGED <<current, turnTask>>
    BY <1>16 DEF CleanUpAfterRunningScript, TopIs
  <2>2. contexts' \in Nat
    BY <2>1, TopContext DEF TopIs
  <2> DEFINE n == Len(frames)
  <2>3. /\ Front(frames) \in Seq(Frame) /\ n \in Nat \ {0}
        /\ n = 1 => Last(frames) = frames[1]
        /\ Front(frames) = <<>> <=> n = 1
        /\ n > 1 => Front(frames)[1] = frames[1]
    BY <1>0, <1>5, <2>1, PopView, PopFacts DEF AtRest
  <2> HIDE DEF n
  <2>8. KindsOf(frames) \subseteq KindsOf(Front(frames)) \cup {"script"}
    BY <1>0, <2>1, PopView DEF AtRest
  <2>4. turnTask # None <=> Front(frames) # <<>> /\ Front(frames)[1].kind \in {"turn", "spun"}
    <3>1. turnTask # None <=> frames[1].kind \in {"turn", "spun"}
      BY <2>1 DEF CurrentOK, Bottom
    <3>2. CASE n = 1
      BY <2>1, <2>3, <3>1, <3>2
    <3>3. CASE n > 1
      <4>1. Front(frames) # <<>> /\ Front(frames)[1] = frames[1]
        BY <2>3, <3>3
      <4>. QED  BY <3>1, <4>1
    <3>4. n = 1 \/ n > 1
      BY <2>3
    <3>. QED  BY <3>2, <3>3, <3>4
  <2>5. /\ current = Microtask => "microtask" \in KindsOf(Front(frames))
        /\ current = HostEntry => "host" \in KindsOf(Front(frames))
        /\ current \in Task => current = turnTask
    BY <2>8 DEF CurrentOK, Present
  <2>6. CASE BeginCheckpoint(Front(frames))
    BY <1>9, <2>1, <2>2, <2>3, <2>4, <2>5, <2>6
  <2>7. CASE frames' = Front(frames)
    BY <1>3, <1>5, <2>1, <2>7
  <2>. QED  BY <1>16, <2>6, <2>7 DEF CleanUpAfterRunningScript
<1>17. ASSUME NEW t \in Task, SpinUntil(t) PROVE CurrentOK'
  <2> DEFINE g == [frames[1] EXCEPT !.kind = "spun"]
  <2>1. ~AtRest /\ current = t /\ contexts' = 0 /\ BeginCheckpoint(<<g>>) /\ UNCHANGED <<current, turnTask>>
    BY <1>17 DEF SpinUntil, Running, TopIs
  <2>2. g \in Frame /\ frames[1] \in Frame
    BY <1>0, <2>1, RenameType, TopFacts, ElementOfSeq
  <2>3. g.kind = "spun"
    BY <2>2 DEF Frame
  <2> HIDE DEF g
  <2>4. <<g>> \in Seq(Frame) /\ <<g>> # <<>> /\ <<g>>[1] = g
    BY <2>2
  <2>5. turnTask # None
    BY <1>0, <2>1 DEF CurrentOK
  <2>. QED  BY <1>0, <1>9, <2>1, <2>3, <2>4, <2>5 DEF CurrentOK
<1>18. ASSUME RunCheckpointTurn PROVE CurrentOK'
  <2> DEFINE g == NewFrame("endCheckpoint", FALSE)
  <2>1. AtRest /\ contexts' \in Nat /\ BeginCheckpoint(<<g>>) /\ UNCHANGED <<current, turnTask>>
    BY <1>0, <1>18 DEF RunCheckpointTurn, BeginHostTurn
  <2>2. g \in Frame /\ g.kind = "endCheckpoint"
    BY NewFrameType DEF NewFrame
  <2> HIDE DEF g
  <2>3. <<g>> \in Seq(Frame) /\ <<g>> # <<>> /\ <<g>>[1] = g
    BY <2>2
  <2>4. frames'[1] = g
    BY <2>1, <2>3, CheckpointView
  <2>. QED  BY <1>11, <2>1, <2>2, <2>4
<1>19. ASSUME NEW t \in Task, RunTaskTurn(t) PROVE CurrentOK'
  <2>1. frames' = TurnFrames(saved[t]) /\ turnTask' = t /\ current' = t /\ saved[t] \in Nat
    BY <1>19 DEF RunTaskTurn, TypeOK
  <2>2. frames' # <<>> /\ frames'[1].kind = "turn"
    BY <2>1, TurnFramesType DEF TurnFrames
  <2>. QED  BY <1>0, <2>1, <2>2 DEF CurrentOK, Bottom, AtRest
<1>20. ASSUME TaskStepsReturn PROVE CurrentOK'
  <2> DEFINE g == [frames[1] EXCEPT !.kind = "endTurn"]
  <2>1. ~AtRest /\ contexts' \in Nat /\ BeginCheckpoint(<<g>>) /\ current' = None /\ turnTask' = None
    BY <1>0, <1>20 DEF TaskStepsReturn, TopIs
  <2>2. g \in Frame /\ frames[1] \in Frame
    BY <1>0, <2>1, RenameType, TopFacts, ElementOfSeq
  <2>3. g.kind = "endTurn"
    BY <2>2 DEF Frame
  <2> HIDE DEF g
  <2>4. <<g>> \in Seq(Frame) /\ <<g>> # <<>> /\ <<g>>[1] = g
    BY <2>2
  <2>5. frames'[1] = g
    BY <2>1, <2>4, CheckpointView
  <2>. QED  BY <1>0, <2>1, <2>3, <2>5 DEF CurrentOK, Bottom
<1>21. ASSUME HostTurnThrows PROVE CurrentOK'
  <2>1. /\ ~AtRest /\ Last(frames).kind = "drain" /\ frames' = <<>> /\ Len(frames) = 2
        /\ frames[1].kind \in {"endTurn", "endCheckpoint"}
        /\ UNCHANGED <<current, turnTask>>
    BY <1>21 DEF HostTurnThrows, TopIs
  <2>2. turnTask = None
    BY <2>1 DEF CurrentOK, Bottom
  <2>3. KindsOf(frames) \subseteq {frames[1].kind, "drain"}
    BY <2>1, TopFacts DEF KindsOf
  <2>4. current \notin {Microtask, HostEntry}
    BY <2>1, <2>3 DEF CurrentOK, Present
  <2>. QED  BY <1>0, <2>1, <2>2, <2>4 DEF CurrentOK, Bottom, AtRest
<1>. QED
  BY <1>1, <1>4, <1>6, <1>7, <1>8, <1>10, <1>12, <1>13, <1>14, <1>15, <1>16, <1>17, <1>18,
     <1>19, <1>20, <1>21
  DEF Next, HostTurn, Unwind, Environment, Quiet
-----------------------------------------------------------------------------
(* Tasks and wake-ups *)

LEMMA EnqueueFacts ==
  ASSUME TypeOK, NEW t \in Task, EnqueueTask(t)
  PROVE  /\ \A u \in Task \ {t} : fate'[u] = fate[u]
         /\ fate'[t] \in {"queued", "idle", "lost"}
         /\ closing \/ destroyed => fate'[t] # "queued"
BY DEF EnqueueTask, Dropped, TypeOK

LEMMA DiscardFacts ==
  ASSUME TypeOK, NEW ts \in SUBSET Task, Discard(ts)
  PROVE  \A u \in Task : fate'[u] = IF u \in ts THEN "idle" ELSE fate[u]
BY DEF Discard, Dequeue, TypeOK

LEMMA TasksStep == TypeOK /\ StackOK /\ CurrentOK /\ TasksOK /\ [Next]_vars => TasksOK'
<1> SUFFICES ASSUME TypeOK, StackOK, CurrentOK, TasksOK, [Next]_vars PROVE TasksOK'
  OBVIOUS
<1> USE DEF queueVars, readiness, microtaskVars, turnVars, checkpointVars, lifeVars, stackVars
<1>0. turnTask \in Task \cup {None} /\ None \notin Task
  BY ConstantAssumption DEF TypeOK
\* Only an idle or a waiting task is queued, never the one of the turn.
<1>1. ASSUME NEW t \in Task, fate[t] \in {"idle", "waiting"}, EnqueueTask(t),
             UNCHANGED <<turnTask, closing, destroyed>>
      PROVE  TasksOK'
  <2>1. turnTask # None => turnTask # t
    BY <1>1 DEF TasksOK
  <2>. QED  BY <1>0, <1>1, <2>1, EnqueueFacts DEF TasksOK
<1>2. ASSUME NEW ts \in SUBSET Task, \A u \in ts : fate[u] = "queued", Discard(ts),
             UNCHANGED <<turnTask, closing, destroyed>>
      PROVE  TasksOK'
  <2>1. turnTask # None => turnTask \notin ts
    BY <1>2 DEF TasksOK
  <2>. QED  BY <1>0, <1>2, <2>1, DiscardFacts DEF TasksOK
<1>3. ASSUME UNCHANGED <<fate, turnTask, closing, destroyed>> PROVE TasksOK'
  BY <1>3 DEF TasksOK
<1>4. ASSUME NEW t \in Task, QueueTask(t) PROVE TasksOK'
  BY <1>1, <1>4 DEF QueueTask
<1>5. ASSUME NEW t \in Task, RemoveTask(t) PROVE TasksOK'
  BY <1>2, <1>5 DEF RemoveTask
<1>6. ASSUME NEW d \in Document, RemoveTasksForDocument(d) PROVE TasksOK'
  BY <1>2, <1>6 DEF RemoveTasksForDocument
<1>7. ASSUME NEW t \in Task, Ready(t) PROVE TasksOK'
  BY <1>1, <1>7 DEF Ready
<1>8. ASSUME Close PROVE TasksOK'
  <2>1. \A u \in Task : fate'[u] = IF fate[u] = "queued" THEN Dropped(u) ELSE fate[u]
    BY <1>8 DEF Close, Dequeue
  <2>2. \A u \in Task : fate'[u] # "queued"
    BY <2>1 DEF Dropped
  <2>3. turnTask # None => fate'[turnTask] = fate[turnTask]
    BY <1>0, <2>1 DEF TasksOK
  <2>. QED  BY <1>8, <2>2, <2>3 DEF Close, TasksOK
<1>9. ASSUME EndCheckpoint PROVE TasksOK'
  <2>1. UNCHANGED <<turnTask, closing, destroyed>>
    BY <1>9 DEF EndCheckpoint
  <2>2. \/ \E t \in Task : fate[t] = "idle" /\ EnqueueTask(t)
        \/ UNCHANGED fate
    BY <1>9 DEF EndCheckpoint
  <2>. QED  BY <1>1, <1>3, <2>1, <2>2
<1>10. ASSUME NEW t \in Task, SpinUntil(t) PROVE TasksOK'
  <2>1. /\ turnTask = t /\ turnTask' = t /\ fate' = [fate EXCEPT ![t] = "spun"]
        /\ UNCHANGED <<closing, destroyed>>
    BY <1>10 DEF SpinUntil, CurrentOK
  <2>. QED  BY <2>1 DEF TasksOK, TypeOK
<1>11. ASSUME NEW t \in Task, RegisterWait(t) PROVE TasksOK'
  <2>1. turnTask = None /\ fate' = [fate EXCEPT ![t] = "waiting"] /\ UNCHANGED <<turnTask, closing, destroyed>>
    BY <1>11, RestFacts DEF RegisterWait
  <2>. QED  BY <2>1 DEF TasksOK, TypeOK
<1>12. ASSUME NEW t \in Task, RunTaskTurn(t) PROVE TasksOK'
  <2>1. /\ turnTask' = t /\ UNCHANGED <<closing, destroyed>>
        /\ \A u \in Task : fate'[u] = IF u = t THEN "running" ELSE fate[u]
    BY <1>12 DEF RunTaskTurn, Dequeue
  <2>. QED  BY <2>1 DEF TasksOK
<1>13. ASSUME TaskStepsReturn PROVE TasksOK'
  <2>1. turnTask' = None /\ UNCHANGED <<closing, destroyed>>
    BY <1>13 DEF TaskStepsReturn
  <2>2. \A u \in Task : fate'[u] \in {fate[u], "idle"}
    BY <1>13 DEF TaskStepsReturn, TypeOK
  <2>. QED  BY <2>1, <2>2 DEF TasksOK
\* A worker is destroyed only when its queues are empty, and never queues an idle task.
<1>14. ASSUME StartIdlePeriod, FinishWorkerTurn, UNCHANGED <<turnTask, closing>> PROVE TasksOK'
  <2>1. CASE destroyed' = destroyed
    <3>1. \/ \E t \in Task : fate[t] = "idle" /\ EnqueueTask(t)
          \/ UNCHANGED fate
      BY <1>14, ConstantAssumption DEF StartIdlePeriod
    <3>. QED  BY <1>1, <1>3, <1>14, <2>1, <3>1
  <2>2. CASE destroyed' # destroyed
    <3>1. ~IsWindow /\ \A s \in Source : Queue(s) = {}
      BY <1>14, <2>2 DEF FinishWorkerTurn, WorkerReadyToFinish
    <3>2. fate' = fate
      BY <1>14, <3>1 DEF StartIdlePeriod
    <3>3. \A t \in Task : fate[t] # "queued"
      BY <3>1, ConstantAssumption DEF Queue
    <3>. QED  BY <1>14, <3>2, <3>3 DEF TasksOK
  <2>. QED  BY <2>1, <2>2
<1>15. ASSUME RunEmptyTurn \/ HostTurnReturns PROVE TasksOK'
  BY <1>14, <1>15 DEF RunEmptyTurn, HostTurnReturns
<1>16. ASSUME \/ \E d \in Document : MakeFullyActive(d) \/ MakeInactive(d)
              \/ \E t \in Task : EnableTask(t)
              \/ RequestIdlePeriod \/ QueueMicrotask \/ ScheduleRejectedPromiseNotification
              \/ RunMicrotask \/ MicrotaskReturns \/ ParserCheckpoint \/ NodeTick \/ NodeTickReturns
       PROVE  TasksOK'
  <2>1. UNCHANGED <<fate, turnTask, closing, destroyed>>
    BY <1>16 DEF MakeFullyActive, MakeInactive, EnableTask, RequestIdlePeriod, QueueMicrotask,
                 ScheduleRejectedPromiseNotification, RunMicrotask, MicrotaskReturns,
                 ParserCheckpoint, NodeTick, NodeTickReturns
  <2>. QED  BY <1>3, <2>1
<1>17. ASSUME \/ PrepareToRunScript \/ CleanUpAfterRunningScript \/ RunScriptEvaluation
              \/ FinishHostScriptEntry \/ RunPlatformCall \/ PlatformCallReturns
              \/ Pause \/ Unpause \/ RunCheckpointTurn \/ HostTurnThrows \/ UNCHANGED vars
       PROVE  TasksOK'
  <2>1. UNCHANGED <<fate, turnTask, closing, destroyed>>
    BY <1>17 DEF PrepareToRunScript, CleanUpAfterRunningScript, RunScriptEvaluation,
                 FinishHostScriptEntry, RunPlatformCall, PlatformCallReturns, Pause, Unpause,
                 RunCheckpointTurn, HostTurnThrows, vars
  <2>. QED  BY <1>3, <2>1
<1>. QED
  BY <1>4, <1>5, <1>6, <1>7, <1>8, <1>9, <1>10, <1>11, <1>12, <1>13, <1>15, <1>16, <1>17
  DEF Next, HostTurn, Unwind, Environment

\* What a step must not do without looking for work.
LEMMA WakeupKept ==
  ASSUME TypeOK, TasksOK, NoLostWakeup,
         destroyed => destroyed', closing' = closing, paused' = paused,
         checkpointRequested' => checkpointRequested, idleRequested' = idleRequested,
         active' \subseteq active, enabled' \subseteq enabled,
         \A t \in Task : fate'[t] = "queued" => fate[t] = "queued",
         turnRequested' = turnRequested
  PROVE  NoLostWakeup'
<1>1. HasRunnableTasks' => HasRunnableTasks
  <2>1. \A s \in Source : RunnableIn(s)' \subseteq RunnableIn(s)
    BY DEF RunnableIn, Queue, IsRunnable
  <2>. QED  BY <2>1 DEF HasRunnableTasks
<1>2. WorkerReadyToFinish' => WorkerReadyToFinish
  BY DEF WorkerReadyToFinish, TasksOK, Queue
<1>3. NeedsTurn' => NeedsTurn
  BY <1>1, <1>2 DEF NeedsTurn
<1>. QED  BY <1>3 DEF NoLostWakeup

LEMMA WakeupStep ==
  TypeOK /\ StackOK /\ CurrentOK /\ TasksOK /\ TurnOK /\ NoLostWakeup /\ [Next]_vars => NoLostWakeup'
<1> SUFFICES ASSUME TypeOK, StackOK, CurrentOK, TasksOK, TurnOK, NoLostWakeup, [Next]_vars
             PROVE  NoLostWakeup'
  OBVIOUS
<1> USE DEF queueVars, readiness, microtaskVars, turnVars, checkpointVars, lifeVars, stackVars
<1>1. ASSUME RequestTurnIfNeeded \/ FinishTurnCallback PROVE NoLostWakeup'
  <2>1. RequestTurnIfNeeded => (NeedsTurn' => turnRequested')
    <3>1. (turnRequested \/ NeedsTurn') \in BOOLEAN
      OBVIOUS
    <3>2. ASSUME RequestTurnIfNeeded, NeedsTurn' PROVE turnRequested' = TRUE
      BY <3>1, <3>2, Zenon DEF RequestTurnIfNeeded
    <3>. QED  BY <3>2
  <2>2. FinishTurnCallback => (NeedsTurn' => turnRequested')
    BY DEF FinishTurnCallback, NeedsTurn
  <2>. QED  BY <1>1, <2>1, <2>2 DEF NoLostWakeup
<1>2. ASSUME \/ \E t \in Task : QueueTask(t) \/ EnableTask(t) \/ Ready(t)
             \/ \E d \in Document : MakeFullyActive(d)
             \/ RequestIdlePeriod \/ Close \/ EndCheckpoint \/ Unpause
             \/ RunEmptyTurn \/ HostTurnReturns \/ HostTurnThrows
      PROVE  NoLostWakeup'
  <2>1. RequestTurnIfNeeded \/ FinishTurnCallback
    BY <1>2 DEF QueueTask, EnableTask, Ready, MakeFullyActive, RequestIdlePeriod, Close, EndCheckpoint,
                Unpause, RunEmptyTurn, HostTurnReturns, HostTurnThrows, NotifyTaskRunnabilityChanged
  <2>. QED  BY <1>1, <2>1
<1>3. ASSUME NEW ts \in SUBSET Task, Discard(ts),
             UNCHANGED <<readiness, checkpointVars, idleRequested, turnRequested, lifeVars>>
      PROVE  NoLostWakeup'
  <2>1. \A t \in Task : fate'[t] = "queued" => fate[t] = "queued"
    BY <1>3, DiscardFacts
  <2>. QED  BY <1>3, <2>1, WakeupKept
<1>4. ASSUME NEW t \in Task, RemoveTask(t) PROVE NoLostWakeup'
  BY <1>3, <1>4 DEF RemoveTask
<1>5. ASSUME NEW d \in Document, RemoveTasksForDocument(d) PROVE NoLostWakeup'
  BY <1>3, <1>5 DEF RemoveTasksForDocument
<1>6. ASSUME NEW d \in Document, MakeInactive(d) PROVE NoLostWakeup'
  BY <1>6, WakeupKept DEF MakeInactive
<1>7. ASSUME UNCHANGED <<queueVars, readiness, idleRequested, turnRequested, lifeVars>>,
             checkpointRequested' => checkpointRequested
      PROVE  NoLostWakeup'
  BY <1>7, WakeupKept
<1>8. ASSUME QueueMicrotask PROVE NoLostWakeup'
  <2>1. CASE RequestTurnIfNeeded
    BY <1>1, <2>1
  <2>2. CASE UNCHANGED <<checkpointRequested, turnRequested>>
    BY <1>7, <1>8, <2>2 DEF QueueMicrotask
  <2>. QED  BY <1>8, <2>1, <2>2 DEF QueueMicrotask, RequestMicrotaskCheckpoint
<1>9. \A fs : BeginCheckpoint(fs) => (checkpointRequested' => checkpointRequested)
  BY DEF BeginCheckpoint
<1>10. ASSUME \/ ScheduleRejectedPromiseNotification \/ RunMicrotask \/ MicrotaskReturns
              \/ NodeTick \/ NodeTickReturns \/ PrepareToRunScript \/ RunScriptEvaluation
              \/ FinishHostScriptEntry \/ RunPlatformCall \/ PlatformCallReturns \/ UNCHANGED vars
       PROVE  NoLostWakeup'
  <2>1. UNCHANGED <<queueVars, readiness, checkpointRequested, idleRequested, turnRequested, lifeVars>>
    BY <1>10 DEF ScheduleRejectedPromiseNotification, RunMicrotask, MicrotaskReturns,
                 NodeTick, NodeTickReturns, PrepareToRunScript, RunScriptEvaluation,
                 FinishHostScriptEntry, RunPlatformCall, PlatformCallReturns, vars
  <2>. QED  BY <1>7, <2>1
<1>11. ASSUME ParserCheckpoint \/ CleanUpAfterRunningScript \/ RunCheckpointTurn PROVE NoLostWakeup'
  <2>1. UNCHANGED <<queueVars, readiness, idleRequested, turnRequested, lifeVars>>
    BY <1>11 DEF ParserCheckpoint, CleanUpAfterRunningScript, RunCheckpointTurn
  <2>2. checkpointRequested' => checkpointRequested
    BY <1>9, <1>11 DEF ParserCheckpoint, CleanUpAfterRunningScript, RunCheckpointTurn
  <2>. QED  BY <1>7, <2>1, <2>2
<1>12. ASSUME Pause PROVE NoLostWakeup'
  BY <1>12 DEF Pause, NoLostWakeup, NeedsTurn
<1>13. ASSUME NEW t \in Task, SpinUntil(t) PROVE NoLostWakeup'
  <2>1. /\ fate' = [fate EXCEPT ![t] = "spun"] /\ (checkpointRequested' => checkpointRequested)
        /\ UNCHANGED <<readiness, idleRequested, turnRequested, lifeVars>>
    BY <1>9, <1>13 DEF SpinUntil
  <2>2. \A u \in Task : fate'[u] = "queued" => fate[u] = "queued"
    BY <2>1 DEF TypeOK
  <2>. QED  BY <2>1, <2>2, WakeupKept
<1>14. ASSUME NEW t \in Task, RegisterWait(t) PROVE NoLostWakeup'
  <2>1. \A u \in Task : fate'[u] = "queued" => fate[u] = "queued"
    BY <1>14 DEF RegisterWait, TypeOK
  <2>. QED  BY <1>14, <2>1, WakeupKept DEF RegisterWait
\* A turn in progress is still requested.
<1>15. ASSUME NEW t \in Task, RunTaskTurn(t) PROVE NoLostWakeup'
  BY <1>15 DEF RunTaskTurn, BeginHostTurn, NoLostWakeup
<1>16. ASSUME TaskStepsReturn PROVE NoLostWakeup'
  <2>1. ~AtRest /\ Last(frames).kind \in {"turn", "spun"} /\ turnRequested' = turnRequested
    BY <1>16 DEF TaskStepsReturn, TopIs
  <2>2. Bottom(TurnKinds)
    <3>1. Last(frames).kind \in TurnKinds
      BY <2>1 DEF TurnKinds
    <3>. QED  BY <2>1, <3>1, TopFacts DEF Bottom
  <2>. QED  BY <2>1, <2>2 DEF TurnOK, NoLostWakeup
<1>. QED
  BY <1>2, <1>4, <1>5, <1>6, <1>8, <1>10, <1>11, <1>12, <1>13, <1>14, <1>15, <1>16
  DEF Next, HostTurn, Unwind, Environment
-----------------------------------------------------------------------------
(* Turns and microtasks *)

\* The bottom of the stack changes only where a turn, a tick or an entry starts or ends.
LEMMA BottomStep ==
  ASSUME TypeOK, StackOK, CurrentOK, [Next]_vars, ~AtRest
  PROVE  \/ AtRest' /\ Len(frames) = 1 /\ frames' = Front(frames)
         \/ AtRest' /\ HostTurnThrows
         \/ ~AtRest' /\ frames'[1] = frames[1]
         \/ ~AtRest' /\ CleanUpAfterRunningScript /\ Len(frames) = 1 /\ frames'[1].kind = "drain"
         \/ ~AtRest' /\ frames'[1].kind = "spun" /\ \E t \in Task : SpinUntil(t)
         \/ ~AtRest' /\ frames'[1].kind = "endTurn" /\ TaskStepsReturn
<1> DEFINE Goal ==
         \/ AtRest' /\ Len(frames) = 1 /\ frames' = Front(frames)
         \/ AtRest' /\ HostTurnThrows
         \/ ~AtRest' /\ frames'[1] = frames[1]
         \/ ~AtRest' /\ CleanUpAfterRunningScript /\ Len(frames) = 1 /\ frames'[1].kind = "drain"
         \/ ~AtRest' /\ frames'[1].kind = "spun" /\ \E t \in Task : SpinUntil(t)
         \/ ~AtRest' /\ frames'[1].kind = "endTurn" /\ TaskStepsReturn
<1> USE DEF queueVars, readiness, microtaskVars, turnVars, checkpointVars, lifeVars, stackVars
<1>0. frames \in Seq(Frame) /\ contexts \in Nat /\ frames # <<>>
  BY DEF TypeOK, AtRest
<1>1. ASSUME frames' = frames PROVE Goal
  BY <1>1 DEF AtRest
<1>2. ASSUME NEW f \in Frame, frames' = Append(frames, f) PROVE Goal
  BY <1>0, <1>2, PushView DEF AtRest
<1>3. ASSUME frames' = Front(frames) PROVE Goal
  <2> DEFINE n == Len(frames)
  <2>1. /\ n \in Nat \ {0} /\ (frames' = <<>> <=> n = 1)
        /\ n > 1 => frames'[1] = frames[1]
    BY <1>0, <1>3, PopView
  <2> HIDE DEF n
  <2>2. n = 1 \/ n > 1
    BY <2>1
  <2>3. CASE n = 1
    BY <1>3, <2>1, <2>3 DEF AtRest, n
  <2>4. CASE n > 1
    <3>1. frames' # <<>> /\ frames'[1] = frames[1]
      BY <2>1, <2>4
    <3>. QED  BY <3>1 DEF AtRest
  <2>. QED  BY <2>2, <2>3, <2>4
<1>4. ASSUME NEW fs \in Seq(Frame), fs # <<>>, contexts' \in Nat, BeginCheckpoint(fs)
      PROVE  ~AtRest' /\ frames'[1] = fs[1]
  BY <1>4, CheckpointView DEF AtRest
<1>5. ASSUME Quiet PROVE Goal
  BY <1>1, <1>5, QuietFacts
<1>6. ASSUME RunMicrotask \/ PrepareToRunScript \/ RunPlatformCall \/ Pause PROVE Goal
  <2>1. performing \in BOOLEAN
    BY DEF TypeOK
  <2>2. PICK kind \in {"microtask", "script", "platform", "pause"}, flag \in BOOLEAN :
          frames' = Append(frames, NewFrame(kind, flag))
    BY <1>6, <2>1 DEF RunMicrotask, PrepareToRunScript, RunPlatformCall, Pause
  <2>3. NewFrame(kind, flag) \in Frame
    BY NewFrameType
  <2>. QED  BY <1>2, <2>2, <2>3
<1>7. ASSUME RunScriptEvaluation PROVE Goal
  <2> DEFINE g == NewFrame("host", FALSE)
             f == NewFrame("script", TRUE)
             gs == Append(frames, g)
  <2>1. frames' = Append(gs, f) /\ g \in Frame /\ f \in Frame
    BY <1>7, NewFrameType DEF RunScriptEvaluation
  <2> HIDE DEF f, g
  <2>2. gs \in Seq(Frame) /\ gs # <<>> /\ gs[1] = frames[1]
    BY <1>0, <2>1, PushView, PushFacts
  <2> HIDE DEF gs
  <2>3. frames' # <<>> /\ frames'[1] = frames[1]
    BY <2>1, <2>2, PushView
  <2>. QED  BY <2>3 DEF AtRest
<1>8. ASSUME \/ MicrotaskReturns \/ EndCheckpoint \/ NodeTickReturns \/ FinishHostScriptEntry
             \/ PlatformCallReturns \/ Unpause \/ HostTurnReturns
      PROVE  Goal
  BY <1>3, <1>8 DEF MicrotaskReturns, EndCheckpoint, NodeTickReturns, FinishHostScriptEntry,
                    PlatformCallReturns, Unpause, HostTurnReturns
<1>9. ASSUME ParserCheckpoint PROVE Goal
  <2>1. contexts' \in Nat /\ BeginCheckpoint(frames)
    BY <1>0, <1>9 DEF ParserCheckpoint
  <2>2. ~AtRest' /\ frames'[1] = frames[1]
    BY <1>0, <1>4, <2>1
  <2>. QED  BY <2>2
<1>10. ASSUME CleanUpAfterRunningScript PROVE Goal
  <2>1. contexts' \in Nat
    BY <1>10, TopContext DEF CleanUpAfterRunningScript, TopIs
  <2>2. CASE frames' = Front(frames)
    BY <1>3, <2>2
  <2>3. CASE BeginCheckpoint(Front(frames))
    <3>1. /\ Front(frames) \in Seq(Frame) /\ Len(frames) \in Nat \ {0}
          /\ Front(frames) = <<>> <=> Len(frames) = 1
          /\ Len(frames) > 1 => Front(frames)[1] = frames[1]
      BY <1>0, PopView, PopFacts
    <3>2. CASE Front(frames) # <<>>
      <4>1. Front(frames)[1] = frames[1]
        <5> DEFINE n == Len(frames)
        <5>1. n \in Nat \ {0} /\ n # 1 /\ (n > 1 => Front(frames)[1] = frames[1])
          BY <3>1, <3>2
        <5> HIDE DEF n
        <5>. QED  BY <5>1
      <4>2. ~AtRest' /\ frames'[1] = frames[1]
        BY <1>4, <2>1, <2>3, <3>1, <3>2, <4>1
      <4>. QED  BY <4>2
    <3>3. CASE Front(frames) = <<>>
      <4>1. \/ frames' = Front(frames)
            \/ frames' # <<>> /\ frames'[1].kind = "drain"
        BY <2>1, <2>3, <3>1, <3>3, CheckpointView
      <4>2. CASE frames' = Front(frames)
        BY <1>3, <4>2
      <4>3. CASE frames' # <<>> /\ frames'[1].kind = "drain"
        BY <1>10, <3>1, <3>3, <4>3 DEF AtRest
      <4>. QED  BY <4>1, <4>2, <4>3
    <3>. QED  BY <3>2, <3>3
  <2>. QED  BY <1>10, <2>2, <2>3 DEF CleanUpAfterRunningScript
<1>11. ASSUME NEW t \in Task, SpinUntil(t) PROVE Goal
  <2> DEFINE g == [frames[1] EXCEPT !.kind = "spun"]
  <2>1. g \in Frame /\ frames[1] \in Frame /\ contexts' \in Nat /\ BeginCheckpoint(<<g>>)
    BY <1>0, <1>11, RenameType, TopFacts, ElementOfSeq DEF SpinUntil
  <2>2. g.kind = "spun"
    BY <2>1 DEF Frame
  <2> HIDE DEF g
  <2>3. <<g>> \in Seq(Frame) /\ <<g>> # <<>> /\ <<g>>[1] = g
    BY <2>1
  <2>4. ~AtRest' /\ frames'[1] = g
    BY <1>4, <2>1, <2>3
  <2>. QED  BY <1>11, <2>2, <2>4
<1>12. ASSUME TaskStepsReturn PROVE Goal
  <2> DEFINE g == [frames[1] EXCEPT !.kind = "endTurn"]
  <2>1. g \in Frame /\ frames[1] \in Frame /\ contexts' \in Nat /\ BeginCheckpoint(<<g>>)
    BY <1>0, <1>12, RenameType, TopFacts, ElementOfSeq DEF TaskStepsReturn
  <2>2. g.kind = "endTurn"
    BY <2>1 DEF Frame
  <2> HIDE DEF g
  <2>3. <<g>> \in Seq(Frame) /\ <<g>> # <<>> /\ <<g>>[1] = g
    BY <2>1
  <2>4. ~AtRest' /\ frames'[1] = g
    BY <1>4, <2>1, <2>3
  <2>. QED  BY <1>12, <2>2, <2>4
<1>13. ASSUME HostTurnThrows PROVE Goal
  BY <1>13 DEF HostTurnThrows, AtRest
<1>14. ~NodeTick /\ ~RunCheckpointTurn /\ \A t \in Task : ~RunTaskTurn(t)
  BY DEF NodeTick, RunCheckpointTurn, RunTaskTurn, BeginHostTurn
<1>. HIDE DEF Goal
<1>15. Goal
  BY <1>5, <1>6, <1>7, <1>8, <1>9, <1>10, <1>11, <1>12, <1>13, <1>14
  DEF Next, HostTurn, Unwind, Environment, Quiet
<1>. QED  BY <1>15 DEF Goal

\* What can start at rest.
LEMMA RestStep ==
  ASSUME TypeOK, StackOK, CurrentOK, [Next]_vars, AtRest
  PROVE  \/ AtRest' \/ NodeTick
         \/ ~AtRest' /\ frames'[1].kind \in {"drain", "script"}
         \/ ~AtRest' /\ RunScriptEvaluation /\ frames'[1].kind = "host" /\ Len(frames') = 2
         \/ ~AtRest' /\ RunCheckpointTurn /\ frames'[1].kind = "endCheckpoint"
         \/ ~AtRest' /\ frames'[1].kind = "turn" /\ \E t \in Task : RunTaskTurn(t)
<1> USE DEF queueVars, readiness, microtaskVars, turnVars, checkpointVars, lifeVars, stackVars
<1>0. frames \in Seq(Frame) /\ contexts \in Nat /\ frames = <<>> /\ Len(frames) = 0
  BY DEF TypeOK, AtRest
<1>1. Quiet => AtRest'
  BY QuietFacts DEF AtRest
<1>2. ASSUME ParserCheckpoint PROVE AtRest' \/ (~AtRest' /\ frames'[1].kind = "drain")
  <2>1. contexts' \in Nat /\ BeginCheckpoint(frames)
    BY <1>0, <1>2 DEF ParserCheckpoint
  <2>. QED  BY <1>0, <2>1, CheckpointView DEF AtRest
<1>3. ASSUME PrepareToRunScript PROVE ~AtRest' /\ frames'[1].kind = "script"
  <2> DEFINE f == NewFrame("script", current # None)
  <2>1. frames' = Append(frames, f) /\ f \in Frame /\ f.kind = "script"
    BY <1>3, NewFrameType DEF PrepareToRunScript, NewFrame
  <2> HIDE DEF f
  <2>. QED  BY <1>0, <2>1, PushView DEF AtRest
<1>4. ASSUME RunScriptEvaluation
      PROVE  ~AtRest' /\ RunScriptEvaluation /\ frames'[1].kind = "host" /\ Len(frames') = 2
  <2> DEFINE g == NewFrame("host", FALSE)
             f == NewFrame("script", TRUE)
             gs == Append(frames, g)
  <2>1. frames' = Append(gs, f) /\ g \in Frame /\ f \in Frame /\ g.kind = "host"
    BY <1>4, NewFrameType DEF RunScriptEvaluation, NewFrame
  <2> HIDE DEF f, g
  <2>2. gs \in Seq(Frame) /\ gs # <<>> /\ gs[1] = g /\ Len(gs) = 1
    BY <1>0, <2>1, PushView, PushFacts
  <2> HIDE DEF gs
  <2>3. Append(gs, f) # <<>> /\ Append(gs, f)[1] = g /\ Len(Append(gs, f)) = 1 + 1
    <3>1. Append(gs, f) # <<>> /\ Append(gs, f)[1] = gs[1] /\ Len(Append(gs, f)) = Len(gs) + 1
      BY <2>1, <2>2, PushView
    <3>. QED  BY <2>2, <3>1
  <2>. QED  BY <1>4, <2>1, <2>3 DEF AtRest
<1>5. ASSUME RunCheckpointTurn PROVE ~AtRest' /\ frames'[1].kind = "endCheckpoint"
  <2> DEFINE g == NewFrame("endCheckpoint", FALSE)
  <2>1. contexts' \in Nat /\ BeginCheckpoint(<<g>>) /\ g \in Frame /\ g.kind = "endCheckpoint"
    BY <1>0, <1>5, NewFrameType DEF RunCheckpointTurn, NewFrame
  <2> HIDE DEF g
  <2>2. <<g>> \in Seq(Frame) /\ <<g>> # <<>> /\ <<g>>[1] = g
    BY <2>1
  <2>. QED  BY <2>1, <2>2, CheckpointView DEF AtRest
<1>6. ASSUME NEW t \in Task, RunTaskTurn(t) PROVE ~AtRest' /\ frames'[1].kind = "turn"
  <2>1. frames' = TurnFrames(saved[t]) /\ saved[t] \in Nat
    BY <1>6 DEF RunTaskTurn, TypeOK
  <2>. QED  BY <2>1, TurnFramesType DEF TurnFrames, AtRest
<1>7. ASSUME \/ RunMicrotask \/ MicrotaskReturns \/ EndCheckpoint \/ CleanUpAfterRunningScript
             \/ FinishHostScriptEntry \/ PlatformCallReturns \/ Unpause \/ TaskStepsReturn
             \/ HostTurnReturns \/ NodeTickReturns \/ HostTurnThrows
             \/ RunPlatformCall \/ Pause \/ \E t \in Task : SpinUntil(t)
      PROVE  FALSE
  BY <1>7 DEF RunMicrotask, MicrotaskReturns, EndCheckpoint, CleanUpAfterRunningScript,
              FinishHostScriptEntry, PlatformCallReturns, Unpause, TaskStepsReturn,
              HostTurnReturns, NodeTickReturns, HostTurnThrows,
              RunPlatformCall, Pause, SpinUntil, Running, TopIs
<1>. QED
  BY <1>1, <1>2, <1>3, <1>4, <1>5, <1>6, <1>7 DEF Next, HostTurn, Unwind, Environment, Quiet

\* Only the end of a host turn withdraws the request for one, and only it destroys the loop.
LEMMA RequestStep ==
  ASSUME TypeOK, [Next]_vars
  PROVE  \/ (RunEmptyTurn \/ HostTurnReturns \/ HostTurnThrows) /\ FinishTurnCallback
         \/ /\ destroyed' = destroyed /\ (turnRequested => turnRequested')
            /\ destroyed => turnRequested' = turnRequested
<1> DEFINE Kept == /\ destroyed' = destroyed /\ (turnRequested => turnRequested')
                   /\ destroyed => turnRequested' = turnRequested
<1> USE DEF queueVars, readiness, microtaskVars, turnVars, checkpointVars, lifeVars, stackVars
<1>0. turnRequested \in BOOLEAN
  BY DEF TypeOK
<1>1. ASSUME RequestTurnIfNeeded, destroyed' = destroyed PROVE Kept
  <2>1. (turnRequested \/ NeedsTurn') \in BOOLEAN
    OBVIOUS
  <2>2. turnRequested => turnRequested' = TRUE
    BY <1>1, <2>1, Zenon DEF RequestTurnIfNeeded
  <2>3. ASSUME destroyed PROVE turnRequested' = turnRequested
    <3>1. ~NeedsTurn'
      BY <1>1, <2>3 DEF NeedsTurn
    <3>2. (turnRequested \/ NeedsTurn') = turnRequested
      BY <1>0, <3>1
    <3>. QED  BY <1>1, <3>2 DEF RequestTurnIfNeeded
  <2>. QED  BY <1>1, <2>2, <2>3
<1>2. ASSUME destroyed' = destroyed, turnRequested' = turnRequested PROVE Kept
  BY <1>2
<1> HIDE DEF Kept
<1>3. ASSUME \/ \E t \in Task : QueueTask(t) \/ EnableTask(t) \/ Ready(t)
             \/ \E d \in Document : MakeFullyActive(d)
             \/ RequestIdlePeriod \/ Close \/ EndCheckpoint \/ Unpause
      PROVE  Kept
  <2>1. RequestTurnIfNeeded /\ destroyed' = destroyed
    BY <1>3 DEF QueueTask, EnableTask, Ready, MakeFullyActive, RequestIdlePeriod, Close, EndCheckpoint,
                Unpause, NotifyTaskRunnabilityChanged
  <2>. QED  BY <1>1, <2>1
<1>4. ASSUME QueueMicrotask PROVE Kept
  <2>1. destroyed' = destroyed /\ (RequestTurnIfNeeded \/ turnRequested' = turnRequested)
    BY <1>4 DEF QueueMicrotask, RequestMicrotaskCheckpoint
  <2>. QED  BY <1>1, <1>2, <2>1
<1>5. ASSUME \/ \E t \in Task : RemoveTask(t) \/ RegisterWait(t) \/ SpinUntil(t) \/ RunTaskTurn(t)
             \/ \E d \in Document : RemoveTasksForDocument(d) \/ MakeInactive(d)
             \/ ScheduleRejectedPromiseNotification \/ RunMicrotask \/ MicrotaskReturns
             \/ ParserCheckpoint \/ NodeTick \/ NodeTickReturns
      PROVE  Kept
  <2>1. UNCHANGED <<destroyed, turnRequested>>
    BY <1>5 DEF RemoveTask, RegisterWait, SpinUntil, RunTaskTurn, RemoveTasksForDocument, MakeInactive,
                ScheduleRejectedPromiseNotification, RunMicrotask, MicrotaskReturns,
                ParserCheckpoint, NodeTick, NodeTickReturns
  <2>. QED  BY <1>2, <2>1
<1>6. ASSUME \/ PrepareToRunScript \/ CleanUpAfterRunningScript \/ RunScriptEvaluation
             \/ FinishHostScriptEntry \/ RunPlatformCall \/ PlatformCallReturns
             \/ Pause \/ RunCheckpointTurn \/ TaskStepsReturn \/ UNCHANGED vars
      PROVE  Kept
  <2>1. UNCHANGED <<destroyed, turnRequested>>
    BY <1>6 DEF PrepareToRunScript, CleanUpAfterRunningScript, RunScriptEvaluation,
                FinishHostScriptEntry, RunPlatformCall, PlatformCallReturns, Pause,
                RunCheckpointTurn, TaskStepsReturn, vars
  <2>. QED  BY <1>2, <2>1
<1>7. ASSUME RunEmptyTurn \/ HostTurnReturns \/ HostTurnThrows PROVE FinishTurnCallback
  BY <1>7 DEF RunEmptyTurn, HostTurnReturns, HostTurnThrows
<1>8. Kept \/ ((RunEmptyTurn \/ HostTurnReturns \/ HostTurnThrows) /\ FinishTurnCallback)
  BY <1>3, <1>4, <1>5, <1>6, <1>7 DEF Next, HostTurn, Unwind, Environment
<1>. QED  BY <1>8 DEF Kept

LEMMA TurnStep == TypeOK /\ StackOK /\ CurrentOK /\ TurnOK /\ [Next]_vars => TurnOK'
<1> SUFFICES ASSUME TypeOK, StackOK, CurrentOK, TurnOK, [Next]_vars PROVE TurnOK'
  OBVIOUS
<1> USE DEF queueVars, readiness, microtaskVars, turnVars, checkpointVars, lifeVars, stackVars
<1>1. ASSUME RunEmptyTurn \/ HostTurnReturns \/ HostTurnThrows, FinishTurnCallback PROVE TurnOK'
  <2>1. AtRest'
    <3>1. CASE RunEmptyTurn
      BY <3>1 DEF RunEmptyTurn, BeginHostTurn, AtRest
    <3>2. CASE HostTurnReturns
      <4>1. /\ ~AtRest /\ frames' = Front(frames) /\ Last(frames).kind \in TurnKinds
        BY <3>2 DEF HostTurnReturns, TopIs, TurnKinds
      <4>. QED  BY <4>1, TopFacts, PopView DEF AtRest
    <3>3. CASE HostTurnThrows
      BY <3>3 DEF HostTurnThrows, AtRest
    <3>. QED  BY <1>1, <3>1, <3>2, <3>3
  <2>2. destroyed' => ~turnRequested'
    BY <1>1 DEF FinishTurnCallback, NeedsTurn
  <2>. QED  BY <2>1, <2>2 DEF TurnOK, Bottom
<1>2. ASSUME destroyed' = destroyed, turnRequested => turnRequested',
             destroyed => turnRequested' = turnRequested
      PROVE  TurnOK'
  <2>1. CASE ~Bottom(TurnKinds)'
    BY <1>2, <2>1 DEF TurnOK
  <2>2. CASE Bottom(TurnKinds)'
    <3>1. ~AtRest' /\ frames'[1].kind \in {"turn", "spun", "endTurn", "endCheckpoint"}
      BY <2>2 DEF Bottom, TurnKinds
    <3>2. turnRequested /\ ~destroyed
      <4>1. CASE AtRest
        <5>1. BeginHostTurn
          <6>1. NodeTick => frames'[1].kind = "tick"
            BY DEF NodeTick, NewFrame
          <6>2. RunCheckpointTurn => BeginHostTurn
            BY DEF RunCheckpointTurn
          <6>3. (\E t \in Task : RunTaskTurn(t)) => BeginHostTurn
            BY DEF RunTaskTurn
          <6>. QED  BY <3>1, <4>1, <6>1, <6>2, <6>3, RestStep
        <5>. QED  BY <5>1 DEF BeginHostTurn
      <4>2. CASE ~AtRest
        <5>1. CASE frames'[1] = frames[1]
          <6>1. frames[1].kind \in TurnKinds
            BY <3>1, <5>1 DEF TurnKinds
          <6>. QED  BY <4>2, <6>1 DEF TurnOK, Bottom
        <5>2. CASE \E t \in Task : SpinUntil(t)
          <6>1. Bottom({"turn", "spun"})
            BY <5>2, ConstantAssumption DEF SpinUntil, CurrentOK
          <6>2. Bottom(TurnKinds)
            BY <6>1 DEF Bottom, TurnKinds
          <6>. QED  BY <6>2 DEF TurnOK
        <5>3. CASE TaskStepsReturn
          <6>1. Last(frames).kind \in {"turn", "spun"} /\ Last(frames).kind \in TurnKinds
            BY <5>3 DEF TaskStepsReturn, TopIs, TurnKinds
          <6>2. Bottom(TurnKinds)
            BY <4>2, <6>1, TopFacts DEF Bottom
          <6>. QED  BY <6>2 DEF TurnOK
        <5>. QED  BY <3>1, <4>2, <5>1, <5>2, <5>3, BottomStep
      <4>. QED  BY <4>1, <4>2
    <3>. QED  BY <1>2, <3>2 DEF TurnOK
  <2>. QED  BY <2>1, <2>2
<1>. QED  BY <1>1, <1>2, RequestStep

LEMMA SingleTop ==
  ASSUME NEW fs \in Seq(Frame), fs # <<>>, NEW run, NEW perf, NEW pse, NEW c,
         Stack(fs, run, perf, pse, c), Last(fs).kind \in TurnKinds
  PROVE  Len(fs) = 1 /\ Last(fs) = fs[1]
<1> DEFINE n == Len(fs)
<1>1. n \in Nat \ {0} /\ Last(fs) = fs[n] /\ n = Len(fs)
  BY PopFacts
<1>2. \A i \in 2..n : fs[i].kind \notin TurnKinds
  BY DEF Stack, Shape
<1> HIDE DEF n
<1>3. n # 1 => n \in 2..n
  BY <1>1
<1>. QED  BY <1>1, <1>2, <1>3

\* A pop that leaves the end of a turn on top is the end of its checkpoint.
LEMMA PopOntoEnd ==
  ASSUME TypeOK, StackOK, ~AtRest, frames' = Front(frames), StackOK', TypeOK',
         TopIs({"endTurn", "endCheckpoint"})'
  PROVE  Last(frames).kind = "drain"
<1> DEFINE n == Len(frames)
<1>1. /\ frames \in Seq(Frame) /\ n \in Nat \ {0} /\ Len(frames') = n - 1 /\ Last(frames) = frames[n]
      /\ n > 1 => frames'[1] = frames[1]
  BY PopFacts, PopView DEF TypeOK, AtRest
<1>2. /\ ~AtRest' /\ Last(frames').kind \in {"endTurn", "endCheckpoint"}
      /\ Last(frames').kind \in TurnKinds
  BY DEF TopIs, TurnKinds
<1>3. Len(frames') = 1 /\ Last(frames') = frames'[1]
  <2>1. frames' \in Seq(Frame) /\ frames' # <<>>
    BY <1>2 DEF TypeOK, AtRest
  <2>2. Stack(frames', runningTaskTurn', performing', paused', contexts')
    BY DEF StackOK
  <2>. QED  BY <1>2, <2>1, <2>2, SingleTop
<1>4. Len(frames) > 1 /\ frames[1].kind \in {"spun", "endTurn", "endCheckpoint"} =>
        frames[2].kind = "drain"
  BY DEF StackOK, Stack, Shape
<1>5. n = Len(frames)
  OBVIOUS
<1> HIDE DEF n
<1>6. n = 2
  <2>1. n - 1 = 1 /\ n \in Nat
    BY <1>1, <1>3, Zenon
  <2>. QED  BY <2>1
<1>7. frames[1].kind \in {"endTurn", "endCheckpoint"}
  BY <1>1, <1>2, <1>3, <1>6
<1>8. frames[2].kind = "drain"
  BY <1>4, <1>5, <1>6, <1>7
<1>. QED  BY <1>1, <1>6, <1>8

\* A turn ends with its microtasks run.
LEMMA DrainedStep ==
  TypeOK /\ StackOK /\ CurrentOK /\ TurnOK /\ TurnEndsDrained /\ [Next]_vars => TurnEndsDrained'
<1> SUFFICES ASSUME TypeOK, StackOK, CurrentOK, TurnOK, TurnEndsDrained, [Next]_vars,
                    TopIs({"endTurn", "endCheckpoint"})'
             PROVE  microtasks' = 0
  BY DEF TurnEndsDrained
<1> USE DEF queueVars, readiness, microtaskVars, turnVars, checkpointVars, lifeVars, stackVars
<1>0. /\ frames \in Seq(Frame) /\ contexts \in Nat /\ TypeOK' /\ StackOK'
      /\ ~AtRest' /\ Last(frames').kind \in {"endTurn", "endCheckpoint"}
  BY TypeStep, StackStep DEF TypeOK, TopIs
<1>1. frames' # <<>> /\ Len(frames') = 1 /\ Last(frames') = frames'[1]
  <2>1. frames' \in Seq(Frame) /\ frames' # <<>> /\ Last(frames').kind \in TurnKinds
    BY <1>0 DEF TypeOK, AtRest, TurnKinds
  <2>2. Stack(frames', runningTaskTurn', performing', paused', contexts')
    BY <1>0 DEF StackOK
  <2>. QED  BY <2>1, <2>2, SingleTop
<1>2. ASSUME frames' = frames PROVE TopIs({"endTurn", "endCheckpoint"}) /\ microtasks = 0
  <2>1. TopIs({"endTurn", "endCheckpoint"})
    BY <1>0, <1>2 DEF TopIs, AtRest
  <2>. QED  BY <2>1 DEF TurnEndsDrained
<1>3. ASSUME QueueMicrotask PROVE FALSE
  <2>1. frames' = frames /\ HostCode
    BY <1>3 DEF QueueMicrotask
  <2>. QED  BY <1>2, <2>1 DEF HostCode, Running, TopIs
<1>4. ASSUME Quiet, ~QueueMicrotask PROVE microtasks' = 0
  <2>1. microtasks' = microtasks
    BY <1>4 DEF Quiet, QueueTask, RemoveTask, EnableTask, RegisterWait, Ready, RemoveTasksForDocument,
                MakeFullyActive, MakeInactive, RequestIdlePeriod, Close,
                ScheduleRejectedPromiseNotification, RunEmptyTurn, vars
  <2>. QED  BY <1>2, <1>4, <2>1, QuietFacts
\* Nothing but the end of a turn itself is pushed under it.
<1>5. ASSUME NEW fs \in Seq(Frame), NEW f \in Frame, frames' = Append(fs, f) PROVE f.kind \in TurnKinds
  <2>1. Last(frames') = f
    BY <1>5, PushView
  <2>. QED  BY <1>0, <2>1 DEF TurnKinds
<1>6. ASSUME RunMicrotask \/ PrepareToRunScript \/ RunPlatformCall \/ Pause PROVE FALSE
  <2>1. PICK kind \in {"microtask", "script", "platform", "pause"}, flag \in BOOLEAN :
          frames' = Append(frames, NewFrame(kind, flag))
    BY <1>6 DEF RunMicrotask, PrepareToRunScript, RunPlatformCall, Pause, TypeOK
  <2>2. NewFrame(kind, flag) \in Frame /\ NewFrame(kind, flag).kind = kind
    BY NewFrameType DEF NewFrame
  <2>3. kind \in TurnKinds
    BY <1>0, <1>5, <2>1, <2>2
  <2>. QED  BY <2>3 DEF TurnKinds
<1>7. ASSUME RunScriptEvaluation PROVE FALSE
  <2> DEFINE g == NewFrame("host", FALSE)
             f == NewFrame("script", TRUE)
             gs == Append(frames, g)
  <2>1. frames' = Append(gs, f) /\ g \in Frame /\ f \in Frame /\ f.kind = "script"
    BY <1>7, NewFrameType DEF RunScriptEvaluation, NewFrame
  <2> HIDE DEF f, g
  <2>2. gs \in Seq(Frame)
    BY <1>0, <2>1, PushFacts
  <2> HIDE DEF gs
  <2>3. f.kind \in TurnKinds
    BY <1>5, <2>1, <2>2
  <2>. QED  BY <2>1, <2>3 DEF TurnKinds
<1>8. ASSUME ~AtRest, frames' = Front(frames) PROVE Last(frames).kind = "drain"
  BY <1>0, <1>8, PopOntoEnd
<1>9. ASSUME \/ MicrotaskReturns \/ NodeTickReturns \/ FinishHostScriptEntry
             \/ PlatformCallReturns \/ Unpause \/ HostTurnReturns
      PROVE  FALSE
  <2>1. /\ ~AtRest /\ frames' = Front(frames)
        /\ Last(frames).kind \in {"microtask", "tick", "host", "platform", "pause", "endTurn", "endCheckpoint"}
    BY <1>9 DEF MicrotaskReturns, NodeTickReturns, FinishHostScriptEntry, PlatformCallReturns,
                Unpause, HostTurnReturns, TopIs
  <2>. QED  BY <1>8, <2>1
<1>10. ASSUME EndCheckpoint PROVE microtasks' = 0
  BY <1>10 DEF EndCheckpoint
<1>11. ASSUME NEW fs \in Seq(Frame), contexts' \in Nat, BeginCheckpoint(fs)
       PROVE  frames' = fs /\ (destroyed \/ paused \/ performing)
  <2>1. Last(frames').kind # "drain"
    BY <1>0
  <2>. QED  BY <1>11, <2>1, CheckpointView
<1>12. ASSUME ParserCheckpoint PROVE microtasks' = 0
  <2>1. frames' = frames
    BY <1>0, <1>11, <1>12 DEF ParserCheckpoint
  <2>. QED  BY <1>2, <1>12, <2>1 DEF ParserCheckpoint
<1>13. ASSUME CleanUpAfterRunningScript PROVE FALSE
  <2>1. /\ ~AtRest /\ Last(frames).kind = "script" /\ contexts' \in Nat
        /\ Front(frames) \in Seq(Frame)
    BY <1>13, TopContext, FrameType DEF CleanUpAfterRunningScript, TopIs
  <2>2. frames' = Front(frames)
    BY <1>11, <1>13, <2>1 DEF CleanUpAfterRunningScript
  <2>. QED  BY <1>8, <2>1, <2>2
<1>14. ASSUME NEW t \in Task, SpinUntil(t) PROVE FALSE
  <2>1. ~AtRest
    BY <1>14 DEF SpinUntil, Running, TopIs
  <2> DEFINE g == [frames[1] EXCEPT !.kind = "spun"]
  <2>2. g \in Frame /\ frames[1] \in Frame /\ contexts' \in Nat /\ BeginCheckpoint(<<g>>)
    BY <1>0, <1>14, <2>1, RenameType, TopFacts, ElementOfSeq DEF SpinUntil
  <2>3. g.kind = "spun"
    BY <2>2 DEF Frame
  <2> HIDE DEF g
  <2>4. <<g>> \in Seq(Frame) /\ <<g>>[1] = g
    BY <2>2
  <2>5. frames'[1] = g
    BY <1>11, <2>2, <2>4
  <2>. QED  BY <1>0, <1>1, <2>3, <2>5
<1>15. ASSUME RunCheckpointTurn PROVE FALSE
  <2> DEFINE g == NewFrame("endCheckpoint", FALSE)
  <2>1. contexts' \in Nat /\ BeginCheckpoint(<<g>>) /\ g \in Frame /\ ~destroyed /\ ~paused /\ ~performing
    BY <1>0, <1>15, NewFrameType, RestFacts DEF RunCheckpointTurn, BeginHostTurn
  <2> HIDE DEF g
  <2>2. <<g>> \in Seq(Frame)
    BY <2>1
  <2>. QED  BY <1>11, <2>1, <2>2
<1>16. ASSUME NEW t \in Task, RunTaskTurn(t) PROVE FALSE
  <2>1. frames' = TurnFrames(saved[t]) /\ saved[t] \in Nat
    BY <1>16 DEF RunTaskTurn, TypeOK
  <2>2. frames'[1].kind = "turn"
    BY <2>1 DEF TurnFrames
  <2>. QED  BY <1>0, <1>1, <2>2
<1>17. ASSUME TaskStepsReturn PROVE FALSE
  <2>1. ~AtRest /\ Last(frames).kind \in {"turn", "spun"} /\ Last(frames).kind \in TurnKinds
    BY <1>17 DEF TaskStepsReturn, TopIs, TurnKinds
  <2> DEFINE g == [frames[1] EXCEPT !.kind = "endTurn"]
  <2>2. g \in Frame /\ contexts' \in Nat /\ BeginCheckpoint(<<g>>)
    BY <1>0, <1>17, <2>1, RenameType DEF TaskStepsReturn
  <2> HIDE DEF g
  <2>3. <<g>> \in Seq(Frame)
    BY <2>2
  <2>4. ~paused /\ ~performing /\ Bottom(TurnKinds)
    BY <2>1, TopFacts DEF Bottom
  <2>5. ~destroyed
    BY <2>4 DEF TurnOK
  <2>. QED  BY <1>11, <2>2, <2>3, <2>4, <2>5
<1>18. ASSUME HostTurnThrows \/ NodeTick PROVE FALSE
  <2>1. HostTurnThrows => AtRest'
    BY DEF HostTurnThrows, AtRest
  <2>2. NodeTick => frames'[1].kind = "tick"
    BY DEF NodeTick, NewFrame
  <2>. QED  BY <1>0, <1>1, <1>18, <2>1, <2>2
<1>. QED
  BY <1>3, <1>4, <1>6, <1>7, <1>9, <1>10, <1>12, <1>13, <1>14, <1>15, <1>16, <1>17, <1>18
  DEF Next, HostTurn, Unwind, Environment, Quiet

\* Outside a turn and a checkpoint, a host entry that is not the first activity
\* has contexts below it.
LEMMA HostContexts ==
  ASSUME TypeOK, StackOK, ~runningTaskTurn, ~performing,
         NEW i \in 1..Len(frames), frames[i].kind = "host", ~(frames[i].base > 0)
  PROVE  i = 1
<1> SUFFICES ASSUME i # 1 PROVE FALSE
  OBVIOUS
<1>1. i \in 2..Len(frames) /\ i - 1 \in 1..Len(frames) /\ frames[i - 1] \in Frame
  BY ElementOfSeq DEF TypeOK
<1>2. frames[i - 1].kind \in {"script", "platform", "microtask"}
  BY <1>1 DEF StackOK, Stack, Shape
<1>3. frames[i - 1].kind # "microtask"
  BY <1>1 DEF StackOK, Stack, Flags
<1>4. frames[i].base = ContextsAbove(frames[i - 1])
  BY <1>1 DEF StackOK, Stack, Contexts
<1>5. frames[i - 1].base \in Nat
  BY <1>1 DEF Frame
<1>. QED  BY <1>2, <1>3, <1>4, <1>5 DEF ContextsAbove

\* A checkpoint begins only on a live loop, and a loop is destroyed only at rest.
LEMMA DrainsStep == TypeOK /\ StackOK /\ CurrentOK /\ DrainsOK /\ [Next]_vars => DrainsOK'
<1> SUFFICES ASSUME TypeOK, StackOK, CurrentOK, DrainsOK, [Next]_vars, ~Ambient PROVE DrainsOK'
  BY DEF DrainsOK
<1> USE DEF queueVars, readiness, microtaskVars, turnVars, checkpointVars, lifeVars, stackVars
<1>1. ASSUME RunEmptyTurn \/ HostTurnReturns PROVE ~performing'
  <2>1. CASE RunEmptyTurn
    BY <2>1, RestFacts DEF RunEmptyTurn, BeginHostTurn
  <2>2. CASE HostTurnReturns
    <3>1. /\ ~AtRest /\ Last(frames).kind \in TurnKinds /\ performing' = performing
      BY <2>2 DEF HostTurnReturns, TopIs, TurnKinds
    <3>. QED  BY <3>1, TopFacts
  <2>. QED  BY <1>1, <2>1, <2>2
<1>2. ~HostTurnThrows
  BY DEF HostTurnThrows
<1>3. ASSUME destroyed' = destroyed, performing' => performing \/ ~destroyed PROVE DrainsOK'
  BY <1>3 DEF DrainsOK
<1>4. ASSUME NEW fs, BeginCheckpoint(fs) PROVE performing' => performing \/ ~destroyed
  BY <1>4 DEF BeginCheckpoint
<1>5. ASSUME RunMicrotask \/ MicrotaskReturns PROVE performing
  <2>1. ~AtRest /\ Last(frames).kind \in {"drain", "tick", "microtask"}
    BY <1>5 DEF RunMicrotask, MicrotaskReturns, TopIs
  <2>2. Last(frames).kind # "tick"
    BY <2>1, TopFacts DEF StackOK, Stack, Shape
  <2>3. Last(frames) = frames[Len(frames)] /\ Len(frames) \in 1..Len(frames)
    BY <2>1, TopFacts
  <2>. QED  BY <2>1, <2>2, <2>3 DEF StackOK, Stack, Flags
<1> DEFINE Kept == destroyed' = destroyed /\ (performing' => performing \/ ~destroyed)
<1>6. /\ RunMicrotask \/ MicrotaskReturns => Kept
      /\ ParserCheckpoint => Kept
      /\ RunCheckpointTurn => Kept
      /\ TaskStepsReturn => Kept
      /\ CleanUpAfterRunningScript => Kept
      /\ \A t \in Task : SpinUntil(t) => Kept
  <2>1. ASSUME RunMicrotask \/ MicrotaskReturns PROVE Kept
    BY <1>5, <2>1 DEF RunMicrotask, MicrotaskReturns
  <2>2. ASSUME ParserCheckpoint PROVE Kept
    BY <1>4, <2>2 DEF ParserCheckpoint
  <2>3. ASSUME RunCheckpointTurn PROVE Kept
    BY <1>4, <2>3 DEF RunCheckpointTurn
  <2>4. ASSUME TaskStepsReturn PROVE Kept
    BY <1>4, <2>4 DEF TaskStepsReturn
  <2>5. ASSUME CleanUpAfterRunningScript PROVE Kept
    <3>1. \/ BeginCheckpoint(Front(frames))
          \/ UNCHANGED checkpointVars
      BY <2>5 DEF CleanUpAfterRunningScript
    <3>2. destroyed' = destroyed
      BY <2>5 DEF CleanUpAfterRunningScript
    <3>. QED  BY <1>4, <3>1, <3>2
  <2>6. ASSUME NEW t \in Task, SpinUntil(t) PROVE Kept
    BY <1>4, <2>6 DEF SpinUntil
  <2>. QED  BY <2>1, <2>2, <2>3, <2>4, <2>5, <2>6
<1>7. /\ EndCheckpoint \/ NodeTick \/ NodeTickReturns => Kept
      /\ \A t \in Task : RunTaskTurn(t) => Kept
      /\ PrepareToRunScript \/ RunScriptEvaluation \/ FinishHostScriptEntry => Kept
      /\ RunPlatformCall \/ PlatformCallReturns \/ Pause \/ Unpause => Kept
  <2>1. ASSUME EndCheckpoint \/ NodeTick \/ NodeTickReturns PROVE Kept
    <3>1. CASE EndCheckpoint
      BY <3>1 DEF EndCheckpoint
    <3>2. CASE NodeTick
      BY <3>2 DEF NodeTick
    <3>3. CASE NodeTickReturns
      BY <3>3 DEF NodeTickReturns
    <3>. QED  BY <2>1, <3>1, <3>2, <3>3
  <2>2. \A t \in Task : RunTaskTurn(t) => Kept
    BY DEF RunTaskTurn
  <2>3. ASSUME PrepareToRunScript \/ RunScriptEvaluation \/ FinishHostScriptEntry PROVE Kept
    <3>1. CASE PrepareToRunScript
      BY <3>1 DEF PrepareToRunScript
    <3>2. CASE RunScriptEvaluation
      BY <3>2 DEF RunScriptEvaluation
    <3>3. CASE FinishHostScriptEntry
      BY <3>3 DEF FinishHostScriptEntry
    <3>. QED  BY <2>3, <3>1, <3>2, <3>3
  <2>4. ASSUME RunPlatformCall \/ PlatformCallReturns \/ Pause \/ Unpause PROVE Kept
    <3>1. CASE RunPlatformCall
      BY <3>1 DEF RunPlatformCall
    <3>2. CASE PlatformCallReturns
      BY <3>2 DEF PlatformCallReturns
    <3>3. CASE Pause
      BY <3>3 DEF Pause
    <3>4. CASE Unpause
      BY <3>4 DEF Unpause
    <3>. QED  BY <2>4, <3>1, <3>2, <3>3, <3>4
  <2>. QED  BY <2>1, <2>2, <2>3, <2>4
<1>8. /\ \A t \in Task : QueueTask(t) \/ RemoveTask(t) \/ EnableTask(t) => Kept
      /\ \A t \in Task : RegisterWait(t) \/ Ready(t) => Kept
      /\ \A d \in Document : RemoveTasksForDocument(d) \/ MakeFullyActive(d) \/ MakeInactive(d)
                            => Kept
      /\ RequestIdlePeriod \/ Close => Kept
      /\ QueueMicrotask \/ ScheduleRejectedPromiseNotification => Kept
      /\ UNCHANGED vars => Kept
  <2>1. ASSUME NEW t \in Task, QueueTask(t) \/ RemoveTask(t) \/ EnableTask(t) PROVE Kept
    <3>1. CASE QueueTask(t)
      BY <3>1 DEF QueueTask
    <3>2. CASE RemoveTask(t)
      BY <3>2 DEF RemoveTask
    <3>3. CASE EnableTask(t)
      BY <3>3 DEF EnableTask
    <3>. QED  BY <2>1, <3>1, <3>2, <3>3
  <2>2. ASSUME NEW t \in Task, RegisterWait(t) \/ Ready(t) PROVE Kept
    <3>1. CASE RegisterWait(t)
      BY <3>1 DEF RegisterWait
    <3>2. CASE Ready(t)
      BY <3>2 DEF Ready
    <3>. QED  BY <2>2, <3>1, <3>2
  <2>3. ASSUME NEW d \in Document,
               RemoveTasksForDocument(d) \/ MakeFullyActive(d) \/ MakeInactive(d)
        PROVE  Kept
    <3>1. CASE RemoveTasksForDocument(d)
      BY <3>1 DEF RemoveTasksForDocument
    <3>2. CASE MakeFullyActive(d)
      BY <3>2 DEF MakeFullyActive
    <3>3. CASE MakeInactive(d)
      BY <3>3 DEF MakeInactive
    <3>. QED  BY <2>3, <3>1, <3>2, <3>3
  <2>4. RequestIdlePeriod \/ Close => Kept
    BY DEF RequestIdlePeriod, Close
  <2>5. QueueMicrotask \/ ScheduleRejectedPromiseNotification => Kept
    BY DEF QueueMicrotask, ScheduleRejectedPromiseNotification
  <2>6. UNCHANGED vars => Kept
    BY DEF vars
  <2>. QED  BY <2>1, <2>2, <2>3, <2>4, <2>5, <2>6
<1> HIDE DEF Kept
<1>9. ASSUME ~RunEmptyTurn, ~HostTurnReturns PROVE Kept
  BY <1>2, <1>6, <1>7, <1>8, <1>9 DEF Next, HostTurn, Unwind, Environment
<1>. QED  BY <1>1, <1>3, <1>9 DEF DrainsOK, Kept

\* Pending microtasks keep somebody who will run them.
LEMMA MicrotasksStep ==
  /\ TypeOK /\ StackOK /\ CurrentOK /\ TurnOK /\ DrainsOK /\ MicrotasksOK /\ TurnEndsDrained
  /\ [Next]_vars
  => MicrotasksOK'
<1> SUFFICES ASSUME TypeOK, StackOK, CurrentOK, TurnOK, DrainsOK, MicrotasksOK, TurnEndsDrained,
                    [Next]_vars, microtasks' > unannounced', ~Ambient
             PROVE  /\ ~destroyed'
                    /\ checkpointRequested' \/ runningTaskTurn' \/ performing' \/ Bottom({"host"})'
                    /\ ~(Bottom({"host"})' /\ Len(frames') = 1)
  BY DEF MicrotasksOK
<1> DEFINE Goal == /\ ~destroyed'
                   /\ checkpointRequested' \/ runningTaskTurn' \/ performing' \/ Bottom({"host"})'
                   /\ ~(Bottom({"host"})' /\ Len(frames') = 1)
<1> USE DEF queueVars, readiness, microtaskVars, turnVars, checkpointVars, lifeVars, stackVars
<1>0. /\ frames \in Seq(Frame) /\ contexts \in Nat /\ microtasks \in Nat /\ unannounced \in Nat
      /\ performing \in BOOLEAN
      /\ frames = <<>> <=> AtRest
  BY DEF TypeOK, AtRest
<1>1. microtasks > unannounced =>
        /\ ~destroyed
        /\ checkpointRequested \/ runningTaskTurn \/ performing \/ Bottom({"host"})
        /\ ~(Bottom({"host"}) /\ Len(frames) = 1)
  BY DEF MicrotasksOK
<1>2. ASSUME UNCHANGED microtaskVars PROVE microtasks > unannounced /\ microtasks # 0
  BY <1>0, <1>2
<1>3. ASSUME UNCHANGED <<microtaskVars, frames, runningTaskTurn, performing, checkpointRequested, destroyed>>
      PROVE  Goal
  BY <1>1, <1>2, <1>3 DEF Bottom, AtRest
<1>4. ASSUME Quiet, ~QueueMicrotask, ~RunEmptyTurn PROVE Goal
  <2>1. UNCHANGED <<microtaskVars, checkpointRequested, destroyed>>
    BY <1>4 DEF Quiet, QueueTask, RemoveTask, EnableTask, RegisterWait, Ready, RemoveTasksForDocument,
                MakeFullyActive, MakeInactive, RequestIdlePeriod, Close,
                ScheduleRejectedPromiseNotification, vars
  <2>. QED  BY <1>3, <1>4, <2>1, QuietFacts
<1>5. ASSUME QueueMicrotask PROVE Goal
  <2>1. /\ HostCode /\ ~destroyed /\ UNCHANGED <<frames, runningTaskTurn, performing, destroyed>>
        /\ RequestMicrotaskCheckpoint
    BY <1>5 DEF QueueMicrotask
  <2>2. ~(Bottom({"host"}) /\ Len(frames) = 1)
    BY <2>1, TopFacts DEF HostCode, Running, TopIs, Bottom
  <2>3. CASE NestedEvaluation
    <3>1. microtasks' = microtasks + 1 /\ unannounced' = unannounced + 1
      BY <1>5, <2>3 DEF QueueMicrotask
    <3>2. microtasks > unannounced
      BY <1>0, <3>1
    <3>3. checkpointRequested => checkpointRequested'
      BY <2>1 DEF RequestMicrotaskCheckpoint
    <3>. QED  BY <1>1, <2>1, <2>2, <3>2, <3>3 DEF Bottom, AtRest
  <2>4. CASE ~NestedEvaluation
    <3>1. current = None \/ runningTaskTurn \/ performing \/ Bottom({"host"})
      <4>1. CASE current \in Task
        <5>1. Bottom({"turn", "spun"})
          BY <4>1, ConstantAssumption DEF CurrentOK
        <5>. QED  BY <5>1, TopFacts DEF Bottom
      <4>2. CASE current = Microtask
        BY <4>2 DEF CurrentOK, Present, KindsOf, StackOK, Stack, Flags
      <4>3. CASE current = HostEntry /\ ~runningTaskTurn /\ ~performing
        <5>1. PICK i \in 1..Len(frames) : frames[i].kind = "host"
          BY <4>3 DEF CurrentOK, Present, KindsOf
        <5>2. DOMAIN frames = 1..Len(frames) /\ Len(frames) \in Nat
          BY <1>0, LenProperties
        <5>3. ~(frames[i].base > 0)
          BY <2>4, <4>3, <5>1, <5>2 DEF NestedEvaluation
        <5>4. i = 1
          BY <4>3, <5>1, <5>2, <5>3, HostContexts
        <5>. QED  BY <5>1, <5>4 DEF Bottom, AtRest
      <4>. QED  BY <4>1, <4>2, <4>3 DEF TypeOK
    <3>2. checkpointRequested' \/ runningTaskTurn \/ performing \/ Bottom({"host"})
      BY <2>1, <3>1 DEF RequestMicrotaskCheckpoint
    <3>. QED  BY <2>1, <2>2, <3>2 DEF Bottom, AtRest
  <2>. QED  BY <2>3, <2>4
<1>6. ASSUME RunEmptyTurn PROVE FALSE
  <2>1. AtRest /\ ~checkpointRequested /\ UNCHANGED microtaskVars
    BY <1>6 DEF RunEmptyTurn, BeginHostTurn
  <2>. QED  BY <1>1, <1>2, <2>1, RestFacts DEF Bottom
\* Above the bottom, a push or a pop leaves the bottom and the flags.
<1>7. ASSUME NEW fs \in Seq(Frame), fs # <<>>, NEW f \in Frame, frames' = Append(fs, f)
      PROVE  ~AtRest' /\ frames'[1] = fs[1] /\ Len(frames') # 1
  <2>1. Len(fs) \in Nat \ {0}
    BY <1>7, EmptySeq, LenProperties
  <2>2. frames' # <<>> /\ frames'[1] = fs[1] /\ Len(frames') = Len(fs) + 1
    BY <1>7, PushView
  <2> DEFINE n == Len(fs)
             m == Len(frames')
  <2>3. n \in Nat \ {0} /\ m = n + 1
    BY <2>1, <2>2
  <2> HIDE DEF n, m
  <2>4. m # 1
    BY <2>3
  <2>. QED  BY <2>2, <2>4 DEF AtRest, m
<1>8. ASSUME RunMicrotask PROVE Goal
  <2>1. /\ ~AtRest /\ Last(frames).kind \in {"drain", "tick"}
        /\ frames' = Append(frames, NewFrame("microtask", performing))
        /\ performing' = TRUE /\ destroyed' = destroyed
    BY <1>8 DEF RunMicrotask, TopIs
  <2>4. ~destroyed
    <3>1. Last(frames).kind # "tick"
      BY <1>0, <2>1, TopFacts DEF StackOK, Stack, Shape
    <3>. QED  BY <2>1, <3>1, TopFacts DEF DrainsOK
  <2>2. NewFrame("microtask", performing) \in Frame /\ NewFrame("microtask", performing).kind = "microtask"
    BY NewFrameType DEF TypeOK, NewFrame
  <2>3. Len(frames') # 1
    <3> DEFINE f == NewFrame("microtask", performing)
    <3> HIDE DEF f
    <3>1. f \in Frame /\ frames' = Append(frames, f) /\ frames # <<>>
      BY <1>0, <2>1, <2>2 DEF f
    <3>. QED  BY <1>0, <1>7, <3>1
  <2>. QED  BY <2>1, <2>3, <2>4
<1>9. ASSUME PrepareToRunScript \/ RunPlatformCall \/ Pause PROVE Goal
  <2>1. PICK kind \in {"script", "platform", "pause"}, flag \in BOOLEAN :
          frames' = Append(frames, NewFrame(kind, flag)) /\ (AtRest => kind = "script")
    BY <1>9 DEF PrepareToRunScript, RunPlatformCall, Pause, Running, TopIs
  <2>2. UNCHANGED <<microtaskVars, runningTaskTurn, performing, checkpointRequested, destroyed>>
    BY <1>9 DEF PrepareToRunScript, RunPlatformCall, Pause
  <2>3. NewFrame(kind, flag) \in Frame /\ NewFrame(kind, flag).kind = kind
    BY NewFrameType DEF NewFrame
  <2>4. CASE AtRest
    <3>1. frames'[1].kind = "script"
      BY <1>0, <2>1, <2>3, <2>4, PushView
    <3>2. ~Bottom({"host"})' /\ ~Bottom({"host"})
      BY <2>4, <3>1 DEF Bottom
    <3>. QED  BY <1>1, <1>2, <2>2, <3>2
  <2>5. CASE ~AtRest
    <3>1. ~AtRest' /\ frames'[1] = frames[1] /\ Len(frames') # 1
      <4> DEFINE f == NewFrame(kind, flag)
      <4> HIDE DEF f
      <4>1. f \in Frame /\ frames' = Append(frames, f) /\ frames # <<>>
        BY <1>0, <2>1, <2>3, <2>5 DEF f
      <4>. QED  BY <1>0, <1>7, <4>1
    <3>2. Bottom({"host"}) => Bottom({"host"})'
      BY <3>1 DEF Bottom
    <3>. QED  BY <1>1, <1>2, <2>2, <3>1, <3>2
  <2>. QED  BY <2>4, <2>5
<1>10. ASSUME RunScriptEvaluation PROVE Goal
  <2> DEFINE g == NewFrame("host", FALSE)
             f == NewFrame("script", TRUE)
             gs == Append(frames, g)
  <2>1. /\ frames' = Append(gs, f) /\ g \in Frame /\ f \in Frame /\ g.kind = "host"
        /\ UNCHANGED <<microtaskVars, runningTaskTurn, destroyed, performing, checkpointRequested>>
    BY <1>10, NewFrameType DEF RunScriptEvaluation, NewFrame
  <2> HIDE DEF f, g
  <2>2. gs \in Seq(Frame) /\ gs # <<>> /\ (AtRest => gs[1] = g) /\ (~AtRest => gs[1] = frames[1])
    BY <1>0, <2>1, PushView, PushFacts
  <2> HIDE DEF gs
  <2>3. ~AtRest' /\ frames'[1] = gs[1] /\ Len(frames') # 1
    BY <1>7, <2>1, <2>2
  <2>4. AtRest => Bottom({"host"})'
    BY <2>1, <2>2, <2>3 DEF Bottom
  <2>5. ~AtRest => (Bottom({"host"}) => Bottom({"host"})')
    BY <2>2, <2>3 DEF Bottom
  <2>. QED  BY <1>1, <1>2, <2>1, <2>3, <2>4, <2>5
<1>11. ASSUME EndCheckpoint \/ NodeTickReturns PROVE FALSE
  <2>1. microtasks = 0 /\ UNCHANGED microtaskVars
    BY <1>11 DEF EndCheckpoint, NodeTickReturns
  <2>. QED  BY <2>1 DEF TypeOK
<1>12. ASSUME HostTurnReturns PROVE FALSE
  <2>1. microtasks = 0 /\ UNCHANGED microtaskVars
    BY <1>12 DEF HostTurnReturns, TurnEndsDrained
  <2>. QED  BY <2>1 DEF TypeOK
<1>13. ~NodeTick /\ ~HostTurnThrows
  BY DEF NodeTick, HostTurnThrows
\* A pop keeps the bottom, and never leaves a host entry alone.
<1>14. ASSUME ~AtRest, frames' = Front(frames), UNCHANGED <<microtaskVars, runningTaskTurn, destroyed>>,
              checkpointRequested \/ runningTaskTurn \/ performing \/ Bottom({"host"}) =>
                checkpointRequested' \/ runningTaskTurn \/ performing' \/ Bottom({"host"}),
              ~(Len(frames) = 2 /\ frames[1].kind = "host")
       PROVE  Goal
  <2> DEFINE n == Len(frames)
             m == Len(frames')
  <2>1. /\ n \in Nat \ {0} /\ (frames' = <<>> <=> n = 1)
        /\ n > 1 => frames'[1] = frames[1] /\ m = n - 1
        /\ ~(n = 2 /\ frames[1].kind = "host") /\ ~(Bottom({"host"}) /\ n = 1)
    <3>1. frames \in Seq(Frame) /\ frames # <<>> /\ microtasks > unannounced
      BY <1>0, <1>2, <1>14
    <3>2. /\ n \in Nat \ {0} /\ (Front(frames) = <<>> <=> n = 1)
          /\ n > 1 => Front(frames)[1] = frames[1] /\ Len(Front(frames)) = n - 1
      BY <3>1, PopView
    <3>3. ~(n = 2 /\ frames[1].kind = "host") /\ ~(Bottom({"host"}) /\ n = 1)
      BY <1>1, <1>14, <3>1
    <3>. QED  BY <1>14, <3>2, <3>3
  <2> HIDE DEF n, m
  <2>2. n = 1 \/ (n = 2 /\ m = 1) \/ (n > 2 /\ m # 1)
    BY <2>1
  <2>3. CASE n = 1
    <3>1. ~Bottom({"host"}) /\ ~Bottom({"host"})'
      BY <2>1, <2>3 DEF Bottom, AtRest
    <3>. QED  BY <1>1, <1>2, <1>14, <3>1
  <2>4. CASE n > 1
    <3>1. ~AtRest' /\ frames'[1] = frames[1]
      BY <2>1, <2>4 DEF AtRest
    <3>2. Bottom({"host"}) <=> Bottom({"host"})'
      BY <1>14, <3>1 DEF Bottom
    <3>3. ~(Bottom({"host"})' /\ m = 1)
      <4>1. m = 1 => n = 2
        BY <2>2, <2>4
      <4>. QED  BY <2>1, <3>2, <4>1 DEF Bottom
    <3>. QED  BY <1>1, <1>2, <1>14, <3>2, <3>3 DEF m
  <2>5. n = 1 \/ n > 1
    BY <2>1
  <2>. QED  BY <2>3, <2>4, <2>5
<1>15. Len(frames) > 1 /\ frames[1].kind = "host" =>
         frames[2].kind = "drain" \/ (frames[2].kind = "script" /\ frames[2].flag)
  BY DEF StackOK, Stack, Shape
<1>16. ~AtRest => Last(frames) = frames[Len(frames)]
  BY TopFacts
<1>16a. ASSUME ~AtRest, Last(frames).kind \notin {"script", "drain"},
              Len(frames) = 2, frames[1].kind = "host"
       PROVE  FALSE
  <2>1. Len(frames) > 1
    BY <1>16a
  <2>2. frames[2].kind \in {"script", "drain"}
    BY <1>15, <1>16a, <2>1
  <2>3. Last(frames) = frames[2]
    BY <1>16, <1>16a
  <2>. QED  BY <1>16a, <2>2, <2>3
<1>17. ASSUME MicrotaskReturns PROVE Goal
  <2>1. /\ ~AtRest /\ Last(frames).kind = "microtask" /\ frames' = Front(frames)
        /\ performing' = Last(frames).flag
        /\ UNCHANGED <<microtaskVars, runningTaskTurn, destroyed, checkpointRequested>>
    BY <1>17 DEF MicrotaskReturns, TopIs
  <2>2. performing'
    <3> DEFINE n == Len(frames)
    <3>0. /\ n \in Nat \ {0} /\ frames[n].kind = "microtask" /\ performing' = frames[n].flag
          /\ frames[n] \in Frame /\ n = Len(frames)
      BY <2>1, TopFacts
    <3>1. /\ frames[1].kind # "microtask" /\ frames[1].kind # "tick"
          /\ \A i \in 2..n : /\ frames[i].kind # "tick"
                             /\ frames[i].kind = "microtask" =>
                                  /\ frames[i - 1].kind \in {"drain", "tick"}
                                  /\ frames[i].flag <=> frames[i - 1].kind = "drain"
      <4>1. frames # <<>>
        BY <1>0, <2>1
      <4>. QED  BY <4>1 DEF StackOK, Stack, Shape, TurnKinds
    <3> HIDE DEF n
    <3>2. n \in 2..n
      BY <3>0, <3>1
    <3>3. frames[n - 1].kind \in {"drain", "tick"} /\ (frames[n].flag <=> frames[n - 1].kind = "drain")
      BY <3>0, <3>1, <3>2
    <3>4. n - 1 = 1 \/ n - 1 \in 2..n
      BY <3>2
    <3>5. frames[n - 1].kind # "tick"
      BY <3>1, <3>4
    <3>. QED  BY <3>0, <3>3, <3>5
  <2>3. ~(Len(frames) = 2 /\ frames[1].kind = "host")
    BY <1>16a, <2>1
  <2>. QED  BY <1>14, <2>1, <2>2, <2>3
<1>18. ASSUME PlatformCallReturns \/ Unpause PROVE Goal
  <2>1. /\ ~AtRest /\ Last(frames).kind \in {"platform", "pause"} /\ frames' = Front(frames)
        /\ UNCHANGED <<microtaskVars, runningTaskTurn, destroyed, checkpointRequested, performing>>
    BY <1>18 DEF PlatformCallReturns, Unpause, TopIs
  <2>3. ~(Len(frames) = 2 /\ frames[1].kind = "host")
    BY <1>16a, <2>1
  <2>. QED  BY <1>14, <2>1, <2>3
<1>19. ASSUME FinishHostScriptEntry PROVE Goal
  <2>1. /\ ~AtRest /\ Last(frames).kind = "host" /\ frames' = Front(frames)
        /\ UNCHANGED <<microtaskVars, runningTaskTurn, destroyed, checkpointRequested, performing>>
    BY <1>19 DEF FinishHostScriptEntry, TopIs
  <2>3. ~(Len(frames) = 2 /\ frames[1].kind = "host")
    BY <1>16a, <2>1
  <2>. QED  BY <1>14, <2>1, <2>3
<1>20. ASSUME NEW fs \in Seq(Frame), contexts' \in Nat, BeginCheckpoint(fs)
       PROVE  \/ frames' = fs /\ UNCHANGED <<performing, checkpointRequested>>
                 /\ (destroyed \/ paused \/ performing)
              \/ performing' = TRUE /\ Len(frames') = Len(fs) + 1
                 /\ (fs = <<>> => ~Bottom({"host"})')
  BY <1>20, CheckpointView DEF Bottom, AtRest
<1>21. ASSUME ParserCheckpoint PROVE Goal
  <2>1. contexts' \in Nat /\ BeginCheckpoint(frames) /\ UNCHANGED <<microtaskVars, runningTaskTurn, destroyed>>
    BY <1>0, <1>21 DEF ParserCheckpoint
  <2>2. CASE frames' = frames /\ UNCHANGED <<performing, checkpointRequested>>
    BY <1>3, <2>1, <2>2
  <2>3. CASE performing' = TRUE /\ Len(frames') = Len(frames) + 1 /\ (frames = <<>> => ~Bottom({"host"})')
    <3> DEFINE n == Len(frames)
               m == Len(frames')
    <3>1. n \in Nat /\ m = n + 1 /\ (n = 0 => frames = <<>>)
      BY <1>0, <2>3, EmptySeq, LenProperties
    <3> HIDE DEF n, m
    <3>2. m = 1 => frames = <<>>
      BY <3>1
    <3>. QED  BY <1>1, <1>2, <2>1, <2>3, <3>2 DEF m
  <2>. QED  BY <1>0, <1>20, <2>1, <2>2, <2>3
<1>22. ASSUME CleanUpAfterRunningScript PROVE Goal
  <2>1. /\ ~AtRest /\ Last(frames).kind = "script" /\ contexts' = contexts - 1 /\ contexts' \in Nat
        /\ Front(frames) \in Seq(Frame)
        /\ UNCHANGED <<microtaskVars, runningTaskTurn, destroyed>>
    BY <1>22, TopContext, FrameType DEF CleanUpAfterRunningScript, TopIs
  <2>2. CASE frames' = Front(frames) /\ UNCHANGED <<performing, checkpointRequested>>
             /\ ~(Len(frames) = 2 /\ frames[1].kind = "host")
    BY <1>14, <2>1, <2>2
  <2>3. CASE performing' = TRUE /\ Len(frames') = Len(Front(frames)) + 1
             /\ (Front(frames) = <<>> => ~Bottom({"host"})')
    <3> DEFINE n == Len(Front(frames))
               m == Len(frames')
    <3>1. n \in Nat /\ m = n + 1 /\ (n = 0 => Front(frames) = <<>>)
      BY <2>1, <2>3, EmptySeq, LenProperties
    <3> HIDE DEF n, m
    <3>2. m = 1 => Front(frames) = <<>>
      BY <3>1
    <3>. QED  BY <1>1, <1>2, <2>1, <2>3, <3>2 DEF m
  <2>4. CASE frames' = Front(frames) /\ UNCHANGED <<performing, checkpointRequested>>
             /\ Len(frames) = 2 /\ frames[1].kind = "host"
    <3>1. /\ Last(frames) = frames[2] /\ frames[2].kind = "script" /\ frames[2].flag
      BY <1>15, <1>16, <2>1, <2>4
    <3>2. contexts' = 0
      <4>1. frames[1].base = 0 /\ frames[2].base = ContextsAbove(frames[1])
        BY <2>1, <2>4 DEF StackOK, Stack, Contexts, AtRest
      <4>2. frames[2].base = 0
        BY <2>4, <4>1 DEF ContextsAbove
      <4>3. contexts = 0 + 1
        BY <2>1, <3>1, <4>2, TopFacts DEF ContextsAbove
      <4>. QED  BY <2>1, <4>3
    <3>3. CheckpointDue(Last(frames).flag)
      BY <3>1, <3>2 DEF CheckpointDue
    <3>4. BeginCheckpoint(Front(frames))
      BY <1>22, <3>3 DEF CleanUpAfterRunningScript
    <3>5. ~performing
      <4>1. \A i \in 1..Len(frames) : frames[i].kind \notin {"drain", "microtask"}
        BY <2>4, <3>1
      <4>. QED  BY <1>0, <4>1 DEF StackOK, Stack, Flags
    <3>6. ~paused /\ ~destroyed
      BY <1>1, <1>2, <2>1, TopFacts
    <3>7. performing' = TRUE
      BY <3>4, <3>5, <3>6 DEF BeginCheckpoint
    <3>. QED  BY <1>0, <2>4, <3>5, <3>7
  <2>5. \/ frames' = Front(frames) /\ UNCHANGED <<performing, checkpointRequested>>
        \/ BeginCheckpoint(Front(frames))
    BY <1>22 DEF CleanUpAfterRunningScript
  <2>. QED  BY <1>20, <2>1, <2>2, <2>3, <2>4, <2>5
<1>23. ASSUME NEW t \in Task, SpinUntil(t) \/ RunTaskTurn(t) PROVE Goal
  <2>1. UNCHANGED microtaskVars /\ destroyed' = destroyed
    BY <1>23 DEF SpinUntil, RunTaskTurn
  <2>2. ~AtRest' /\ frames'[1].kind \in {"turn", "spun"} /\ runningTaskTurn'
    <3>1. CASE RunTaskTurn(t)
      <4>1. frames' = TurnFrames(saved[t]) /\ saved[t] \in Nat /\ runningTaskTurn' = TRUE
        BY <3>1 DEF RunTaskTurn, TypeOK
      <4>. QED  BY <4>1, TurnFramesType DEF TurnFrames, AtRest
    <3>2. CASE SpinUntil(t)
      <4> DEFINE g == [frames[1] EXCEPT !.kind = "spun"]
      <4>1. ~AtRest /\ contexts' \in Nat /\ BeginCheckpoint(<<g>>) /\ runningTaskTurn' = runningTaskTurn
        BY <3>2 DEF SpinUntil, Running, TopIs
      <4>2. g \in Frame /\ frames[1] \in Frame
        BY <1>0, <4>1, RenameType, TopFacts, ElementOfSeq
      <4>3. g.kind = "spun"
        BY <4>2 DEF Frame
      <4> HIDE DEF g
      <4>4. <<g>> \in Seq(Frame) /\ <<g>> # <<>> /\ <<g>>[1] = g
        BY <4>2
      <4>5. frames' # <<>> /\ frames'[1] = g
        BY <4>1, <4>4, CheckpointView
      <4>6. Bottom({"turn", "spun"})
        BY <3>2, ConstantAssumption DEF SpinUntil, CurrentOK
      <4>7. runningTaskTurn
        BY <4>1, <4>6, TopFacts DEF Bottom
      <4>. QED  BY <4>1, <4>3, <4>5, <4>7 DEF AtRest
    <3>. QED  BY <1>23, <3>1, <3>2
  <2>. QED  BY <1>1, <1>2, <2>1, <2>2 DEF Bottom
<1>24. ASSUME TaskStepsReturn PROVE Goal
  <2>1. /\ ~AtRest /\ Last(frames).kind \in {"turn", "spun"} /\ Last(frames).kind \in TurnKinds
        /\ UNCHANGED <<microtaskVars, runningTaskTurn, destroyed>>
    BY <1>24 DEF TaskStepsReturn, TopIs, TurnKinds
  <2> DEFINE g == [frames[1] EXCEPT !.kind = "endTurn"]
  <2>2. contexts' \in Nat /\ BeginCheckpoint(<<g>>) /\ g \in Frame /\ frames[1] \in Frame
    BY <1>0, <1>24, <2>1, RenameType, TopFacts DEF TaskStepsReturn
  <2>3. g.kind = "endTurn"
    BY <2>2 DEF Frame
  <2> HIDE DEF g
  <2>4. <<g>> \in Seq(Frame) /\ <<g>> # <<>> /\ <<g>>[1] = g
    BY <2>2
  <2>5. frames' # <<>> /\ frames'[1] = g
    BY <2>2, <2>4, CheckpointView
  <2>6. runningTaskTurn
    BY <2>1, TopFacts
  <2>. QED  BY <1>1, <1>2, <2>1, <2>3, <2>5, <2>6 DEF Bottom
<1>25. ASSUME RunCheckpointTurn PROVE Goal
  <2> DEFINE g == NewFrame("endCheckpoint", FALSE)
  <2>1. /\ contexts' \in Nat /\ BeginCheckpoint(<<g>>) /\ g \in Frame /\ g.kind = "endCheckpoint"
        /\ ~destroyed /\ ~paused /\ ~performing /\ destroyed' = destroyed
    BY <1>0, <1>25, NewFrameType, RestFacts DEF RunCheckpointTurn, BeginHostTurn, NewFrame
  <2> HIDE DEF g
  <2>2. <<g>> \in Seq(Frame) /\ <<g>> # <<>> /\ <<g>>[1] = g
    BY <2>1
  <2>3. frames'[1] = g /\ performing' = TRUE
    BY <2>1, <2>2, CheckpointView
  <2>. QED  BY <2>1, <2>3 DEF Bottom
<1> HIDE DEF Goal
<1>26. Goal
  BY <1>4, <1>5, <1>6, <1>8, <1>9, <1>10, <1>11, <1>12, <1>13, <1>17, <1>18, <1>19, <1>21, <1>22,
     <1>23, <1>24, <1>25
  DEF Next, HostTurn, Unwind, Environment, Quiet
<1>. QED  BY <1>26 DEF Goal
-----------------------------------------------------------------------------
(* The theorems *)

LEMMA InitInv == Init => IInv
<1> SUFFICES ASSUME Init PROVE IInv
  OBVIOUS
<1>1. TypeOK
  <2>1. <<>> \in Seq(Frame) /\ <<>> \in Seq(Source)
    OBVIOUS
  <2>2. /\ [t \in Task |-> "idle"] \in [Task -> Fate] /\ [t \in Task |-> {}] \in [Task -> SUBSET Task]
        /\ [t \in Task |-> 0] \in [Task -> Nat]
    BY DEF Fate
  <2>3. microtasks \in Nat /\ unannounced \in 0..microtasks /\ contexts \in Nat
    BY DEF Init
  <2>. QED  BY <2>1, <2>2, <2>3 DEF Init, TypeOK
<1>2. StackOK
  BY StackEmpty DEF Init, StackOK
<1>3. CurrentOK /\ TurnOK /\ TurnEndsDrained
  BY ConstantAssumption DEF Init, CurrentOK, TurnOK, TurnEndsDrained, Bottom, TopIs, AtRest
<1>4. TasksOK /\ DrainsOK /\ MicrotasksOK
  BY DEF Init, TasksOK, DrainsOK, MicrotasksOK
<1>5. NoLostWakeup
  BY DEF Init, NoLostWakeup, NeedsTurn, HasRunnableTasks, RunnableIn, Queue, WorkerReadyToFinish
<1>. QED  BY <1>1, <1>2, <1>3, <1>4, <1>5 DEF IInv

LEMMA StepInv == IInv /\ [Next]_vars => IInv'
<1> SUFFICES ASSUME IInv, [Next]_vars PROVE IInv'
  OBVIOUS
<1>1. /\ TypeOK /\ StackOK /\ CurrentOK /\ TasksOK
      /\ DrainsOK /\ MicrotasksOK /\ TurnOK /\ NoLostWakeup /\ TurnEndsDrained
  BY DEF IInv
<1>2. TypeOK' /\ StackOK' /\ CurrentOK' /\ TasksOK'
  BY <1>1, TypeStep, StackStep, CurrentStep, TasksStep
<1>3. DrainsOK' /\ MicrotasksOK' /\ TurnOK' /\ NoLostWakeup' /\ TurnEndsDrained'
  BY <1>1, DrainsStep, MicrotasksStep, TurnStep, WakeupStep, DrainedStep
<1>. QED  BY <1>2, <1>3 DEF IInv

\* The inductive invariant holds in every reachable state of the loop.
THEOREM Invariance == Spec => []IInv
BY InitInv, StepInv, PTL DEF Spec

\* Every variable of the loop, its stack of activities included, keeps its type.
THEOREM TypeCorrect == Spec => []TypeOK
<1>1. IInv => TypeOK
  BY DEF IInv
<1>. QED  BY <1>1, Invariance, PTL

\* A host turn is requested whenever the loop has something for it to do, for
\* every interleaving of the callers of #requestTurnIfNeeded with those that skip it.
THEOREM WakeupsKept == Spec => []NoLostWakeup
<1>1. IInv => NoLostWakeup
  BY DEF IInv
<1>. QED  BY <1>1, Invariance, PTL

\* With an explicit microtask queue no microtask waits at rest without a requested
\* checkpoint: the drains requestMicrotaskCheckpoint counts on really come, unless it
\* counts on a direct evaluation nested in an entry without a task.
THEOREM MicrotasksServed == Spec => []NoStrandedMicrotask
<1>1. ASSUME IInv PROVE NoStrandedMicrotask
  <2> SUFFICES ASSUME AtRest, microtasks > unannounced, ~Ambient PROVE checkpointRequested
    BY DEF NoStrandedMicrotask
  <2>1. ~performing /\ ~runningTaskTurn
    BY <1>1, RestFacts DEF IInv
  <2>. QED  BY <1>1, <2>1 DEF IInv, MicrotasksOK, Bottom
<1>. QED  BY <1>1, Invariance, PTL

\* Checkpoints drain over an empty execution context stack only.
THEOREM CheckpointsOutsideScript == Spec => []CheckpointOnEmptyStack
<1>1. ASSUME IInv PROVE CheckpointOnEmptyStack
  <2>1. DOMAIN frames = 1..Len(frames)
    BY <1>1, LenProperties DEF IInv, TypeOK
  <2>2. \A i \in 1..Len(frames) : frames[i].kind = "drain" => frames[i].base = 0
    BY <1>1 DEF IInv, StackOK, Stack, Shape
  <2>. QED  BY <2>1, <2>2 DEF CheckpointOnEmptyStack
<1>. QED  BY <1>1, Invariance, PTL

\* Nothing of an activity outlives it once the host thread is given back.
THEOREM RestLeavesNothing == Spec => []RestIsClean
<1>1. IInv => RestIsClean
  BY RestFacts DEF IInv, RestIsClean
<1>. QED  BY <1>1, Invariance, PTL

\* Every turn, by whatever path it reaches its tail, has drained the microtasks.
THEOREM TurnsDrain == Spec => []TurnEndsDrained
<1>1. IInv => TurnEndsDrained
  BY DEF IInv
<1>. QED  BY <1>1, Invariance, PTL

\* #finishWorkerTurn destroys a loop that has nothing left but what nested direct
\* evaluations left behind, and nothing comes back.
THEOREM DestructionIsFinal == Spec => []DestroyedIsDrained
<1>1. ASSUME IInv PROVE DestroyedIsDrained
  <2> SUFFICES ASSUME destroyed
               PROVE  /\ ~Ambient => microtasks = unannounced
                      /\ \A t \in Task : fate[t] # "queued"
                      /\ ~turnRequested
    BY DEF DestroyedIsDrained
  <2>1. ~Ambient => microtasks = unannounced
    BY <1>1 DEF IInv, MicrotasksOK, TypeOK
  <2>. QED  BY <1>1, <2>1 DEF IInv, TasksOK, TurnOK
<1>. QED  BY <1>1, Invariance, PTL

\* Only a host turn starts the steps of a task.
LEMMA OnlyTurnsStartTasks ==
  ASSUME IInv, [Next]_vars, NEW t \in Task, fate[t] = "queued", fate'[t] = "running"
  PROVE  \E u \in Task : RunTaskTurn(u)
<1> USE DEF queueVars, readiness, microtaskVars, turnVars, checkpointVars, lifeVars, stackVars
<1>0. TypeOK /\ turnTask \in Task \cup {None}
  BY DEF IInv, TypeOK
<1>1. ASSUME NEW u \in Task, EnqueueTask(u) PROVE FALSE
  BY <1>0, <1>1, EnqueueFacts
<1>2. fate' # fate
  OBVIOUS
<1>3. ASSUME NEW u \in Task, QueueTask(u) \/ Ready(u) PROVE FALSE
  BY <1>1, <1>3 DEF QueueTask, Ready
<1>4. ASSUME NEW ts \in SUBSET Task, Discard(ts) PROVE FALSE
  BY <1>0, <1>4, DiscardFacts
<1>5. ASSUME NEW u \in Task, RemoveTask(u) PROVE FALSE
  BY <1>4, <1>5 DEF RemoveTask
<1>6. ASSUME NEW d \in Document, RemoveTasksForDocument(d) PROVE FALSE
  BY <1>4, <1>6 DEF RemoveTasksForDocument
<1>7. ASSUME Close PROVE FALSE
  BY <1>7 DEF Close, Dequeue, Dropped
<1>8. ASSUME NEW u \in Task, SpinUntil(u) \/ RegisterWait(u) PROVE FALSE
  BY <1>0, <1>8 DEF SpinUntil, RegisterWait, TypeOK
<1>9. ASSUME EndCheckpoint PROVE FALSE
  BY <1>1, <1>2, <1>9 DEF EndCheckpoint
<1>10. ASSUME TaskStepsReturn PROVE FALSE
  BY <1>0, <1>10 DEF TaskStepsReturn, TypeOK
<1>11. ASSUME StartIdlePeriod PROVE FALSE
  BY <1>1, <1>2, <1>11, ConstantAssumption DEF StartIdlePeriod
<1>12. ~RunEmptyTurn /\ ~HostTurnReturns
  BY <1>11 DEF RunEmptyTurn, HostTurnReturns
<1>13. ASSUME \/ \E d \in Document : MakeFullyActive(d) \/ MakeInactive(d)
              \/ \E u \in Task : EnableTask(u)
              \/ RequestIdlePeriod \/ QueueMicrotask \/ ScheduleRejectedPromiseNotification
              \/ RunMicrotask \/ MicrotaskReturns \/ ParserCheckpoint \/ NodeTick \/ NodeTickReturns
       PROVE  FALSE
  BY <1>2, <1>13 DEF MakeFullyActive, MakeInactive, EnableTask, RequestIdlePeriod, QueueMicrotask,
                 ScheduleRejectedPromiseNotification, RunMicrotask, MicrotaskReturns,
                 ParserCheckpoint, NodeTick, NodeTickReturns
<1>14. ASSUME \/ PrepareToRunScript \/ CleanUpAfterRunningScript \/ RunScriptEvaluation
              \/ FinishHostScriptEntry \/ RunPlatformCall \/ PlatformCallReturns
              \/ Pause \/ Unpause \/ RunCheckpointTurn \/ HostTurnThrows \/ UNCHANGED vars
       PROVE  FALSE
  BY <1>2, <1>14 DEF PrepareToRunScript, CleanUpAfterRunningScript, RunScriptEvaluation,
                 FinishHostScriptEntry, RunPlatformCall, PlatformCallReturns, Pause, Unpause,
                 RunCheckpointTurn, HostTurnThrows, vars
<1>. QED
  BY <1>3, <1>5, <1>6, <1>7, <1>8, <1>9, <1>10, <1>12, <1>13, <1>14
  DEF Next, HostTurn, Unwind, Environment

\* The steps of a task start over an empty microtask queue, because a turn that
\* finds a checkpoint requested performs it instead of running a task; only what
\* nested direct evaluations left behind is still pending.
THEOREM TasksStartClean == Spec => TasksStartDrained
<1>1. ASSUME IInv, [Next]_vars
      PROVE  [\A t \in Task : fate[t] = "queued" /\ fate'[t] = "running" =>
               microtasks = unannounced \/ Ambient]_vars
  <2> SUFFICES ASSUME NEW t \in Task, fate[t] = "queued", fate'[t] = "running"
               PROVE  microtasks = unannounced \/ Ambient
    OBVIOUS
  <2>1. AtRest /\ ~checkpointRequested
    BY <1>1, OnlyTurnsStartTasks DEF RunTaskTurn, BeginHostTurn
  <2>2. ~performing /\ ~runningTaskTurn
    BY <1>1, <2>1, RestFacts DEF IInv
  <2>. QED  BY <1>1, <2>1, <2>2 DEF IInv, MicrotasksOK, Bottom, TypeOK
<1>. QED  BY <1>1, Invariance, PTL DEF Spec, TasksStartDrained
=============================================================================
