---------------------------- MODULE LaunchProofs ----------------------------
(***************************************************************************)
(* Proofs about Launch for every number of launches, length of an image    *)
(* and depth of the ring, when launcher is typed again only after hello's  *)
(* newline (~AnyTime) and nxmutex_init does not fall into a critical       *)
(* section (~InitWhileHeld): no rb_init meets a ring in use by another     *)
(* launch, and every hello that ends has printed the image of its own      *)
(* launch.  A hello may call rb_read before, during and after its camera's *)
(* rb_init.  The statements of ring_buffer.c are those of RingBuffer; the  *)
(* proofs use its invariant and the FIFO it implements.                    *)
(***************************************************************************)
EXTENDS Launch, RingBufferFifoProofs

\* A launch whose hello has not ended.
Current(l) == cam[l] # "off" /\ hello[l] # "ended"

\* The chunk passed to the rb_write in progress is in the ring already; the one
\* of the rb_read in progress is out of it and not printed yet.
Accepted(l) == cam[l] = "called" /\ Ctl[Cam[l]] # "pending" /\ ret[Cam[l]] = 0
InHand(l)   == hello[l] = "called" /\ Ctl[Hello[l]] # "pending" /\ ret[Hello[l]] = 0

\* The chunks camera l has pushed, and those its hello has taken and handled.
Pushed(l) == IF Accepted(l) THEN ci[l] + 1 ELSE ci[l]
Taken(l)  == Pushed(l) - Len(Queue)
Seen(l)   == IF InHand(l) THEN Taken(l) - 1 ELSE Taken(l)

AppTypes ==
  /\ cam \in [Launches -> {"off", "none", "init", "lockinit", "link", "push",
                           "called", "ended", "failed"}]
  /\ ci \in [Launches -> 0 .. Last + 1]
  /\ hello \in [Launches -> {"off", "none", "poll", "called", "ended"}]
  /\ printed \in [Launches -> Seq([lo : Content, hi : Content])]
  /\ dropped \subseteq Tasks

\* The two programs of a launch and the calls they have made.
CamInStep(l) ==
  /\ cam[l] # "called" => Ctl[Cam[l]] = "idle"
  /\ cam[l] = "called" => op[Cam[l]] = [fn |-> "rb_write", chunk |-> Chunk(l, ci[l])]
  /\ cam[l] \in {"off", "none", "init", "lockinit", "link", "failed"} => ci[l] = 0
  /\ cam[l] \in {"push", "called"} => ci[l] <= Last

HelloInStep(l) ==
  /\ hello[l] = "off" <=> cam[l] = "off"
  /\ hello[l] # "called" => Ctl[Hello[l]] = "idle"
  /\ hello[l] = "called" => op[Hello[l]].fn = "rb_read"
  /\ hello[l] = "off" => printed[l] = <<>>
  /\ hello[l] = "ended" => /\ printed[l] = Image(l)
                           /\ Ctl[Cam[l]] = "idle" /\ Pushed(l) = Last + 1

\* What a launch that has not ended has pushed is what its hello has handled, the
\* chunk it holds, and the ring, in this order.  A camera that has not yet given
\* the lock back after a push has its chunk still in the ring.
RingInStep(l) ==
  /\ Taken(l) \in Nat
  /\ \A i \in 1 .. Len(Queue) : Queue[i] = Chunk(l, Taken(l) + i - 1)
  /\ Seen(l) \in 0 .. Last
  /\ InHand(l) => Got[Hello[l]] = Chunk(l, Seen(l))
  /\ Accepted(l) /\ Ctl[Cam[l]] = "done" => Queue # <<>>

PrintedInStep(l) ==
  /\ Len(printed[l]) = IF Seen(l) = 0 THEN 0 ELSE Seen(l) - 1
  /\ \A i \in 1 .. Len(printed[l]) : printed[l][i] = Whole(Chunk(l, i))

\* Each launch begins after the hello of every earlier one has ended, and between
\* two launches the ring is empty.
InTurn ==
  /\ \A k, l \in Launches : k < l /\ cam[l] # "off" => hello[k] = "ended"
  /\ (\A l \in Launches : ~Current(l)) => Queue = <<>>

\* The inductive invariant.
LaunchInv ==
  /\ RingInv
  /\ AppTypes
  /\ InTurn
  /\ \A l \in Launches : CamInStep(l) /\ HelloInStep(l)
  /\ \A l \in Launches : Current(l) => RingInStep(l) /\ PrintedInStep(l)

-----------------------------------------------------------------------------
(* The tasks, the chunks and the view of the ring                          *)

LEMMA Apps ==
  /\ \A l \in Launches : Cam[l] \in Tasks /\ Hello[l] \in Tasks /\ l \in Nat
  /\ \A k, l \in Launches : Cam[k] # Hello[l]
  /\ \A k, l \in Launches : k # l => Cam[k] # Cam[l] /\ Hello[k] # Hello[l]
  /\ \A t \in Tasks : \E l \in Launches : t = Cam[l] \/ t = Hello[l]
  BY LaunchAssumption

LEMMA ChunkIs ==
  ASSUME NEW l \in Launches, NEW i \in 0 .. Last
  PROVE  /\ Last \in Nat \ {0}
         /\ Chunk(l, i) \in Chunks /\ Chunk(l, i) # Zero /\ Chunk(l, i)[2] = i
         /\ Whole(Chunk(l, i)) \in [lo : Content, hi : Content]
  BY LaunchAssumption, RingAssumption DEF Chunk, Content, Whole

LEMMA ViewTypes ==
  ASSUME RingInv
  PROVE  /\ Ctl \in [Tasks -> {"idle", "pending", "done"}]
         /\ DOMAIN Got = Tasks
         /\ op \in [Tasks -> Ops] /\ ret \in [Tasks -> -1 .. RB_DEPTH]
         /\ Queue \in Seq(Chunks) /\ Len(Queue) \in Nat
         /\ \A t \in Tasks : Ctl[t] = "idle" <=> pc[t] = "idle"
         /\ \A t \in Tasks : Ctl[t] = "done" <=> pc[t] = "unlock"
<1>1. Ctl \in [Tasks -> {"idle", "pending", "done"}]
  BY DEF Ctl
<1>2. DOMAIN Got = Tasks
  BY DEF Got
<1>3. op \in [Tasks -> Ops] /\ ret \in [Tasks -> -1 .. RB_DEPTH]
  BY DEF RingInv, TypeOK
<1>4. Queue \in Seq(Chunks) /\ Len(Queue) \in Nat
  BY QueueType, LenProperties
<1>5. \A t \in Tasks : (Ctl[t] = "idle" <=> pc[t] = "idle") /\ (Ctl[t] = "done" <=> pc[t] = "unlock")
  BY CtlGot
<1> QED
  BY <1>1, <1>2, <1>3, <1>4, <1>5

\* A task of a launch that has not ended, or that is within a call, is a task of
\* the one current launch.
LEMMA OneCurrent ==
  ASSUME LaunchInv, NEW k \in Launches, NEW l \in Launches, Current(k), Current(l)
  PROVE  k = l
<1>1. ~(k < l) /\ ~(l < k)
  BY DEF LaunchInv, InTurn, Current
<1> QED
  BY <1>1, Apps

LEMMA CallerIsCurrent ==
  ASSUME LaunchInv, NEW l \in Launches, NEW t, t = Cam[l] \/ t = Hello[l], Ctl[t] # "idle"
  PROVE  Current(l)
<1>1. CamInStep(l) /\ HelloInStep(l)
  BY DEF LaunchInv
<1> QED
  BY <1>1 DEF CamInStep, HelloInStep, Current

\* What a step of launch l leaves alone.
Elsewhere(l) ==
  \A k \in Launches : k # l =>
    /\ cam'[k] = cam[k] /\ ci'[k] = ci[k] /\ hello'[k] = hello[k] /\ printed'[k] = printed[k]
    /\ Ctl'[Cam[k]] = Ctl[Cam[k]] /\ op'[Cam[k]] = op[Cam[k]] /\ ret'[Cam[k]] = ret[Cam[k]]
    /\ Ctl'[Hello[k]] = Ctl[Hello[k]] /\ op'[Hello[k]] = op[Hello[k]]

LEMMA ElsewhereInStep ==
  ASSUME LaunchInv, NEW l \in Launches, Elsewhere(l), NEW k \in Launches, k # l
  PROVE  CamInStep(k)' /\ HelloInStep(k)' /\ (Current(k)' <=> Current(k))
<1>1. CamInStep(k) /\ HelloInStep(k)
  BY DEF LaunchInv
<1>2. /\ cam'[k] = cam[k] /\ ci'[k] = ci[k] /\ hello'[k] = hello[k] /\ printed'[k] = printed[k]
      /\ Ctl'[Cam[k]] = Ctl[Cam[k]] /\ op'[Cam[k]] = op[Cam[k]] /\ ret'[Cam[k]] = ret[Cam[k]]
      /\ Ctl'[Hello[k]] = Ctl[Hello[k]] /\ op'[Hello[k]] = op[Hello[k]]
  BY DEF Elsewhere
<1>3. Pushed(k)' = Pushed(k)
  BY <1>2 DEF Pushed, Accepted
<1> QED
  BY <1>1, <1>2, <1>3 DEF CamInStep, HelloInStep, Current

\* A step of the current launch.
LEMMA CurrentStep ==
  ASSUME LaunchInv, NEW l \in Launches, Current(l), Elsewhere(l), RingInv', AppTypes',
         CamInStep(l)', HelloInStep(l)', cam'[l] # "off",
         Current(l)' => RingInStep(l)' /\ PrintedInStep(l)',
         ~Current(l)' => Queue' = <<>>
  PROVE  LaunchInv'
<1>1. \A k \in Launches : CamInStep(k)' /\ HelloInStep(k)'
  BY ElsewhereInStep
<1>2. \A k \in Launches : k # l => ~Current(k)'
  BY ElsewhereInStep, OneCurrent
<1>3. \A k \in Launches : Current(k)' => RingInStep(k)' /\ PrintedInStep(k)'
  BY <1>2
<1>4. InTurn'
  <2>1. ASSUME NEW j \in Launches, NEW k \in Launches, j < k, cam'[k] # "off"
        PROVE  hello'[j] = "ended"
    <3>1. cam[k] # "off"
      BY <2>1 DEF Elsewhere, Current
    <3>2. hello[j] = "ended"
      BY <2>1, <3>1 DEF LaunchInv, InTurn
    <3>3. j # l
      BY <3>2 DEF Current
    <3> QED
      BY <3>2, <3>3 DEF Elsewhere
  <2>2. (\A k \in Launches : ~Current(k)') => Queue' = <<>>
    OBVIOUS
  <2> QED
    BY <2>1, <2>2 DEF InTurn
<1> QED
  BY <1>1, <1>3, <1>4 DEF LaunchInv

\* A step nothing of the view sees.
LEMMA UnseenStep ==
  ASSUME LaunchInv, RingInv', UNCHANGED appVars, UNCHANGED <<Queue, Ctl, op, ret, Got>>
  PROVE  LaunchInv'
<1> USE DEF appVars
<1>1. AppTypes'
  BY DEF LaunchInv, AppTypes
<1>2. InTurn'
  BY DEF LaunchInv, InTurn, Current
<1>3. ASSUME NEW l \in Launches
      PROVE  /\ CamInStep(l)' /\ HelloInStep(l)'
             /\ Current(l)' => RingInStep(l)' /\ PrintedInStep(l)'
  <2>1. /\ Pushed(l)' = Pushed(l) /\ Taken(l)' = Taken(l) /\ Seen(l)' = Seen(l)
        /\ (Accepted(l)' <=> Accepted(l)) /\ (InHand(l)' <=> InHand(l))
    BY DEF Pushed, Taken, Seen, Accepted, InHand
  <2>2. CamInStep(l) /\ HelloInStep(l) /\ (Current(l) => RingInStep(l) /\ PrintedInStep(l))
    BY DEF LaunchInv
  <2>3. CamInStep(l)'
    BY <2>2 DEF CamInStep
  <2>4. HelloInStep(l)'
    BY <2>1, <2>2 DEF HelloInStep
  <2>5. Current(l)' => RingInStep(l)' /\ PrintedInStep(l)'
    BY <2>1, <2>2 DEF Current, RingInStep, PrintedInStep
  <2> QED
    BY <2>3, <2>4, <2>5
<1> QED
  BY <1>1, <1>2, <1>3 DEF LaunchInv

-----------------------------------------------------------------------------
(* The statements of ring_buffer.c                                         *)

\* A task within a call is one of the current launch, in the call its program
\* has made.
LEMMA WhoseCall ==
  ASSUME LaunchInv, NEW t \in Tasks, Ctl[t] # "idle"
  PROVE  \E l \in Launches :
           /\ Current(l)
           /\ \/ /\ t = Cam[l] /\ cam[l] = "called" /\ ci[l] \in 0 .. Last
                 /\ op[t] = [fn |-> "rb_write", chunk |-> Chunk(l, ci[l])]
              \/ t = Hello[l] /\ hello[l] = "called" /\ op[t].fn = "rb_read"
<1>1. PICK l \in Launches : t = Cam[l] \/ t = Hello[l]
  BY Apps
<1>2. Current(l) /\ CamInStep(l) /\ HelloInStep(l)
  BY <1>1, CallerIsCurrent DEF LaunchInv
<1>3. ci[l] \in 0 .. Last + 1 /\ Last \in Nat
  BY LaunchAssumption DEF LaunchInv, AppTypes
<1> QED
  BY <1>1, <1>2, <1>3 DEF CamInStep, HelloInStep

\* A statement of t changes what is seen of t only.
LEMMA RingElsewhere ==
  ASSUME UNCHANGED appVars, NEW l \in Launches, NEW t \in Tasks, t = Cam[l] \/ t = Hello[l],
         \A u \in Tasks : u # t => Ctl'[u] = Ctl[u] /\ op'[u] = op[u] /\ ret'[u] = ret[u]
  PROVE  Elsewhere(l)
  BY Apps DEF Elsewhere, appVars

\* rb_write puts the chunk in the ring.
LEMMA PushStep ==
  ASSUME LaunchInv, RingInv', UNCHANGED appVars, NEW t \in Tasks, Fifo!FifoWrite(t)
  PROVE  LaunchInv'
<1>1. /\ Ctl[t] = "pending" /\ Ctl' = [Ctl EXCEPT ![t] = "done"]
      /\ ret' = [ret EXCEPT ![t] = 0] /\ op' = op /\ Got' = Got
      /\ op[t].fn = "rb_write" /\ Queue' = Append(Queue, op[t].chunk)
  BY DEF Fifo!FifoWrite, Fifo!Finish
<1>2. PICK l \in Launches :
        /\ Current(l) /\ t = Cam[l] /\ cam[l] = "called" /\ ci[l] \in 0 .. Last
        /\ op[t] = [fn |-> "rb_write", chunk |-> Chunk(l, ci[l])]
  BY <1>1, WhoseCall
<1>3. /\ Ctl'[Cam[l]] = "done" /\ ret'[Cam[l]] = 0
      /\ \A u \in Tasks : u # t => Ctl'[u] = Ctl[u] /\ ret'[u] = ret[u]
  BY <1>1, <1>2, ViewTypes DEF LaunchInv
<1>4. Ctl'[Hello[l]] = Ctl[Hello[l]] /\ ret'[Hello[l]] = ret[Hello[l]]
  BY <1>2, <1>3, Apps
<1>5. ~Accepted(l) /\ Accepted(l)' /\ (InHand(l)' <=> InHand(l))
  BY <1>1, <1>2, <1>3, <1>4 DEF Accepted, InHand, appVars
<1>6. /\ Queue \in Seq(Chunks) /\ Len(Queue) \in Nat /\ Len(Queue') = Len(Queue) + 1
      /\ \A i \in 1 .. Len(Queue) : Queue'[i] = Queue[i]
      /\ Queue'[Len(Queue) + 1] = Chunk(l, ci[l])
  <2>1. Queue \in Seq(Chunks) /\ Len(Queue) \in Nat
    BY ViewTypes DEF LaunchInv
  <2>2. op[t].chunk = Chunk(l, ci[l]) /\ Chunk(l, ci[l]) \in Chunks
    BY <1>2, ChunkIs
  <2> QED
    BY <1>1, <2>1, <2>2, AppendProperties
<1>7. Pushed(l) = ci[l] /\ Pushed(l)' = ci[l] + 1
  BY <1>5 DEF Pushed, appVars
<1>8. Taken(l)' = Taken(l) /\ Taken(l) = ci[l] - Len(Queue)
  <2>1. Taken(l) = Pushed(l) - Len(Queue) /\ Taken(l)' = Pushed(l)' - Len(Queue')
    BY DEF Taken
  <2>2. ci[l] \in Int /\ Len(Queue) \in Int
    BY <1>2, <1>6
  <2> QED
    BY <1>6, <1>7, <2>1, <2>2
<1>9. Seen(l)' = Seen(l)
  BY <1>5, <1>8 DEF Seen
<1>10. CamInStep(l) /\ HelloInStep(l) /\ RingInStep(l) /\ PrintedInStep(l)
  BY <1>2 DEF LaunchInv
<1>11. CamInStep(l)' /\ HelloInStep(l)' /\ cam'[l] # "off" /\ Current(l)'
  <2>1. CamInStep(l)'
    BY <1>1, <1>2, <1>10 DEF CamInStep, appVars
  <2>2. HelloInStep(l)'
    BY <1>1, <1>2, <1>4, <1>10 DEF HelloInStep, Current, appVars
  <2> QED
    BY <1>2, <2>1, <2>2 DEF Current, appVars
<1>12. RingInStep(l)'
  <2>1. \A i \in 1 .. Len(Queue') : Queue'[i] = Chunk(l, Taken(l) + i - 1)
    <3>1. \A i \in 1 .. Len(Queue) : Queue'[i] = Chunk(l, Taken(l) + i - 1)
      BY <1>6, <1>10 DEF RingInStep
    <3>2. Taken(l) + (Len(Queue) + 1) - 1 = ci[l]
      BY <1>2, <1>6, <1>8
    <3> QED
      BY <1>6, <3>1, <3>2
  <2>2. Queue' # <<>>
    BY <1>6
  <2> QED
    BY <1>1, <1>5, <1>8, <1>9, <1>10, <2>1, <2>2 DEF RingInStep
<1>13. PrintedInStep(l)'
  BY <1>9, <1>10 DEF PrintedInStep, appVars
<1>14. AppTypes' /\ Elsewhere(l)
  <2>1. AppTypes'
    BY DEF LaunchInv, AppTypes, appVars
  <2>2. Elsewhere(l)
    BY <1>1, <1>2, <1>3, RingElsewhere
  <2> QED
    BY <2>1, <2>2
<1> QED
  BY <1>2, <1>11, <1>12, <1>13, <1>14, CurrentStep

\* rb_read takes the oldest chunk out; no rb_write is between its push and its
\* unlock then.
LEMMA PopStep ==
  ASSUME LaunchInv, RingInv', UNCHANGED appVars, NEW t \in Tasks, Fifo!FifoRead(t),
         \A u \in Tasks : u # t => Ctl[u] # "done"
  PROVE  LaunchInv'
<1>1. /\ Ctl[t] = "pending" /\ Ctl' = [Ctl EXCEPT ![t] = "done"]
      /\ ret' = [ret EXCEPT ![t] = 0] /\ op' = op /\ Got' = [Got EXCEPT ![t] = Head(Queue)]
      /\ op[t].fn = "rb_read" /\ Queue # <<>> /\ Queue' = Tail(Queue)
  BY DEF Fifo!FifoRead, Fifo!Finish
<1>2. PICK l \in Launches : Current(l) /\ t = Hello[l] /\ hello[l] = "called"
  <2>1. Ctl[t] # "idle"
    BY <1>1
  <2>2. PICK l \in Launches :
          /\ Current(l)
          /\ \/ /\ t = Cam[l] /\ cam[l] = "called" /\ ci[l] \in 0 .. Last
                /\ op[t] = [fn |-> "rb_write", chunk |-> Chunk(l, ci[l])]
             \/ t = Hello[l] /\ hello[l] = "called" /\ op[t].fn = "rb_read"
    BY <2>1, WhoseCall
  <2>3. op[t].fn # "rb_write"
    BY <1>1
  <2> QED
    BY <2>2, <2>3
<1>3. /\ Ctl'[Hello[l]] = "done" /\ ret'[Hello[l]] = 0 /\ Got'[Hello[l]] = Head(Queue)
      /\ \A u \in Tasks : u # t => Ctl'[u] = Ctl[u] /\ ret'[u] = ret[u]
  BY <1>1, <1>2, ViewTypes DEF LaunchInv
<1>4. /\ Ctl'[Cam[l]] = Ctl[Cam[l]] /\ ret'[Cam[l]] = ret[Cam[l]] /\ Ctl[Cam[l]] # "done"
  BY <1>2, <1>3, Apps
<1>5. ~InHand(l) /\ InHand(l)' /\ (Accepted(l)' <=> Accepted(l))
  BY <1>1, <1>2, <1>3, <1>4 DEF Accepted, InHand, appVars
<1>6. /\ Len(Queue) \in Nat \ {0} /\ Len(Queue') = Len(Queue) - 1 /\ Head(Queue) = Queue[1]
      /\ \A i \in 1 .. Len(Queue') : Queue'[i] = Queue[i + 1]
  <2>1. Queue \in Seq(Chunks)
    BY ViewTypes DEF LaunchInv
  <2> QED
    BY <1>1, <2>1, HeadTailProperties, LenProperties, EmptySeq
<1>7. CamInStep(l) /\ HelloInStep(l) /\ RingInStep(l) /\ PrintedInStep(l)
  BY <1>2 DEF LaunchInv
<1>8. Taken(l) \in Nat /\ Taken(l)' = Taken(l) + 1
  <2>1. Taken(l) \in Nat
    BY <1>7 DEF RingInStep
  <2>2. Taken(l) = Pushed(l) - Len(Queue) /\ Taken(l)' = Pushed(l)' - Len(Queue')
    BY DEF Taken
  <2>3. Pushed(l)' = Pushed(l)
    BY <1>5 DEF Pushed, appVars
  <2>4. Pushed(l) \in Int
    BY LaunchAssumption DEF Pushed, LaunchInv, AppTypes
  <2> QED
    BY <1>6, <2>1, <2>2, <2>3, <2>4
<1>9. Seen(l) = Taken(l) /\ Seen(l)' = Seen(l)
  BY <1>5, <1>8 DEF Seen
<1>10. CamInStep(l)' /\ HelloInStep(l)' /\ cam'[l] # "off" /\ Current(l)'
  <2>1. CamInStep(l)'
    BY <1>1, <1>4, <1>7 DEF CamInStep, appVars
  <2>2. HelloInStep(l)'
    BY <1>1, <1>2, <1>7 DEF HelloInStep, appVars
  <2> QED
    BY <1>2, <2>1, <2>2 DEF Current, appVars
<1>11. RingInStep(l)'
  <2>1. \A i \in 1 .. Len(Queue) : Queue[i] = Chunk(l, Taken(l) + i - 1)
    BY <1>7 DEF RingInStep
  <2>2. \A i \in 1 .. Len(Queue') : Queue'[i] = Chunk(l, (Taken(l) + 1) + i - 1)
    <3> SUFFICES ASSUME NEW i \in 1 .. Len(Queue')
                 PROVE  Queue'[i] = Chunk(l, (Taken(l) + 1) + i - 1)
      OBVIOUS
    <3>1. i + 1 \in 1 .. Len(Queue) /\ Taken(l) + (i + 1) - 1 = (Taken(l) + 1) + i - 1
      BY <1>6, <1>8
    <3> QED
      BY <1>6, <2>1, <3>1
  <2>3. Queue[1] = Chunk(l, Taken(l))
    <3>1. 1 \in 1 .. Len(Queue) /\ Taken(l) + 1 - 1 = Taken(l)
      BY <1>6, <1>8
    <3> QED
      BY <2>1, <3>1
  <2>4. Seen(l) \in 0 .. Last
    BY <1>7 DEF RingInStep
  <2> QED
    BY <1>3, <1>4, <1>6, <1>8, <1>9, <2>2, <2>3, <2>4 DEF RingInStep
<1>12. PrintedInStep(l)'
  BY <1>7, <1>9 DEF PrintedInStep, appVars
<1>13. AppTypes' /\ Elsewhere(l)
  <2>1. AppTypes'
    BY DEF LaunchInv, AppTypes, appVars
  <2>2. Elsewhere(l)
    BY <1>1, <1>2, <1>3, RingElsewhere
  <2> QED
    BY <2>1, <2>2
<1> QED
  BY <1>2, <1>10, <1>11, <1>12, <1>13, CurrentStep

\* A call that finds the ring full or empty, and the return of any call.
LEMMA IdleStep ==
  ASSUME LaunchInv, RingInv', UNCHANGED appVars, NEW t \in Tasks,
         Fifo!FifoWriteFull(t) \/ Fifo!FifoReadEmpty(t) \/ Fifo!FifoReturn(t)
  PROVE  LaunchInv'
<1>1. /\ Queue' = Queue /\ Got' = Got /\ op' = op /\ Ctl[t] # "idle"
      /\ \A u \in Tasks : u # t => Ctl'[u] = Ctl[u] /\ ret'[u] = ret[u]
      /\ \/ Ctl[t] = "pending" /\ Ctl'[t] = "done" /\ ret'[t] = -1
         \/ Ctl[t] = "done" /\ Ctl'[t] = "idle" /\ ret'[t] = ret[t]
  <2>1. RingInv
    BY DEF LaunchInv
  <2>2. CASE Fifo!FifoWriteFull(t)
    BY <2>1, <2>2, ViewTypes DEF Fifo!FifoWriteFull, Fifo!Finish
  <2>3. CASE Fifo!FifoReadEmpty(t)
    BY <2>1, <2>3, ViewTypes DEF Fifo!FifoReadEmpty, Fifo!Finish
  <2>4. CASE Fifo!FifoReturn(t)
    BY <2>1, <2>4, ViewTypes DEF Fifo!FifoReturn
  <2> QED
    BY <2>2, <2>3, <2>4
<1>2. PICK l \in Launches :
        /\ Current(l)
        /\ \/ /\ t = Cam[l] /\ cam[l] = "called" /\ ci[l] \in 0 .. Last
              /\ op[t] = [fn |-> "rb_write", chunk |-> Chunk(l, ci[l])]
           \/ t = Hello[l] /\ hello[l] = "called" /\ op[t].fn = "rb_read"
  BY <1>1, WhoseCall
<1>3. /\ (Accepted(l)' <=> Accepted(l)) /\ (InHand(l)' <=> InHand(l))
      /\ Accepted(l) /\ Ctl'[Cam[l]] = "done" => Ctl[Cam[l]] = "done"
  BY <1>1, <1>2, Apps DEF Accepted, InHand, appVars
<1>4. Pushed(l)' = Pushed(l) /\ Taken(l)' = Taken(l) /\ Seen(l)' = Seen(l)
  BY <1>1, <1>3 DEF Pushed, Taken, Seen, appVars
<1>5. CamInStep(l) /\ HelloInStep(l) /\ RingInStep(l) /\ PrintedInStep(l)
  BY <1>2 DEF LaunchInv
<1>6. CamInStep(l)' /\ HelloInStep(l)' /\ cam'[l] # "off" /\ Current(l)'
  <2>1. CamInStep(l)'
    BY <1>1, <1>2, <1>5, Apps DEF CamInStep, appVars
  <2>2. HelloInStep(l)'
    BY <1>1, <1>2, <1>5, Apps DEF HelloInStep, Current, appVars
  <2> QED
    BY <1>2, <2>1, <2>2 DEF Current, appVars
<1>7. RingInStep(l)' /\ PrintedInStep(l)'
  BY <1>1, <1>3, <1>4, <1>5 DEF RingInStep, PrintedInStep, appVars
<1>8. AppTypes' /\ Elsewhere(l)
  <2>1. AppTypes'
    BY DEF LaunchInv, AppTypes, appVars
  <2>2. Elsewhere(l)
    BY <1>1, <1>2, RingElsewhere
  <2> QED
    BY <2>1, <2>2
<1> QED
  BY <1>2, <1>6, <1>7, <1>8, CurrentStep

\* Every statement of ring_buffer.c.
LEMMA RingStep ==
  ASSUME LaunchInv, NEW t \in Tasks, RbLock(t) \/ RbStep(t)
  PROVE  LaunchInv'
<1>1. UNCHANGED appVars /\ RingInv
  BY DEF RbLock, RbStep, LaunchInv
<1>2. Lock(t) \/ Write(t) \/ Read(t) \/ Unlock(t)
  BY DEF RbLock, RbStep
<1>3. RingInv'
  <2>1. [Next]_vars
    BY <1>2 DEF Next, Body
  <2> QED
    BY <1>1, <2>1, NextInv
<1>4. CASE Lock(t)
  BY <1>1, <1>3, <1>4, LockStutters, UnseenStep
<1>5. CASE WriteSlot(t) \/ WriteCopyLo(t) \/ WriteCopyHi(t) \/ WritePtr(t)
  BY <1>1, <1>3, <1>5, WriteStutters, UnseenStep
<1>6. CASE ReadSlot(t) \/ ReadCopyLo(t) \/ ReadCopyHi(t) \/ ReadPtr(t)
  BY <1>1, <1>3, <1>6, ReadStutters, UnseenStep
<1>7. CASE WriteCount(t)
  BY <1>1, <1>3, <1>7, WriteCountMaps, PushStep
<1>8. CASE ReadCount(t)
  <2>1. InCS(t)
    BY <1>8 DEF ReadCount, Goto, InCS
  <2>2. \A u \in Tasks : u # t => Ctl[u] # "done"
    <3>1. \A u \in Tasks : u # t => pc[u] \in {"idle", "lock"}
      BY <1>1, <2>1, Alone
    <3> QED
      BY <1>1, <3>1, ViewTypes
  <2>3. Fifo!FifoRead(t)
    BY <1>1, <1>3, <1>8, ReadCountMaps
  <2> QED
    BY <1>1, <1>3, <2>2, <2>3, PopStep
<1>9. CASE WriteFull(t)
  BY <1>1, <1>3, <1>9, WriteFullMaps, IdleStep
<1>10. CASE ReadEmpty(t)
  BY <1>1, <1>3, <1>10, ReadEmptyMaps, IdleStep
<1>11. CASE Unlock(t)
  BY <1>1, <1>3, <1>11, UnlockMaps, IdleStep
<1> QED
  BY <1>2, <1>4, <1>5, <1>6, <1>7, <1>8, <1>9, <1>10, <1>11 DEF Write, Read

-----------------------------------------------------------------------------
(* launcher, camera_MSN2_main and hello_main                               *)

\* While a camera is within rb_init the ring is empty, no task but its own hello is
\* within a call, and hello has not found a chunk.
LEMMA Quiet ==
  ASSUME LaunchInv, NEW l \in Launches, cam[l] \in {"init", "lockinit"}
  PROVE  /\ count = 0 /\ Queue = <<>>
         /\ \A t \in Tasks \ {Hello[l]} : pc[t] = "idle"
         /\ pc[Hello[l]] \in {"idle", "lock", "r_check", "unlock"}
<1>1. CamInStep(l) /\ HelloInStep(l) /\ RingInv /\ Hello[l] \in Tasks
  BY Apps DEF LaunchInv
<1>2. Pushed(l) = 0
  BY <1>1 DEF Pushed, Accepted, CamInStep
<1>3. Current(l)
  BY <1>1, <1>2, LaunchAssumption DEF Current, HelloInStep
<1>4. \A t \in Tasks \ {Hello[l]} : pc[t] = "idle"
  <2> SUFFICES ASSUME NEW t \in Tasks \ {Hello[l]}, Ctl[t] # "idle"
               PROVE  FALSE
    BY <1>1, ViewTypes
  <2>1. PICK k \in Launches : t = Cam[k] \/ t = Hello[k]
    BY Apps
  <2>2. k = l
    BY <1>3, <2>1, CallerIsCurrent, OneCurrent
  <2> QED
    BY <1>1, <2>1, <2>2 DEF CamInStep
<1>5. Queue = <<>> /\ count = 0
  <2>1. Taken(l) \in Nat
    BY <1>3 DEF LaunchInv, RingInStep
  <2>2. Len(Queue) = count /\ count \in Nat /\ Queue \in Seq(Chunks)
    BY <1>1, QueueType
  <2>3. count = 0
    BY <1>2, <2>1, <2>2 DEF Taken
  <2> QED
    BY <2>2, <2>3, EmptySeq
<1>6. pc[Hello[l]] \in {"idle", "lock", "r_check", "unlock"}
  <2>1. pc[Hello[l]] \in PCs /\ CallInStep(Hello[l])
    BY <1>1 DEF RingInv, TypeOK
  <2>2. pc[Hello[l]] # "idle" => op[Hello[l]].fn = "rb_read"
    BY <1>1, ViewTypes DEF HelloInStep
  <2> QED
    BY <1>5, <2>1, <2>2 DEF CallInStep, PCs, Reading, Writing, Queries
<1> QED
  BY <1>4, <1>5, <1>6

\* A step of the program alone leaves the view of the ring alone.
LEMMA SameRing ==
  ASSUME LaunchInv, UNCHANGED vars
  PROVE  UNCHANGED <<Queue, Ctl, op, ret, Got>> /\ RingInv'
<1>1. UNCHANGED <<Queue, Ctl, op, ret, Got>>
  BY DEF vars, Queue, Ctl, Got, ReadDone, SlotOf, RdBase, HolderAt
<1>2. RingInv'
  BY NextInv DEF LaunchInv
<1> QED
  BY <1>1, <1>2

\* What two launches other than the one that steps have in the ring stays.
LEMMA OthersInStep ==
  ASSUME LaunchInv, NEW l \in Launches, Elsewhere(l), UNCHANGED <<Queue, Got, ret>>,
         NEW k \in Launches, k # l, Current(k)'
  PROVE  RingInStep(k)' /\ PrintedInStep(k)'
<1>1. Current(k)
  BY ElsewhereInStep
<1>2. RingInStep(k) /\ PrintedInStep(k)
  BY <1>1 DEF LaunchInv
<1>3. /\ cam'[k] = cam[k] /\ ci'[k] = ci[k] /\ hello'[k] = hello[k] /\ printed'[k] = printed[k]
      /\ Ctl'[Cam[k]] = Ctl[Cam[k]] /\ Ctl'[Hello[k]] = Ctl[Hello[k]]
  BY DEF Elsewhere
<1>4. /\ Pushed(k)' = Pushed(k) /\ Taken(k)' = Taken(k) /\ Seen(k)' = Seen(k)
      /\ (Accepted(k)' <=> Accepted(k)) /\ (InHand(k)' <=> InHand(k))
  BY <1>3 DEF Pushed, Taken, Seen, Accepted, InHand
<1> QED
  BY <1>2, <1>3, <1>4 DEF RingInStep, PrintedInStep

\* launcher finds no launch that has not ended, and so an empty ring.
LEMMA StartStep ==
  ASSUME ~AnyTime, LaunchInv, NEW l \in Launches, StartApps(l)
  PROVE  LaunchInv'
<1>1. /\ cam[l] = "off" /\ \E x \in {"init", "none"} : cam' = [cam EXCEPT ![l] = x]
      /\ \E x \in {"poll", "none"} : hello' = [hello EXCEPT ![l] = x]
      /\ \A k \in Launches : k < l => hello[k] = "ended"
      /\ UNCHANGED <<vars, ci, printed, dropped>>
  BY DEF StartApps, MayLaunch
<1>2. /\ UNCHANGED <<Queue, Ctl, op, ret, Got>> /\ RingInv'
  BY <1>1, SameRing
<1>3. CamInStep(l) /\ HelloInStep(l) /\ hello[l] = "off"
  BY <1>1 DEF LaunchInv, HelloInStep
<1>4. /\ cam'[l] \in {"init", "none"} /\ hello'[l] \in {"poll", "none"}
      /\ \A k \in Launches : k # l => cam'[k] = cam[k] /\ hello'[k] = hello[k]
  BY <1>1 DEF LaunchInv, AppTypes
<1>5. \A k \in Launches : ~Current(k)
  <2> SUFFICES ASSUME NEW k \in Launches, Current(k)
               PROVE  FALSE
    OBVIOUS
  <2>1. k # l /\ ~(k < l)
    BY <1>1 DEF Current
  <2>2. l < k
    BY <2>1, Apps
  <2>3. hello[l] = "ended"
    BY <2>2 DEF LaunchInv, InTurn, Current
  <2> QED
    BY <1>3, <2>3
<1>6. Queue = <<>> /\ Len(Queue) = 0
  BY <1>5 DEF LaunchInv, InTurn
<1>7. Elsewhere(l)
  BY <1>1, <1>2, <1>4 DEF Elsewhere
<1>8. CamInStep(l)' /\ HelloInStep(l)'
  <2>1. CamInStep(l)'
    BY <1>1, <1>2, <1>3, <1>4 DEF CamInStep
  <2>2. HelloInStep(l)'
    BY <1>1, <1>2, <1>3, <1>4 DEF HelloInStep
  <2> QED
    BY <2>1, <2>2
<1>9. ~Accepted(l)' /\ ~InHand(l)' /\ Pushed(l)' = 0 /\ Taken(l)' = 0 /\ Seen(l)' = 0
  <2>1. ~Accepted(l)' /\ ~InHand(l)'
    BY <1>4 DEF Accepted, InHand
  <2>2. Pushed(l)' = 0
    BY <1>1, <1>3, <2>1 DEF Pushed, CamInStep
  <2>3. Taken(l)' = 0
    <3>1. Taken(l)' = Pushed(l)' - Len(Queue')
      BY DEF Taken
    <3>2. Len(Queue') = 0
      BY <1>2, <1>6
    <3> QED
      BY <2>2, <3>1, <3>2
  <2> QED
    BY <2>1, <2>2, <2>3 DEF Seen
<1>10. RingInStep(l)'
  BY <1>2, <1>6, <1>9, LaunchAssumption DEF RingInStep
<1>11. PrintedInStep(l)'
  BY <1>1, <1>3, <1>9 DEF PrintedInStep, HelloInStep
<1>12. AppTypes'
  BY <1>1 DEF LaunchInv, AppTypes
<1>13. InTurn'
  <2>1. ASSUME NEW j \in Launches, NEW k \in Launches, j < k, cam'[k] # "off"
        PROVE  hello'[j] = "ended"
    <3>1. hello[j] = "ended"
      BY <1>1, <1>4, <2>1 DEF LaunchInv, InTurn
    <3> QED
      BY <1>3, <1>4, <3>1
  <2>2. Current(l)'
    BY <1>4 DEF Current
  <2> QED
    BY <2>1, <2>2 DEF InTurn
<1>14. \A k \in Launches : CamInStep(k)' /\ HelloInStep(k)'
  BY <1>7, <1>8, ElsewhereInStep
<1>15. \A k \in Launches : Current(k)' => RingInStep(k)' /\ PrintedInStep(k)'
  BY <1>5, <1>7, <1>10, <1>11, ElsewhereInStep
<1> QED
  BY <1>2, <1>12, <1>13, <1>14, <1>15 DEF LaunchInv

\* The memset finds a ring without chunks, and at most a hello that looks at count
\* or is about to give the lock back.
LEMMA MemsetKeeps ==
  ASSUME LaunchInv, NEW l \in Launches, RbInit(l)
  PROVE  RingInv' /\ UNCHANGED <<Queue, Ctl, op, ret, Got>>
<1>1. /\ count = 0 /\ Queue = <<>>
      /\ \A t \in Tasks : pc[t] \in {"idle", "lock", "r_check", "unlock"}
  BY Quiet DEF RbInit
<1>2. /\ slots' = [i \in Index |-> Whole(Zero)] /\ wr_ptr' = 0 /\ rd_ptr' = 0 /\ count' = 0
      /\ UNCHANGED <<holder, pc, op, slot, buf, ret>>
  BY DEF RbInit
<1>3. RingInv
  BY DEF LaunchInv
<1>4. TypeOK'
  BY <1>2, <1>3, DepthBound DEF RingInv, TypeOK, Whole, Content
<1>5. PtrsInStep' /\ HeldChunksWhole'
  <2>1. RdBase' = 0 /\ WrBase' = 0
    BY <1>1, <1>2, <1>3 DEF RdBase, WrBase, HolderAt, RingInv, TypeOK
  <2>2. 0 % PtrMod = 0
    BY DepthBound, ModSmall
  <2> QED
    BY <1>2, <2>1, <2>2 DEF PtrsInStep, HeldChunksWhole
<1>6. \A t \in Tasks : CallInStep(t)'
  BY <1>1, <1>2, <1>3 DEF RingInv, CallInStep, Writing, Reading
<1>7. NoTornRead' /\ \A t \in Tasks : InCS(t)' <=> holder' = t
  BY <1>2, <1>3 DEF RingInv, NoTornRead, ReadDone, InCS
<1>8. UNCHANGED <<Queue, Ctl, op, ret, Got>>
  <2>1. Queue' = <<>>
    BY <1>2 DEF Queue
  <2> QED
    BY <1>1, <1>2, <2>1 DEF Ctl, Got, ReadDone
<1> QED
  BY <1>4, <1>5, <1>6, <1>7, <1>8 DEF RingInv

\* rb_init and the dialogue with OpenMV: the camera has pushed nothing before and
\* nothing after.
LEMMA CamSetupStep ==
  ASSUME ~InitWhileHeld, LaunchInv, NEW l \in Launches,
         RbInit(l) \/ RbInitLock(l) \/ CamLink(l)
  PROVE  LaunchInv'
<1>1. RingInv' /\ UNCHANGED <<Queue, Ctl, op, ret, Got>>
  <2>1. CASE RbInit(l)
    BY <2>1, MemsetKeeps
  <2>2. CASE RbInitLock(l)
    <3>1. UNCHANGED vars
      BY <2>2 DEF RbInitLock, vars
    <3> QED
      BY <3>1, SameRing
  <2>3. CASE CamLink(l)
    <3>1. UNCHANGED vars
      BY <2>3 DEF CamLink
    <3> QED
      BY <3>1, SameRing
  <2> QED
    BY <2>1, <2>2, <2>3
<1>2. dropped' \subseteq Tasks
  <2>1. dropped \subseteq Tasks
    BY DEF LaunchInv, AppTypes
  <2> QED
    BY <2>1 DEF RbInit, RbInitLock, CamLink
<1>3. /\ cam[l] \in {"init", "lockinit", "link"}
      /\ \E r \in {"lockinit", "link", "push", "failed"} :
           /\ cam' = [cam EXCEPT ![l] = r]
           /\ r = "lockinit" => cam[l] = "init"
      /\ UNCHANGED <<ci, hello, printed>>
  BY DEF RbInit, RbInitLock, CamLink
<1>4. /\ cam'[l] \in {"lockinit", "link", "push", "failed"}
      /\ cam'[l] = "lockinit" => cam[l] = "init"
      /\ \A k \in Launches : k # l => cam'[k] = cam[k]
  BY <1>3 DEF LaunchInv, AppTypes
<1>5. CamInStep(l) /\ HelloInStep(l)
  BY DEF LaunchInv
<1>6. ci[l] = 0 /\ ~Accepted(l) /\ ~Accepted(l)' /\ (InHand(l)' <=> InHand(l))
  BY <1>1, <1>3, <1>4, <1>5 DEF Accepted, InHand, CamInStep
<1>7. Pushed(l) = 0 /\ Pushed(l)' = Pushed(l)
  BY <1>3, <1>6 DEF Pushed
<1>8. Taken(l)' = Taken(l) /\ Seen(l)' = Seen(l)
  BY <1>1, <1>6, <1>7 DEF Taken, Seen
<1>9. Current(l) /\ Current(l)' /\ cam'[l] # "off"
  <2>1. hello[l] # "ended"
    BY <1>5, <1>7, LaunchAssumption DEF HelloInStep
  <2> QED
    BY <1>3, <1>4, <2>1 DEF Current
<1>10. CamInStep(l)'
  BY <1>1, <1>3, <1>4, <1>5, <1>6, LaunchAssumption DEF CamInStep
<1>11. HelloInStep(l)'
  BY <1>1, <1>3, <1>4, <1>5, <1>9 DEF HelloInStep, Current
<1>12. RingInStep(l)' /\ PrintedInStep(l)'
  <2>1. RingInStep(l) /\ PrintedInStep(l)
    BY <1>9 DEF LaunchInv
  <2> QED
    BY <1>1, <1>3, <1>6, <1>8, <2>1 DEF RingInStep, PrintedInStep
<1>13. AppTypes'
  BY <1>2, <1>3 DEF LaunchInv, AppTypes
<1>14. Elsewhere(l)
  BY <1>1, <1>3, <1>4 DEF Elsewhere
<1> QED
  BY <1>1, <1>9, <1>10, <1>11, <1>12, <1>13, <1>14, CurrentStep

\* The camera calls rb_write with its next chunk.
LEMMA CamCallStep ==
  ASSUME LaunchInv, NEW l \in Launches, CamCall(l)
  PROVE  LaunchInv'
<1> DEFINE t == Cam[l]
           o == [fn |-> "rb_write", chunk |-> Chunk(l, ci[l])]
<1>1. /\ cam[l] = "push" /\ cam' = [cam EXCEPT ![l] = "called"] /\ Call(t, o)
      /\ UNCHANGED <<ci, hello, printed, dropped>>
  BY DEF CamCall
<1>2. CamInStep(l) /\ HelloInStep(l) /\ RingInv /\ t \in Tasks
  BY Apps DEF LaunchInv
<1>3. ci[l] \in 0 .. Last /\ Last \in Nat \ {0}
  BY <1>1, <1>2, LaunchAssumption DEF LaunchInv, AppTypes, CamInStep
<1>4. o \in Ops
  BY <1>3, ChunkIs DEF Ops
<1>5. RingInv' /\ Fifo!FifoCall(t, o)
  BY <1>1, <1>2, <1>4, CallPreserves, CallMaps
<1>6. /\ Ctl' = [Ctl EXCEPT ![t] = "pending"] /\ op' = [op EXCEPT ![t] = o]
      /\ Got' = [Got EXCEPT ![t] = Zero] /\ Queue' = Queue /\ ret' = ret
  BY <1>5 DEF Fifo!FifoCall
<1> HIDE DEF o
<1>7. /\ Ctl'[Cam[l]] = "pending" /\ op'[Cam[l]] = o
      /\ \A u \in Tasks : u # t => Ctl'[u] = Ctl[u] /\ op'[u] = op[u] /\ Got'[u] = Got[u]
  BY <1>2, <1>6, ViewTypes
<1>8. /\ Ctl'[Hello[l]] = Ctl[Hello[l]] /\ op'[Hello[l]] = op[Hello[l]]
      /\ Got'[Hello[l]] = Got[Hello[l]]
  BY <1>7, Apps
<1>9. /\ cam'[l] = "called" /\ \A k \in Launches : k # l => cam'[k] = cam[k]
  BY <1>1 DEF LaunchInv, AppTypes
<1>10. ~Accepted(l) /\ ~Accepted(l)' /\ (InHand(l)' <=> InHand(l))
  BY <1>1, <1>6, <1>7, <1>8 DEF Accepted, InHand
<1>11. Pushed(l) = ci[l] /\ Pushed(l)' = Pushed(l)
  BY <1>1, <1>10 DEF Pushed
<1>12. Taken(l)' = Taken(l) /\ Seen(l)' = Seen(l)
  BY <1>6, <1>10, <1>11 DEF Taken, Seen
<1>13. Current(l) /\ Current(l)' /\ cam'[l] # "off"
  <2>1. hello[l] # "ended"
    BY <1>2, <1>3, <1>11 DEF HelloInStep
  <2> QED
    BY <1>1, <1>9, <2>1 DEF Current
<1>14. CamInStep(l)'
  BY <1>1, <1>3, <1>7, <1>9 DEF CamInStep, o
<1>15. HelloInStep(l)'
  BY <1>1, <1>2, <1>8, <1>9, <1>13 DEF HelloInStep, Current
<1>16. RingInStep(l)' /\ PrintedInStep(l)'
  <2>1. RingInStep(l) /\ PrintedInStep(l)
    BY <1>13 DEF LaunchInv
  <2> QED
    BY <1>1, <1>6, <1>8, <1>10, <1>12, <2>1 DEF RingInStep, PrintedInStep
<1>17. AppTypes'
  BY <1>1 DEF LaunchInv, AppTypes
<1>18. Elsewhere(l)
  BY <1>1, <1>6, <1>7, <1>9, Apps DEF Elsewhere
<1> QED
  BY <1>5, <1>13, <1>14, <1>15, <1>16, <1>17, <1>18, CurrentStep

\* rb_push goes on to the next chunk or tries the same one again.
LEMMA CamReturnStep ==
  ASSUME LaunchInv, NEW l \in Launches, CamReturn(l)
  PROVE  LaunchInv'
<1>1. /\ cam[l] = "called" /\ pc[Cam[l]] = "idle"
      /\ ci' = IF ret[Cam[l]] = 0 THEN [ci EXCEPT ![l] = @ + 1] ELSE ci
      /\ cam' = [cam EXCEPT ![l] = IF ci'[l] > Last THEN "ended" ELSE "push"]
      /\ UNCHANGED <<vars, hello, printed, dropped>>
  BY DEF CamReturn
<1>2. RingInv' /\ UNCHANGED <<Queue, Ctl, op, ret, Got>>
  BY <1>1, SameRing
<1>3. CamInStep(l) /\ HelloInStep(l) /\ RingInv
  BY DEF LaunchInv
<1>4. Ctl[Cam[l]] = "idle"
  BY <1>1, <1>3, ViewTypes, Apps
<1>5. ci[l] \in 0 .. Last /\ Last \in Nat
  BY <1>1, <1>3, LaunchAssumption DEF LaunchInv, AppTypes, CamInStep
<1>6. /\ ci'[l] = IF ret[Cam[l]] = 0 THEN ci[l] + 1 ELSE ci[l]
      /\ \A k \in Launches : k # l => ci'[k] = ci[k]
  BY <1>1 DEF LaunchInv, AppTypes
<1>7. /\ cam'[l] = IF ci'[l] > Last THEN "ended" ELSE "push"
      /\ \A k \in Launches : k # l => cam'[k] = cam[k]
  BY <1>1 DEF LaunchInv, AppTypes
<1>8. /\ Accepted(l) <=> ret[Cam[l]] = 0
      /\ ~Accepted(l)' /\ (InHand(l)' <=> InHand(l))
  BY <1>1, <1>2, <1>4, <1>7 DEF Accepted, InHand
<1>9. Pushed(l)' = Pushed(l)
  BY <1>6, <1>8 DEF Pushed
<1>10. Taken(l)' = Taken(l) /\ Seen(l)' = Seen(l)
  BY <1>2, <1>8, <1>9 DEF Taken, Seen
<1>11. CamInStep(l)'
  BY <1>2, <1>4, <1>5, <1>6, <1>7 DEF CamInStep
<1>12. HelloInStep(l)'
  BY <1>1, <1>2, <1>3, <1>4, <1>7, <1>9 DEF HelloInStep
<1>13. AppTypes'
  <2>1. ci'[l] \in 0 .. Last + 1
    BY <1>5, <1>6
  <2>2. ci' \in [Launches -> 0 .. Last + 1]
    BY <1>1, <1>6, <2>1 DEF LaunchInv, AppTypes
  <2> QED
    BY <1>1, <2>2 DEF LaunchInv, AppTypes
<1>14. Elsewhere(l)
  BY <1>1, <1>2, <1>6, <1>7 DEF Elsewhere
<1>15. (Current(l)' <=> Current(l)) /\ cam'[l] # "off"
  BY <1>1, <1>7 DEF Current
<1>16. Current(l)' => RingInStep(l)' /\ PrintedInStep(l)'
  <2> SUFFICES ASSUME Current(l)
               PROVE  RingInStep(l)' /\ PrintedInStep(l)'
    BY <1>15
  <2>1. RingInStep(l) /\ PrintedInStep(l)
    BY DEF LaunchInv
  <2> QED
    BY <1>1, <1>2, <1>8, <1>10, <2>1 DEF RingInStep, PrintedInStep
<1>17. \A k \in Launches : Current(k)' => RingInStep(k)' /\ PrintedInStep(k)'
  BY <1>2, <1>14, <1>16, OthersInStep
<1>18. \A k \in Launches : CamInStep(k)' /\ HelloInStep(k)' /\ (Current(k)' <=> Current(k))
  BY <1>11, <1>12, <1>14, <1>15, ElsewhereInStep
<1>19. InTurn'
  <2>1. \A k \in Launches : cam'[k] # "off" => cam[k] # "off"
    BY <1>1, <1>7
  <2> QED
    BY <1>1, <1>2, <1>18, <2>1 DEF LaunchInv, InTurn
<1> QED
  BY <1>2, <1>13, <1>17, <1>18, <1>19 DEF LaunchInv

\* hello calls rb_read.
LEMMA HelloCallStep ==
  ASSUME LaunchInv, NEW l \in Launches, HelloCall(l)
  PROVE  LaunchInv'
<1> DEFINE t == Hello[l]
           o == [fn |-> "rb_read", chunk |-> Zero]
<1>1. /\ hello[l] = "poll" /\ hello' = [hello EXCEPT ![l] = "called"] /\ Call(t, o)
      /\ UNCHANGED <<cam, ci, printed, dropped>>
  BY DEF HelloCall
<1>2. CamInStep(l) /\ HelloInStep(l) /\ RingInv /\ t \in Tasks
  BY Apps DEF LaunchInv
<1>3. o \in Ops
  BY DEF Ops
<1>4. RingInv' /\ Fifo!FifoCall(t, o)
  BY <1>1, <1>2, <1>3, CallPreserves, CallMaps
<1>5. /\ Ctl' = [Ctl EXCEPT ![t] = "pending"] /\ op' = [op EXCEPT ![t] = o]
      /\ Queue' = Queue /\ ret' = ret
  BY <1>4 DEF Fifo!FifoCall
<1> HIDE DEF o
<1>6. /\ Ctl'[Hello[l]] = "pending" /\ op'[Hello[l]] = o
      /\ \A u \in Tasks : u # t => Ctl'[u] = Ctl[u] /\ op'[u] = op[u]
  BY <1>2, <1>5, ViewTypes
<1>7. Ctl'[Cam[l]] = Ctl[Cam[l]] /\ op'[Cam[l]] = op[Cam[l]]
  BY <1>6, Apps
<1>8. /\ hello'[l] = "called" /\ \A k \in Launches : k # l => hello'[k] = hello[k]
  BY <1>1 DEF LaunchInv, AppTypes
<1>9. ~InHand(l) /\ ~InHand(l)' /\ (Accepted(l)' <=> Accepted(l))
  BY <1>1, <1>5, <1>6, <1>7 DEF Accepted, InHand
<1>10. Pushed(l)' = Pushed(l) /\ Taken(l)' = Taken(l) /\ Seen(l)' = Seen(l)
  BY <1>1, <1>5, <1>9 DEF Pushed, Taken, Seen
<1>11. Current(l) /\ Current(l)' /\ cam'[l] # "off"
  BY <1>1, <1>2, <1>8 DEF Current, HelloInStep
<1>12. CamInStep(l)'
  BY <1>1, <1>2, <1>7 DEF CamInStep
<1>13. HelloInStep(l)'
  BY <1>1, <1>2, <1>6, <1>8 DEF HelloInStep, o
<1>14. RingInStep(l)' /\ PrintedInStep(l)'
  <2>1. RingInStep(l) /\ PrintedInStep(l)
    BY <1>11 DEF LaunchInv
  <2> QED
    BY <1>1, <1>5, <1>7, <1>9, <1>10, <2>1 DEF RingInStep, PrintedInStep
<1>15. AppTypes'
  BY <1>1 DEF LaunchInv, AppTypes
<1>16. Elsewhere(l)
  BY <1>1, <1>5, <1>6, <1>8, Apps DEF Elsewhere
<1> QED
  BY <1>4, <1>11, <1>12, <1>13, <1>14, <1>15, <1>16, CurrentStep

\* The chunk hello holds is the whole chunk it has not handled yet.
LEMMA InHandIsNext ==
  ASSUME LaunchInv, NEW l \in Launches, Current(l), InHand(l), pc[Hello[l]] = "idle"
  PROVE  /\ buf[Hello[l]] = Whole(Chunk(l, Seen(l)))
         /\ Seen(l) \in 0 .. Last
         /\ IsData(buf[Hello[l]]) <=> Seen(l) > 0
         /\ IsLast(buf[Hello[l]]) <=> Seen(l) = Last
<1>1. RingInv /\ RingInStep(l) /\ HelloInStep(l) /\ Hello[l] \in Tasks
  BY Apps DEF LaunchInv
<1>2. ReadDone(Hello[l])
  BY <1>1 DEF ReadDone, InHand, HelloInStep
<1>3. Got[Hello[l]] = buf[Hello[l]].lo
  BY <1>1, <1>2, CtlGot
<1>4. /\ buf[Hello[l]].lo = Chunk(l, Seen(l)) /\ buf[Hello[l]].hi = Chunk(l, Seen(l))
      /\ Seen(l) \in 0 .. Last
  BY <1>1, <1>2, <1>3 DEF RingInv, NoTornRead, RingInStep
<1>5. buf[Hello[l]] \in [lo : Content, hi : Content]
  BY <1>1 DEF RingInv, TypeOK
<1>6. buf[Hello[l]] = Whole(Chunk(l, Seen(l)))
  BY <1>4, <1>5 DEF Whole
<1>7. Chunk(l, Seen(l)) # Zero /\ Chunk(l, Seen(l))[2] = Seen(l)
  BY <1>4, ChunkIs
<1> QED
  BY <1>4, <1>6, <1>7 DEF IsData, IsLast

\* The chunks printed are the image's once they are Last.
LEMMA PrintedImage ==
  ASSUME NEW l \in Launches, NEW p \in Seq([lo : Content, hi : Content]), Len(p) = Last,
         \A i \in 1 .. Len(p) : p[i] = Whole(Chunk(l, i))
  PROVE  p = Image(l)
<1>1. p = [i \in 1 .. Len(p) |-> p[i]]
  BY LenProperties
<1> QED
  BY <1>1 DEF Image

\* hello prints the chunk it has read, and ends with the last one.
LEMMA HelloReturnStep ==
  ASSUME LaunchInv, NEW l \in Launches, HelloReturn(l)
  PROVE  LaunchInv'
<1> DEFINE c == buf[Hello[l]]
           got == ret[Hello[l]] = 0
<1>1. /\ hello[l] = "called" /\ pc[Hello[l]] = "idle"
      /\ printed' = IF got /\ IsData(c) THEN [printed EXCEPT ![l] = Append(@, c)] ELSE printed
      /\ hello' = [hello EXCEPT ![l] = IF got /\ IsLast(c) THEN "ended" ELSE "poll"]
      /\ UNCHANGED <<vars, cam, ci, dropped>>
  BY DEF HelloReturn
<1>2. RingInv' /\ UNCHANGED <<Queue, Ctl, op, ret, Got>>
  BY <1>1, SameRing
<1>3. CamInStep(l) /\ HelloInStep(l) /\ RingInv
  BY DEF LaunchInv
<1>4. Ctl[Hello[l]] = "idle" /\ (InHand(l) <=> got)
  <2>1. Ctl[Hello[l]] = "idle"
    BY <1>1, <1>3, ViewTypes, Apps
  <2> QED
    BY <1>1, <2>1 DEF InHand
<1>5. Current(l)
  BY <1>1, <1>3 DEF Current, HelloInStep
<1>6. RingInStep(l) /\ PrintedInStep(l)
  BY <1>5 DEF LaunchInv
<1>7. got => /\ c = Whole(Chunk(l, Seen(l))) /\ Seen(l) \in 0 .. Last
             /\ IsData(c) <=> Seen(l) > 0
             /\ IsLast(c) <=> Seen(l) = Last
  BY <1>1, <1>4, <1>5, InHandIsNext
<1>8. c \in [lo : Content, hi : Content] /\ printed[l] \in Seq([lo : Content, hi : Content])
  BY <1>3, Apps DEF RingInv, TypeOK, LaunchInv, AppTypes
<1> HIDE DEF c, got
<1>9. /\ hello'[l] = IF got /\ IsLast(c) THEN "ended" ELSE "poll"
      /\ printed'[l] = IF got /\ IsData(c) THEN Append(printed[l], c) ELSE printed[l]
      /\ \A k \in Launches : k # l => hello'[k] = hello[k] /\ printed'[k] = printed[k]
  BY <1>1 DEF LaunchInv, AppTypes
<1>10. ~InHand(l)' /\ (Accepted(l)' <=> Accepted(l))
  BY <1>1, <1>2, <1>9 DEF InHand, Accepted
<1>11. Pushed(l)' = Pushed(l) /\ Taken(l)' = Taken(l) /\ Taken(l) \in Nat
  BY <1>1, <1>2, <1>6, <1>10 DEF Pushed, Taken, RingInStep
<1>12. /\ Seen(l)' = IF got THEN Seen(l) + 1 ELSE Seen(l)
       /\ Seen(l)' = Taken(l) /\ Seen(l) \in 0 .. Last /\ Last \in Nat \ {0}
  BY <1>4, <1>6, <1>10, <1>11, LaunchAssumption DEF Seen, RingInStep
<1>13. PrintedInStep(l)' /\ printed'[l] \in Seq([lo : Content, hi : Content])
  <2>1. /\ Len(printed[l]) = IF Seen(l) = 0 THEN 0 ELSE Seen(l) - 1
        /\ \A i \in 1 .. Len(printed[l]) : printed[l][i] = Whole(Chunk(l, i))
    BY <1>6 DEF PrintedInStep
  <2>2. CASE got /\ IsData(c)
    <3>1. /\ Len(printed'[l]) = Len(printed[l]) + 1
          /\ \A i \in 1 .. Len(printed[l]) : printed'[l][i] = printed[l][i]
          /\ printed'[l][Len(printed[l]) + 1] = c
          /\ printed'[l] \in Seq([lo : Content, hi : Content])
      BY <1>8, <1>9, <2>2, AppendProperties
    <3>2. Seen(l) > 0 /\ Len(printed[l]) + 1 = Seen(l) /\ Seen(l)' = Seen(l) + 1
      BY <1>7, <1>12, <2>1, <2>2
    <3>3. Len(printed'[l]) = Seen(l) /\ c = Whole(Chunk(l, Seen(l)))
      BY <1>7, <2>2, <3>1, <3>2
    <3>4. \A i \in 1 .. Len(printed'[l]) : printed'[l][i] = Whole(Chunk(l, i))
      <4> SUFFICES ASSUME NEW i \in 1 .. Len(printed'[l])
                   PROVE  printed'[l][i] = Whole(Chunk(l, i))
        OBVIOUS
      <4>1. i \in 1 .. Len(printed[l]) \/ i = Seen(l)
        BY <1>12, <3>2, <3>3
      <4>2. printed'[l][Seen(l)] = Whole(Chunk(l, Seen(l)))
        BY <3>1, <3>2, <3>3
      <4> QED
        BY <2>1, <3>1, <4>1, <4>2
    <3> QED
      BY <1>12, <3>1, <3>2, <3>3, <3>4 DEF PrintedInStep
  <2>3. CASE ~(got /\ IsData(c))
    <3>1. printed'[l] = printed[l]
      BY <1>9, <2>3
    <3>2. (IF Seen(l) = 0 THEN 0 ELSE Seen(l) - 1) = IF Seen(l)' = 0 THEN 0 ELSE Seen(l)' - 1
      BY <1>7, <1>12, <2>3
    <3> QED
      BY <1>8, <2>1, <3>1, <3>2 DEF PrintedInStep
  <2> QED
    BY <2>2, <2>3
<1>14. Elsewhere(l)
  BY <1>1, <1>2, <1>9 DEF Elsewhere
<1>15. CamInStep(l)' /\ cam'[l] # "off"
  BY <1>1, <1>2, <1>3, <1>5 DEF CamInStep, Current
<1>16. AppTypes'
  <2>1. hello' \in [Launches -> {"off", "none", "poll", "called", "ended"}]
    BY <1>1 DEF LaunchInv, AppTypes
  <2>2. printed' \in [Launches -> Seq([lo : Content, hi : Content])]
    <3>1. DOMAIN printed' = Launches
      BY <1>1 DEF LaunchInv, AppTypes
    <3>2. \A k \in Launches : printed'[k] \in Seq([lo : Content, hi : Content])
      BY <1>9, <1>13 DEF LaunchInv, AppTypes
    <3>3. printed' = [k \in Launches |-> printed'[k]]
      BY <1>1, <3>1 DEF LaunchInv, AppTypes
    <3> QED
      BY <3>2, <3>3
  <2> QED
    BY <1>1, <2>1, <2>2 DEF LaunchInv, AppTypes
<1>17. CASE got /\ IsLast(c)
  <2>1. Seen(l) = Last /\ Taken(l) = Last + 1 /\ hello'[l] = "ended"
    BY <1>7, <1>9, <1>12, <1>17
  <2>2. Len(Queue) \in Nat /\ Queue \in Seq(Chunks)
    BY <1>3, ViewTypes
  <2>3. ci[l] \in 0 .. Last + 1 /\ (Accepted(l) => ci[l] <= Last)
    BY <1>3 DEF LaunchInv, AppTypes, CamInStep, Accepted
  <2>4. Pushed(l) \in 0 .. Last + 1
    BY <1>12, <2>3 DEF Pushed
  <2>5. Len(Queue) = 0 /\ Pushed(l) = Last + 1
    BY <1>12, <2>1, <2>2, <2>4 DEF Taken
  <2>6. Queue = <<>>
    BY <2>2, <2>5, EmptySeq
  <2>7. Ctl[Cam[l]] = "idle"
    <3>1. CASE cam[l] # "called"
      BY <1>3, <3>1 DEF CamInStep
    <3>2. CASE cam[l] = "called"
      <4>1. ci[l] <= Last
        BY <1>3, <3>2 DEF CamInStep
      <4>2. Accepted(l)
        BY <1>12, <2>3, <2>5, <4>1 DEF Pushed
      <4>3. Ctl[Cam[l]] \in {"idle", "done"}
        BY <1>3, <4>2, ViewTypes, Apps DEF Accepted
      <4> QED
        BY <1>6, <2>6, <4>2, <4>3 DEF RingInStep
    <3> QED
      BY <3>1, <3>2
  <2>8. printed'[l] = Image(l)
    <3>1. Len(printed'[l]) = Last
      BY <1>12, <1>13, <2>1 DEF PrintedInStep
    <3>2. \A i \in 1 .. Len(printed'[l]) : printed'[l][i] = Whole(Chunk(l, i))
      BY <1>13 DEF PrintedInStep
    <3> QED
      BY <1>13, <3>1, <3>2, PrintedImage
  <2>9. HelloInStep(l)'
    BY <1>1, <1>2, <1>3, <1>4, <1>11, <2>1, <2>5, <2>7, <2>8 DEF HelloInStep
  <2>10. ~Current(l)' /\ Queue' = <<>>
    BY <1>2, <2>1, <2>6 DEF Current
  <2> QED
    BY <1>2, <1>5, <1>14, <1>15, <1>16, <2>9, <2>10, CurrentStep
<1>18. CASE ~(got /\ IsLast(c))
  <2>1. hello'[l] = "poll"
    BY <1>9, <1>18
  <2>2. Seen(l)' \in 0 .. Last
    BY <1>7, <1>12, <1>18
  <2>3. RingInStep(l)'
    BY <1>1, <1>2, <1>6, <1>10, <1>11, <2>2 DEF RingInStep
  <2>4. HelloInStep(l)'
    BY <1>1, <1>2, <1>3, <1>4, <2>1 DEF HelloInStep
  <2>5. Current(l)'
    BY <1>1, <1>5, <2>1 DEF Current
  <2> QED
    BY <1>2, <1>5, <1>13, <1>14, <1>15, <1>16, <2>3, <2>4, <2>5, CurrentStep
<1> QED
  BY <1>17, <1>18

-----------------------------------------------------------------------------
(* The theorems                                                            *)

LEMMA LaunchInitInv ==
  ASSUME LaunchInit
  PROVE  LaunchInv
<1>1. RingInv /\ Fifo!FifoInit
  BY InitInv, InitMaps DEF LaunchInit
<1>2. Queue = <<>> /\ Ctl = [t \in Tasks |-> "idle"]
  BY <1>1 DEF Fifo!FifoInit
<1>3. AppTypes /\ \A l \in Launches : cam[l] = "off" /\ hello[l] = "off" /\ ci[l] = 0
  BY LaunchAssumption DEF LaunchInit, AppTypes
<1>4. \A l \in Launches : CamInStep(l) /\ HelloInStep(l)
  BY <1>2, <1>3, Apps DEF LaunchInit, CamInStep, HelloInStep
<1>5. InTurn /\ \A l \in Launches : ~Current(l)
  BY <1>2, <1>3 DEF InTurn, Current
<1> QED
  BY <1>1, <1>3, <1>4, <1>5 DEF LaunchInv

LEMMA LaunchNextInv ==
  ASSUME ~AnyTime, ~InitWhileHeld, LaunchInv, [LaunchNext]_launchVars
  PROVE  LaunchInv'
<1>1. CASE UNCHANGED launchVars
  BY <1>1, SameRing, UnseenStep DEF launchVars
<1>2. ASSUME NEW l \in Launches, StartApps(l) \/ Camera(l) \/ HelloApp(l)
      PROVE  LaunchInv'
  BY <1>2, StartStep, CamSetupStep, CamCallStep, CamReturnStep, HelloCallStep, HelloReturnStep
     DEF Camera, HelloApp
<1>3. ASSUME NEW t \in Tasks, RbLock(t) \/ RbStep(t)
      PROVE  LaunchInv'
  BY <1>3, RingStep
<1> QED
  BY <1>1, <1>2, <1>3 DEF LaunchNext

\* When launcher is typed again only after hello's newline, and nxmutex_init finds
\* the lock free, the launches keep in step with the ring: it holds the next chunks
\* of the one current launch, whenever its hello begins to read.
THEOREM LaunchInvariant ==
  ASSUME ~AnyTime, ~InitWhileHeld
  PROVE  LaunchSpec => []LaunchInv
<1>1. LaunchInit => LaunchInv
  BY LaunchInitInv
<1>2. LaunchInv /\ [LaunchNext]_launchVars => LaunchInv'
  BY LaunchNextInv
<1> QED
  BY <1>1, <1>2, PTL DEF LaunchSpec

\* The types of g_rb and of the programs, across every rb_init.
THEOREM LaunchTypeCorrect ==
  ASSUME ~AnyTime, ~InitWhileHeld
  PROVE  LaunchSpec => []LaunchTypeOK
<1>1. LaunchInv => LaunchTypeOK
  BY DEF LaunchInv, AppTypes, RingInv, LaunchTypeOK
<1> QED
  BY <1>1, LaunchInvariant, PTL

\* Every rb_init (its memset, its nxmutex_init) finds the ring empty and no task of
\* an earlier launch within a call, although it takes no lock and the camera of the
\* launch before may still be running; its own hello may be within rb_read, but not
\* in the copy of a chunk.
THEOREM RbInitFindsRingQuiet ==
  ASSUME ~AnyTime, ~InitWhileHeld
  PROVE  LaunchSpec => []InitFindsRingQuiet
<1>1. LaunchInv => InitFindsRingQuiet
  BY Quiet DEF InitFindsRingQuiet
<1> QED
  BY <1>1, LaunchInvariant, PTL

\* What hello_main has printed when it ends is the image of its own launch, whole
\* and in order, through a ring of any depth.
THEOREM HelloPrintsItsImage ==
  ASSUME ~AnyTime, ~InitWhileHeld
  PROVE  LaunchSpec => []PrintsCompleteImage
<1>1. LaunchInv => PrintsCompleteImage
  BY DEF LaunchInv, HelloInStep, PrintsCompleteImage
<1> QED
  BY <1>1, LaunchInvariant, PTL
=============================================================================
