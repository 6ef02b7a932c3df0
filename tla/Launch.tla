------------------------------- MODULE Launch -------------------------------
(***************************************************************************)
(* The apps on the ring buffer: launcher_main (or the boot script rcS)     *)
(* starts a camera task and a hello task; the camera calls rb_init, talks  *)
(* to OpenMV, and pushes its chunks or fails before the first; hello polls *)
(* until it has read a chunk marked is_last.  The same two programs can be *)
(* started again, and all of them use the one g_rb and g_rb_lock.          *)
(*                                                                         *)
(* The calls are the statements of RingBuffer.  To them this module adds   *)
(* their callers and rb_init, which takes no lock.  A chunk is named by    *)
(* the launch it belongs to and its place: 0 is the metadata, Last the     *)
(* chunk with is_last.                                                     *)
(***************************************************************************)
EXTENDS RingBuffer

CONSTANTS
  Launches,  \* 1 .. n
  Cam,       \* Cam[l], Hello[l]: the tasks of launch l
  Hello,
  Last,      \* the number of data chunks of an image
  AnyTime,   \* TRUE: launcher may be typed at any time; FALSE: only after the
             \* hello of every earlier launch has printed its newline
  InitWhileHeld  \* TRUE: nxmutex_init may fall into a critical section of a task
                 \* that uses the lock, as nothing in the code prevents it;
                 \* FALSE: it finds the lock free

Chunk(l, i) == <<l, i>>
Image(l)    == [i \in 1 .. Last |-> Whole(Chunk(l, i))]

ASSUME LaunchAssumption ==
  /\ Launches \subseteq Nat
  /\ Last \in Nat \ {0}
  /\ Chunks = {Chunk(l, i) : l \in Launches, i \in 0 .. Last}
  /\ Tasks = {Cam[l] : l \in Launches} \cup {Hello[l] : l \in Launches}
  /\ \A k, l \in Launches : Cam[k] # Hello[l]
  /\ \A k, l \in Launches : k # l => Cam[k] # Cam[l] /\ Hello[k] # Hello[l]
  /\ {AnyTime, InitWhileHeld} \subseteq BOOLEAN

VARIABLES
  cam,      \* cam[l]: where camera_MSN2_main is
  ci,       \* ci[l]: the next chunk to push
  hello,    \* hello[l]: where hello_main is
  printed,  \* printed[l]: the data chunks hello has printed
  dropped   \* tasks that nxmutex_init has dropped from the wait list

appVars    == <<cam, ci, hello, printed, dropped>>
launchVars == <<vars, appVars>>

LaunchInit ==
  /\ Init
  /\ cam     = [l \in Launches |-> "off"]
  /\ ci      = [l \in Launches |-> 0]
  /\ hello   = [l \in Launches |-> "off"]
  /\ printed = [l \in Launches |-> <<>>]
  /\ dropped = {}

-----------------------------------------------------------------------------
(* launcher_main, rcS                                                      *)

MayLaunch(l) == \A k \in Launches : k < l => hello[k] = "ended"

\* Either task_create may fail; launcher goes on with the other one.
StartApps(l) ==
  /\ cam[l] = "off"
  /\ \A k \in Launches : k < l => cam[k] # "off"
  /\ AnyTime \/ MayLaunch(l)
  /\ \E r \in {"init", "none"} : cam' = [cam EXCEPT ![l] = r]
  /\ \E r \in {"poll", "none"} : hello' = [hello EXCEPT ![l] = r]
  /\ UNCHANGED <<vars, ci, printed, dropped>>

-----------------------------------------------------------------------------
(* camera_MSN2_main                                                        *)

\* rb_init: memset of g_rb, whoever uses it; the three assignments after it
\* store zeros over zeros.
RbInit(l) ==
  /\ cam[l] = "init"
  /\ cam' = [cam EXCEPT ![l] = "lockinit"]
  /\ slots' = [i \in Index |-> Whole(Zero)]
  /\ wr_ptr' = 0 /\ rd_ptr' = 0 /\ count' = 0
  /\ UNCHANGED <<holder, pc, op, slot, buf, ret, ci, hello, printed, dropped>>

\* The lock is zero, and every nxmutex_lock blocks, until the first nxmutex_init.
LockReady == \E l \in Launches : cam[l] \notin {"off", "none", "init", "lockinit"}

\* rb_init: nxmutex_init frees the lock and forgets the tasks blocked on it, some
\* or all of those that have called nxmutex_lock and not obtained it.
RbInitLock(l) ==
  /\ cam[l] = "lockinit"
  /\ InitWhileHeld \/ holder = NoTask
  /\ cam' = [cam EXCEPT ![l] = "link"]
  /\ holder' = NoTask
  /\ \E blocked \in SUBSET {t \in Tasks : pc[t] = "lock" /\ (holder # NoTask \/ ~LockReady)} :
       dropped' = dropped \cup blocked
  /\ UNCHANGED <<slots, wr_ptr, rd_ptr, count, pc, op, slot, buf, ret, ci, hello, printed>>

\* The dialogue over UART and SPI (CameraLink, Pipeline) ends in an image or in
\* a return before the first push.
CamLink(l) ==
  /\ cam[l] = "link"
  /\ \E r \in {"push", "failed"} : cam' = [cam EXCEPT ![l] = r]
  /\ UNCHANGED <<vars, ci, hello, printed, dropped>>

CamCall(l) ==
  /\ cam[l] = "push"
  /\ cam' = [cam EXCEPT ![l] = "called"]
  /\ Call(Cam[l], [fn |-> "rb_write", chunk |-> Chunk(l, ci[l])])
  /\ UNCHANGED <<ci, hello, printed, dropped>>

\* Mutant of CamReturn: a chunk that finds the ring full is not pushed again.
CamReturnNoRetry(l) ==
  /\ cam[l] = "called"
  /\ pc[Cam[l]] = "idle"
  /\ ci'  = [ci EXCEPT ![l] = @ + 1]
  /\ cam' = [cam EXCEPT ![l] = IF ci'[l] > Last THEN "ended" ELSE "push"]
  /\ UNCHANGED <<vars, hello, printed, dropped>>

\* Mutant of CamReturn: the loop over the chunks makes one round too many.
CamReturnOneMore(l) ==
  /\ cam[l] = "called"
  /\ pc[Cam[l]] = "idle"
  /\ ci'  = IF ret[Cam[l]] = 0 THEN [ci EXCEPT ![l] = @ + 1] ELSE ci
  /\ cam' = [cam EXCEPT ![l] = IF ci'[l] > Last + 1 THEN "ended" ELSE "push"]
  /\ UNCHANGED <<vars, hello, printed, dropped>>

\* rb_push: again while rb_write fails; then the next chunk, or the end.
CamReturn(l) ==
  /\ cam[l] = "called"
  /\ pc[Cam[l]] = "idle"
  /\ ci'  = IF ret[Cam[l]] = 0 THEN [ci EXCEPT ![l] = @ + 1] ELSE ci
  /\ cam' = [cam EXCEPT ![l] = IF ci'[l] > Last THEN "ended" ELSE "push"]
  /\ UNCHANGED <<vars, hello, printed, dropped>>

-----------------------------------------------------------------------------
(* hello_main                                                              *)

\* Nothing makes hello wait for the camera's rb_init.
HelloCall(l) ==
  /\ hello[l] = "poll"
  /\ hello' = [hello EXCEPT ![l] = "called"]
  /\ Call(Hello[l], [fn |-> "rb_read", chunk |-> Zero])
  /\ UNCHANGED <<cam, ci, printed, dropped>>

\* The payload is in the first half of a chunk, len and the flags in the second;
\* a chunk of zeros has no bytes and no flags.
IsData(c) == c.hi # Zero /\ c.hi[2] > 0

\* Mutant of IsLast: is_last is set on the chunk before the last.
IsLastEarly(c) == c.hi # Zero /\ c.hi[2] = Last - 1

IsLast(c) == c.hi # Zero /\ c.hi[2] = Last

\* Mutant of HelloReturn: done is not set.
HelloReturnForever(l) ==
  LET c == buf[Hello[l]] IN
  /\ hello[l] = "called"
  /\ pc[Hello[l]] = "idle"
  /\ printed' = IF ret[Hello[l]] = 0 /\ IsData(c)
                THEN [printed EXCEPT ![l] = Append(@, c)] ELSE printed
  /\ hello' = [hello EXCEPT ![l] = "poll"]
  /\ UNCHANGED <<vars, cam, ci, dropped>>

HelloReturn(l) ==
  LET c == buf[Hello[l]] IN
  /\ hello[l] = "called"
  /\ pc[Hello[l]] = "idle"
  /\ printed' = IF ret[Hello[l]] = 0 /\ IsData(c)
                THEN [printed EXCEPT ![l] = Append(@, c)] ELSE printed
  /\ hello' = [hello EXCEPT ![l] =
       IF ret[Hello[l]] = 0 /\ IsLast(c) THEN "ended" ELSE "poll"]
  /\ UNCHANGED <<vars, cam, ci, dropped>>

-----------------------------------------------------------------------------
\* The statements of ring_buffer.c.
RbLock(t)  == LockReady /\ t \notin dropped /\ Lock(t) /\ UNCHANGED appVars
RbStep(t)  == (Write(t) \/ Read(t) \/ Unlock(t)) /\ UNCHANGED appVars

Camera(l)   == RbInit(l) \/ RbInitLock(l) \/ CamLink(l) \/ CamCall(l) \/ CamReturn(l)
HelloApp(l) == HelloCall(l) \/ HelloReturn(l)

LaunchNext ==
  \/ \E l \in Launches : StartApps(l) \/ Camera(l) \/ HelloApp(l)
  \/ \E t \in Tasks : RbLock(t) \/ RbStep(t)

LaunchSpec == LaunchInit /\ [][LaunchNext]_launchVars

(* Both apps have priority 100 and are scheduled round robin, and the lock *)
(* serves its waiters in order.  rb_init waits for nobody: if it must not  *)
(* meet a held lock, it still runs in one of the moments it is free, as it *)
(* is while hello sleeps between two polls.  Nobody need type launcher.    *)
LaunchFairSpec ==
  /\ LaunchSpec
  /\ \A l \in Launches : /\ WF_launchVars(Camera(l)) /\ WF_launchVars(HelloApp(l))
                         /\ SF_launchVars(RbInitLock(l))
  /\ \A t \in Tasks : SF_launchVars(RbLock(t)) /\ WF_launchVars(RbStep(t))

-----------------------------------------------------------------------------
(* Properties                                                              *)

\* Type invariant: that of g_rb, also right after a second rb_init, and where
\* the two programs are.
LaunchTypeOK ==
  /\ TypeOK
  /\ cam \in [Launches -> {"off", "none", "init", "lockinit", "link", "push",
                           "called", "ended", "failed"}]
  /\ ci \in [Launches -> 0 .. Last + 1]
  /\ hello \in [Launches -> {"off", "none", "poll", "called", "ended"}]
  /\ printed \in [Launches -> Seq([lo : Content, hi : Content])]
  /\ dropped \subseteq Tasks

\* hello's newline is the sign that the apps can be started again, although the
\* camera task may still be running and rb_init takes no lock: every rb_init
\* finds the ring empty and no task within a call but the hello of its own
\* launch, which may hold the lock but finds nothing to copy.
InitFindsRingQuiet ==
  \A l \in Launches : cam[l] \in {"init", "lockinit"} =>
    /\ count = 0
    /\ \A t \in Tasks \ {Hello[l]} : pc[t] = "idle"
    /\ pc[Hello[l]] \in {"idle", "lock", "r_check", "unlock"}

\* README: "the complete JPEG file encoded as ASCII hex".  What the hello of a
\* launch prints when it ends is the image of that launch, whole and in order.
PrintsCompleteImage ==
  \A l \in Launches : hello[l] = "ended" => printed[l] = Image(l)

\* Once the camera has an image, hello prints its last chunk and ends.  A hello
\* never ends only if its camera failed or was not created, or if it called
\* rb_read before the first rb_init and was dropped from the wait list.
HelloEnds ==
  \A l \in Launches : hello[l] \in {"poll", "called"} ~>
    hello[l] = "ended" \/ cam[l] \in {"failed", "none"} \/ Hello[l] \in dropped

\* No call is stuck behind the lock: every rb_ call returns, on the full and
\* empty paths too, unless nxmutex_init dropped its caller or no camera was ever
\* created to initialise the lock.
EveryCallReturns ==
  \A t \in Tasks : pc[t] # "idle" ~>
    pc[t] = "idle" \/ t \in dropped \/ \A l \in Launches : cam[l] \in {"off", "none"}
=============================================================================
