------------------------------ MODULE AsyncIO ------------------------------
(* AsyncImageLoader of bodytrack: a thread loads the image sets of all frames *)
(* into a buffer and waits when it is full; the tracker takes them out and    *)
(* waits when it is empty.  Both test the size of the buffer without a lock,  *)
(* and notify the other's condition without its mutex: a step is one access   *)
(* to the counters of a condition.                                            *)
EXTENDS Integers, Sequences, Condition

CONSTANTS mNumFrames, mBufferSize

VARIABLES mImageBuffer,         \* the frames in it
          mCurrentFrame, mFailed,
          cond,                 \* mCondEmpty, mCondFull
          pc,                   \* where the two threads are
          taken                 \* the frames that were requested and delivered

vars == <<mImageBuffer, mCurrentFrame, mFailed, cond, pc, taken>>

Parties == {"loader", "tracker"}

(* The condition that each waits for, and the one it notifies.                *)
WaitsFor(p) == IF p = "loader" THEN "mCondFull" ELSE "mCondEmpty"
Notifies(p) == IF p = "loader" THEN "mCondEmpty" ELSE "mCondFull"
Other(p)    == IF p = "loader" THEN "tracker" ELSE "loader"

Init ==
    /\ mImageBuffer = <<>>
    /\ mCurrentFrame = 0
    /\ mFailed = FALSE
    /\ cond = [c \in {"mCondEmpty", "mCondFull"} |-> NewCondition]
    /\ pc = [p \in Parties |-> "begin"]
    /\ taken = <<>>

Goto(p, label) == pc' = [pc EXCEPT ![p] = label]

-----------------------------------------------------------------------------
(* Condition::Wait and NotifyOne, access by access.                           *)

Wait(p) ==
    /\ pc[p] = "wait"
    /\ cond' = [cond EXCEPT ![WaitsFor(p)] = Counted(@)]
    /\ Goto(p, "test")
    /\ UNCHANGED <<mImageBuffer, mCurrentFrame, mFailed, taken>>

(* The ticket may come between the test and the sleep.                        *)
TestTicket(p) ==
    /\ pc[p] = "test"
    /\ Goto(p, IF HasTicket(cond[WaitsFor(p)]) THEN "take" ELSE "toSleep")
    /\ UNCHANGED <<mImageBuffer, mCurrentFrame, mFailed, cond, taken>>

Sleep(p) ==
    /\ pc[p] = "toSleep"
    /\ Goto(p, "asleep")
    /\ UNCHANGED <<mImageBuffer, mCurrentFrame, mFailed, cond, taken>>

TakeOneTicket(p) ==
    /\ pc[p] = "take"
    /\ cond' = [cond EXCEPT ![WaitsFor(p)].nWakeupTickets = @ - 1]
    /\ Goto(p, "leave")
    /\ UNCHANGED <<mImageBuffer, mCurrentFrame, mFailed, taken>>

Leave(p) ==
    /\ pc[p] = "leave"
    /\ cond' = [cond EXCEPT ![WaitsFor(p)].nWaiting = @ - 1]
    /\ Goto(p, IF p = "loader" THEN "next" ELSE "empty")
    /\ UNCHANGED <<mImageBuffer, mCurrentFrame, mFailed, taken>>

AfterNotify(p) == IF p = "loader" THEN "full" ELSE "begin"

NotifyTest(p) ==
    /\ pc[p] = "notify"
    /\ Goto(p, IF Slack(cond[Notifies(p)]) > 0 THEN "signal" ELSE AfterNotify(p))
    /\ UNCHANGED <<mImageBuffer, mCurrentFrame, mFailed, cond, taken>>

(* pthread_cond_signal wakes the other one up if it sleeps by now.            *)
NotifySignal(p) ==
    /\ pc[p] = "signal"
    /\ cond' = [cond EXCEPT ![Notifies(p)].nWakeupTickets = @ + 1]
    /\ pc' = [pc EXCEPT ![p] = AfterNotify(p),
                        ![Other(p)] = IF @ = "asleep" THEN "test" ELSE @]
    /\ UNCHANGED <<mImageBuffer, mCurrentFrame, mFailed, taken>>

-----------------------------------------------------------------------------
(* Run: the loader.                                                           *)

(* LoadSet may fail; the set is pushed all the same.                          *)
LoadSet ==
    /\ pc["loader"] = "begin"
    /\ mCurrentFrame < mNumFrames /\ ~mFailed
    /\ mFailed' \in BOOLEAN
    /\ Goto("loader", "push")
    /\ UNCHANGED <<mImageBuffer, mCurrentFrame, cond, taken>>

Push ==
    /\ pc["loader"] = "push"
    /\ mImageBuffer' = Append(mImageBuffer, mCurrentFrame)
    /\ Goto("loader", "notify")
    /\ UNCHANGED <<mCurrentFrame, mFailed, cond, taken>>

TestFull ==
    /\ pc["loader"] = "full"
    /\ Goto("loader", IF Len(mImageBuffer) >= mBufferSize THEN "wait" ELSE "next")
    /\ UNCHANGED <<mImageBuffer, mCurrentFrame, mFailed, cond, taken>>

NextFrame ==
    /\ pc["loader"] = "next"
    /\ mCurrentFrame' = mCurrentFrame + 1
    /\ Goto("loader", "begin")
    /\ UNCHANGED <<mImageBuffer, mFailed, cond, taken>>

(* GetNextImageSet, once for every frame; after a failure no more.            *)
Request ==
    /\ pc["tracker"] = "begin"
    /\ Len(taken) < mNumFrames
    /\ Goto("tracker", IF mFailed THEN "refused" ELSE "empty")
    /\ UNCHANGED <<mImageBuffer, mCurrentFrame, mFailed, cond, taken>>

TestEmpty ==
    /\ pc["tracker"] = "empty"
    /\ Goto("tracker", IF mImageBuffer = <<>> THEN "wait" ELSE "pop")
    /\ UNCHANGED <<mImageBuffer, mCurrentFrame, mFailed, cond, taken>>

Pop ==
    /\ pc["tracker"] = "pop"
    /\ taken' = Append(taken, Head(mImageBuffer))
    /\ mImageBuffer' = Tail(mImageBuffer)
    /\ Goto("tracker", "notify")
    /\ UNCHANGED <<mCurrentFrame, mFailed, cond>>

-----------------------------------------------------------------------------

Step(p) ==
    \/ Wait(p) \/ TestTicket(p) \/ Sleep(p) \/ TakeOneTicket(p) \/ Leave(p)
    \/ NotifyTest(p) \/ NotifySignal(p)

LoaderStep  == Step("loader") \/ LoadSet \/ Push \/ TestFull \/ NextFrame
TrackerStep == Step("tracker") \/ Request \/ TestEmpty \/ Pop

Next == LoaderStep \/ TrackerStep

Spec == Init /\ [][Next]_vars

(* The scheduler runs both threads.                                           *)
FairSpec == Spec /\ WF_vars(LoaderStep) /\ WF_vars(TrackerStep)

-----------------------------------------------------------------------------
(* Properties.                                                                *)

(* "if buffer is empty, wait until images are loaded": if nothing fails the   *)
(* tracker gets every frame, in order.                                        *)
AllFrames == [i \in 1 .. mNumFrames |-> i - 1]
EveryFrameIsDelivered == []~mFailed => <>(taken = AllFrames)
=============================================================================
