------------------------- MODULE VisibleFrames_proofs -------------------------
(***************************************************************************)
(* Theorems about VisibleFrames for every number of swapchain images.      *)
(***************************************************************************)
EXTENDS VisibleFrames, TLAPS

\* Semaphores of different slots and images are different.
LEMMA SemaphoresDiffer ==
    /\ \A s \in Slots : ImageAvailable(s) \in Semaphores /\ ImageAvailable(s) # NoSemaphore
    /\ \A i \in SwapchainImages : RenderFinished(i) \in Semaphores /\ RenderFinished(i) # NoSemaphore
    /\ \A s, t \in Slots : ImageAvailable(s) = ImageAvailable(t) => s = t
    /\ \A i, j \in SwapchainImages : RenderFinished(i) = RenderFinished(j) => i = j
    /\ \A s \in Slots, i \in SwapchainImages : ImageAvailable(s) # RenderFinished(i)
    /\ NoSemaphore \notin Semaphores
BY DEF ImageAvailable, RenderFinished, Semaphores, NoSemaphore, Slots

LEMMA FollowingSlot == \A s \in Slots : Following(s) \in Slots
BY DEF Following, Slots

\* A fence tells of the submission of its slot.
FencesTell ==
    /\ \A s \in Slots : fence[s] = "signaled" => pending[s] = NoImage
    /\ loop \in {"wait", "acquire", "record", "submit", "present"} =>
          \A s \in Slots : fence[s] = "signaled" \/ pending[s] # NoImage
    /\ loop \in {"acquire", "record", "submit"} => fence[slot] = "signaled"

\* The acquire semaphore of a slot is used by its submission, by the present of its
\* abandoned frame, or by the frame that has just been acquired, and by one of them only;
\* or nothing uses it any more, because such a present was refused.
AcquiresAreUsed ==
    \A s \in Slots :
        /\ pending[s] # NoImage => semaphore[ImageAvailable(s)] # "free"
        /\ loop \in {"record", "submit"} => semaphore[ImageAvailable(slot)] # "free"
        /\ semaphore[ImageAvailable(s)] # "free" =>
              \/ pending[s] # NoImage
              \/ AbandonedPresentWaits(s)
              \/ AbandonedPresentRefused(s)
              \/ loop \in {"record", "submit"} /\ slot = s
              \/ loop \in {"closing", "undefined"}
        /\ AbandonedPresentWaits(s) =>
              /\ pending[s] = NoImage
              /\ loop \in {"record", "submit", "present"} => slot # s

\* Exactly the queued images have a present, which waits for the semaphore of the image or
\* for an acquire semaphore, and no two presents wait for the same one.
PresentsWait ==
    \A i \in SwapchainImages :
        /\ owner[i] = "queued" <=> present[i] # NoSemaphore
        /\ present[i] # NoSemaphore => semaphore[present[i]] # "free"
        /\ present[i] = NoSemaphore \/ present[i] = RenderFinished(i)
              \/ \E s \in Slots : present[i] = ImageAvailable(s)
        /\ \A j \in SwapchainImages : present[i] # NoSemaphore /\ present[i] = present[j] => i = j

\* The host keeps the image of a refused present, and starts no frame with it.
RefusedAreKept ==
    \A i \in SwapchainImages : refused[i] # NoSemaphore =>
        /\ owner[i] = "host"
        /\ loop \in {"record", "submit", "present"} => i # image

\* The host has the image of the frame it is at and those whose present was refused; an image
\* whose semaphore is in use or which a submission renders to is on its way to the display, or
\* its present was refused.
ImagesAreOwned ==
    /\ loop \in {"record", "submit", "present"} => owner[image] = "host"
    /\ \A i \in SwapchainImages :
        /\ owner[i] = "host" => i = image \/ loop = "closing" \/ refused[i] # NoSemaphore
        /\ \A s, t \in Slots : pending[s] = i /\ pending[t] = i => s = t
        /\ (\E s \in Slots : pending[s] = i) => semaphore[RenderFinished(i)] = "signalling"
        /\ semaphore[RenderFinished(i)] # "free" =>
              \/ present[i] = RenderFinished(i)
              \/ refused[i] # NoSemaphore
              \/ loop = "present" /\ image = i
              \/ loop = "closing"
        /\ loop = "present" /\ image = i => semaphore[RenderFinished(i)] # "free"

FramesInv ==
    /\ FramesTypeOK /\ FencesTell /\ AcquiresAreUsed /\ PresentsWait
    /\ RefusedAreKept /\ ImagesAreOwned

\* Nothing is in use when there is no submission and no present.
LEMMA AllIdle ==
    ASSUME FramesTypeOK, loop \notin {"acquire", "record", "submit", "present"},
           \A s \in Slots : pending[s] = NoImage,
           \A i \in SwapchainImages :
              present[i] = NoSemaphore /\ owner[i] = "engine" /\ refused[i] = NoSemaphore,
           \A m \in Semaphores : semaphore[m] = "free",
           loop = "wait" => \A s \in Slots : fence[s] = "signaled"
    PROVE  FramesInv
<1>1. FencesTell
  BY DEF FencesTell, FramesTypeOK
<1>2. AcquiresAreUsed
  BY SemaphoresDiffer DEF AcquiresAreUsed, AbandonedPresentWaits, AbandonedPresentRefused
<1>3. PresentsWait
  BY DEF PresentsWait
<1>4. RefusedAreKept /\ ImagesAreOwned
  BY SemaphoresDiffer, SwapchainAssumption DEF RefusedAreKept, ImagesAreOwned
<1> QED BY <1>1, <1>2, <1>3, <1>4 DEF FramesInv

LEMMA FramesInvInit == FramesInit => FramesInv
<1> SUFFICES ASSUME FramesInit PROVE FramesInv
  OBVIOUS
<1>1. FramesTypeOK
  BY DEF FramesInit, Nothing, FramesTypeOK, Slots
<1> QED BY <1>1, AllIdle DEF FramesInit, Nothing

-----------------------------------------------------------------------------
(* Steps of the host.                                                       *)

\* Preparation and shutdown find no submission and no present, and leave none.
LEMMA RenewedInv == FramesInv /\ (Prepare \/ Shutdown \/ Start) => FramesInv'
<1> SUFFICES ASSUME FramesInv, Prepare \/ Shutdown \/ Start PROVE FramesInv'
  OBVIOUS
<1>1. FramesTypeOK'
  <2>1. "even" \in Slots
    BY DEF Slots
  <2>2. CASE Prepare
    BY <2>1, <2>2 DEF FramesInv, FramesTypeOK, Prepare
  <2>3. CASE Shutdown
    BY <2>1, <2>3 DEF FramesInv, FramesTypeOK, Shutdown
  <2>4. CASE Start
    BY <2>1, <2>4, SemaphoresDiffer DEF FramesInv, FramesTypeOK, Start
  <2> QED BY <2>2, <2>3, <2>4
<1>2. /\ \A s \in Slots : pending'[s] = NoImage
      /\ \A i \in SwapchainImages :
            present'[i] = NoSemaphore /\ owner'[i] = "engine" /\ refused'[i] = NoSemaphore
      /\ \A m \in Semaphores : semaphore'[m] = "free"
  BY DEF Prepare, Shutdown, Start, DeviceIdle
<1>3. /\ loop' \notin {"acquire", "record", "submit", "present"}
      /\ loop' = "wait" => \A s \in Slots : fence'[s] = "signaled"
  BY DEF Prepare, Shutdown, Start
<1>4. FencesTell'
  BY <1>1, <1>2, <1>3 DEF FencesTell, FramesTypeOK
<1>5. AcquiresAreUsed'
  BY <1>2, <1>3, SemaphoresDiffer DEF AcquiresAreUsed, AbandonedPresentWaits, AbandonedPresentRefused
<1>6. PresentsWait'
  BY <1>2 DEF PresentsWait
<1>7. RefusedAreKept' /\ ImagesAreOwned'
  BY <1>2, <1>3, SemaphoresDiffer, SwapchainAssumption DEF RefusedAreKept, ImagesAreOwned
<1> QED BY <1>1, <1>4, <1>5, <1>6, <1>7 DEF FramesInv

LEMMA WaitInv == FramesInv /\ (Resize \/ WaitForFence \/ AcquireFails \/ Record) => FramesInv'
<1> SUFFICES ASSUME FramesInv, Resize \/ WaitForFence \/ AcquireFails \/ Record PROVE FramesInv'
  OBVIOUS
<1>1. FramesTypeOK'
  BY DEF FramesInv, FramesTypeOK, Resize, WaitForFence, AcquireFails, Record
<1>2. FencesTell'
  BY DEF FramesInv, FramesTypeOK, FencesTell, Resize, WaitForFence, AcquireFails, Record
<1>3. AcquiresAreUsed'
  BY DEF FramesInv, FramesTypeOK, AcquiresAreUsed, AbandonedPresentWaits, AbandonedPresentRefused, Resize, WaitForFence,
     AcquireFails, Record
<1>4. PresentsWait'
  BY DEF FramesInv, PresentsWait, Resize, WaitForFence, AcquireFails, Record
<1>5. RefusedAreKept' /\ ImagesAreOwned'
  BY DEF FramesInv, FramesTypeOK, RefusedAreKept, ImagesAreOwned, Resize, WaitForFence, AcquireFails, Record
<1> QED BY <1>1, <1>2, <1>3, <1>4, <1>5 DEF FramesInv

LEMMA AcquireInv == FramesInv /\ AcquireFrame => FramesInv'
<1> SUFFICES ASSUME FramesInv, AcquireFrame PROVE FramesInv'
  OBVIOUS
<1> USE SemaphoresDiffer, SwapchainAssumption
<1>1. FramesTypeOK'
  BY DEF FramesInv, FramesTypeOK, AcquireFrame
<1>2. FencesTell'
  BY DEF FramesInv, FramesTypeOK, FencesTell, AcquireFrame
<1>3. AcquiresAreUsed'
  BY DEF FramesInv, FramesTypeOK, FencesTell, AcquiresAreUsed, AbandonedPresentWaits,
     AbandonedPresentRefused, AcquireFrame, Unused
<1>4. PresentsWait'
  BY DEF FramesInv, FramesTypeOK, PresentsWait, AcquireFrame, Unused
<1>5. RefusedAreKept' /\ ImagesAreOwned'
  BY DEF FramesInv, FramesTypeOK, PresentsWait, RefusedAreKept, ImagesAreOwned, AcquireFrame, Unused
<1> QED BY <1>1, <1>2, <1>3, <1>4, <1>5 DEF FramesInv

\* What a present does to its image, queued or refused: the image is acquired, the host's and
\* not presented before.
LEMMA ImageGoes ==
    ASSUME FramesInv, loop \in {"record", "submit", "present"}, NEW m \in Semaphores,
           QueuePresent(m) \/ RefusePresent(m)
    PROVE  /\ image \in SwapchainImages
           /\ owner[image] = "host" /\ present[image] = NoSemaphore /\ refused[image] = NoSemaphore
           /\ owner' \in [SwapchainImages -> {"engine", "host", "queued", "shown"}]
           /\ present' \in [SwapchainImages -> Semaphores \cup {NoSemaphore}]
           /\ refused' \in [SwapchainImages -> Semaphores \cup {NoSemaphore}]
           /\ \A i \in SwapchainImages : i # image =>
                 owner'[i] = owner[i] /\ present'[i] = present[i] /\ refused'[i] = refused[i]
           /\ \/ owner'[image] = "queued" /\ present'[image] = m /\ refused'[image] = NoSemaphore
              \/ owner'[image] = "host" /\ present'[image] = NoSemaphore /\ refused'[image] = m
<1>1. /\ image \in SwapchainImages /\ owner[image] = "host"
      /\ present[image] = NoSemaphore /\ refused[image] = NoSemaphore
  BY SwapchainAssumption DEF FramesInv, FramesTypeOK, ImagesAreOwned, PresentsWait, RefusedAreKept
<1>2. CASE QueuePresent(m)
  BY <1>1, <1>2 DEF QueuePresent, FramesInv, FramesTypeOK
<1>3. CASE RefusePresent(m)
  BY <1>1, <1>3 DEF RefusePresent, FramesInv, FramesTypeOK
<1> QED BY <1>2, <1>3

\* An abandoned frame, whatever becomes of the fence.
LEMMA AbandonInv ==
    ASSUME FramesInv, loop \in {"record", "submit"}, AbandonFrame, loop' \in {"wait", "closing"},
           fence' \in [Slots -> {"signaled", "unsignaled", "null"}],
           \A s \in Slots : fence'[s] # fence[s] => fence'[s] \in {"signaled", "null"} /\ s = slot,
           loop' = "wait" => fence'[slot] # "null",
           UNCHANGED <<semaphore, pending>>
    PROVE  FramesInv'
<1> DEFINE m == ImageAvailable(slot)
<1>1. m \in Semaphores /\ slot \in Slots /\ Following(slot) \in Slots
  BY SemaphoresDiffer, FollowingSlot DEF FramesInv, FramesTypeOK
<1>2. /\ image \in SwapchainImages
      /\ owner[image] = "host" /\ present[image] = NoSemaphore /\ refused[image] = NoSemaphore
      /\ owner' \in [SwapchainImages -> {"engine", "host", "queued", "shown"}]
      /\ present' \in [SwapchainImages -> Semaphores \cup {NoSemaphore}]
      /\ refused' \in [SwapchainImages -> Semaphores \cup {NoSemaphore}]
      /\ \A i \in SwapchainImages : i # image =>
            owner'[i] = owner[i] /\ present'[i] = present[i] /\ refused'[i] = refused[i]
      /\ \/ owner'[image] = "queued" /\ present'[image] = m /\ refused'[image] = NoSemaphore
         \/ owner'[image] = "host" /\ present'[image] = NoSemaphore /\ refused'[image] = m
  BY <1>1, ImageGoes DEF AbandonFrame
<1>3. slot' = Following(slot) /\ image' = NoImage /\ suboptimal' = FALSE
  BY DEF AbandonFrame
<1>4. FramesTypeOK'
  BY <1>1, <1>2, <1>3 DEF FramesInv, FramesTypeOK
<1>5. FencesTell'
  BY <1>1, <1>3 DEF FramesInv, FramesTypeOK, FencesTell
<1>6. AcquiresAreUsed'
  BY <1>1, <1>2, <1>3, SemaphoresDiffer
     DEF FramesInv, FramesTypeOK, FencesTell, AcquiresAreUsed, AbandonedPresentWaits,
         AbandonedPresentRefused
<1>7. PresentsWait'
  BY <1>1, <1>2, <1>3, SemaphoresDiffer
     DEF FramesInv, FramesTypeOK, AcquiresAreUsed, AbandonedPresentWaits, PresentsWait
<1>8. RefusedAreKept' /\ ImagesAreOwned'
  BY <1>1, <1>2, <1>3, SemaphoresDiffer, SwapchainAssumption
     DEF FramesInv, FramesTypeOK, RefusedAreKept, ImagesAreOwned
<1> QED BY <1>4, <1>5, <1>6, <1>7, <1>8 DEF FramesInv

LEMMA RecordFailsInv == FramesInv /\ RecordFails => FramesInv'
<1> SUFFICES ASSUME FramesInv, RecordFails PROVE FramesInv'
  OBVIOUS
<1>1. CASE loop' \in {"wait", "closing"} /\ AbandonFrame
  BY <1>1, AbandonInv DEF RecordFails, FramesInv, FramesTypeOK, FencesTell
<1>2. CASE loop' = "closing" /\ UNCHANGED <<slot, image, suboptimal, owner, present, refused>>
  BY <1>2 DEF RecordFails, FramesInv, FramesTypeOK, FencesTell, AcquiresAreUsed,
     AbandonedPresentWaits, AbandonedPresentRefused, PresentsWait, RefusedAreKept, ImagesAreOwned
<1> QED BY <1>1, <1>2 DEF RecordFails

LEMMA SubmitFailsInv == FramesInv /\ SubmitFails => FramesInv'
BY AbandonInv DEF SubmitFails, FramesInv, FramesTypeOK

LEMMA SubmitInv == FramesInv /\ Submit => FramesInv'
<1> SUFFICES ASSUME FramesInv, Submit PROVE FramesInv'
  OBVIOUS
<1> USE SemaphoresDiffer, SwapchainAssumption
<1>1. FramesTypeOK'
  BY DEF FramesInv, FramesTypeOK, Submit
<1>2. FencesTell'
  BY DEF FramesInv, FramesTypeOK, FencesTell, Submit
<1>3. AcquiresAreUsed'
  BY DEF FramesInv, FramesTypeOK, AcquiresAreUsed, AbandonedPresentWaits, AbandonedPresentRefused, Submit
<1>4. PresentsWait'
  BY DEF FramesInv, FramesTypeOK, PresentsWait, Submit
<1>5. RefusedAreKept' /\ ImagesAreOwned'
  BY DEF FramesInv, FramesTypeOK, PresentsWait, RefusedAreKept, ImagesAreOwned, Submit
<1> QED BY <1>1, <1>2, <1>3, <1>4, <1>5 DEF FramesInv

LEMMA PresentInv == FramesInv /\ Present => FramesInv'
<1> SUFFICES ASSUME FramesInv, Present PROVE FramesInv'
  OBVIOUS
<1> DEFINE m == RenderFinished(image)
<1>1. image \in SwapchainImages /\ m \in Semaphores /\ slot \in Slots /\ Following(slot) \in Slots
  BY SemaphoresDiffer, FollowingSlot DEF FramesInv, FramesTypeOK, Present
<1>2. /\ owner[image] = "host" /\ present[image] = NoSemaphore /\ refused[image] = NoSemaphore
      /\ owner' \in [SwapchainImages -> {"engine", "host", "queued", "shown"}]
      /\ present' \in [SwapchainImages -> Semaphores \cup {NoSemaphore}]
      /\ refused' \in [SwapchainImages -> Semaphores \cup {NoSemaphore}]
      /\ \A i \in SwapchainImages : i # image =>
            owner'[i] = owner[i] /\ present'[i] = present[i] /\ refused'[i] = refused[i]
      /\ \/ owner'[image] = "queued" /\ present'[image] = m /\ refused'[image] = NoSemaphore
         \/ owner'[image] = "host" /\ present'[image] = NoSemaphore /\ refused'[image] = m
  BY <1>1, ImageGoes DEF Present
<1>3. /\ loop = "present" /\ loop' \in {"wait", "recover", "closing"}
      /\ slot' = Following(slot) /\ image' = NoImage /\ suboptimal' = FALSE
      /\ UNCHANGED <<fence, semaphore, pending>>
  BY DEF Present
<1>4. FramesTypeOK'
  BY <1>1, <1>2, <1>3 DEF FramesInv, FramesTypeOK
<1>5. FencesTell'
  BY <1>1, <1>3 DEF FramesInv, FramesTypeOK, FencesTell
<1>6. AcquiresAreUsed'
  BY <1>1, <1>2, <1>3, SemaphoresDiffer
     DEF FramesInv, FramesTypeOK, AcquiresAreUsed, AbandonedPresentWaits, AbandonedPresentRefused
<1>7. PresentsWait'
  BY <1>1, <1>2, <1>3, SemaphoresDiffer
     DEF FramesInv, FramesTypeOK, PresentsWait, ImagesAreOwned
<1>8. RefusedAreKept' /\ ImagesAreOwned'
  BY <1>1, <1>2, <1>3, SemaphoresDiffer, SwapchainAssumption
     DEF FramesInv, FramesTypeOK, PresentsWait, RefusedAreKept, ImagesAreOwned
<1> QED BY <1>4, <1>5, <1>6, <1>7, <1>8 DEF FramesInv

-----------------------------------------------------------------------------
(* Steps of the driver.                                                     *)

LEMMA SignalInv == ASSUME FramesInv, NEW s \in Slots, SignalAcquired(s) PROVE FramesInv'
<1> USE SemaphoresDiffer
<1>1. FramesTypeOK'
  BY DEF FramesInv, FramesTypeOK, SignalAcquired
<1>2. FencesTell' /\ AcquiresAreUsed'
  BY DEF FramesInv, FramesTypeOK, FencesTell, AcquiresAreUsed, AbandonedPresentWaits, AbandonedPresentRefused, SignalAcquired
<1>3. PresentsWait'
  BY DEF FramesInv, FramesTypeOK, PresentsWait, SignalAcquired
<1>4. RefusedAreKept' /\ ImagesAreOwned'
  BY DEF FramesInv, FramesTypeOK, RefusedAreKept, ImagesAreOwned, SignalAcquired
<1> QED BY <1>1, <1>2, <1>3, <1>4 DEF FramesInv

LEMMA ExecuteInv == ASSUME FramesInv, NEW s \in Slots, Execute(s), loop # "undefined" PROVE FramesInv'
<1> USE SemaphoresDiffer, SwapchainAssumption
<1>1. FramesTypeOK'
  BY DEF FramesInv, FramesTypeOK, Execute
<1>2. FencesTell'
  BY DEF FramesInv, FramesTypeOK, FencesTell, Execute
<1>3. AcquiresAreUsed'
  BY DEF FramesInv, FramesTypeOK, FencesTell, AcquiresAreUsed, AbandonedPresentWaits, AbandonedPresentRefused, Execute
<1>4. PresentsWait'
  BY DEF FramesInv, FramesTypeOK, AcquiresAreUsed, AbandonedPresentWaits, AbandonedPresentRefused, PresentsWait, Execute
<1>5. RefusedAreKept' /\ ImagesAreOwned'
  BY DEF FramesInv, FramesTypeOK, RefusedAreKept, ImagesAreOwned, Execute
<1> QED BY <1>1, <1>2, <1>3, <1>4, <1>5 DEF FramesInv

LEMMA DisplayInv ==
    ASSUME FramesInv, NEW i \in SwapchainImages, Display(i) PROVE FramesInv'
<1> USE SemaphoresDiffer, SwapchainAssumption
<1>1. FramesTypeOK'
  BY DEF FramesInv, FramesTypeOK, Display
<1>2. FencesTell'
  BY DEF FramesInv, FencesTell, Display
<1>3. AcquiresAreUsed'
  BY DEF FramesInv, FramesTypeOK, AcquiresAreUsed, AbandonedPresentWaits, AbandonedPresentRefused, PresentsWait, Display
<1>4. PresentsWait'
  BY DEF FramesInv, FramesTypeOK, PresentsWait, Display
<1>5. RefusedAreKept' /\ ImagesAreOwned'
  BY DEF FramesInv, FramesTypeOK, PresentsWait, RefusedAreKept, ImagesAreOwned, Display
<1> QED BY <1>1, <1>2, <1>3, <1>4, <1>5 DEF FramesInv

LEMMA GiveBackInv ==
    ASSUME FramesInv, NEW i \in SwapchainImages, GiveBack(i) PROVE FramesInv'
<1>1. FramesTypeOK' /\ FencesTell' /\ AcquiresAreUsed'
  BY DEF FramesInv, FramesTypeOK, FencesTell, AcquiresAreUsed, AbandonedPresentWaits, AbandonedPresentRefused, GiveBack
<1>2. PresentsWait' /\ RefusedAreKept' /\ ImagesAreOwned'
  BY DEF FramesInv, FramesTypeOK, PresentsWait, RefusedAreKept, ImagesAreOwned, GiveBack
<1> QED BY <1>1, <1>2 DEF FramesInv

LEMMA FramesInvNext == FramesInv /\ [FramesNext]_frameVars => FramesInv'
<1> SUFFICES ASSUME FramesInv, [FramesNext]_frameVars PROVE FramesInv'
  OBVIOUS
<1>1. CASE HostStep
  BY <1>1, RenewedInv, WaitInv, AcquireInv, RecordFailsInv, SubmitInv, SubmitFailsInv, PresentInv
     DEF HostStep
<1>2. CASE Driver
  BY <1>2, SignalInv, ExecuteInv, DisplayInv, GiveBackInv DEF Driver
<1>3. CASE UNCHANGED frameVars
  BY <1>3 DEF frameVars, FramesInv, FramesTypeOK, FencesTell, AcquiresAreUsed,
     AbandonedPresentWaits, AbandonedPresentRefused, PresentsWait, RefusedAreKept, ImagesAreOwned
<1> QED BY <1>1, <1>2, <1>3 DEF FramesNext

-----------------------------------------------------------------------------
(* The theorems.                                                            *)

THEOREM FramesInvHolds == FramesSpec => []FramesInv
BY FramesInvInit, FramesInvNext, PTL DEF FramesSpec

\* Types, and a frame is acquired exactly while it is at work.
THEOREM FramesTypeCorrect == FramesSpec => []FramesTypeOK
<1>1. FramesInv => FramesTypeOK
  BY DEF FramesInv
<1> QED BY <1>1, FramesInvHolds, PTL

\* After the wait for its fence a slot is idle, but for the present of an abandoned frame.
THEOREM SlotsAreIdle == FramesSpec => []SlotIsIdle
<1>1. FramesInv => SlotIsIdle
  <2> SUFFICES ASSUME FramesInv PROVE SlotIsIdle
    OBVIOUS
  <2>1. loop \in {"acquire", "record", "submit"} => pending[slot] = NoImage /\ fence[slot] = "signaled"
    BY DEF FramesInv, FramesTypeOK, FencesTell
  <2>2. ASSUME loop = "acquire", ~AbandonedPresentWaits(slot), ~AbandonedPresentRefused(slot)
        PROVE  Unused(ImageAvailable(slot))
    BY <2>1, <2>2, SemaphoresDiffer
       DEF FramesInv, FramesTypeOK, FencesTell, AcquiresAreUsed, AbandonedPresentWaits, AbandonedPresentRefused, Unused
  <2> QED BY <2>1, <2>2 DEF SlotIsIdle
<1> QED BY <1>1, FramesInvHolds, PTL

\* The render-finished semaphore of an acquired image is free, and nothing renders to the image.
THEOREM ImagesAreIdle == FramesSpec => []ImageIsIdle
<1>1. FramesInv => ImageIsIdle
  BY SemaphoresDiffer, SwapchainAssumption
     DEF FramesInv, FramesTypeOK, PresentsWait, RefusedAreKept, ImagesAreOwned, ImageIsIdle, Unused
<1> QED BY <1>1, FramesInvHolds, PTL

\* No fence, semaphore or acquisition is waited for in vain.
THEOREM NothingWaitsInVain == FramesSpec => []WaitsEnd
<1>1. FramesInv => WaitsEnd
  BY SwapchainAssumption
     DEF FramesInv, FramesTypeOK, FencesTell, AcquiresAreUsed, PresentsWait, RefusedAreKept, ImagesAreOwned, WaitsEnd
<1> QED BY <1>1, FramesInvHolds, PTL
=============================================================================
