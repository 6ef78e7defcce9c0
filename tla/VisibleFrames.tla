--------------------------- MODULE VisibleFrames ---------------------------
(***************************************************************************)
(* The visible frame loop of the native Vulkan context                     *)
(* (FVulkanNativeContext.cpp): two frame slots, each with a command        *)
(* buffer, a fence and an acquire semaphore, and one render-finished       *)
(* semaphore for each swapchain image.  The host runs one frame after the  *)
(* other; the device, the presentation engine and the display run when     *)
(* they like (the actions of Driver, external to this repository, modelled *)
(* from the calls that the context makes and the rules of those calls).    *)
(*                                                                         *)
(* The caller recreates the presentation when a frame asks for it, as      *)
(* FStonerDemoApplication::RunVisible does; after a failed frame it may    *)
(* close, as the demo does, or draw again, as the failure lifecycle of the *)
(* integration tests expects.  It closes after Unavailable.                *)
(***************************************************************************)

CONSTANTS
    SwapchainImages,
    NoImage             \* not one of them

ASSUME SwapchainAssumption == NoImage \notin SwapchainImages

Slots == {"even", "odd"}

\* CurrentFrameSlot after a frame in slot s.
Following(s) == CHOOSE t \in Slots : t # s

ImageAvailable(s) == <<"available", s>>
RenderFinished(i) == <<"finished", i>>

Semaphores == {ImageAvailable(s) : s \in Slots} \cup {RenderFinished(i) : i \in SwapchainImages}

NoSemaphore == <<"none", "none">>

VARIABLES
    loop,        \* what the host does next
    slot,        \* CurrentFrameSlot, and AcquiredFrameSlot while a frame is acquired
    image,       \* AcquiredImageIndex, NoImage unless bFrameAcquired
    suboptimal,  \* bAcquiredSuboptimal
    fence,       \* VisibleFences
    semaphore,   \* VisibleImageAvailable and VisibleRenderFinished
    pending,     \* the image that the submission of the slot renders to, until it has completed
    owner,       \* who has the image
    present,     \* the semaphore that the queued present of the image waits for
    refused      \* history: the semaphore that a refused present of the image was to wait for

frameVars == <<loop, slot, image, suboptimal, fence, semaphore, pending, owner, present, refused>>

\* Types; and a frame is acquired while it is recorded and submitted, and never when the
\* next one begins.
FramesTypeOK ==
    /\ loop \in {"recover", "wait", "acquire", "record", "submit", "present", "closing",
                 "stopped", "undefined"}
    /\ slot \in Slots
    /\ image \in SwapchainImages \cup {NoImage}
    /\ suboptimal \in BOOLEAN
    /\ fence \in [Slots -> {"signaled", "unsignaled", "null"}]
    /\ semaphore \in [Semaphores -> {"free", "signalling", "signaled"}]
    /\ pending \in [Slots -> SwapchainImages \cup {NoImage}]
    /\ owner \in [SwapchainImages -> {"engine", "host", "queued", "shown"}]
    /\ present \in [SwapchainImages -> Semaphores \cup {NoSemaphore}]
    /\ refused \in [SwapchainImages -> Semaphores \cup {NoSemaphore}]
    /\ loop \in {"record", "submit", "present"} => image # NoImage
    /\ loop \in {"recover", "wait", "acquire", "stopped"} => image = NoImage

\* The context before anything is prepared, and after DestroyFrameResources.
Nothing ==
    /\ slot = "even"
    /\ image = NoImage
    /\ suboptimal = FALSE
    /\ fence = [s \in Slots |-> "null"]
    /\ semaphore = [m \in Semaphores |-> "free"]
    /\ pending = [s \in Slots |-> NoImage]
    /\ owner = [i \in SwapchainImages |-> "engine"]
    /\ present = [i \in SwapchainImages |-> NoSemaphore]
    /\ refused = [i \in SwapchainImages |-> NoSemaphore]

FramesInit == loop = "recover" /\ Nothing

\* What vkDeviceWaitIdle waits for: no submission and no wait of a present is left.
DeviceIdle ==
    /\ \A s \in Slots : pending[s] = NoImage
    /\ \A i \in SwapchainImages : present[i] = NoSemaphore

\* An operation may signal m: nothing has signalled it, and no queued operation waits for it.
Unused(m) ==
    /\ semaphore[m] = "free"
    /\ \A i \in SwapchainImages : present[i] # m
    /\ \A s \in Slots : pending[s] # NoImage => m \notin {ImageAvailable(s), RenderFinished(pending[s])}

-----------------------------------------------------------------------------
(* The host.                                                                *)

\* PrepareVisibleTriangle, also from RecreateVisiblePresentation: it waits for the device,
\* destroys everything and creates it anew, the fences signaled, or reports Failed, which closes.
Prepare ==
    /\ loop = "recover"
    /\ DeviceIdle
    /\ slot' = "even" /\ image' = NoImage /\ suboptimal' = FALSE
    /\ semaphore' = [m \in Semaphores |-> "free"]
    /\ owner' = [i \in SwapchainImages |-> "engine"]
    /\ refused' = [i \in SwapchainImages |-> NoSemaphore]
    /\ \/ loop' = "wait" /\ fence' = [s \in Slots |-> "signaled"]
       \/ loop' = "closing" /\ fence' = [s \in Slots |-> "null"]
    /\ UNCHANGED <<pending, present>>

\* Between two frames the window may have another size, or be asked to close; a wait of 30
\* seconds for the fence also ends the loop.
Resize ==
    /\ loop = "wait"
    /\ loop' \in {"recover", "closing"}
    /\ UNCHANGED <<slot, image, suboptimal, fence, semaphore, pending, owner, present, refused>>

\* An AcquireVisibleFrame that does not wait.
WaitForNothing ==
    /\ loop = "wait"
    /\ image = NoImage
    /\ loop' = "acquire"
    /\ UNCHANGED <<slot, image, suboptimal, fence, semaphore, pending, owner, present, refused>>

\* AcquireVisibleFrame, without a frame acquired, waits for the fence of the slot.
WaitForFence ==
    /\ loop = "wait"
    /\ image = NoImage
    /\ fence[slot] = "signaled"
    /\ loop' = "acquire"
    /\ UNCHANGED <<slot, image, suboptimal, fence, semaphore, pending, owner, present, refused>>

\* vkAcquireNextImageKHR hands out an image and will signal the semaphore of the slot.  The
\* call is undefined when that semaphore is still in use.
AcquireFrame ==
    /\ loop = "acquire"
    /\ \E i \in SwapchainImages :
        /\ owner[i] = "engine"
        /\ IF Unused(ImageAvailable(slot))
             THEN /\ loop' = "record"
                  /\ image' = i
                  /\ suboptimal' \in BOOLEAN
                  /\ semaphore' = [semaphore EXCEPT ![ImageAvailable(slot)] = "signalling"]
                  /\ owner' = [owner EXCEPT ![i] = "host"]
             ELSE /\ loop' = "undefined"
                  /\ UNCHANGED <<image, suboptimal, semaphore, owner>>
    /\ UNCHANGED <<slot, fence, pending, present, refused>>

\* Out of date, or another failure of vkAcquireNextImageKHR.
AcquireFails ==
    /\ loop = "acquire"
    /\ loop' \in {"recover", "wait", "closing"}
    /\ UNCHANGED <<slot, image, suboptimal, fence, semaphore, pending, owner, present, refused>>

\* vkQueuePresentKHR queues the present of the acquired image, which waits for m; or refuses it
\* and leaves the image with the host and m as it is.
QueuePresent(m) ==
    /\ present' = [present EXCEPT ![image] = m]
    /\ owner' = [owner EXCEPT ![image] = "queued"]
    /\ UNCHANGED refused

RefusePresent(m) ==
    /\ refused' = [refused EXCEPT ![image] = m]
    /\ UNCHANGED <<present, owner>>

\* An abandoned frame that stays acquired.
AbandonFrameAcquired ==
    /\ QueuePresent(ImageAvailable(slot)) \/ RefusePresent(ImageAvailable(slot))
    /\ slot' = Following(slot)
    /\ suboptimal' = FALSE
    /\ UNCHANGED image

\* AbandonAcquiredVisibleFrame: the image is presented as it is, waiting for the semaphore of
\* the acquisition, and the next frame takes the other slot, whatever became of that present.
AbandonFrame ==
    /\ QueuePresent(ImageAvailable(slot)) \/ RefusePresent(ImageAvailable(slot))
    /\ slot' = Following(slot)
    /\ image' = NoImage
    /\ suboptimal' = FALSE

Record ==
    /\ loop = "record"
    /\ loop' = "submit"
    /\ UNCHANGED <<slot, image, suboptimal, fence, semaphore, pending, owner, present, refused>>

\* A command is refused: DrawVisibleFrame abandons the frame, the demo closes with the frame
\* still acquired.
RecordFails ==
    /\ loop = "record"
    /\ \/ loop' \in {"wait", "closing"} /\ AbandonFrame
       \/ loop' = "closing" /\ UNCHANGED <<slot, image, suboptimal, owner, present, refused>>
    /\ UNCHANGED <<fence, semaphore, pending>>

\* SubmitAndPresentVisibleFrame resets the fence and submits.
Submit ==
    /\ loop = "submit"
    /\ loop' = "present"
    /\ fence' = [fence EXCEPT ![slot] = "unsignaled"]
    /\ pending' = [pending EXCEPT ![slot] = image]
    /\ semaphore' = [semaphore EXCEPT ![RenderFinished(image)] = "signalling"]
    /\ UNCHANGED <<slot, image, suboptimal, owner, present, refused>>

\* A failed submission that leaves the fence reset.
SubmitFailsUnsignaled ==
    /\ loop = "submit"
    /\ AbandonFrame
    /\ loop' \in {"wait", "closing"}
    /\ fence' = [fence EXCEPT ![slot] = "unsignaled"]
    /\ UNCHANGED <<semaphore, pending>>

\* vkResetFences fails, the fence keeps its state; or vkQueueSubmit fails, the fence that was
\* reset is replaced by a signaled one (RecreateVisibleFenceSignaled), or by none: Unavailable.
SubmitFails ==
    /\ loop = "submit"
    /\ AbandonFrame
    /\ \/ loop' \in {"wait", "closing"} /\ fence' = [fence EXCEPT ![slot] = "signaled"]
       \/ loop' = "closing" /\ fence' = [fence EXCEPT ![slot] = "null"]
    /\ UNCHANGED <<semaphore, pending>>

\* A present that waits for the acquisition instead of the submission.
PresentEarly ==
    /\ loop = "present"
    /\ loop' \in {"wait", "recover"}
    /\ QueuePresent(ImageAvailable(slot))
    /\ slot' = Following(slot)
    /\ image' = NoImage
    /\ suboptimal' = FALSE
    /\ UNCHANGED <<fence, semaphore, pending>>

\* The present waits for the submission.  A suboptimal or out of date swapchain is presented
\* all the same, and then recreated; a present that is refused fails the frame.
Present ==
    /\ loop = "present"
    /\ \/ /\ loop' \in (IF suboptimal THEN {"recover"} ELSE {"wait", "recover"})
          /\ QueuePresent(RenderFinished(image))
       \/ loop' \in {"wait", "closing"} /\ RefusePresent(RenderFinished(image))
    /\ slot' = Following(slot)
    /\ image' = NoImage
    /\ suboptimal' = FALSE
    /\ UNCHANGED <<fence, semaphore, pending>>

\* Shutdown waits for the device and destroys everything.
Shutdown ==
    /\ loop = "closing"
    /\ DeviceIdle
    /\ loop' = "stopped"
    /\ slot' = "even" /\ image' = NoImage /\ suboptimal' = FALSE
    /\ fence' = [s \in Slots |-> "null"]
    /\ semaphore' = [m \in Semaphores |-> "free"]
    /\ owner' = [i \in SwapchainImages |-> "engine"]
    /\ refused' = [i \in SwapchainImages |-> NoSemaphore]
    /\ UNCHANGED <<pending, present>>

\* The program is started again.
Start ==
    /\ loop \in {"stopped", "undefined"}
    /\ loop' = "recover"
    /\ slot' = "even" /\ image' = NoImage /\ suboptimal' = FALSE
    /\ fence' = [s \in Slots |-> "null"]
    /\ semaphore' = [m \in Semaphores |-> "free"]
    /\ pending' = [s \in Slots |-> NoImage]
    /\ owner' = [i \in SwapchainImages |-> "engine"]
    /\ refused' = [i \in SwapchainImages |-> NoSemaphore]
    /\ present' = [i \in SwapchainImages |-> NoSemaphore]

-----------------------------------------------------------------------------
(* The driver.                                                              *)

\* The acquired image is ready: its reads by the display have ended.
SignalAcquired(s) ==
    /\ semaphore[ImageAvailable(s)] = "signalling"
    /\ semaphore' = [semaphore EXCEPT ![ImageAvailable(s)] = "signaled"]
    /\ UNCHANGED <<loop, slot, image, suboptimal, fence, pending, owner, present, refused>>

\* The submission of slot s runs, and signals its semaphore and its fence.
Execute(s) ==
    /\ pending[s] # NoImage
    /\ semaphore[ImageAvailable(s)] = "signaled"
    /\ semaphore' = [semaphore EXCEPT ![ImageAvailable(s)] = "free",
                                      ![RenderFinished(pending[s])] = "signaled"]
    /\ fence' = [fence EXCEPT ![s] = "signaled"]
    /\ pending' = [pending EXCEPT ![s] = NoImage]
    /\ UNCHANGED <<loop, slot, image, suboptimal, owner, present, refused>>

\* The present of image i has waited for its semaphore; the image is on its way to the display.
Display(i) ==
    /\ present[i] # NoSemaphore
    /\ semaphore[present[i]] = "signaled"
    /\ semaphore' = [semaphore EXCEPT ![present[i]] = "free"]
    /\ present' = [present EXCEPT ![i] = NoSemaphore]
    /\ owner' = [owner EXCEPT ![i] = "shown"]
    /\ UNCHANGED <<loop, slot, image, suboptimal, fence, pending, refused>>

\* The display has gone on to another image.
GiveBack(i) ==
    /\ owner[i] = "shown"
    /\ owner' = [owner EXCEPT ![i] = "engine"]
    /\ UNCHANGED <<loop, slot, image, suboptimal, fence, semaphore, pending, present, refused>>

Driver ==
    /\ loop # "undefined"
    /\ \/ \E s \in Slots : SignalAcquired(s) \/ Execute(s)
       \/ \E i \in SwapchainImages : Display(i) \/ GiveBack(i)

HostStep ==
    \/ Prepare \/ Resize \/ WaitForFence \/ AcquireFrame \/ AcquireFails
    \/ Record \/ RecordFails \/ Submit \/ SubmitFails \/ Present
    \/ Shutdown \/ Start

FramesNext == HostStep \/ Driver

FramesSpec == FramesInit /\ [][FramesNext]_frameVars

-----------------------------------------------------------------------------
(* A fence tells that the submission of its slot has completed, not that a  *)
(* present has: nothing tells the host that the wait of an abandoned        *)
(* present, for the semaphore of the acquisition, has ended, or that there  *)
(* is no such present.                                                      *)

AbandonedPresentWaits(s) == \E i \in SwapchainImages : present[i] = ImageAvailable(s)

AbandonedPresentRefused(s) == \E i \in SwapchainImages : refused[i] = ImageAvailable(s)

\* When the host has waited for the fence of a slot, no submission uses its command buffer or its
\* fence any more, and its acquire semaphore can be signalled again unless a frame of the slot was
\* abandoned and its present still waits for that semaphore or was refused: the two ways to an
\* undefined acquisition.
SlotIsIdle ==
    /\ loop \in {"acquire", "record", "submit"} => pending[slot] = NoImage /\ fence[slot] = "signaled"
    /\ loop = "acquire" =>
          Unused(ImageAvailable(slot)) \/ AbandonedPresentWaits(slot) \/ AbandonedPresentRefused(slot)

\* The render-finished semaphore is chosen by image: when an image has been acquired again, the
\* present that waited for that semaphore has ended, whichever slot submitted it.
ImageIsIdle ==
    loop \in {"record", "submit"} =>
        /\ Unused(RenderFinished(image))
        /\ owner[image] = "host"
        /\ \A s \in Slots : pending[s] # image

\* Nothing waits for what never comes: a fence that the host waits for is signaled or belongs to a
\* submission that will signal it, also after a failed submission has reset it; a submission or
\* present waits for a semaphore that is signaled or about to be; and between two frames the host
\* keeps no image from an acquisition, which has no time limit, but those whose present was refused.
WaitsEnd ==
    /\ loop = "wait" => fence[slot] = "signaled" \/ pending[slot] # NoImage
    /\ \A s \in Slots : pending[s] # NoImage => semaphore[ImageAvailable(s)] # "free"
    /\ \A i \in SwapchainImages : present[i] # NoSemaphore => semaphore[present[i]] # "free"
    /\ loop \in {"wait", "acquire"} =>
          \A i \in SwapchainImages : owner[i] = "host" <=> refused[i] # NoSemaphore
=============================================================================
