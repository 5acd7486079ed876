----------------------------- MODULE BlasCalls -----------------------------
(***************************************************************************)
(* Calls of clBLAS from several threads, from setup to teardown: a call    *)
(* borrows scratch images for its step (findBestPattern), gets its kernels *)
(* from the cache or makes them (module KernelCache), enqueues them, and   *)
(* gives back first the kernels, then the images (freeSolutionStep).  The  *)
(* kernels run later, on the queue of the thread.                          *)
(***************************************************************************)
EXTENDS KernelCache, ScratchImages

CONSTANTS
  DeviceOf,    (* Per thread: the device of its queue.                     *)
  InOrder,     (* Threads whose queue executes in order.                   *)
  Demand       (* Numbers of images a step may need, with a kernel cache   *)
               (* and without; a bound, the two have no influence on each  *)
               (* other.                                                   *)

ASSUME CallsAssumption ==
  /\ DeviceOf \in [Threads -> Devices] /\ InOrder \subseteq Threads
  /\ Demand \in [BOOLEAN -> SUBSET {0, 1, 2}]

VARIABLES
  stage,       (* Per thread: how far findBestPattern is with its step:    *)
               (* "get", "failed" or "found".                              *)
  maxImages,   (* Per thread: of findBestPattern.                          *)
  needed,      (* Per thread: images the pattern of its step needs.        *)
  scimage      (* Per thread: the images its step holds.                   *)

stepVars == <<stage, maxImages, needed, scimage>>
bvars    == <<kvars, ivars, stepVars>>

(* No image for an out-of-order queue, otherwise two.                      *)
GetQueueMaxImages(t) == IF t \in InOrder THEN 2 ELSE 0

BInit ==
  /\ Init /\ ImagesInit
  /\ stage = [t \in Threads |-> "found"] /\ needed = [t \in Threads |-> 0]
  /\ maxImages = [t \in Threads |-> GetQueueMaxImages(t)]
  /\ scimage = [t \in Threads |-> <<>>]

-----------------------------------------------------------------------------
(* findBestPattern.  Which functions keep matrices in images, and so how   *)
(* many images a step needs, is told by the environment of the process;    *)
(* the pattern stays the same in every attempt.                            *)

SelectPattern(t) ==
  \E n \in Demand[kcache] :
    /\ needed' = [needed EXCEPT ![t] = n]
    /\ stage' = [stage EXCEPT ![t] = IF n = 0 THEN "found" ELSE "get"]

(* getStepResources gets the images of the pattern one by one.             *)
GetImage(t) ==
  /\ stage[t] = "get"
  /\ \E m \in Images :
       /\ GetSCImage(DeviceOf[t], m)
       /\ scimage' = [scimage EXCEPT ![t] = Append(@, m)]
  /\ stage' = [stage EXCEPT ![t] = IF Len(scimage[t]) + 1 = needed[t] THEN "found" ELSE "get"]
  /\ UNCHANGED <<kvars, maxImages, needed>>

NoImageFound(t) ==
  /\ stage[t] = "get"
  /\ stage' = [stage EXCEPT ![t] = "failed"]
  /\ UNCHANGED <<kvars, ivars, maxImages, needed, scimage>>

(* releaseStepImgs puts the images one after the other.                    *)
PutImage(t) ==
  /\ scimage[t] # <<>>
  /\ PutSCImage(DeviceOf[t], Head(scimage[t]))
  /\ scimage' = [scimage EXCEPT ![t] = Tail(@)]
  /\ UNCHANGED <<kvars, stage, maxImages, needed>>

(* The next attempt, with one image less in maxImages.                     *)
Retry(t) ==
  /\ stage[t] = "failed" /\ maxImages[t] > 0 /\ scimage[t] = <<>>
  /\ maxImages' = [maxImages EXCEPT ![t] = @ - 1]
  /\ stage' = [stage EXCEPT ![t] = "get"]
  /\ UNCHANGED <<kvars, ivars, needed, scimage>>

(* The last attempt failed: freeSolutionSeq, with the images it did get.   *)
GiveUp(t) ==
  /\ stage[t] = "failed" /\ maxImages[t] = 0
  /\ OutOfResources(t)
  /\ stage' = [stage EXCEPT ![t] = "found"]
  /\ UNCHANGED <<ivars, maxImages, needed, scimage>>

FindBestPattern(t) ==
  \/ GetImage(t) \/ NoImageFound(t) \/ Retry(t) \/ GiveUp(t)
  \/ stage[t] = "failed" /\ maxImages[t] > 0 /\ PutImage(t)

-----------------------------------------------------------------------------
(* Kernels are looked for after the pattern was found.                     *)
GetKernels(t) ==
  /\ stage[t] = "found"
  /\ Find(t) \/ Make(t) \/ MakeFails(t) \/ Add(t)
  /\ UNCHANGED <<ivars, stepVars>>

Enqueue(t) == stage[t] = "found" /\ Launch(t) /\ UNCHANGED <<ivars, stepVars>>

KernelsPut(t) == pc[t] = "free" /\ Quiet(t) /\ kernels[t] = NoKernels

FreeSolutionStep(t) ==
  \/ FreeStep(t) /\ UNCHANGED <<ivars, stepVars>>
  \/ KernelsPut(t) /\ PutImage(t)

Return(t) ==
  /\ scimage[t] = <<>> /\ End(t)
  /\ maxImages' = [maxImages EXCEPT ![t] = GetQueueMaxImages(t)]
  /\ needed' = [needed EXCEPT ![t] = 0]
  /\ UNCHANGED <<ivars, stage, scimage>>

References(t) == (Destroy(t) \/ PutRemoved(t)) /\ UNCHANGED <<ivars, stepVars>>

(* clblasTeardown releases the images after the cache.                     *)
EndTeardown(t) == TornDown(t) /\ ReleaseSCImages /\ UNCHANGED stepVars

(* Images are added and removed at any time in between, if steps need any  *)
(* (a bound).                                                              *)
ChangeImages ==
  /\ library = "up" /\ Demand[kcache] # {0} /\ \A t \in Threads : pc[t] # "teardown"
  /\ \E m \in Images : AddScratchImage(m) \/ RemoveScratchImage(m)
  /\ UNCHANGED <<kvars, stepVars>>

Application ==
  \/ /\ \/ \E c \in Contexts : CreateContext(c) \/ ReleaseContext(c)
        \/ Setup
        \/ \E t \in Threads : Teardown(t)
     /\ UNCHANGED <<ivars, stepVars>>
  \/ \E t \in Threads :
       /\ SelectPattern(t) /\ \E c \in Contexts : Begin(t, c)
       /\ UNCHANGED <<ivars, maxImages, scimage>>

ProceedCall(t) ==
  \/ FindBestPattern(t) \/ GetKernels(t) \/ Enqueue(t) \/ FreeSolutionStep(t)
  \/ Return(t) \/ References(t) \/ EndTeardown(t)

BNext ==
  \/ Application \/ ChangeImages
  \/ \E t \in Threads : ProceedCall(t)

BSpec == BInit /\ [][BNext]_bvars

-----------------------------------------------------------------------------
Holds == {h \in Threads \X {1, 2} : h[2] \in DOMAIN scimage[h[1]]}
Held(h) == scimage[h[1]][h[2]]

(* An image is lent once per device at a time: usingDevices of a listed    *)
(* image are the devices of the steps that hold it, and no two steps that  *)
(* hold an image, even a removed one, are of the same device               *)
(* (scimage.c:110).                                                        *)
LentOncePerDevice ==
  /\ \A g, h \in Holds : Held(g) = Held(h) /\ DeviceOf[g[1]] = DeviceOf[h[1]] => g = h
  /\ \A m \in images : image[m].usingDevices = {DeviceOf[h[1]] : h \in {g \in Holds : Held(g) = m}}

(* The references of an image are the list's and those of the steps that   *)
(* hold it: an image that is removed while a call uses it lasts as long as *)
(* the call, and not longer (clblasRemoveScratchImage, putSCImage).        *)
ImagesCounted ==
  \A m \in Images :
    image[m].refs = Cardinality({h \in Holds : Held(h) = m}) + IF m \in images THEN 1 ELSE 0
=============================================================================
