--------------------------- MODULE ScratchImages ---------------------------
(***************************************************************************)
(* The scratch images of clBLAS (blas/scimage.c): images that the          *)
(* application adds and removes, and that steps of calls borrow for their  *)
(* device while their kernels are enqueued.  The list of images is read    *)
(* and written with imagesLock held, so that a locked section is one       *)
(* action.  An image of OpenCL lives while it has references; a handle of  *)
(* one that is gone may be given to the next.  Sizes are left out: any     *)
(* image may be the closest to the size a step asks for, or too small.     *)
(***************************************************************************)
EXTENDS Integers, FiniteSets

CONSTANTS
  Images,      (* Handles of images; bounds how many there are.            *)
  Devices      (* Devices of the queues.                                   *)

VARIABLES
  images,      (* The images in the list.                                  *)
  image        (* Per handle: the references of the image it stands for,   *)
               (* and the devices noted in its node of the list.           *)

ivars == <<images, image>>

NoNode == [refs |-> 0, usingDevices |-> {}]

ImagesInit ==
  /\ images = {}
  /\ image = [m \in Images |-> NoNode]

(* Fault: which devices use an image is not looked at.                     *)
ServesAny(m, dev) == m \in images
(* checkBestImage.  Of which context the image is is not looked at either, *)
(* although getSCImage is given the context.                               *)
Serves(m, dev) == m \in images /\ dev \notin image[m].usingDevices

(* getSCImage, when it finds image m.                                      *)
GetSCImage(dev, m) ==
  /\ Serves(m, dev)
  /\ image' = [image EXCEPT ![m].refs = @ + 1, ![m].usingDevices = @ \cup {dev}]
  /\ UNCHANGED images

(* One reference less; the last one takes the image with it.               *)
ReleaseMemObject(n) == IF n.refs = 1 THEN NoNode ELSE [n EXCEPT !.refs = @ - 1]

(* Fault: the device still uses the image.                                 *)
PutSCImageKept(dev, m) ==
  /\ image' = [image EXCEPT ![m] = ReleaseMemObject(@)]
  /\ UNCHANGED images
NotUsing(n, dev) == [n EXCEPT !.usingDevices = @ \ {dev}]
(* putSCImage: an image that was removed is only released.                 *)
PutSCImage(dev, m) ==
  /\ image' = [image EXCEPT ![m] = ReleaseMemObject(IF m \in images THEN NotUsing(@, dev) ELSE @)]
  /\ UNCHANGED images

(* clblasAddScratchImage.                                                  *)
AddScratchImage(m) ==
  /\ image[m].refs = 0
  /\ image' = [image EXCEPT ![m] = [refs |-> 1, usingDevices |-> {}]]
  /\ images' = images \cup {m}

(* Fault: the image goes although steps use it.                            *)
FreedImageNodeAtOnce(n) == NoNode
(* freeImageNode: the list's reference and its notes of devices go; who    *)
(* uses the image has a reference of its own.                              *)
FreedImageNode(n) == ReleaseMemObject([n EXCEPT !.usingDevices = {}])

(* clblasRemoveScratchImage; an image not listed is an invalid value.      *)
RemoveScratchImage(m) ==
  /\ m \in images /\ images' = images \ {m}
  /\ image' = [image EXCEPT ![m] = FreedImageNode(@)]

ReleaseSCImages ==
  /\ images' = {}
  /\ image' = [m \in Images |-> IF m \in images THEN FreedImageNode(image[m]) ELSE image[m]]
=============================================================================
