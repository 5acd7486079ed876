------------------------------- MODULE Runtime -------------------------------
(***************************************************************************)
(* The static state every device object relies on: class OpenCL (ocl.cpp,  *)
(* ocl.h).  Its constructor looks for platforms and devices, picks one,    *)
(* creates a context and a queue, builds the program and fills the map of  *)
(* kernels; shutdown releases them.  Programs open one session after       *)
(* another, as the test and benchmark classes do, each with an object of   *)
(* its own; flags, handles and the map are shared by all of them.          *)
(*                                                                         *)
(* Every call to the OpenCL API that creates something may fail.  No such  *)
(* failure stops the constructor, and no exception tells its caller.       *)
(***************************************************************************)
EXTENDS Integers, Sequences, FiniteSets

CONSTANTS
  Worlds,        (* Per machine: its platforms, a sequence of sequences of *)
                 (* the compute units of their GPUs.                       *)
  Requests,      (* Arguments of the constructor: numbers, or negative for *)
                 (* the best device.                                       *)
  KernelNames,   (* The kernels the program has: 36 in the code.           *)
  MaxSessions    (* Bound: sessions of one program.                        *)

ASSUME RuntimeAssumption ==
  /\ Worlds \subseteq Seq(Seq(Nat \ {0}))
  /\ Requests \subseteq Int
  /\ MaxSessions \in Nat \ {0}

Nowhere == <<-1, -1>>            (* choosen_platform, choosen_local_device *)
NULL == [kind |-> "null", session |-> 0]

VARIABLES
  world,       (* The machine.  Never changes.                             *)
  session,     (* Number of constructor calls so far.                      *)
  request,     (* device_id, as the search over the platforms changes it.  *)
  asked,       (* device_id, as the caller has passed it.                  *)
  pc,          (* Where the constructor or shutdown is.                    *)
  p,           (* The platform the search is at.                           *)
  chosen,      (* The platform and device that are picked, from 0.         *)
  initialized, (* The flags that are set: "context", "queue", ...          *)
  context, queue, device,  (* The static handles.                          *)
  program,     (* The program while the map is filled.                     *)
  kernels,     (* The map of kernels, empty before the first session.      *)
  alive,       (* Handles that exist in the OpenCL runtime.                *)
  strays       (* Handles that were released when they no longer existed.  *)

choice  == <<request, p, chosen>>
handles == <<context, queue, device, program, kernels>>
vars == <<world, session, asked, pc, choice, initialized, handles, alive, strays>>

Handle(kind) == [kind |-> kind, session |-> session]
KernelHandle(name) == [kind |-> "kernel", session |-> session, name |-> name]

Init ==
  /\ world \in Worlds
  /\ session = 0 /\ request = -1 /\ asked = -1 /\ pc = "out" /\ p = 0
  /\ chosen = Nowhere
  /\ initialized = {}
  /\ context = NULL /\ queue = NULL /\ device = Nowhere /\ program = NULL
  /\ kernels = <<>>
  /\ alive = {} /\ strays = {}

-----------------------------------------------------------------------------
(* The constructor, and initialize.                                        *)

(* Fault: the flags stay as the session before has left them.              *)
ConstructUncleared(id) ==
  /\ pc = "out" /\ session < MaxSessions
  /\ session' = session + 1
  /\ request' = id /\ asked' = id
  /\ p' = 0 /\ chosen' = Nowhere
  /\ pc' = "platforms"
  /\ UNCHANGED <<world, initialized, handles, alive, strays>>

Construct(id) ==
  /\ pc = "out" /\ session < MaxSessions
  /\ session' = session + 1
  /\ request' = id /\ asked' = id
  /\ p' = 0 /\ chosen' = Nowhere
  /\ initialized' = {}
  /\ pc' = "platforms"
  /\ UNCHANGED <<world, handles, alive, strays>>

(* find_platforms keeps the platforms that have a GPU.                     *)
platforms ==
  LET found[k \in 0..Len(world)] ==
        IF k = 0 THEN <<>>
        ELSE IF world[k] = <<>> THEN found[k - 1] ELSE Append(found[k - 1], world[k])
  IN  found[Len(world)]
Units(place) == platforms[place[1] + 1][place[2] + 1]
Devices == UNION {{q} \X (0..Len(platforms[q + 1])-1) : q \in 0..Len(platforms)-1}

FindPlatforms ==
  /\ pc = "platforms"
  /\ pc' = IF world = <<>> THEN "fatal" ELSE IF request >= 0 THEN "search" ELSE "best"
  /\ UNCHANGED <<world, session, asked, choice, initialized, handles, alive, strays>>

PassesPlatform(count) == count <= request

(* Faults: the devices of the platform are not subtracted, or one too many.*)
SearchPlatformKept ==
  /\ pc = "search" /\ p < Len(platforms)
  /\ IF PassesPlatform(Len(platforms[p + 1]))
     THEN p' = p + 1 /\ UNCHANGED <<request, chosen, pc>>
     ELSE chosen' = <<p, request>> /\ pc' = "init" /\ UNCHANGED <<request, p>>
  /\ UNCHANGED <<world, session, asked, initialized, handles, alive, strays>>

(* One pass of the loop over the platforms.  The branch that reports a     *)
(* device out of range needs device_id < 0 and cannot be taken here.       *)
SearchPlatform ==
  /\ pc = "search" /\ p < Len(platforms)
  /\ LET count == Len(platforms[p + 1])
     IN  IF PassesPlatform(count)
         THEN /\ request' = request - count
              /\ p' = p + 1
              /\ UNCHANGED <<chosen, pc>>
         ELSE /\ chosen' = <<p, request>>
              /\ pc' = "init"
              /\ UNCHANGED <<request, p>>
  /\ UNCHANGED <<world, session, asked, initialized, handles, alive, strays>>

SearchEnds ==
  /\ pc = "search" /\ p = Len(platforms)
  /\ pc' = "init"
  /\ UNCHANGED <<world, session, asked, choice, initialized, handles, alive, strays>>

Earlier(a, b) == a[1] < b[1] \/ (a[1] = b[1] /\ a[2] < b[2])

Best(place) ==
  \A other \in Devices \ {place} :
     Units(other) < Units(place) \/ (Units(other) = Units(place) /\ Earlier(other, place))

(* get_best_device.                                                        *)
PickBest ==
  /\ pc = "best"
  /\ chosen' = IF Devices = {} THEN Nowhere ELSE CHOOSE place \in Devices : Best(place)
  /\ pc' = "init"
  /\ UNCHANGED <<world, session, asked, request, p, initialized, handles, alive, strays>>

(* platforms[choosen_platform].devices[choosen_local_device], without a    *)
(* test.  What the program does with an index of -1 is not followed.       *)
UseChoice ==
  /\ pc = "init"
  /\ initialized' = initialized \cup {"platform"}
  /\ pc' = IF chosen \in Devices THEN "context" ELSE "outside"
  /\ device' = IF chosen \in Devices THEN chosen ELSE device
  /\ UNCHANGED <<world, session, asked, choice, context, queue, program, kernels, alive, strays>>

(* init_device: a failing call assigns NULL.                               *)
CreateContext ==
  /\ pc = "context"
  /\ context' = Handle("context")
  /\ alive' = alive \cup {context'}
  /\ initialized' = initialized \cup {"context"}
  /\ pc' = "queue"
  /\ UNCHANGED <<world, session, asked, choice, queue, device, program, kernels, strays>>

CreateContextFails ==
  /\ pc = "context"
  /\ context' = NULL
  /\ pc' = "build"
  /\ UNCHANGED <<world, session, asked, choice, initialized, queue, device, program, kernels,
                 alive, strays>>

CreateQueue ==
  /\ pc = "queue"
  /\ queue' = Handle("queue")
  /\ alive' = alive \cup {queue'}
  /\ initialized' = initialized \cup {"queue"}
  /\ pc' = "build"
  /\ UNCHANGED <<world, session, asked, choice, context, device, program, kernels, strays>>

CreateQueueFails ==
  /\ pc = "queue"
  /\ queue' = NULL
  /\ pc' = "build"
  /\ UNCHANGED <<world, session, asked, choice, initialized, context, device, program, kernels,
                 alive, strays>>

-----------------------------------------------------------------------------
(* build_program.                                                          *)

CreateProgram ==
  /\ pc = "build"
  /\ \/ context # NULL /\ program' = Handle("program") /\ alive' = alive \cup {program'}
     \/ program' = NULL /\ UNCHANGED alive
  /\ pc' = "fill"
  /\ UNCHANGED <<world, session, asked, choice, initialized, context, queue, device, kernels,
                 strays>>

(* Releasing NULL is an error and nothing else.                            *)
Released(S) == S \ {NULL}

(* Fault: the map keeps the entry it has when a kernel is not created.     *)
FilledKept(created) ==
  [name \in KernelNames |-> IF name \in created THEN KernelHandle(name)
                            ELSE IF kernels = <<>> THEN NULL ELSE kernels[name]]
Filled(created) ==
  [name \in KernelNames |-> IF name \in created THEN KernelHandle(name) ELSE NULL]

(* Of a program that is built every kernel may be created or not, of one   *)
(* that is not, none.  Either way each name is assigned.                   *)
FillKernels ==
  /\ pc = "fill"
  /\ \E created \in SUBSET KernelNames :
       /\ program = NULL => created = {}
       /\ kernels' = Filled(created)
       /\ alive' = (alive \cup {KernelHandle(name) : name \in created}) \ {program}
  /\ strays' = strays \cup (Released({program}) \ alive)
  /\ program' = NULL
  /\ pc' = "open"
  /\ UNCHANGED <<world, session, asked, choice, initialized, context, queue, device>>

-----------------------------------------------------------------------------
(* shutdown, in its order: queue, kernels, context.                        *)

ToRelease ==
  (IF "queue" \in initialized THEN {queue} ELSE {})
  \cup {kernels[name] : name \in DOMAIN kernels}
  \cup (IF "context" \in initialized THEN {context} ELSE {})

(* Fault: the kernels are taken from the map without being released.       *)
ShutdownKernelsKept ==
  /\ pc = "open"
  /\ alive' = alive \ {queue, context}
  /\ pc' = "out"
  /\ UNCHANGED <<world, session, asked, choice, initialized, handles, strays>>

(* Flags, handles and map keep their values.                               *)
Shutdown ==
  /\ pc = "open"
  /\ alive' = alive \ ToRelease
  /\ strays' = strays \cup (Released(ToRelease) \ alive)
  /\ pc' = "out"
  /\ UNCHANGED <<world, session, asked, choice, initialized, handles>>

Ended ==
  /\ \/ pc \in {"fatal", "outside"}
     \/ pc = "out" /\ session = MaxSessions
  /\ UNCHANGED vars

Next ==
  \/ \E id \in Requests : Construct(id)
  \/ FindPlatforms \/ SearchPlatform \/ SearchEnds \/ PickBest \/ UseChoice
  \/ CreateContext \/ CreateContextFails \/ CreateQueue \/ CreateQueueFails
  \/ CreateProgram \/ FillKernels \/ Shutdown \/ Ended

Spec == Init /\ [][Next]_vars

(* What the getters answer.                                                *)
get_context == IF "context" \in initialized THEN context ELSE NULL
get_queue   == IF "queue" \in initialized THEN queue ELSE NULL
get_device  == IF "device" \in initialized THEN device ELSE Nowhere

-----------------------------------------------------------------------------
(* Properties.                                                             *)

AnyHandle == [kind : {"null", "context", "queue", "program"}, session : 0..MaxSessions]
             \cup [kind : {"kernel"}, session : 1..MaxSessions, name : KernelNames]

(* Every variable holds a value of its type.                               *)
TypeOK ==
  /\ world \in Worlds /\ session \in 0..MaxSessions
  /\ request \in Int /\ asked \in Requests \cup {-1}
  /\ pc \in {"out", "platforms", "search", "best", "init", "context", "queue", "build",
             "fill", "open", "fatal", "outside"}
  /\ p \in Nat /\ chosen \in Devices \cup {Nowhere} /\ device \in Devices \cup {Nowhere}
  /\ initialized \subseteq {"platform", "context", "queue", "device"}
  /\ {context, queue, program} \subseteq AnyHandle
  /\ {kernels[name] : name \in DOMAIN kernels} \subseteq AnyHandle
  /\ alive \subseteq AnyHandle /\ strays \subseteq AnyHandle

(* "we have to find proper platform and gpu based on global id": device    *)
(* number k is the one that k others come before, over all platforms that  *)
(* have devices, and no number that a device has leads out of the list.    *)
Before(place) == {other \in Devices : Earlier(other, place)}
RequestedDevice ==
  (asked >= 0 /\ asked < Cardinality(Devices)) =>
    /\ pc # "outside"
    /\ pc \in {"context", "queue", "build", "fill", "open"} =>
         asked = Cardinality(Before(device))

(* While a session is open, whatever failed when it was opened, no getter  *)
(* hands out and no entry of the map holds a handle of an earlier session. *)
HandlesAlive ==
  pc = "open" =>
    Released({get_context, get_queue} \cup {kernels[name] : name \in DOMAIN kernels}) \subseteq alive

(* Nothing is released a second time, although shutdown resets neither the *)
(* flags nor the map and a constructor that fails half way keeps the old   *)
(* queue.                                                                  *)
ReleasedOnce == strays = {}

(* Between sessions nothing is left in the OpenCL runtime.                 *)
NothingLeft == pc = "out" => alive = {}

=============================================================================
