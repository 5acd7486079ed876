--------------------------- MODULE DeviceProofs ----------------------------
(***************************************************************************)
(* What a program holds of the device: the handles of class OpenCL, over   *)
(* any number of sessions, the device it picks for a number, on any        *)
(* machine, with any kernels and any argument of the constructor; and the  *)
(* memory its matrices and vectors own, for any number of objects of each  *)
(* class, any device size and any length of the arrays.                    *)
(*                                                                         *)
(* Neither flags nor handles nor the map are reset by shutdown, so that    *)
(* what they hold means nothing until the constructor has come to them.    *)
(* The invariant says how far it has come.  That of the search says what   *)
(* is left of the number that was asked for at every platform it passes.   *)
(*                                                                         *)
(* OwnedOnce is not inductive: an object that does not exist keeps its     *)
(* members in the model, and a constructor that sets nothing would bring   *)
(* them back.  The invariant adds that such an object holds nothing.       *)
(***************************************************************************)
EXTENDS Runtime, DeviceBuffers, FiniteSetTheorems, WellFoundedInduction, TLAPS

(* The handles of the session that init_device has made.                   *)
Opened ==
  (IF "context" \in initialized THEN {context} ELSE {})
  \cup (IF "queue" \in initialized THEN {queue} ELSE {})

(* A flag is set only for a handle of this session, and without a context  *)
(* the program finds NULL.                                                 *)
FlagsMean ==
  /\ "context" \in initialized => context = Handle("context")
  /\ "queue" \in initialized => queue = Handle("queue")
  /\ "context" \notin initialized => context = NULL

Searching == {"platforms", "search", "best", "init", "context", "fatal", "outside"}

Phases ==
  /\ pc \in {"out", "queue", "build", "fill", "open"} \cup Searching
  /\ pc \in Searching => alive = {} /\ initialized \cap {"context", "queue"} = {}
  /\ pc = "queue" => FlagsMean /\ "context" \in initialized /\ "queue" \notin initialized
  /\ pc \in {"queue", "build"} => FlagsMean /\ alive = Opened
  /\ pc = "fill" => /\ FlagsMean /\ program \in {NULL, Handle("program")}
                    /\ alive = Opened \cup Released({program})
  /\ pc = "open" => alive = Released(ToRelease)

IInv == Phases /\ NothingLeft /\ ReleasedOnce

LEMMA HandlesApart ==
  ASSUME NEW name
  PROVE  /\ Handle("context") # NULL /\ Handle("queue") # NULL /\ Handle("program") # NULL
         /\ Handle("program") # Handle("context") /\ Handle("program") # Handle("queue")
         /\ KernelHandle(name) # NULL /\ KernelHandle(name) # Handle("program")
<1>1. /\ Handle("context").kind = "context" /\ Handle("queue").kind = "queue"
      /\ Handle("program").kind = "program" /\ NULL.kind = "null"
      /\ KernelHandle(name).kind = "kernel"
  BY DEF Handle, NULL, KernelHandle
<1>. QED
  BY <1>1

LEMMA InitHandles == Init => IInv
BY DEF Init, IInv, Phases, NothingLeft, ReleasedOnce, Searching

(* Up to CreateContext the search changes nothing that is held.            *)
LEMMA SearchKeeps ==
  ASSUME IInv, pc \in Searching \ {"context", "fatal", "outside"},
         FindPlatforms \/ SearchPlatform \/ SearchEnds \/ PickBest \/ UseChoice
  PROVE  IInv'
<1>1. /\ pc' \in Searching /\ alive' = alive /\ strays' = strays
      /\ initialized' \in {initialized, initialized \cup {"platform"}}
  BY DEF FindPlatforms, SearchPlatform, SearchEnds, PickBest, UseChoice, Searching
<1>. QED
  BY <1>1 DEF IInv, Phases, NothingLeft, ReleasedOnce, Searching

LEMMA OpenKeeps ==
  ASSUME IInv, CreateContext \/ CreateContextFails \/ CreateQueue \/ CreateQueueFails
  PROVE  IInv'
<1>1. session' = session /\ Handle("context")' = Handle("context")
      /\ Handle("queue")' = Handle("queue")
  BY DEF CreateContext, CreateContextFails, CreateQueue, CreateQueueFails, Handle
<1>2. CASE CreateContext
  BY <1>1, <1>2 DEF CreateContext, IInv, Phases, NothingLeft, ReleasedOnce, Searching,
                    FlagsMean, Opened
<1>3. CASE CreateContextFails
  BY <1>1, <1>3 DEF CreateContextFails, IInv, Phases, NothingLeft, ReleasedOnce, Searching,
                    FlagsMean, Opened
<1>4. CASE CreateQueue
  BY <1>1, <1>4 DEF CreateQueue, IInv, Phases, NothingLeft, ReleasedOnce, Searching,
                    FlagsMean, Opened
<1>5. CASE CreateQueueFails
  BY <1>1, <1>5 DEF CreateQueueFails, IInv, Phases, NothingLeft, ReleasedOnce, Searching,
                    FlagsMean, Opened
<1>. QED
  BY <1>2, <1>3, <1>4, <1>5

LEMMA ProgramKeeps ==
  ASSUME IInv, CreateProgram
  PROVE  IInv'
<1>1. Handle("context")' = Handle("context") /\ Handle("queue")' = Handle("queue")
      /\ Handle("program")' = Handle("program") /\ Handle("program") # NULL
  BY HandlesApart DEF CreateProgram, Handle
<1>2. FlagsMean' /\ Opened' = Opened /\ alive = Opened
  BY <1>1 DEF CreateProgram, IInv, Phases, FlagsMean, Opened
<1>3. /\ program' \in {NULL, Handle("program")}
      /\ alive' = Opened \cup Released({program'})
  BY <1>1, <1>2 DEF CreateProgram, Released
<1>4. alive' = Opened' \cup Released({program})'
  BY <1>2, <1>3 DEF Released
<1>5. pc' = "fill" /\ strays' = strays
  BY DEF CreateProgram
<1>. QED
  BY <1>1, <1>2, <1>3, <1>4, <1>5 DEF IInv, Phases, NothingLeft, ReleasedOnce, Searching

(* Whatever was created, the map names the kernels that live.              *)
LEMMA FillKeeps ==
  ASSUME IInv, FillKernels
  PROVE  IInv'
<1>1. PICK created \in SUBSET KernelNames :
        /\ program = NULL => created = {}
        /\ kernels' = Filled(created)
        /\ alive' = (alive \cup {KernelHandle(name) : name \in created}) \ {program}
  BY DEF FillKernels
<1>2. /\ pc = "fill" /\ pc' = "open" /\ strays' = strays \cup (Released({program}) \ alive)
      /\ UNCHANGED <<initialized, context, queue>>
  BY DEF FillKernels
<1>3. /\ FlagsMean /\ program \in {NULL, Handle("program")} /\ strays = {}
      /\ alive = Opened \cup Released({program})
  BY <1>2 DEF IInv, Phases, ReleasedOnce
<1>4. strays' = {}
  BY <1>2, <1>3
<1>5. NULL \notin Opened /\ Handle("program") \notin Opened
  BY <1>3, HandlesApart DEF Opened, FlagsMean
<1>6. alive' = Opened \cup {KernelHandle(name) : name \in created}
  <2>1. \A name \in created : KernelHandle(name) # NULL /\ KernelHandle(name) # program
    BY <1>3, HandlesApart
  <2>2. program \notin Opened /\ Released({program}) \subseteq {program}
    BY <1>3, <1>5 DEF Released
  <2>. QED
    BY <1>1, <1>3, <2>1, <2>2
<1>7. {kernels'[name] : name \in DOMAIN kernels'} \ {NULL}
        = {KernelHandle(name) : name \in created}
  <2>1. \A name \in created : KernelHandle(name) # NULL
    BY HandlesApart
  <2>. QED
    BY <1>1, <2>1 DEF Filled
<1>8. Released(ToRelease)' = alive'
  <2>1. ToRelease' = Opened \cup {kernels'[name] : name \in DOMAIN kernels'}
    BY <1>2 DEF ToRelease, Opened
  <2>2. Released(ToRelease)' = ToRelease' \ {NULL}
    BY DEF Released
  <2>. QED
    BY <1>5, <1>6, <1>7, <2>1, <2>2
<1>. QED
  BY <1>2, <1>4, <1>8 DEF IInv, Phases, NothingLeft, ReleasedOnce, Searching

LEMMA NextHandles == IInv /\ [Next]_vars => IInv'
<1>. SUFFICES ASSUME IInv, [Next]_vars PROVE IInv'
  OBVIOUS
<1>1. ASSUME NEW id \in Requests, Construct(id) PROVE IInv'
  BY <1>1 DEF Construct, IInv, Phases, NothingLeft, ReleasedOnce, Searching
<1>2. CASE FindPlatforms \/ SearchPlatform \/ SearchEnds \/ PickBest \/ UseChoice
  <2>1. pc \in Searching \ {"context", "fatal", "outside"}
    BY <1>2 DEF FindPlatforms, SearchPlatform, SearchEnds, PickBest, UseChoice, Searching
  <2>. QED
    BY <1>2, <2>1, SearchKeeps
<1>3. CASE Shutdown
  BY <1>3 DEF Shutdown, IInv, Phases, NothingLeft, ReleasedOnce, Searching, Released
<1>4. CASE UNCHANGED vars
  BY <1>4 DEF vars, choice, handles, IInv, Phases, NothingLeft, ReleasedOnce, Searching,
              FlagsMean, Opened, Released, ToRelease, Handle
<1>. QED
  BY <1>1, <1>2, <1>3, <1>4, OpenKeeps, ProgramKeeps, FillKeeps DEF Next, Ended

(* No getter and no entry of the map hands out a handle of an earlier      *)
(* session while one is open, whatever failed (ocl.cpp:139, ocl.h).        *)
THEOREM NoStaleHandle == Spec => []HandlesAlive
<1>1. IInv => HandlesAlive
  <2>. SUFFICES ASSUME IInv, pc = "open"
                PROVE  Released({get_context, get_queue}
                                \cup {kernels[name] : name \in DOMAIN kernels}) \subseteq alive
    BY DEF HandlesAlive
  <2>1. alive = ToRelease \ {NULL}
    BY DEF IInv, Phases, Released
  <2>2. {get_context, get_queue} \subseteq ToRelease \cup {NULL}
    BY DEF get_context, get_queue, ToRelease
  <2>. QED
    BY <2>1, <2>2 DEF Released, ToRelease
<1>. QED
  BY InitHandles, NextHandles, <1>1, PTL DEF Spec

(* No handle is released a second time (ocl.cpp:329).                      *)
THEOREM NoSecondRelease == Spec => []ReleasedOnce
<1>1. IInv => ReleasedOnce
  BY DEF IInv
<1>. QED
  BY InitHandles, NextHandles, <1>1, PTL DEF Spec

(* After shutdown nothing the session made exists any more (ocl.cpp:329).  *)
THEOREM ShutdownLeavesNothing == Spec => []NothingLeft
<1>1. IInv => NothingLeft
  BY DEF IInv
<1>. QED
  BY InitHandles, NextHandles, <1>1, PTL DEF Spec

-----------------------------------------------------------------------------
(* The devices of the platforms, counted.                                  *)

(* There is a least number in a set.                                       *)
LEMMA LeastOf ==
  ASSUME NEW T, T \subseteq Nat, T # {}
  PROVE  \E m \in T : \A n \in T : m <= n
<1>1. PICK m \in T : \A n \in T : ~ (<<n, m>> \in OpToRel(<, Nat))
  BY WFMin, NatLessThanWellFounded
<1>2. \A n \in T : ~ (n < m)
  BY <1>1 DEF OpToRel
<1>. QED
  BY <1>2

(* f begins with base and grows by g from step to step.                    *)
Grows(f, N, base, g) == f[0] = base /\ \A k \in 1..N : f[k] = g[<<k, f[k - 1]>>]

LEMMA Recursion ==
  ASSUME NEW T, NEW N \in Nat, NEW base \in T, NEW g \in [(1..N) \X T -> T]
  PROVE  \E f \in [0..N -> T] : Grows(f, N, base, g)
<1>. DEFINE Never == {n \in 0..N : \A f \in [0..n -> T] : ~ Grows(f, n, base, g)}
<1>. SUFFICES ASSUME Never # {} PROVE FALSE
  OBVIOUS
<1>1. Never \subseteq Nat
  OBVIOUS
<1>. HIDE DEF Never
<1>2. PICK n \in Never : \A m \in Never : n <= m
  BY <1>1, LeastOf
<1>3. n \in 0..N /\ \A f \in [0..n -> T] : ~ Grows(f, n, base, g)
  BY <1>2 DEF Never
<1>4. n # 0
  <2>. SUFFICES ASSUME n = 0 PROVE FALSE
    OBVIOUS
  <2>. DEFINE f == [k \in 0..0 |-> base]
  <2>1. f \in [0..0 -> T] /\ Grows(f, 0, base, g)
    BY DEF Grows
  <2>. QED
    BY <1>3, <2>1
<1>5. PICK m \in Nat : n = m + 1 /\ m \in 0..N
  <2>1. n - 1 \in Nat /\ n = (n - 1) + 1 /\ n - 1 \in 0..N
    BY <1>3, <1>4
  <2>. QED
    BY <2>1
<1>6. m \notin Never
  <2>1. ~ (n <= m)
    BY <1>3, <1>5
  <2>. QED
    BY <1>2, <2>1
<1>7. PICK f \in [0..m -> T] : Grows(f, m, base, g)
  BY <1>5, <1>6 DEF Never
<1>. DEFINE h == [k \in 0..n |-> IF k = n THEN g[<<n, f[m]>>] ELSE f[k]]
<1>8. f[m] \in T /\ g[<<n, f[m]>>] \in T
  <2>1. f[m] \in T /\ n \in 1..N
    BY <1>3, <1>5, <1>7
  <2>. QED
    BY <2>1
<1>9. h \in [0..n -> T]
  <2>1. \A k \in 0..n : k # n => f[k] \in T
    BY <1>5, <1>7
  <2>. QED
    BY <1>8, <2>1
<1>10. Grows(h, n, base, g)
  <2>1. h[0] = base
    BY <1>3, <1>4, <1>7 DEF Grows
  <2>2. \A k \in 1..m : h[k] = g[<<k, h[k - 1]>>]
    <3>1. \A k \in 1..m : h[k] = f[k] /\ h[k - 1] = f[k - 1] /\ f[k] = g[<<k, f[k - 1]>>]
      BY <1>5, <1>7 DEF Grows
    <3>. QED
      BY <3>1
  <2>3. h[n] = g[<<n, h[n - 1]>>]
    <3>1. n \in 0..n /\ m \in 0..n /\ m # n /\ n - 1 = m
      BY <1>5
    <3>. QED
      BY <3>1
  <2>4. \A k \in 1..n : k \in 1..m \/ k = n
    BY <1>5
  <2>. HIDE DEF h
  <2>. QED
    BY <2>1, <2>2, <2>3, <2>4 DEF Grows
<1>. QED
  BY <1>3, <1>9, <1>10

(* The devices of platform q, and of the platforms before it.              *)
OnPlatform(q) == {q} \X (0..Len(platforms[q + 1])-1)
UpTo(q)       == {place \in Devices : place[1] < q}

Lists == Seq(Seq(Nat \ {0}))

LEMMA PlatformsAreLists ==
  ASSUME world \in Worlds
  PROVE  platforms \in Lists
<1>1. world \in Lists
  BY RuntimeAssumption DEF Lists
<1>. DEFINE N == Len(world)
            Found(k, l) == IF world[k] = <<>> THEN l ELSE Append(l, world[k])
            g == [x \in (1..N) \X Lists |-> Found(x[1], x[2])]
            Rule(f) == f = [k \in 0..N |-> IF k = 0 THEN <<>> ELSE Found(k, f[k - 1])]
            F == CHOOSE f : Rule(f)
<1>2. N \in Nat /\ <<>> \in Lists
  BY <1>1 DEF Lists
<1>3. \A k \in 1..N, l \in Lists : Found(k, l) \in Lists
  BY <1>1 DEF Lists
<1>4. g \in [(1..N) \X Lists -> Lists]
  BY <1>3
<1>5. platforms = F[N]
  BY DEF platforms
<1>6. \A k \in 1..N, l \in Lists : g[<<k, l>>] = Found(k, l)
  OBVIOUS
<1>. HIDE DEF g, Found, N
<1>7. PICK f \in [0..N -> Lists] : Grows(f, N, <<>>, g)
  BY <1>2, <1>4, Recursion
<1>8. \A k \in 1..N : f[k] = Found(k, f[k - 1])
  <2>1. \A k \in 1..N : f[k - 1] \in Lists
    BY <1>2, <1>7
  <2>. QED
    BY <1>6, <1>7, <2>1 DEF Grows
<1>9. Rule(f)
  <2>1. \A k \in 0..N : k = 0 \/ k \in 1..N
    BY <1>2
  <2>2. f = [k \in 0..N |-> f[k]]
    BY <1>7
  <2>3. \A k \in 0..N : f[k] = IF k = 0 THEN <<>> ELSE Found(k, f[k - 1])
    BY <1>7, <1>8, <2>1 DEF Grows
  <2>. QED
    BY <2>2, <2>3
<1>10. Rule(F)
  BY <1>9
<1>. HIDE DEF F
<1>11. \A k \in 0..N : F[k] \in Lists
  <2>. DEFINE Bad == {k \in 0..N : F[k] \notin Lists}
  <2>. SUFFICES ASSUME Bad # {} PROVE FALSE
    OBVIOUS
  <2>0. Bad \subseteq Nat
    OBVIOUS
  <2>. HIDE DEF Bad
  <2>1. PICK k \in Bad : \A m \in Bad : k <= m
    BY <2>0, LeastOf
  <2>2. k \in 0..N /\ F[k] \notin Lists
    BY <2>1 DEF Bad
  <2>3. F[0] = <<>>
    BY <1>2, <1>10
  <2>4. k \in 1..N /\ k - 1 \in 0..N
    BY <1>2, <2>2, <2>3
  <2>5. F[k - 1] \in Lists
    <3>1. k - 1 \notin Bad
      BY <2>1, <2>4
    <3>. QED
      BY <2>4, <3>1 DEF Bad
  <2>6. F[k] = Found(k, F[k - 1])
    BY <1>10, <2>4
  <2>. QED
    BY <1>3, <2>2, <2>4, <2>5, <2>6
<1>. QED
  BY <1>2, <1>5, <1>11


LEMMA ListsLen ==
  ASSUME world \in Worlds
  PROVE  /\ Len(platforms) \in Nat
         /\ \A q \in 0..Len(platforms)-1 : Len(platforms[q + 1]) \in Nat
<1>1. platforms \in Lists
  BY PlatformsAreLists
<1>2. Len(platforms) \in Nat /\ \A k \in 1..Len(platforms) : platforms[k] \in Seq(Nat \ {0})
  BY <1>1 DEF Lists
<1>. QED
  BY <1>2

(* The first n devices of platform q.                                      *)
LEMMA FirstOf ==
  ASSUME NEW q \in Nat, NEW n \in Nat
  PROVE  /\ IsFiniteSet({q} \X (0..n-1))
         /\ Cardinality({q} \X (0..n-1)) = n
<1>. DEFINE D == {q} \X (0..n-1)
            f == [k \in 0..n-1 |-> <<q, k>>]
<1>1. f \in Bijection(0..n-1, D)
  <2>1. f \in [0..n-1 -> D]
    OBVIOUS
  <2>2. \A a, b \in DOMAIN f : f[a] = f[b] => a = b
    OBVIOUS
  <2>3. \A d \in D : \E k \in 0..n-1 : f[k] = d
    OBVIOUS
  <2>. HIDE DEF f, D
  <2>. QED
    BY <2>1, <2>2, <2>3 DEF Bijection, Injection, Surjection, IsInjective
<1>2. ExistsBijection(0..n-1, D)
  BY <1>1 DEF ExistsBijection
<1>3. IsFiniteSet(0..n-1) /\ Cardinality(0..n-1) = n
  BY FS_Interval
<1>. QED
  BY <1>2, <1>3, FS_Bijection

LEMMA DisjointUnion ==
  ASSUME NEW S, NEW T, IsFiniteSet(S), IsFiniteSet(T), S \cap T = {}
  PROVE  /\ Cardinality(S) \in Nat /\ Cardinality(T) \in Nat
         /\ Cardinality(S \cup T) = Cardinality(S) + Cardinality(T)
<1>1. Cardinality(S) \in Nat /\ Cardinality(T) \in Nat
  BY FS_CardinalityType
<1>2. Cardinality(S \cap T) = 0
  BY FS_EmptySet
<1>3. Cardinality(S \cup T) = Cardinality(S) + Cardinality(T) - Cardinality(S \cap T)
  BY FS_Union
<1>. QED
  BY <1>1, <1>2, <1>3

LEMMA Counted ==
  ASSUME world \in Worlds
  PROVE  /\ Devices = UpTo(Len(platforms))
         /\ UpTo(0) = {}
         /\ \A q \in 0..Len(platforms)-1 : /\ UpTo(q + 1) = UpTo(q) \cup OnPlatform(q)
                                           /\ UpTo(q) \cap OnPlatform(q) = {}
<1>. DEFINE Numbers == 0..Len(platforms)-1
<1>0. Len(platforms) \in Nat
  BY ListsLen
<1>1. \A place : place \in Devices <=> \E q \in Numbers : place \in OnPlatform(q)
  BY DEF Devices, OnPlatform
<1>2. \A q \in Numbers : \A place \in OnPlatform(q) : place[1] = q
  BY DEF OnPlatform
<1>3. \A place \in Devices : place[1] \in Numbers /\ place \in OnPlatform(place[1])
  BY <1>1, <1>2
<1>4. \A place, q : place \in UpTo(q) <=> place \in Devices /\ place[1] < q
  BY DEF UpTo
<1>5. Devices = UpTo(Len(platforms))
  <2>1. \A place \in Devices : place \in UpTo(Len(platforms))
    BY <1>0, <1>3, <1>4
  <2>. QED
    BY <1>4, <2>1
<1>6. UpTo(0) = {}
  BY <1>0, <1>3, <1>4
<1>7. ASSUME NEW q \in Numbers
      PROVE  UpTo(q + 1) = UpTo(q) \cup OnPlatform(q) /\ UpTo(q) \cap OnPlatform(q) = {}
  <2>1. q \in Nat
    BY <1>0
  <2>2. ASSUME NEW place PROVE place \in UpTo(q + 1) <=> place \in UpTo(q) \cup OnPlatform(q)
    BY <1>0, <1>1, <1>2, <1>3, <1>4, <2>1
  <2>3. ASSUME NEW place \in UpTo(q) PROVE place \notin OnPlatform(q)
    BY <1>2, <1>4, <2>1
  <2>. QED
    BY <2>2, <2>3
<1>. QED
  BY <1>5, <1>6, <1>7

LEMMA UpToIsFinite ==
  ASSUME world \in Worlds
  PROVE  \A q \in 0..Len(platforms) : IsFiniteSet(UpTo(q))
<1>. DEFINE Bad == {q \in 0..Len(platforms) : ~ IsFiniteSet(UpTo(q))}
<1>. SUFFICES ASSUME Bad # {} PROVE FALSE
  OBVIOUS
<1>0. Len(platforms) \in Nat /\ Bad \subseteq Nat
  BY ListsLen
<1>. HIDE DEF Bad
<1>1. PICK q \in Bad : \A r \in Bad : q <= r
  BY <1>0, LeastOf
<1>2. q \in 0..Len(platforms) /\ ~ IsFiniteSet(UpTo(q))
  BY <1>1 DEF Bad
<1>3. q # 0
  BY <1>2, Counted, FS_EmptySet
<1>4. PICK r \in Nat : q = r + 1 /\ r \in 0..Len(platforms)-1
  <2>1. q - 1 \in Nat /\ q = (q - 1) + 1 /\ q - 1 \in 0..Len(platforms)-1
    BY <1>0, <1>2, <1>3
  <2>. QED
    BY <2>1
<1>5. IsFiniteSet(UpTo(r))
  <2>1. r \notin Bad /\ r \in 0..Len(platforms)
    BY <1>0, <1>1, <1>4
  <2>. QED
    BY <2>1 DEF Bad
<1>6. IsFiniteSet(OnPlatform(r))
  BY <1>4, ListsLen, FirstOf DEF OnPlatform
<1>7. UpTo(q) = UpTo(r) \cup OnPlatform(r)
  BY <1>4, Counted
<1>. QED
  BY <1>2, <1>5, <1>6, <1>7, FS_Union

LEMMA OneMorePlatform ==
  ASSUME world \in Worlds, NEW q \in 0..Len(platforms)-1
  PROVE  /\ Cardinality(UpTo(q)) \in Nat
         /\ Cardinality(UpTo(q + 1)) = Cardinality(UpTo(q)) + Len(platforms[q + 1])
<1>1. Len(platforms) \in Nat /\ Len(platforms[q + 1]) \in Nat /\ q \in Nat
  BY ListsLen
<1>2. IsFiniteSet(UpTo(q)) /\ q \in 0..Len(platforms)
  BY <1>1, UpToIsFinite
<1>3. IsFiniteSet(OnPlatform(q)) /\ Cardinality(OnPlatform(q)) = Len(platforms[q + 1])
  BY <1>1, FirstOf DEF OnPlatform
<1>4. UpTo(q + 1) = UpTo(q) \cup OnPlatform(q) /\ UpTo(q) \cap OnPlatform(q) = {}
  BY Counted
<1>. QED
  BY <1>2, <1>3, <1>4, DisjointUnion

(* Of a device on platform q, the ones before it are those of the earlier  *)
(* platforms and the first ones of its own.                                *)
LEMMA CountBefore ==
  ASSUME world \in Worlds, NEW q \in 0..Len(platforms)-1, NEW k \in 0..Len(platforms[q + 1])-1
  PROVE  /\ <<q, k>> \in Devices
         /\ Cardinality(Before(<<q, k>>)) = Cardinality(UpTo(q)) + k
<1>1. /\ Len(platforms) \in Nat /\ Len(platforms[q + 1]) \in Nat /\ q \in Nat /\ k \in Nat
      /\ q \in 0..Len(platforms)
  BY ListsLen
<1>. DEFINE First == {q} \X (0..k-1)
<1>2. <<q, k>> \in Devices
  BY DEF Devices
<1>3. IsFiniteSet(First) /\ Cardinality(First) = k
  BY <1>1, FirstOf
<1>4. IsFiniteSet(UpTo(q))
  BY <1>1, UpToIsFinite
<1>5. \A place \in Devices : /\ place[1] \in 0..Len(platforms)-1
                             /\ place \in OnPlatform(place[1])
  BY DEF Devices, OnPlatform
<1>6. Before(<<q, k>>) = UpTo(q) \cup First
  <2>1. ASSUME NEW place \in Before(<<q, k>>) PROVE place \in UpTo(q) \cup First
    <3>1. /\ place \in Devices
          /\ place[1] < q \/ (place[1] = q /\ place[2] < k)
      BY DEF Before, Earlier
    <3>2. CASE place[1] < q
      BY <3>1, <3>2 DEF UpTo
    <3>3. CASE place[1] = q /\ place[2] < k
      <4>1. place \in {q} \X (0..Len(platforms[q + 1])-1)
        BY <1>5, <3>1, <3>3 DEF OnPlatform
      <4>2. place = <<place[1], place[2]>> /\ place[2] \in 0..k-1
        BY <1>1, <3>3, <4>1
      <4>. QED
        BY <3>3, <4>2
    <3>. QED
      BY <3>1, <3>2, <3>3
  <2>2. ASSUME NEW place \in UpTo(q) PROVE place \in Before(<<q, k>>)
    BY DEF UpTo, Before, Earlier
  <2>3. ASSUME NEW place \in First PROVE place \in Before(<<q, k>>)
    <3>1. PICK m \in 0..k-1 : place = <<q, m>>
      OBVIOUS
    <3>2. m \in 0..Len(platforms[q + 1])-1 /\ m < k
      BY <1>1
    <3>3. place \in Devices
      BY <3>1, <3>2 DEF Devices
    <3>. QED
      BY <3>1, <3>2, <3>3 DEF Before, Earlier
  <2>. QED
    BY <2>1, <2>2, <2>3
<1>7. UpTo(q) \cap First = {}
  BY <1>1 DEF UpTo
<1>. HIDE DEF First
<1>8. Cardinality(UpTo(q) \cup First) = Cardinality(UpTo(q)) + Cardinality(First)
  BY <1>3, <1>4, <1>7, DisjointUnion
<1>. QED
  BY <1>2, <1>3, <1>6, <1>8

-----------------------------------------------------------------------------
(* The search.                                                             *)

InRange == asked \in 0..Cardinality(Devices)-1

(* While the search runs, the number that was asked for is what is left of *)
(* it and the devices of the platforms that were passed.                   *)
Searched ==
  /\ world \in Worlds /\ asked \in Int
  /\ pc = "platforms" => p = 0 /\ request = asked
  /\ pc = "search" => /\ p \in 0..Len(platforms) /\ request \in Nat
                      /\ asked = request + Cardinality(UpTo(p))
  /\ pc = "best" => asked < 0
  /\ InRange =>
       /\ pc # "outside"
       /\ pc = "init" => chosen \in Devices /\ asked = Cardinality(Before(chosen))
       /\ pc \in {"context", "queue", "build", "fill", "open"} =>
            asked = Cardinality(Before(device))

LEMMA SearchInit == Init => Searched
BY DEF Init, Searched, InRange

LEMMA SearchNext == Searched /\ [Next]_vars => Searched'
<1>. SUFFICES ASSUME Searched, [Next]_vars PROVE Searched'
  OBVIOUS
<1>1. world' = world
  BY DEF Next, vars, Construct, FindPlatforms, SearchPlatform, SearchEnds, PickBest, UseChoice,
         CreateContext, CreateContextFails, CreateQueue, CreateQueueFails, CreateProgram,
         FillKernels, Shutdown, Ended
<1>2. /\ Devices' = Devices /\ platforms' = platforms
      /\ \A x : Before(x)' = Before(x)
      /\ \A x : UpTo(x)' = UpTo(x)
  BY <1>1 DEF Devices, platforms, Before, UpTo
<1>3. world \in Worlds /\ asked \in Int /\ Len(platforms) \in Nat
  BY ListsLen DEF Searched
<1>4. ASSUME NEW id \in Requests, Construct(id) PROVE Searched'
  BY <1>1, <1>3, <1>4, RuntimeAssumption DEF Construct, Searched
<1>5. CASE FindPlatforms
  <2>1. UpTo(0) = {} /\ Cardinality(UpTo(0)) = 0
    BY <1>3, Counted, FS_EmptySet
  <2>. QED
    BY <1>1, <1>2, <1>3, <1>5, <2>1 DEF FindPlatforms, Searched, choice, InRange
<1>6. CASE SearchPlatform
  <2>. DEFINE count == Len(platforms[p + 1])
  <2>1. /\ pc = "search" /\ p \in 0..Len(platforms)-1 /\ request \in Nat /\ count \in Nat
        /\ asked = request + Cardinality(UpTo(p)) /\ asked' = asked
    BY <1>3, <1>6, ListsLen DEF SearchPlatform, Searched
  <2>2. /\ Cardinality(UpTo(p)) \in Nat
        /\ Cardinality(UpTo(p + 1)) = Cardinality(UpTo(p)) + count
    BY <1>3, <2>1, OneMorePlatform
  <2>3. CASE count <= request
    <3>1. pc' = "search" /\ p' = p + 1 /\ request' = request - count
      BY <1>6, <2>1, <2>3 DEF SearchPlatform, PassesPlatform
    <3>2. p' \in 0..Len(platforms) /\ request' \in Nat
          /\ asked = request' + Cardinality(UpTo(p'))
      BY <1>3, <2>1, <2>2, <2>3, <3>1
    <3>3. UpTo(p)' = UpTo(p')
      BY <1>2 DEF UpTo
    <3>. QED
      BY <1>1, <1>2, <1>3, <2>1, <3>1, <3>2, <3>3 DEF Searched
  <2>4. CASE ~ (count <= request)
    <3>1. pc' = "init" /\ chosen' = <<p, request>>
      BY <1>6, <2>1, <2>4 DEF SearchPlatform, PassesPlatform
    <3>2. request \in 0..count-1
      BY <2>1, <2>4
    <3>3. chosen' \in Devices /\ Cardinality(Before(chosen')) = asked
      BY <1>3, <2>1, <2>2, <3>1, <3>2, CountBefore
    <3>4. Before(chosen)' = Before(chosen')
      BY <1>2 DEF Before
    <3>. QED
      BY <1>1, <1>2, <1>3, <2>1, <3>1, <3>3, <3>4 DEF Searched
  <2>. QED
    BY <2>3, <2>4
<1>7. CASE SearchEnds
  <2>1. p = Len(platforms) /\ asked = request + Cardinality(UpTo(p)) /\ request \in Nat /\ asked' = asked
    BY <1>7 DEF SearchEnds, Searched
  <2>2. UpTo(p) = Devices /\ Cardinality(Devices) \in Nat
    BY <1>3, <2>1, Counted, UpToIsFinite, FS_CardinalityType
  <2>3. ~ InRange /\ ~ InRange'
    BY <1>2, <2>1, <2>2 DEF InRange
  <2>. QED
    BY <1>1, <1>2, <1>3, <1>7, <2>3 DEF SearchEnds, Searched
<1>8. CASE PickBest
  BY <1>1, <1>2, <1>3, <1>8 DEF PickBest, Searched, InRange
<1>9. CASE UseChoice
  <2>1. InRange' = InRange
    BY <1>2, <1>9 DEF UseChoice, InRange
  <2>2. Before(device)' = Before(device')
    BY <1>2 DEF Before
  <2>. QED
    BY <1>1, <1>2, <1>3, <1>9, <2>1, <2>2 DEF UseChoice, Searched, choice
<1>10. CASE \/ CreateContext \/ CreateContextFails \/ CreateQueue \/ CreateQueueFails
            \/ CreateProgram \/ FillKernels
  <2>1. /\ pc \in {"context", "queue", "build", "fill"} /\ device' = device /\ asked' = asked
        /\ pc' \in {"queue", "build", "fill", "open"}
    BY <1>10 DEF CreateContext, CreateContextFails, CreateQueue, CreateQueueFails, CreateProgram,
                 FillKernels
  <2>2. Before(device)' = Before(device) /\ InRange' = InRange
    BY <1>1, <1>2, <2>1 DEF InRange, Before, Devices, platforms
  <2>. QED
    BY <1>1, <1>2, <1>3, <2>1, <2>2 DEF Searched
<1>11. CASE Shutdown
  BY <1>1, <1>2, <1>3, <1>11 DEF Shutdown, Searched
<1>12. CASE UNCHANGED vars
  <2>1. UNCHANGED <<asked, pc, p, request, chosen, device>>
    BY <1>12 DEF vars, choice, handles
  <2>2. /\ InRange' = InRange /\ Before(device)' = Before(device)
        /\ Before(chosen)' = Before(chosen) /\ UpTo(p)' = UpTo(p)
    BY <1>2, <2>1 DEF InRange, Before, UpTo
  <2>. QED
    BY <1>1, <1>2, <2>1, <2>2 DEF Searched
<1>. QED
  BY <1>4, <1>5, <1>6, <1>7, <1>8, <1>9, <1>10, <1>11, <1>12 DEF Next, Ended

(* Whatever platforms there are, with or without GPUs, a number that a     *)
(* device has leads to that device and never out of the list of devices    *)
(* (ocl.cpp:92-125).                                                       *)
THEOREM DeviceOfNumber == Spec => []RequestedDevice
<1>1. Searched => RequestedDevice
  <2>. SUFFICES ASSUME Searched PROVE RequestedDevice
    OBVIOUS
  <2>1. world \in Worlds /\ asked \in Int /\ Len(platforms) \in Nat
    BY ListsLen DEF Searched
  <2>2. Cardinality(Devices) \in Nat
    BY <2>1, Counted, UpToIsFinite, FS_CardinalityType
  <2>. QED
    BY <2>1, <2>2 DEF Searched, InRange, RequestedDevice
<1>. QED
  BY SearchInit, SearchNext, <1>1, PTL DEF Spec

-----------------------------------------------------------------------------
(* Ownership of device memory.                                             *)

GoneHoldNothing == \A o \in Objects \ built : ptr[o] = None

DInv == DTypeOK /\ OwnedOnce /\ GoneHoldNothing

(* The lengths of every class are lengths.                                 *)
LEMMA LengthsAreLengths ==
  ASSUME NEW o, NEW s \in Lengths(o)
  PROVE  s \in [Fields -> Nat]
<1>0. /\ 0..MaxNNZ \subseteq Nat /\ 0..MaxSize \subseteq Nat
      /\ NRow + 1 \in Nat
  BY BuffersAssumption
<1>1. ASSUME NEW n \in Nat, NEW S PROVE Length(n, S) \in [Fields -> Nat]
  BY DEF Length
<1>2. ASSUME NEW n \in Nat PROVE CsrLength(n) \in [Fields -> Nat]
  BY <1>0 DEF CsrLength
<1>3. ASSUME NEW e \in Nat, NEW c \in Nat PROVE HybLength(e, c) \in [Fields -> Nat]
  BY DEF HybLength
<1> QED
  BY <1>0, <1>1, <1>2, <1>3 DEF Lengths

(* Releasing an object leaves every buffer it does not hold as it is.      *)
LEMMA ReleasedKeepsOthers ==
  ASSUME DTypeOK, NEW o
  PROVE  /\ Freed(o) \in [Buffers -> Nat]
         /\ \A b \in Buffers : b \notin Held(o) => Freed(o)[b] = mem[b]
BY DEF DTypeOK, Freed

(* What an allocation gives: handles that were not in use, each of them    *)
(* once, to buffers as long as the object says; every other buffer is as   *)
(* it was.                                                                 *)
LEMMA AllocateGives ==
  ASSUME DTypeOK, NEW o \in Objects, NEW s \in Lengths(o),
         NEW STATE m, m \in [Buffers -> Nat], Allocate(o, s, m)
  PROVE  /\ size' \in [Objects -> [Fields -> Nat]]
         /\ ptr' \in [Objects -> [Fields -> Buffers \cup {NoBuffer}]]
         /\ mem' \in [Buffers -> Nat]
         /\ \A q \in Objects : q # o => ptr'[q] = ptr[q]
         /\ size'[o] = s /\ \A q \in Objects : q # o => size'[q] = size[q]
         /\ \A b \in Buffers : m[b] > 0 => mem'[b] = m[b]
         /\ \A b \in Buffers : (\A f \in Fields : ptr'[o][f] # b) => mem'[b] = m[b]
         /\ \A f \in Fields : ptr'[o][f] # NoBuffer =>
              /\ m[ptr'[o][f]] = 0
              /\ mem'[ptr'[o][f]] > 0 /\ mem'[ptr'[o][f]] = s[f]
              /\ \A g \in Fields : ptr'[o][g] = ptr'[o][f] => g = f
<1>1. s \in [Fields -> Nat]
  BY LengthsAreLengths
<1>2. PICK got \in SUBSET {f \in Fields : s[f] > 0} :
        LET h == Lowest(got, m)
        IN  /\ Fresh(h, got, m)
            /\ ptr' = [ptr EXCEPT ![o] = h]
            /\ mem' = [b \in Buffers |-> IF \E f \in got : h[f] = b
                                         THEN s[CHOOSE f \in got : h[f] = b] ELSE m[b]]
            /\ size' = [size EXCEPT ![o] = s]
  BY DEF Allocate
<1> DEFINE h == Lowest(got, m)
<1>3. /\ h \in [Fields -> Buffers \cup {NoBuffer}]
      /\ \A f \in Fields \ got : h[f] = NoBuffer
      /\ \A f \in got : /\ h[f] \in Buffers /\ m[h[f]] = 0
                        /\ \A g \in got : h[f] = h[g] => f = g
  BY <1>2 DEF Fresh
<1>4. /\ ptr' = [ptr EXCEPT ![o] = h]
      /\ mem' = [b \in Buffers |-> IF \E f \in got : h[f] = b
                                   THEN s[CHOOSE f \in got : h[f] = b] ELSE m[b]]
      /\ size' = [size EXCEPT ![o] = s]
  BY <1>2
<1> HIDE DEF h
<1>5. size' \in [Objects -> [Fields -> Nat]] /\ ptr' \in [Objects -> [Fields -> Buffers \cup {NoBuffer}]]
  BY <1>1, <1>3, <1>4 DEF DTypeOK
<1>6. ptr'[o] = h /\ \A q \in Objects : q # o => ptr'[q] = ptr[q]
  BY <1>4 DEF DTypeOK
<1>7. ASSUME NEW f \in got PROVE mem'[h[f]] = s[f] /\ s[f] > 0
  <2>1. (CHOOSE g \in got : h[g] = h[f]) = f
    BY <1>3
  <2>2. h[f] \in Buffers /\ \E g \in got : h[g] = h[f]
    BY <1>3
  <2>3. mem'[h[f]] = s[CHOOSE g \in got : h[g] = h[f]]
    BY <2>2, <1>4
  <2> QED
    BY <2>1, <2>3
<1>8. ASSUME NEW b \in Buffers, \A f \in got : h[f] # b PROVE mem'[b] = m[b]
  BY <1>4, <1>8
<1>9. mem' \in [Buffers -> Nat]
  <2>1. ASSUME NEW b \in Buffers PROVE mem'[b] \in Nat
    <3>1. CASE \E f \in got : h[f] = b
      BY <3>1, <1>1, <1>7
    <3>2. CASE \A f \in got : h[f] # b
      BY <3>2, <1>8
    <3> QED
      BY <3>1, <3>2
  <2> QED
    BY <2>1, <1>4
<1>10. \A b \in Buffers : m[b] > 0 => mem'[b] = m[b]
  BY <1>3, <1>8
<1>11. ASSUME NEW f \in Fields, h[f] # NoBuffer
       PROVE  /\ m[h[f]] = 0 /\ mem'[h[f]] > 0 /\ mem'[h[f]] = s[f]
              /\ \A g \in Fields : h[g] = h[f] => g = f
  <2>1. f \in got
    BY <1>3, <1>11
  <2> QED
    BY <2>1, <1>3, <1>7, <1>11
<1>12. ASSUME NEW b \in Buffers, \A f \in Fields : h[f] # b PROVE mem'[b] = m[b]
  BY <1>8, <1>12
<1>13. size'[o] = s /\ \A q \in Objects : q # o => size'[q] = size[q]
  BY <1>4 DEF DTypeOK
<1> QED
  BY <1>5, <1>6, <1>9, <1>10, <1>11, <1>12, <1>13

(* The invariant survives allocating for o over m, if m has every buffer   *)
(* that another object holds.                                              *)
LEMMA AllocateKeepsOwners ==
  ASSUME DInv, NEW o \in Objects, NEW s \in Lengths(o),
         NEW STATE m, m \in [Buffers -> Nat], Allocate(o, s, m),
         \A q \in built, f \in Fields :
           q # o /\ ptr[q][f] # NoBuffer => m[ptr[q][f]] = mem[ptr[q][f]],
         built' = built \cup {o}
  PROVE  OwnedOnce' /\ GoneHoldNothing'
<1>1. /\ \A q \in Objects : q # o => ptr'[q] = ptr[q]
      /\ \A b \in Buffers : m[b] > 0 => mem'[b] = m[b]
      /\ \A f \in Fields : ptr'[o][f] # NoBuffer =>
           /\ m[ptr'[o][f]] = 0
           /\ mem'[ptr'[o][f]] > 0
           /\ \A g \in Fields : ptr'[o][g] = ptr'[o][f] => g = f
  BY AllocateGives DEF DInv
<1>2. ASSUME NEW q \in built, q # o, NEW f \in Fields, ptr[q][f] # NoBuffer
      PROVE  /\ ptr'[q][f] = ptr[q][f] /\ ptr[q][f] \in Buffers
             /\ m[ptr[q][f]] > 0 /\ mem'[ptr'[q][f]] > 0
  <2>1. q \in Objects /\ ptr[q][f] \in Buffers
    BY <1>2 DEF DInv, DTypeOK
  <2>2. mem[ptr[q][f]] > 0
    BY <1>2 DEF DInv, OwnedOnce
  <2> QED
    BY <2>1, <2>2, <1>1, <1>2
<1>3. OwnedOnce'
  <2> SUFFICES ASSUME NEW q \in built', NEW f \in Fields, ptr'[q][f] # NoBuffer
               PROVE  /\ mem'[ptr'[q][f]] > 0
                      /\ \A r \in built', g \in Fields :
                           ptr'[r][g] = ptr'[q][f] => r = q /\ g = f
    BY DEF OwnedOnce
  <2>1. CASE q = o
    <3>1. ASSUME NEW r \in built', NEW g \in Fields, ptr'[r][g] = ptr'[q][f]
          PROVE  r = q /\ g = f
      <4>1. CASE r = o
        BY <4>1, <3>1, <2>1, <1>1
      <4>2. CASE r # o
        <5>1. r \in built /\ r \in Objects
          BY <4>2 DEF DInv, DTypeOK
        <5>2. ptr[r][g] # NoBuffer /\ m[ptr[r][g]] = 0
          BY <5>1, <4>2, <3>1, <2>1, <1>1
        <5> QED
          BY <5>1, <5>2, <4>2, <1>2
      <4> QED
        BY <4>1, <4>2
    <3> QED
      BY <3>1, <2>1, <1>1
  <2>2. CASE q # o
    <3>1. q \in built /\ q \in Objects /\ ptr[q][f] # NoBuffer
      BY <2>2, <1>1 DEF DInv, DTypeOK
    <3>2. ASSUME NEW r \in built', NEW g \in Fields, ptr'[r][g] = ptr'[q][f]
          PROVE  r = q /\ g = f
      <4>1. CASE r = o
        BY <4>1, <3>1, <3>2, <2>2, <1>1, <1>2
      <4>2. CASE r # o
        <5>1. r \in built /\ r \in Objects
          BY <4>2 DEF DInv, DTypeOK
        <5>2. ptr[r][g] = ptr[q][f]
          BY <5>1, <4>2, <3>1, <3>2, <2>2, <1>1
        <5> QED
          BY <5>1, <5>2, <3>1 DEF DInv, OwnedOnce
      <4> QED
        BY <4>1, <4>2
    <3> QED
      BY <3>1, <3>2, <2>2, <1>2
  <2> QED
    BY <2>1, <2>2
<1>4. GoneHoldNothing'
  BY <1>1 DEF DInv, GoneHoldNothing
<1> QED
  BY <1>3, <1>4

(* ... and releasing o, which is then empty or gone.                       *)
LEMMA ReleaseKeepsOwners ==
  ASSUME DInv, NEW o \in built,
         size' = [size EXCEPT ![o] = Empty],
         ptr' = [ptr EXCEPT ![o] = None],
         mem' = Freed(o),
         built' \in {built, built \ {o}},
         unset' \in {unset, unset \ {o}}, unset' \subseteq built',
         status' = status
  PROVE  DInv'
<1>1. o \in Objects /\ Empty \in [Fields -> Nat] /\ None \in [Fields -> Buffers \cup {NoBuffer}]
  BY DEF DInv, DTypeOK, Empty, Length, None
<1>2. DTypeOK'
  BY <1>1, ReleasedKeepsOthers DEF DInv, DTypeOK
<1>3. ptr'[o] = None /\ \A q \in Objects : q # o => ptr'[q] = ptr[q]
  BY <1>1 DEF DInv, DTypeOK
<1>4. ASSUME NEW q \in built', NEW f \in Fields, ptr'[q][f] # NoBuffer
      PROVE  /\ q # o /\ q \in built /\ ptr'[q][f] = ptr[q][f]
             /\ mem'[ptr[q][f]] = mem[ptr[q][f]]
  <2>1. q # o
    BY <1>3, <1>4 DEF None
  <2>2. q \in built /\ q \in Objects /\ ptr'[q][f] = ptr[q][f]
    BY <2>1, <1>3 DEF DInv, DTypeOK
  <2>3. ptr[q][f] \in Buffers
    BY <2>2, <1>4 DEF DInv, DTypeOK
  <2>4. ptr[q][f] \notin Held(o)
    BY <2>1, <2>2, <1>4 DEF DInv, OwnedOnce, Held
  <2> QED
    BY <2>1, <2>2, <2>3, <2>4, ReleasedKeepsOthers DEF DInv
<1>5. OwnedOnce'
  BY <1>4 DEF DInv, OwnedOnce
<1>6. GoneHoldNothing'
  BY <1>1, <1>3 DEF DInv, GoneHoldNothing
<1> QED
  BY <1>2, <1>5, <1>6 DEF DInv

-----------------------------------------------------------------------------

LEMMA InitOwned == DInit => DInv
<1>1. /\ Empty \in [Fields -> Nat] /\ None \in [Fields -> Buffers \cup {NoBuffer}]
      /\ [b \in Buffers |-> 0] \in [Buffers -> Nat]
  BY DEF Empty, Length, None
<1> QED
  BY <1>1 DEF DInit, DInv, DTypeOK, OwnedOnce, GoneHoldNothing

(* Releasing first leaves what the others hold.                            *)
LEMMA OthersUntouched ==
  ASSUME DInv, NEW o \in built
  PROVE  /\ Freed(o) \in [Buffers -> Nat]
         /\ \A q \in built, f \in Fields :
              q # o /\ ptr[q][f] # NoBuffer => Freed(o)[ptr[q][f]] = mem[ptr[q][f]]
<1>1. ASSUME NEW q \in built, NEW f \in Fields, q # o, ptr[q][f] # NoBuffer
      PROVE  ptr[q][f] \in Buffers /\ ptr[q][f] \notin Held(o)
  BY <1>1 DEF DInv, DTypeOK, OwnedOnce, Held
<1> QED
  BY <1>1, ReleasedKeepsOthers DEF DInv

LEMMA NextOwned == DInv /\ [DNext]_dvars => DInv'
<1> SUFFICES ASSUME DInv, [DNext]_dvars PROVE DInv'
  OBVIOUS
<1>0. Objects = Matrices \cup Vectors /\ CSR \cup HYB \subseteq Objects
  BY DEF Objects, Matrices
<1>1. ASSUME NEW o \in Objects, ConstructDefault(o) PROVE DInv'
  <2>1. o \notin built /\ ptr[o] = None
    BY <1>1 DEF ConstructDefault, DInv, GoneHoldNothing
  <2>2. /\ Empty \in [Fields -> Nat] /\ None \in [Fields -> Buffers \cup {NoBuffer}]
        /\ \A f \in Fields : None[f] = NoBuffer
    BY DEF Empty, Length, None
  <2>3. ptr' = ptr
    BY <1>1, <2>1 DEF ConstructDefault, DInv, DTypeOK
  <2>4. DTypeOK'
    BY <1>1, <2>2, <2>3 DEF ConstructDefault, DInv, DTypeOK
  <2>5. OwnedOnce'
    BY <1>1, <2>1, <2>2, <2>3 DEF ConstructDefault, DInv, OwnedOnce
  <2>6. GoneHoldNothing'
    BY <1>1, <2>3 DEF ConstructDefault, DInv, GoneHoldNothing
  <2> QED
    BY <2>4, <2>5, <2>6 DEF DInv
<1>2. ASSUME NEW o \in Objects, ConstructFrom(o) PROVE DInv'
  <2>1. PICK s \in Lengths(o) :
          IF Ignores(o, s)
          THEN /\ unset' = unset \cup {o}
               /\ UNCHANGED <<size, ptr, mem>>
          ELSE /\ Allocate(o, s, mem)
               /\ UNCHANGED unset
    BY <1>2 DEF ConstructFrom
  <2>2. o \notin built /\ built' = built \cup {o} /\ status' = status
    BY <1>2 DEF ConstructFrom
  <2>3. CASE Ignores(o, s)
    <3>1. ptr[o] = None /\ \A f \in Fields : None[f] = NoBuffer
      BY <2>2 DEF DInv, GoneHoldNothing, None
    <3>2. DTypeOK'
      BY <2>1, <2>2, <2>3 DEF DInv, DTypeOK, Ignores
    <3>3. OwnedOnce'
      BY <2>1, <2>2, <2>3, <3>1 DEF DInv, OwnedOnce
    <3>4. GoneHoldNothing'
      BY <2>1, <2>2, <2>3 DEF DInv, GoneHoldNothing
    <3> QED
      BY <3>2, <3>3, <3>4 DEF DInv
  <2>4. CASE ~Ignores(o, s)
    <3>1. Allocate(o, s, mem) /\ unset' = unset /\ mem \in [Buffers -> Nat]
      BY <2>1, <2>4 DEF DInv, DTypeOK
    <3>2. DTypeOK'
      BY <3>1, <2>2, AllocateGives DEF DInv, DTypeOK
    <3>3. OwnedOnce' /\ GoneHoldNothing'
      BY <3>1, <2>2, AllocateKeepsOwners
    <3> QED
      BY <3>2, <3>3 DEF DInv
  <2> QED
    BY <2>3, <2>4
<1>3. ASSUME NEW o \in Objects, Destroy(o) PROVE DInv'
  <2>1. unset \ {o} \subseteq built \ {o}
    BY DEF DInv, DTypeOK
  <2> QED
    BY <1>3, <2>1, ReleaseKeepsOwners DEF Destroy
<1>4. ASSUME NEW o \in Matrices, Clear(o) PROVE DInv'
  <2>1. unset \subseteq built
    BY DEF DInv, DTypeOK
  <2> QED
    BY <1>4, <2>1, ReleaseKeepsOwners DEF Clear
<1>5. ASSUME NEW o \in Matrices, Load(o) PROVE DInv'
  <2>1. PICK s \in Lengths(o) :
          IF Ignores(o, s)
          THEN /\ size' = [size EXCEPT ![o] = Empty]
               /\ ptr' = [ptr EXCEPT ![o] = None]
               /\ mem' = Freed(o)
               /\ UNCHANGED unset
          ELSE /\ Allocate(o, s, Freed(o))
               /\ unset' = unset \ {o}
    BY <1>5 DEF Load
  <2>2. o \in built /\ built' = built /\ status' = status /\ unset \subseteq built
    BY <1>5 DEF Load, DInv, DTypeOK
  <2>3. CASE Ignores(o, s)
    BY <2>1, <2>2, <2>3, ReleaseKeepsOwners
  <2>4. CASE ~Ignores(o, s)
    <3>1. Allocate(o, s, Freed(o)) /\ unset' = unset \ {o} /\ o \in Objects
          /\ built' = built \cup {o}
      BY <2>1, <2>2, <2>4 DEF DInv, DTypeOK
    <3>2. DTypeOK'
      BY <3>1, <2>2, AllocateGives, OthersUntouched DEF DInv, DTypeOK
    <3>3. OwnedOnce' /\ GoneHoldNothing'
      BY <3>1, <2>2, AllocateKeepsOwners, OthersUntouched
    <3> QED
      BY <3>2, <3>3 DEF DInv
  <2> QED
    BY <2>3, <2>4
<1>6. ASSUME NEW o \in Matrices, LoadHyb(o) PROVE DInv'
  <2>1. PICK s \in Lengths(o) : Allocate(o, s, mem)
    BY <1>6 DEF LoadHyb
  <2>2. o \in built /\ o \in Objects /\ built' = built /\ built' = built \cup {o}
        /\ unset' = unset \ {o} /\ status' = status /\ mem \in [Buffers -> Nat]
    BY <1>6 DEF LoadHyb, DInv, DTypeOK
  <2>3. DTypeOK'
    BY <2>1, <2>2, AllocateGives DEF DInv, DTypeOK
  <2>4. OwnedOnce' /\ GoneHoldNothing'
    BY <2>1, <2>2, AllocateKeepsOwners
  <2> QED
    BY <2>3, <2>4 DEF DInv
<1>7. ASSUME NEW o \in Matrices, Crash(o) PROVE DInv'
  BY <1>7 DEF Crash, DInv, DTypeOK, OwnedOnce, GoneHoldNothing
<1>8. ASSUME NEW v \in Vectors, Assign(v) PROVE DInv'
  <2>1. PICK s \in Lengths(v) : Allocate(v, s, Freed(v))
    BY <1>8 DEF Assign
  <2>2. v \in built /\ v \in Objects /\ built' = built /\ built' = built \cup {v}
        /\ unset' = unset /\ status' = status
    BY <1>8 DEF Assign, DInv, DTypeOK
  <2>3. DTypeOK'
    BY <2>1, <2>2, AllocateGives, OthersUntouched DEF DInv, DTypeOK
  <2>4. OwnedOnce' /\ GoneHoldNothing'
    BY <2>1, <2>2, AllocateKeepsOwners, OthersUntouched
  <2> QED
    BY <2>3, <2>4 DEF DInv
<1>9. ASSUME NEW v \in Vectors, LoadVector(v) PROVE DInv'
  <2>1. \A s \in Lengths(v) : s \in [Fields -> Nat]
    BY LengthsAreLengths
  <2> QED
    BY <2>1, <1>9 DEF LoadVector, DInv, DTypeOK, OwnedOnce, GoneHoldNothing
<1>10. ASSUME NEW o \in Matrices, MultiplyCOO(o) PROVE DInv'
  <2>1. PICK temps \in SUBSET {b \in Buffers : mem[b] = 0} :
          mem' = [b \in Buffers |-> IF b \in temps THEN 1 ELSE mem[b]]
    BY <1>10 DEF MultiplyCOO
  <2>2. UNCHANGED <<built, unset, size, ptr, status>>
    BY <1>10 DEF MultiplyCOO
  <2>3. DTypeOK'
    BY <2>1, <2>2 DEF DInv, DTypeOK
  <2>4. ASSUME NEW q \in built, NEW f \in Fields, ptr[q][f] # NoBuffer
        PROVE  mem'[ptr[q][f]] = mem[ptr[q][f]]
    <3>1. ptr[q][f] \in Buffers /\ mem[ptr[q][f]] > 0
      BY <2>4 DEF DInv, DTypeOK, OwnedOnce
    <3> QED
      BY <2>1, <3>1
  <2>5. OwnedOnce' /\ GoneHoldNothing'
    BY <2>2, <2>4 DEF DInv, OwnedOnce, GoneHoldNothing
  <2> QED
    BY <2>3, <2>5 DEF DInv
<1>11. CASE UNCHANGED dvars
  BY <1>11 DEF dvars, DInv, DTypeOK, OwnedOnce, GoneHoldNothing
<1> QED
  BY <1>1, <1>2, <1>3, <1>4, <1>5, <1>6, <1>7, <1>8, <1>9, <1>10, <1>11 DEF DNext, Crashed

(* Every variable keeps its type.                                          *)
THEOREM BuffersTypeCorrect == DSpec => []DTypeOK
<1>1. DInv => DTypeOK
  BY DEF DInv
<1> QED
  BY InitOwned, NextOwned, <1>1, PTL DEF DSpec

(* No array belongs to two objects, or to an object after it was released, *)
(* whatever sequence of constructions, loads, assignments, clears and      *)
(* destructions of whatever objects, and whichever allocations fail.       *)
THEOREM Ownership == DSpec => []OwnedOnce
<1>1. DInv => OwnedOnce
  BY DEF DInv
<1> QED
  BY InitOwned, NextOwned, <1>1, PTL DEF DSpec

-----------------------------------------------------------------------------
(* Members and buffers agree.                                              *)

(* A buffer that an object holds is in use, and the object exists.         *)
LEMMA HeldIsOwned ==
  ASSUME DInv, NEW o \in Objects, NEW f \in Fields, ptr[o][f] # NoBuffer
  PROVE  o \in built /\ ptr[o][f] \in Buffers /\ mem[ptr[o][f]] > 0
<1>1. o \in built
  BY DEF DInv, GoneHoldNothing, None
<1> QED
  BY <1>1 DEF DInv, DTypeOK, OwnedOnce

(* Allocating for q makes q agree and leaves the others as they are.       *)
LEMMA AllocateAgrees ==
  ASSUME DInv, NEW q \in Objects, NEW s \in Lengths(q),
         NEW STATE m, m \in [Buffers -> Nat], Allocate(q, s, m),
         \A r \in built, f \in Fields :
           r # q /\ ptr[r][f] # NoBuffer => m[ptr[r][f]] = mem[ptr[r][f]],
         NEW o \in Objects, Agrees(o)
  PROVE  Agrees(o)'
<1> SUFFICES ASSUME NEW f \in Fields, ptr'[o][f] # NoBuffer
             PROVE  mem'[ptr'[o][f]] = size'[o][f]
  BY DEF Agrees
<1>1. /\ \A r \in Objects : r # q => ptr'[r] = ptr[r] /\ size'[r] = size[r]
      /\ size'[q] = s
      /\ \A b \in Buffers : m[b] > 0 => mem'[b] = m[b]
      /\ \A g \in Fields : ptr'[q][g] # NoBuffer => mem'[ptr'[q][g]] = s[g]
  BY AllocateGives DEF DInv
<1>2. CASE o = q
  BY <1>1, <1>2
<1>3. CASE o # q
  <2>1. ptr'[o] = ptr[o] /\ size'[o] = size[o]
    BY <1>1, <1>3
  <2>2. o \in built /\ ptr[o][f] \in Buffers /\ mem[ptr[o][f]] > 0
    BY <2>1, HeldIsOwned
  <2>3. mem'[ptr[o][f]] = mem[ptr[o][f]]
    BY <2>1, <2>2, <1>1, <1>3
  <2> QED
    BY <2>1, <2>3 DEF Agrees
<1> QED
  BY <1>2, <1>3

(* Releasing q leaves the others as they are.                              *)
LEMMA ReleaseAgrees ==
  ASSUME DInv, NEW q \in built,
         size' = [size EXCEPT ![q] = Empty],
         ptr' = [ptr EXCEPT ![q] = None],
         mem' = Freed(q),
         NEW o \in Objects, Agrees(o)
  PROVE  Agrees(o)'
<1> SUFFICES ASSUME NEW f \in Fields, ptr'[o][f] # NoBuffer
             PROVE  mem'[ptr'[o][f]] = size'[o][f]
  BY DEF Agrees
<1>1. q \in Objects
  BY DEF DInv, DTypeOK
<1>2. o # q /\ ptr'[o] = ptr[o] /\ size'[o] = size[o]
  BY <1>1 DEF DInv, DTypeOK, None
<1>3. o \in built
  BY <1>2, HeldIsOwned
<1>4. mem'[ptr[o][f]] = mem[ptr[o][f]]
  BY <1>2, <1>3, OthersUntouched
<1> QED
  BY <1>2, <1>4 DEF Agrees

(* No step but Vector::load makes an object that agrees with its buffers   *)
(* disagree with them.                                                     *)
LEMMA NextAgrees ==
  DInv /\ [DNext]_dvars =>
    [\A o \in Objects : Agrees(o) => Agrees(o)' \/ LoadVector(o)]_dvars
<1> SUFFICES ASSUME DInv, DNext, NEW o \in Objects, Agrees(o)
             PROVE  Agrees(o)' \/ LoadVector(o)
  OBVIOUS
<1>0. /\ Objects = Matrices \cup Vectors
      /\ built \subseteq Objects /\ mem \in [Buffers -> Nat]
  BY DEF Objects, DInv, DTypeOK
<1>1. ASSUME NEW q \in Objects, ConstructDefault(q) PROVE Agrees(o)'
  <2>1. CASE o = q
    BY <2>1, <1>1 DEF ConstructDefault, Agrees, DInv, DTypeOK, None
  <2>2. CASE o # q
    BY <2>2, <1>1 DEF ConstructDefault, Agrees, DInv, DTypeOK
  <2> QED
    BY <2>1, <2>2
<1>2. ASSUME NEW q \in Objects, ConstructFrom(q) PROVE Agrees(o)'
  <2>1. PICK s \in Lengths(q) :
          UNCHANGED <<size, ptr, mem>> \/ Allocate(q, s, mem)
    BY <1>2 DEF ConstructFrom
  <2>2. CASE UNCHANGED <<size, ptr, mem>>
    BY <2>2 DEF Agrees
  <2>3. CASE Allocate(q, s, mem)
    BY <2>3, <1>0, AllocateAgrees
  <2> QED
    BY <2>1, <2>2, <2>3
<1>3. ASSUME NEW q \in Objects, Destroy(q) PROVE Agrees(o)'
  BY <1>3, ReleaseAgrees DEF Destroy
<1>4. ASSUME NEW q \in Matrices, Clear(q) PROVE Agrees(o)'
  BY <1>4, ReleaseAgrees DEF Clear
<1>5. ASSUME NEW q \in Matrices, Load(q) PROVE Agrees(o)'
  <2>0. q \in built /\ q \in Objects
    BY <1>5, <1>0 DEF Load
  <2>1. PICK s \in Lengths(q) :
          IF Ignores(q, s)
          THEN /\ size' = [size EXCEPT ![q] = Empty]
               /\ ptr' = [ptr EXCEPT ![q] = None]
               /\ mem' = Freed(q)
          ELSE Allocate(q, s, Freed(q))
    BY <1>5 DEF Load
  <2>2. CASE Ignores(q, s)
    BY <2>0, <2>1, <2>2, ReleaseAgrees
  <2>3. CASE ~Ignores(q, s)
    BY <2>0, <2>1, <2>3, OthersUntouched, AllocateAgrees
  <2> QED
    BY <2>2, <2>3
<1>6. ASSUME NEW q \in Matrices, LoadHyb(q) PROVE Agrees(o)'
  <2>1. PICK s \in Lengths(q) : Allocate(q, s, mem)
    BY <1>6 DEF LoadHyb
  <2> QED
    BY <2>1, <1>0, AllocateAgrees
<1>7. ASSUME NEW q \in Matrices, MultiplyCOO(q) PROVE Agrees(o)'
  <2>1. PICK temps \in SUBSET {b \in Buffers : mem[b] = 0} :
          mem' = [b \in Buffers |-> IF b \in temps THEN 1 ELSE mem[b]]
    BY <1>7 DEF MultiplyCOO
  <2>2. ptr' = ptr /\ size' = size
    BY <1>7 DEF MultiplyCOO
  <2>3. ASSUME NEW f \in Fields, ptr[o][f] # NoBuffer
        PROVE  mem'[ptr[o][f]] = mem[ptr[o][f]]
    BY <2>1, <2>3, HeldIsOwned
  <2> QED
    BY <2>2, <2>3 DEF Agrees
<1>8. ASSUME NEW v \in Vectors, Assign(v) PROVE Agrees(o)'
  <2>0. v \in built /\ v \in Objects
    BY <1>8, <1>0 DEF Assign
  <2>1. PICK s \in Lengths(v) : Allocate(v, s, Freed(v))
    BY <1>8 DEF Assign
  <2> QED
    BY <2>0, <2>1, OthersUntouched, AllocateAgrees
<1>9. ASSUME NEW v \in Vectors, LoadVector(v) PROVE Agrees(o)' \/ LoadVector(o)
  <2>1. CASE o = v
    BY <2>1, <1>9
  <2>2. CASE o # v
    BY <2>2, <1>9 DEF LoadVector, Agrees, DInv, DTypeOK
  <2> QED
    BY <2>1, <2>2
<1>10. ASSUME UNCHANGED <<size, ptr, mem>> PROVE Agrees(o)'
  BY <1>10 DEF Agrees
<1> QED
  BY <1>1, <1>2, <1>3, <1>4, <1>5, <1>6, <1>7, <1>8, <1>9, <1>10 DEF DNext, Crash, Crashed, dvars

(* An array that was allocated is as long as its object says, until        *)
(* Vector::load sets the size of a vector without regard for its buffer.   *)
THEOREM LoadAloneDisagrees == DSpec => OnlyLoadDisagrees
BY InitOwned, NextOwned, NextAgrees, PTL DEF DSpec, OnlyLoadDisagrees

-----------------------------------------------------------------------------
(* Lost buffers.                                                           *)

Lost == InUse(mem) \ Owned

(* Allocating for o over m loses at most what o held and m still has.      *)
LEMMA AllocateLoses ==
  ASSUME DInv, NEW o \in Objects, NEW s \in Lengths(o),
         NEW STATE m, m \in [Buffers -> Nat], Allocate(o, s, m),
         \A b \in Buffers : m[b] > 0 => mem[b] > 0,
         built' = built \cup {o}
  PROVE  \A b \in Lost' : m[b] > 0 /\ (b \in Lost \/ b \in Held(o))
<1> SUFFICES ASSUME NEW b \in Lost'
             PROVE  m[b] > 0 /\ (b \in Lost \/ b \in Held(o))
  OBVIOUS
<1>1. /\ \A q \in Objects : q # o => ptr'[q] = ptr[q]
      /\ \A c \in Buffers : (\A f \in Fields : ptr'[o][f] # c) => mem'[c] = m[c]
  BY AllocateGives DEF DInv
<1>2. b \in Buffers /\ mem'[b] > 0 /\ \A q \in built' : b \notin Held(q)'
  BY DEF Lost, InUse, Owned
<1>3. \A q \in built', f \in Fields : ptr'[q][f] # b
  BY <1>2 DEF Held, Buffers, NoBuffer
<1>4. mem'[b] = m[b]
  BY <1>1, <1>2, <1>3
<1>5. b \in InUse(mem)
  BY <1>2, <1>4 DEF InUse
<1>6. ASSUME NEW q \in built, q # o PROVE b \notin Held(q)
  <2>1. q \in Objects
    BY DEF DInv, DTypeOK
  <2> QED
    BY <2>1, <1>1, <1>3, <1>6 DEF Held
<1> QED
  BY <1>2, <1>4, <1>5, <1>6 DEF Lost, Owned

(* Releasing an object loses nothing.                                      *)
LEMMA ReleaseLoses ==
  ASSUME DInv, NEW o \in built,
         ptr' = [ptr EXCEPT ![o] = None],
         mem' = Freed(o),
         built' \in {built, built \ {o}}
  PROVE  Lost' \subseteq Lost
<1> SUFFICES ASSUME NEW b \in Lost' PROVE b \in Lost
  OBVIOUS
<1>1. o \in Objects /\ \A q \in Objects : q # o => ptr'[q] = ptr[q]
  BY DEF DInv, DTypeOK
<1>2. b \in Buffers /\ mem'[b] > 0 /\ \A q \in built' : b \notin Held(q)'
  BY DEF Lost, InUse, Owned
<1>3. b \notin Held(o) /\ b \in InUse(mem)
  BY <1>2 DEF Freed, InUse
<1>4. ASSUME NEW q \in built, q # o PROVE b \notin Held(q)
  <2>1. q \in Objects /\ q \in built'
    BY <1>4 DEF DInv, DTypeOK
  <2> QED
    BY <2>1, <1>1, <1>2, <1>4 DEF Held
<1> QED
  BY <1>3, <1>4 DEF Lost, Owned

(* A step loses nothing, or it is one of the two.                          *)
LEMMA NextLoses ==
  ASSUME DInv, DNext
  PROVE  \/ Lost' \subseteq Lost
         \/ \E h \in HYB : LoadHyb(h) /\ Lost' \subseteq Lost \cup Held(h)
         \/ \E m \in COO : MultiplyCOO(m) /\ Cardinality(Lost' \ Lost) <= 2
<1>0. /\ Objects = Matrices \cup Vectors
      /\ built \subseteq Objects /\ mem \in [Buffers -> Nat]
  BY DEF Objects, DInv, DTypeOK
<1>1. ASSUME NEW o \in Objects, o \notin built, ptr'[o] = None,
             \A q \in Objects : q # o => ptr'[q] = ptr[q],
             mem' = mem, built' = built \cup {o}
      PROVE  Lost' \subseteq Lost
  <2>1. \A q \in built : q # o /\ Held(q)' = Held(q)
    BY <1>0, <1>1 DEF Held
  <2> QED
    BY <2>1, <1>1 DEF Lost, Owned, InUse
<1>2. ASSUME NEW o \in Objects, ConstructDefault(o) PROVE Lost' \subseteq Lost
  BY <1>1, <1>2 DEF ConstructDefault, DInv, DTypeOK
<1>3. ASSUME NEW o \in Objects, ConstructFrom(o) PROVE Lost' \subseteq Lost
  <2>1. o \notin built /\ built' = built \cup {o} /\ ptr[o] = None
    BY <1>3 DEF ConstructFrom, DInv, GoneHoldNothing
  <2>2. PICK s \in Lengths(o) : UNCHANGED <<size, ptr, mem>> \/ Allocate(o, s, mem)
    BY <1>3 DEF ConstructFrom
  <2>3. CASE UNCHANGED <<size, ptr, mem>>
    BY <2>1, <2>3, <1>1
  <2>4. CASE Allocate(o, s, mem)
    <3>1. \A b \in Lost' : b \in Lost \/ b \in Held(o)
      BY <2>1, <2>4, <1>0, AllocateLoses
    <3> QED
      BY <3>1, <2>1 DEF Held, None
  <2> QED
    BY <2>2, <2>3, <2>4
<1>4. ASSUME NEW o \in Objects, Destroy(o) PROVE Lost' \subseteq Lost
  BY <1>4, ReleaseLoses DEF Destroy
<1>5. ASSUME NEW o \in Matrices, Clear(o) PROVE Lost' \subseteq Lost
  BY <1>5, ReleaseLoses DEF Clear
<1>6. ASSUME NEW o \in built, NEW s \in Lengths(o), Allocate(o, s, Freed(o)), built' = built
      PROVE  Lost' \subseteq Lost
  <2>1. /\ o \in Objects /\ built' = built \cup {o}
        /\ Freed(o) \in [Buffers -> Nat]
        /\ \A b \in Buffers : Freed(o)[b] > 0 => mem[b] > 0 /\ b \notin Held(o)
    BY <1>0, <1>6, ReleasedKeepsOthers DEF DInv, Freed
  <2>2. \A b \in Lost' : Freed(o)[b] > 0 /\ (b \in Lost \/ b \in Held(o))
    BY <2>1, <1>6, AllocateLoses
  <2>3. Lost' \subseteq Buffers
    BY DEF Lost, InUse, Buffers
  <2> QED
    BY <2>1, <2>2, <2>3
<1>7. ASSUME NEW o \in Matrices, Load(o) PROVE Lost' \subseteq Lost
  <2>1. PICK s \in Lengths(o) :
          IF Ignores(o, s)
          THEN /\ ptr' = [ptr EXCEPT ![o] = None]
               /\ mem' = Freed(o)
          ELSE Allocate(o, s, Freed(o))
    BY <1>7 DEF Load
  <2>2. o \in built /\ built' = built
    BY <1>7 DEF Load
  <2>3. CASE Ignores(o, s)
    BY <2>1, <2>2, <2>3, ReleaseLoses
  <2>4. CASE ~Ignores(o, s)
    BY <2>1, <2>2, <2>4, <1>6
  <2> QED
    BY <2>3, <2>4
<1>8. ASSUME NEW o \in Matrices, LoadHyb(o)
      PROVE  \E h \in HYB : LoadHyb(h) /\ Lost' \subseteq Lost \cup Held(h)
  <2>1. PICK s \in Lengths(o) : Allocate(o, s, mem)
    BY <1>8 DEF LoadHyb
  <2>2. o \in HYB /\ o \in Objects /\ built' = built \cup {o}
    BY <1>0, <1>8 DEF LoadHyb
  <2>3. \A b \in Lost' : b \in Lost \/ b \in Held(o)
    BY <2>1, <2>2, <1>0, AllocateLoses
  <2> QED
    BY <2>2, <2>3, <1>8
<1>9. ASSUME NEW o \in Matrices, MultiplyCOO(o)
      PROVE  \E m \in COO : MultiplyCOO(m) /\ Cardinality(Lost' \ Lost) <= 2
  <2>1. PICK temps \in SUBSET {b \in Buffers : mem[b] = 0} :
          /\ Cardinality(temps) <= 2
          /\ mem' = [b \in Buffers |-> IF b \in temps THEN 1 ELSE mem[b]]
    BY <1>9 DEF MultiplyCOO
  <2>2. o \in COO /\ ptr' = ptr /\ built' = built
    BY <1>9 DEF MultiplyCOO
  <2>3. Owned' = Owned
    BY <2>2 DEF Owned, Held
  <2>4. Lost' \ Lost \subseteq temps
    BY <2>1, <2>3 DEF Lost, InUse
  <2>5. IsFiniteSet(Buffers)
    BY FS_Interval, BuffersAssumption DEF Buffers
  <2>6. IsFiniteSet(temps)
    BY <2>1, <2>5, FS_Subset
  <2>7. Cardinality(Lost' \ Lost) <= Cardinality(temps)
    BY <2>4, <2>6, FS_Subset
  <2>8. Cardinality(temps) \in Nat /\ Cardinality(Lost' \ Lost) \in Nat
    BY <2>4, <2>6, FS_Subset, FS_CardinalityType
  <2> QED
    BY <2>1, <2>2, <2>7, <2>8, <1>9
<1>10. ASSUME NEW v \in Vectors, Assign(v) PROVE Lost' \subseteq Lost
  BY <1>10, <1>6 DEF Assign
<1>11. ASSUME UNCHANGED <<built, ptr, mem>> PROVE Lost' \subseteq Lost
  BY <1>11 DEF Lost, Owned, Held, InUse
<1> QED
  BY <1>2, <1>3, <1>4, <1>5, <1>7, <1>8, <1>9, <1>10, <1>11
  DEF DNext, LoadVector, Crash, Crashed, dvars

(* No buffer is left in use without an owner, save by MatrixHYB::load over *)
(* a matrix and by MatrixCOO::multiply, and by those no more than said.    *)
THEOREM LossesAccounted == DSpec => OnlyTwoLose
<1>1. DInv /\ [DNext]_dvars =>
        [LET lost == InUse(mem) \ Owned IN
           \/ lost' \subseteq lost
           \/ \E h \in HYB : LoadHyb(h) /\ lost' \subseteq lost \cup Held(h)
           \/ \E m \in COO : MultiplyCOO(m) /\ Cardinality(lost' \ lost) <= 2]_dvars
  BY NextLoses DEF Lost
<1> QED
  BY InitOwned, NextOwned, <1>1, PTL DEF DSpec, OnlyTwoLose

=============================================================================
