----------------------------- MODULE DataProofs -----------------------------
(***************************************************************************)
(* Proofs about Boot and Fifo: the memory heap_1.c gives out and the idle  *)
(* tasks the scheduler starts with, and the ring buffer as a queue.        *)
(***************************************************************************)
EXTENDS Boot, Fifo, TLAPS, FiniteSetTheorems, SequenceTheorems

-----------------------------------------------------------------------------
(* Alignment.                                                              *)

Aligned(n) == n % portBYTE_ALIGNMENT = 0

\* The sum of aligned numbers is aligned.
LEMMA AlignedSum ==
  ASSUME BootAssumption, NEW m \in Nat, NEW n \in Nat, Aligned(m), Aligned(n)
  PROVE  Aligned(m + n)
PROOF
<1> DEFINE k == m \div portBYTE_ALIGNMENT
           l == n \div portBYTE_ALIGNMENT
<1>1. portBYTE_ALIGNMENT \in Nat \ {0}
  BY DEF BootAssumption
<1>2. k \in Nat /\ l \in Nat
  BY <1>1
<1>3. m = portBYTE_ALIGNMENT * k /\ n = portBYTE_ALIGNMENT * l
  BY <1>1 DEF Aligned
<1> HIDE DEF k, l
<1>4. m + n = portBYTE_ALIGNMENT * (k + l)
  BY <1>1, <1>2, <1>3
<1>5. (portBYTE_ALIGNMENT * (k + l)) % portBYTE_ALIGNMENT = 0
  BY <1>1, <1>2
<1> QED
  BY <1>4, <1>5 DEF Aligned

\* Numbers with the same remainder differ by an aligned one.
LEMMA AlignedDifference ==
  ASSUME BootAssumption, NEW m \in Nat, NEW n \in Nat, Aligned(m), Aligned(n), m <= n
  PROVE  Aligned(n - m)
PROOF
<1> DEFINE k == m \div portBYTE_ALIGNMENT
           l == n \div portBYTE_ALIGNMENT
<1>1. portBYTE_ALIGNMENT \in Nat \ {0}
  BY DEF BootAssumption
<1>2. k \in Nat /\ l \in Nat
  BY <1>1
<1>3. m = portBYTE_ALIGNMENT * k /\ n = portBYTE_ALIGNMENT * l
  BY <1>1 DEF Aligned
<1> HIDE DEF k, l
<1>4. n - m = portBYTE_ALIGNMENT * (l - k)
  BY <1>1, <1>2, <1>3
<1>5. (portBYTE_ALIGNMENT * (l - k)) % portBYTE_ALIGNMENT = 0
  BY <1>1, <1>2
<1> QED
  BY <1>4, <1>5 DEF Aligned

\* What is left of a number without its remainder is aligned, and no aligned number
\* lies between the two.
LEMMA Floor ==
  ASSUME BootAssumption, NEW n \in Nat
  PROVE  /\ n % portBYTE_ALIGNMENT \in 0 .. portBYTE_ALIGNMENT - 1 /\ n % portBYTE_ALIGNMENT <= n
         /\ Aligned(n - (n % portBYTE_ALIGNMENT))
         /\ \A m \in Nat : Aligned(m) /\ m <= n => m <= n - (n % portBYTE_ALIGNMENT)
PROOF
<1> DEFINE l == n \div portBYTE_ALIGNMENT
<1>1. portBYTE_ALIGNMENT \in Nat \ {0}
  BY DEF BootAssumption
<1>2. /\ l \in Nat /\ n = portBYTE_ALIGNMENT * l + (n % portBYTE_ALIGNMENT)
      /\ n % portBYTE_ALIGNMENT \in 0 .. portBYTE_ALIGNMENT - 1
  BY <1>1
<1> HIDE DEF l
<1>3. /\ n - (n % portBYTE_ALIGNMENT) = portBYTE_ALIGNMENT * l
      /\ (portBYTE_ALIGNMENT * l) % portBYTE_ALIGNMENT = 0
  BY <1>1, <1>2
<1>4. ASSUME NEW m \in Nat, Aligned(m), m <= n
      PROVE  m <= n - (n % portBYTE_ALIGNMENT)
  <2> DEFINE k == m \div portBYTE_ALIGNMENT
  <2>1. k \in Nat /\ m = portBYTE_ALIGNMENT * k
    BY <1>1, <1>4 DEF Aligned
  <2> HIDE DEF k
  <2>2. CASE k <= l
    <3>1. portBYTE_ALIGNMENT * k <= portBYTE_ALIGNMENT * l
      BY <1>1, <1>2, <2>1, <2>2
    <3> QED
      BY <1>3, <2>1, <3>1
  <2>3. CASE l < k
    <3>1. portBYTE_ALIGNMENT * l + portBYTE_ALIGNMENT <= portBYTE_ALIGNMENT * k
      BY <1>1, <1>2, <2>1, <2>3
    <3> QED
      BY <1>1, <1>2, <1>4, <2>1, <3>1
  <2> QED
    BY <1>2, <2>1, <2>2, <2>3
<1>5. portBYTE_ALIGNMENT * l \in Nat
  BY <1>1, <1>2
<1> QED
  BY <1>2, <1>3, <1>4, <1>5 DEF Aligned

LEMMA AlignedHeap ==
  ASSUME BootAssumption
  PROVE  /\ pucAlignedHeap = ucHeap + portBYTE_ALIGNMENT /\ pucAlignedHeap \in Nat
         /\ Aligned(pucAlignedHeap)
PROOF
<1>1. portBYTE_ALIGNMENT \in Nat \ {0} /\ ucHeap \in Nat /\ Aligned(ucHeap)
  BY DEF BootAssumption, Aligned
<1>2. Aligned(portBYTE_ALIGNMENT)
  BY <1>1 DEF Aligned
<1>3. Aligned(ucHeap + portBYTE_ALIGNMENT)
  BY <1>1, <1>2, AlignedSum
<1>4. (ucHeap + portBYTE_ALIGNMENT) % portBYTE_ALIGNMENT = 0
  BY <1>3 DEF Aligned
<1> QED
  BY <1>1, <1>3, <1>4 DEF pucAlignedHeap

\* Rounding up gives an aligned number that is not smaller, or 0 if it overflows.
LEMMA RoundedUp ==
  ASSUME BootAssumption, NEW n \in 0 .. SizeRange - 1
  PROVE  /\ Rounded(n) \in 0 .. SizeRange - 1 /\ Aligned(Rounded(n))
         /\ Rounded(n) = 0 \/ Rounded(n) >= n
PROOF
<1>1. /\ portBYTE_ALIGNMENT \in Nat \ {0} /\ SizeRange \in Nat \ {0} /\ Aligned(SizeRange)
  BY DEF BootAssumption, Aligned
<1> DEFINE f == n - (n % portBYTE_ALIGNMENT)
           up == (n + (portBYTE_ALIGNMENT - (n % portBYTE_ALIGNMENT))) % SizeRange
<1>2. /\ n \in Nat /\ n % portBYTE_ALIGNMENT \in 0 .. portBYTE_ALIGNMENT - 1
      /\ n % portBYTE_ALIGNMENT <= n
      /\ f \in Nat /\ Aligned(f)
  <2>1. n \in Nat
    BY <1>1
  <2>2. /\ n % portBYTE_ALIGNMENT \in 0 .. portBYTE_ALIGNMENT - 1
        /\ n % portBYTE_ALIGNMENT <= n /\ Aligned(f)
    BY <2>1, Floor
  <2> QED
    BY <1>1, <2>1, <2>2
<1>3. /\ n + (portBYTE_ALIGNMENT - (n % portBYTE_ALIGNMENT)) = f + portBYTE_ALIGNMENT
      /\ Aligned(f + portBYTE_ALIGNMENT)
  <2>1. Aligned(portBYTE_ALIGNMENT)
    BY <1>1 DEF Aligned
  <2> QED
    BY <1>1, <1>2, <2>1, AlignedSum
<1>4. CASE n % portBYTE_ALIGNMENT = 0
  BY <1>1, <1>4 DEF Rounded, Aligned
<1>5. CASE n % portBYTE_ALIGNMENT # 0
  <2>1. f < SizeRange
    BY <1>1, <1>2
  <2>2. f + portBYTE_ALIGNMENT <= SizeRange
    <3>1. SizeRange - f \in Nat /\ Aligned(SizeRange - f) /\ SizeRange - f > 0
      BY <1>1, <1>2, <2>1, AlignedDifference
    <3> DEFINE g == SizeRange - f
    <3>2. g \in Nat /\ g > 0 /\ g % portBYTE_ALIGNMENT = 0
      BY <3>1 DEF Aligned
    <3> HIDE DEF g
    <3>3. g >= portBYTE_ALIGNMENT
      BY <1>1, <3>2
    <3> QED
      BY <1>1, <1>2, <3>3 DEF g
  <2>3. CASE f + portBYTE_ALIGNMENT = SizeRange
    <3>1. up = 0
      BY <1>1, <1>3, <2>3
    <3>2. Rounded(n) = 0
      BY <1>5, <3>1 DEF Rounded
    <3> QED
      BY <1>1, <3>2 DEF Aligned
  <2>4. CASE f + portBYTE_ALIGNMENT < SizeRange
    <3>1. up = f + portBYTE_ALIGNMENT
      BY <1>1, <1>2, <1>3, <2>4
    <3>2. up > n
      BY <1>1, <1>2, <3>1
    <3>3. Rounded(n) = f + portBYTE_ALIGNMENT
      BY <1>5, <3>1, <3>2 DEF Rounded
    <3> QED
      BY <1>1, <1>2, <1>3, <2>4, <3>1, <3>2, <3>3
  <2> QED
    BY <1>1, <1>2, <2>2, <2>3, <2>4
<1> QED
  BY <1>4, <1>5

\* What fits ends inside the heap: a sum that wraps does not pass.
LEMMA FitsInside ==
  ASSUME BootAssumption, NEW n \in 0 .. SizeRange - 1,
         xNextFreeByte \in 0 .. configADJUSTED_HEAP_SIZE - 1
  PROVE  Fits(n) <=> n > 0 /\ xNextFreeByte + n < configADJUSTED_HEAP_SIZE
PROOF
<1>1. /\ SizeRange \in Nat \ {0} /\ configADJUSTED_HEAP_SIZE \in Nat
      /\ configADJUSTED_HEAP_SIZE < SizeRange
  BY DEF BootAssumption, configADJUSTED_HEAP_SIZE
<1>2. CASE xNextFreeByte + n < SizeRange
  <2>1. (xNextFreeByte + n) % SizeRange = xNextFreeByte + n
    BY <1>1, <1>2
  <2> QED
    BY <1>1, <2>1 DEF Fits
<1>3. CASE xNextFreeByte + n >= SizeRange
  <2>1. (xNextFreeByte + n) % SizeRange = xNextFreeByte + n - SizeRange
    BY <1>1, <1>3
  <2> QED
    BY <1>1, <1>3, <2>1 DEF Fits
<1> QED
  BY <1>1, <1>2, <1>3

\* The first frame of a deep enough stack lies in the stack.
LEMMA FrameFits ==
  ASSUME BootAssumption, NEW stack \in Nat, Aligned(stack), NEW depth \in Nat,
         depth > FrameWords,
         NEW top, top = pxPortInitialiseStack(TopOfStack(stack, depth))
  PROVE  /\ stack <= top
         /\ top + FrameWords * SizeOfStackType <= stack + StackBytes(depth)
PROOF
<1> DEFINE frame == FrameWords * SizeOfStackType
           last == stack + (depth - 1) * SizeOfStackType
<1>1. /\ FrameWords \in Nat /\ SizeOfStackType \in Nat \ {0}
      /\ frame \in Nat /\ Aligned(frame)
  BY DEF BootAssumption, Aligned
<1>2. frame <= (depth - 1) * SizeOfStackType
  <2> DEFINE e == depth - 1 - FrameWords
  <2>1. e \in Nat /\ depth - 1 = FrameWords + e
    BY <1>1
  <2> HIDE DEF e
  <2>2. (FrameWords + e) * SizeOfStackType
        = FrameWords * SizeOfStackType + e * SizeOfStackType
    BY <1>1, <2>1
  <2>3. e * SizeOfStackType \in Nat
    BY <1>1, <2>1
  <2> QED
    BY <1>1, <2>1, <2>2, <2>3
<1>3. (depth - 1) * SizeOfStackType <= StackBytes(depth) /\ last \in Nat
  <2>1. depth - 1 \in Nat /\ (depth - 1) * SizeOfStackType \in Nat
    BY <1>1
  <2>2. depth * SizeOfStackType = (depth - 1) * SizeOfStackType + SizeOfStackType
    BY <1>1
  <2> QED
    BY <1>1, <2>1, <2>2 DEF StackBytes
<1>4. Aligned(stack + frame) /\ stack + frame \in Nat
  <2> HIDE DEF frame
  <2>1. Aligned(stack + frame)
    BY <1>1, AlignedSum
  <2> QED
    BY <1>1, <2>1
<1>5. top = (last - (last % portBYTE_ALIGNMENT)) - frame
  BY DEF pxPortInitialiseStack, TopOfStack
<1>6. StackBytes(depth) \in Nat
  BY <1>1 DEF StackBytes
<1> DEFINE more == (depth - 1) * SizeOfStackType
<1>7. more \in Nat /\ last = stack + more
  BY <1>1
<1> HIDE DEF frame, last, more
<1>8. stack + frame <= last
  BY <1>1, <1>2, <1>7 DEF more
<1>9. stack + frame <= last - (last % portBYTE_ALIGNMENT)
  BY <1>3, <1>4, <1>8, Floor
<1>10. last % portBYTE_ALIGNMENT \in Nat
  BY <1>3, Floor
<1>11. last \in Nat /\ last <= stack + StackBytes(depth)
  BY <1>3, <1>6, <1>7 DEF more
<1>12. stack <= top /\ top + frame <= stack + StackBytes(depth)
  BY <1>1, <1>5, <1>6, <1>9, <1>10, <1>11
<1> QED
  BY <1>12 DEF frame

-----------------------------------------------------------------------------
(* The memory: who has the heap asks for a block at the top of what was    *)
(* given out, and everything else lies below.                              *)

HeapTop == pucAlignedHeap + xNextFreeByte

Steps == {"idle", "malloc", "stack", "tcb", "add", "idle_tasks", "stopped"}
RequestType ==
  [for : {"none"}, idle : Int, depth : Nat, wanted : 0 .. SizeRange - 1, ret : Int,
   stack : Int]

Shape ==
  /\ xNextFreeByte \in 0 .. configADJUSTED_HEAP_SIZE - 1 /\ Aligned(xNextFreeByte)
  /\ suspender \subseteq Everyone /\ \A u, v \in suspender : u = v
  /\ step \in [Everyone -> Steps] /\ request \in [Everyone -> RequestType]

BlockOK(b) ==
  /\ b.from \in Nat /\ b.to \in Nat /\ Aligned(b.from)
  /\ pucAlignedHeap <= b.from /\ b.from < b.to /\ b.to <= HeapTop

\* A block holds the stack.
HasStack(stack, depth) ==
  \E b \in blocks : b.from = stack /\ stack + StackBytes(depth) <= b.to

\* The block that u found while it has the heap.
FoundOK(u) ==
  /\ step[u] \in {"malloc", "stack", "tcb"}
  /\ Aligned(request[u].wanted)
  /\ request[u].ret # NULL =>
       /\ request[u].ret = HeapTop /\ request[u].wanted > 0
       /\ xNextFreeByte + request[u].wanted < configADJUSTED_HEAP_SIZE

RequestOK(u) ==
  /\ u \in suspender => FoundOK(u)
  /\ step[u] = "stack" =>
       /\ StackBytes(request[u].depth) \in 0 .. SizeRange - 1
       /\ request[u].wanted = IF u \in suspender THEN Rounded(StackBytes(request[u].depth))
                              ELSE StackBytes(request[u].depth)
  /\ step[u] \in {"tcb", "add"} => HasStack(request[u].stack, request[u].depth)
  /\ step[u] = "add" => /\ request[u].ret \in 0 .. HeapTop - 1
                        /\ request[u].ret \notin DOMAIN tcb

AddsDiffer ==
  \A u, v \in Everyone :
    u # v /\ step[u] = "add" /\ step[v] = "add" => request[u].ret # request[v].ret

TasksOK ==
  /\ DOMAIN tcb \subseteq 0 .. HeapTop - 1
  /\ deleted \subseteq DOMAIN tcb
  /\ IsFiniteSet(readyTasks)

HInv ==
  /\ Shape
  /\ \A b \in blocks : BlockOK(b)
  /\ BlocksAreDisjoint
  /\ \A u \in Everyone : RequestOK(u)
  /\ AddsDiffer
  /\ TasksOK
  /\ FramesAreInside
  /\ NoTaskIsDropped

\* What makes it hold at the start.
LEMMA HInvInit == BootInit /\ BootAssumption => HInv
PROOF
<1> SUFFICES ASSUME BootInit, BootAssumption PROVE HInv
  OBVIOUS
<1> USE DEF BootInit
<1>1. Shape
  <2>1. NoRequest \in RequestType
    BY DEF BootAssumption, NoRequest, RequestType, NULL
  <2>2. 0 % portBYTE_ALIGNMENT = 0 /\ 0 < configADJUSTED_HEAP_SIZE
    BY DEF BootAssumption, configADJUSTED_HEAP_SIZE
  <2>3. 0 \in 0 .. configADJUSTED_HEAP_SIZE - 1
    BY <2>2 DEF BootAssumption, configADJUSTED_HEAP_SIZE
  <2> QED
    BY <2>1, <2>2, <2>3 DEF Shape, Steps, Aligned
<1>2. DOMAIN tcb = {}
  OBVIOUS
<1>3. \A u \in Everyone : RequestOK(u)
  BY DEF RequestOK
<1>4. BlocksAreDisjoint /\ \A b \in blocks : BlockOK(b)
  BY DEF BlocksAreDisjoint
<1>5. AddsDiffer
  BY DEF AddsDiffer
<1>6. TasksOK
  BY <1>2, FS_EmptySet DEF TasksOK
<1>7. FramesAreInside
  BY <1>2 DEF FramesAreInside
<1>8. NoTaskIsDropped
  BY <1>2, FS_EmptySet DEF NoTaskIsDropped
<1> QED
  BY <1>1, <1>3, <1>4, <1>5, <1>6, <1>7, <1>8 DEF HInv

LEMMA TopType ==
  ASSUME BootAssumption, Shape
  PROVE  /\ HeapTop \in Nat /\ Aligned(HeapTop)
         /\ pucAlignedHeap \in Nat /\ pucAlignedHeap <= HeapTop
         /\ xNextFreeByte \in Nat
PROOF
<1>1. xNextFreeByte \in Nat /\ Aligned(xNextFreeByte)
  BY DEF Shape
<1>2. pucAlignedHeap \in Nat /\ Aligned(pucAlignedHeap)
  BY AlignedHeap
<1>3. Aligned(HeapTop)
  BY <1>1, <1>2, AlignedSum DEF HeapTop
<1> QED
  BY <1>1, <1>2, <1>3 DEF HeapTop

\* What a step may do to the memory: give out more of it.
Grows ==
  /\ blocks \subseteq blocks'
  /\ xNextFreeByte <= xNextFreeByte'
  /\ Aligned(xNextFreeByte)' /\ (xNextFreeByte \in 0 .. configADJUSTED_HEAP_SIZE - 1)'
  /\ \A b \in blocks' : BlockOK(b)'
  /\ BlocksAreDisjoint'

\* Only u, of those who ask for memory, takes part in a step.
OnlyOf(u) ==
  /\ suspender' \subseteq Everyone /\ \A v, w \in suspender' : v = w
  /\ \A v \in Everyone \ {u} :
       /\ step'[v] = step[v] /\ request'[v] = request[v]
       /\ v \in suspender' <=> v \in suspender
       /\ v \in suspender => xNextFreeByte' = xNextFreeByte

LEMMA StaysTheSame ==
  ASSUME HInv, UNCHANGED <<xNextFreeByte, blocks>>
  PROVE  Grows
PROOF
<1>1. Shape /\ BlocksAreDisjoint /\ \A b \in blocks : BlockOK(b)
  BY DEF HInv
<1>2. \A b : BlockOK(b)' <=> BlockOK(b)
  BY DEF BlockOK, HeapTop
<1>3. BlocksAreDisjoint'
  BY <1>1 DEF BlocksAreDisjoint
<1>4. xNextFreeByte \in Nat
  BY <1>1 DEF Shape
<1> QED
  BY <1>1, <1>2, <1>3, <1>4 DEF Grows, Shape, Aligned

\* A request that a step leaves alone stays in order.
LEMMA Kept ==
  ASSUME BootAssumption, HInv, Grows, NEW u \in Everyone, OnlyOf(u),
         NEW v \in Everyone \ {u},
         step[v] = "add" => request[v].ret \notin DOMAIN tcb'
  PROVE  RequestOK(v)'
PROOF
<1>1. /\ step'[v] = step[v] /\ request'[v] = request[v]
      /\ v \in suspender' <=> v \in suspender
      /\ v \in suspender => xNextFreeByte' = xNextFreeByte
  BY DEF OnlyOf
<1>2. RequestOK(v)
  BY DEF HInv
<1>3. HeapTop \in Nat /\ HeapTop' \in Nat /\ HeapTop <= HeapTop'
  <2>1. HeapTop \in Nat /\ pucAlignedHeap \in Nat /\ xNextFreeByte \in Nat
    BY TopType DEF HInv
  <2>2. xNextFreeByte' \in Nat /\ xNextFreeByte <= xNextFreeByte'
    BY DEF Grows
  <2> QED
    BY <2>1, <2>2 DEF HeapTop, pucAlignedHeap
<1>4. v \in suspender' => FoundOK(v)'
  BY <1>1, <1>2 DEF RequestOK, FoundOK, HeapTop, Aligned
<1>5. \A stack, depth : HasStack(stack, depth) => HasStack(stack, depth)'
  BY DEF HasStack, Grows
<1>6. step'[v] \in {"tcb", "add"} => HasStack(request[v].stack, request[v].depth)'
  BY <1>1, <1>2, <1>5 DEF RequestOK
<1>7. step'[v] \in {"tcb", "add"} => HasStack(request[v].stack, request[v].depth)'
                                     /\ request'[v] = request[v]
  BY <1>1, <1>6
<1>8. (step[v] \in {"tcb", "add"} => HasStack(request[v].stack, request[v].depth))'
  BY <1>7 DEF HasStack
<1>9. (step[v] = "stack" =>
         /\ StackBytes(request[v].depth) \in 0 .. SizeRange - 1
         /\ request[v].wanted = IF v \in suspender
                                THEN Rounded(StackBytes(request[v].depth))
                                ELSE StackBytes(request[v].depth))'
  BY <1>1, <1>2 DEF RequestOK
<1>10. (step[v] = "add" => /\ request[v].ret \in 0 .. HeapTop - 1
                           /\ request[v].ret \notin DOMAIN tcb)'
  <2> SUFFICES ASSUME step'[v] = "add"
               PROVE  /\ request'[v].ret \in 0 .. HeapTop' - 1
                      /\ request'[v].ret \notin DOMAIN tcb'
    OBVIOUS
  <2>1. request[v].ret \in 0 .. HeapTop - 1 /\ request'[v] = request[v]
    BY <1>1, <1>2 DEF RequestOK
  <2>2. request'[v].ret \in 0 .. HeapTop' - 1
    BY <1>3, <2>1
  <2>3. request'[v].ret \notin DOMAIN tcb'
    BY <1>1, <2>1
  <2> QED
    BY <2>2, <2>3
<1> QED
  BY <1>4, <1>8, <1>9, <1>10 DEF RequestOK

\* A step that changes the request of u and gives out memory, but makes no task.
LEMMA OneRequest ==
  ASSUME BootAssumption, HInv, Grows, NEW u \in Everyone, OnlyOf(u),
         step' \in [Everyone -> Steps], request' \in [Everyone -> RequestType],
         RequestOK(u)', step'[u] = "add" => request'[u].ret >= HeapTop,
         UNCHANGED taskVars
  PROVE  HInv'
PROOF
<1> USE DEF HInv
<1>1. HeapTop \in Nat /\ HeapTop' \in Nat /\ HeapTop <= HeapTop'
  <2>1. HeapTop \in Nat /\ pucAlignedHeap \in Nat /\ xNextFreeByte \in Nat
    BY TopType
  <2>2. xNextFreeByte' \in Nat /\ xNextFreeByte <= xNextFreeByte'
    BY DEF Grows
  <2> QED
    BY <2>1, <2>2 DEF HeapTop, pucAlignedHeap
<1>2. Shape'
  BY DEF Shape, Grows, OnlyOf
<1>3. \A v \in Everyone : RequestOK(v)'
  <2>1. \A v \in Everyone \ {u} : step[v] = "add" => request[v].ret \notin DOMAIN tcb'
    BY DEF taskVars, RequestOK
  <2>2. \A v \in Everyone \ {u} : RequestOK(v)'
    BY <2>1, Kept
  <2> QED
    BY <2>2
<1>4. AddsDiffer'
  <2> SUFFICES ASSUME NEW v \in Everyone, NEW w \in Everyone, v # w,
                      step'[v] = "add", step'[w] = "add"
               PROVE  request'[v].ret # request'[w].ret
    BY DEF AddsDiffer
  <2>1. CASE v # u /\ w # u
    <3>1. /\ step[v] = "add" /\ request'[v] = request[v]
          /\ step[w] = "add" /\ request'[w] = request[w]
      BY <2>1 DEF OnlyOf
    <3> QED
      BY <3>1 DEF AddsDiffer
  <2>2. CASE v = u
    <3>1. step[w] = "add" /\ request'[w] = request[w]
      BY <2>2 DEF OnlyOf
    <3>2. request[w].ret \in 0 .. HeapTop - 1
      BY <3>1 DEF RequestOK
    <3> QED
      BY <1>1, <2>2, <3>1, <3>2
  <2>3. CASE w = u
    <3>1. step[v] = "add" /\ request'[v] = request[v]
      BY <2>3 DEF OnlyOf
    <3>2. request[v].ret \in 0 .. HeapTop - 1
      BY <3>1 DEF RequestOK
    <3> QED
      BY <1>1, <2>3, <3>1, <3>2
  <2> QED
    BY <2>1, <2>2, <2>3
<1>5. TasksOK'
  BY <1>1 DEF TasksOK, taskVars
<1>6. FramesAreInside'
  BY DEF FramesAreInside, taskVars, Grows
<1>7. NoTaskIsDropped'
  BY DEF NoTaskIsDropped, taskVars
<1> QED
  BY <1>2, <1>3, <1>4, <1>5, <1>6, <1>7 DEF Grows

\* pvPortMalloc finds a block or none, and has the heap.
LEMMA MallocKeeps ==
  ASSUME BootAssumption, HInv, NEW u \in Everyone, pvPortMalloc(u)
  PROVE  HInv'
PROOF
<1> DEFINE n == Rounded(request[u].wanted)
           found == IF Fits(n) THEN pucAlignedHeap + xNextFreeByte ELSE NULL
<1>1. /\ step[u] \in {"malloc", "stack", "tcb"} /\ suspender = {} /\ suspender' = {u}
      /\ request' = [request EXCEPT ![u].wanted = n, ![u].ret = found]
      /\ UNCHANGED <<xNextFreeByte, blocks, taskVars, startVars, step>>
  BY DEF pvPortMalloc
<1>2. Shape /\ RequestOK(u) /\ Grows
  BY <1>1, StaysTheSame DEF HInv
<1>3. request[u].wanted \in 0 .. SizeRange - 1 /\ request[u] \in RequestType
  BY <1>2 DEF Shape, RequestType
<1>4. n \in 0 .. SizeRange - 1 /\ Aligned(n)
  BY <1>3, RoundedUp
<1>5. /\ found = HeapTop \/ found = NULL
      /\ NULL \in Int /\ HeapTop \in Int
      /\ found # NULL =>
           /\ found = HeapTop /\ n > 0
           /\ xNextFreeByte + n < configADJUSTED_HEAP_SIZE
  <2>1. HeapTop \in Nat
    BY <1>2, TopType
  <2>2. Fits(n) => n > 0 /\ xNextFreeByte + n < configADJUSTED_HEAP_SIZE
    BY <1>2, <1>4, FitsInside DEF Shape
  <2> QED
    BY <2>1, <2>2 DEF HeapTop, NULL
<1>6. found \in Int
  BY <1>2, <1>5, TopType DEF NULL
<1> HIDE DEF n, found
<1>7. request' \in [Everyone -> RequestType]
  BY <1>1, <1>2, <1>4, <1>6 DEF Shape, RequestType
<1>8. /\ request'[u].wanted = n /\ request'[u].ret = found
      /\ request'[u].depth = request[u].depth /\ request'[u].stack = request[u].stack
      /\ \A v \in Everyone \ {u} : request'[v] = request[v]
  BY <1>1, <1>2 DEF Shape, RequestType
<1>9. OnlyOf(u)
  BY <1>1, <1>8 DEF OnlyOf
<1>10. RequestOK(u)'
  <2>1. FoundOK(u)'
    BY <1>1, <1>4, <1>5, <1>8 DEF FoundOK, HeapTop, pucAlignedHeap, Aligned
  <2>2. step'[u] = "stack" =>
          /\ StackBytes(request'[u].depth) \in 0 .. SizeRange - 1
          /\ request'[u].wanted = Rounded(StackBytes(request'[u].depth))
    BY <1>1, <1>2, <1>8 DEF RequestOK, n
  <2>3. (step[u] = "stack" =>
           /\ StackBytes(request[u].depth) \in 0 .. SizeRange - 1
           /\ request[u].wanted = IF u \in suspender
                                  THEN Rounded(StackBytes(request[u].depth))
                                  ELSE StackBytes(request[u].depth))'
    BY <1>1, <2>2
  <2>4. (step[u] \in {"tcb", "add"} => HasStack(request[u].stack, request[u].depth))'
    BY <1>1, <1>2, <1>8 DEF RequestOK, HasStack
  <2> QED
    BY <1>1, <2>1, <2>3, <2>4 DEF RequestOK
<1>11. step' \in [Everyone -> Steps] /\ step'[u] # "add"
  BY <1>1, <1>2 DEF Shape
<1> QED
  BY <1>1, <1>2, <1>7, <1>9, <1>10, <1>11, OneRequest

\* The block that a caller gets begins where those before it end.
LEMMA BlockTaken ==
  ASSUME BootAssumption, HInv, NEW u \in Everyone, u \in suspender, TakeBlock(u)
  PROVE  /\ Grows /\ suspender' = {} /\ \A v \in Everyone \ {u} : v \notin suspender
         /\ request[u].ret # NULL =>
              /\ request[u].ret = HeapTop /\ request[u].wanted > 0
              /\ HeapTop' = HeapTop + request[u].wanted
              /\ [from |-> request[u].ret, to |-> request[u].ret + request[u].wanted]
                   \in blocks'
PROOF
<1> DEFINE n == request[u].wanted
           b == [from |-> request[u].ret, to |-> request[u].ret + n]
<1>1. /\ Shape /\ RequestOK(u) /\ BlocksAreDisjoint /\ \A c \in blocks : BlockOK(c)
  BY DEF HInv
<1>2. suspender' = {} /\ \A v \in Everyone \ {u} : v \notin suspender
  BY <1>1 DEF Shape, TakeBlock
<1>3. FoundOK(u) /\ n \in Nat
  <2>1. n \in 0 .. SizeRange - 1
    BY <1>1 DEF Shape, RequestType
  <2>2. n \in Nat
    BY <2>1 DEF BootAssumption
  <2> QED
    BY <1>1, <2>2 DEF RequestOK
<1>4. CASE request[u].ret = NULL
  <2>1. UNCHANGED <<xNextFreeByte, blocks>>
    BY <1>4 DEF TakeBlock
  <2> QED
    BY <1>2, <1>4, <2>1, StaysTheSame
<1>5. CASE request[u].ret # NULL
  <2>1. /\ xNextFreeByte' = xNextFreeByte + n /\ blocks' = blocks \cup {b}
    BY <1>5 DEF TakeBlock
  <2>2. /\ request[u].ret = HeapTop /\ n > 0 /\ Aligned(n)
        /\ xNextFreeByte + n < configADJUSTED_HEAP_SIZE
    BY <1>3, <1>5 DEF FoundOK
  <2>3. /\ HeapTop \in Nat /\ Aligned(HeapTop) /\ pucAlignedHeap \in Nat
        /\ pucAlignedHeap <= HeapTop /\ xNextFreeByte \in Nat /\ Aligned(xNextFreeByte)
    BY <1>1, TopType DEF Shape
  <2>4. HeapTop' = HeapTop + n
    BY <1>3, <2>1, <2>3 DEF HeapTop, pucAlignedHeap
  <2>5. b.from = HeapTop /\ b.to = HeapTop + n
    BY <2>2
  <2> HIDE DEF b, n
  <2>6. (xNextFreeByte \in 0 .. configADJUSTED_HEAP_SIZE - 1)'
    <3>1. configADJUSTED_HEAP_SIZE \in Int
      BY DEF BootAssumption, configADJUSTED_HEAP_SIZE
    <3> QED
      BY <1>3, <2>1, <2>2, <2>3, <3>1 DEF configADJUSTED_HEAP_SIZE
  <2>7. Aligned(xNextFreeByte)'
    <3>1. Aligned(xNextFreeByte + n)
      BY <1>3, <2>2, <2>3, AlignedSum
    <3> QED
      BY <2>1, <3>1 DEF Aligned
  <2>8. \A c \in blocks' : BlockOK(c)'
    <3> SUFFICES ASSUME NEW c \in blocks' PROVE BlockOK(c)'
      OBVIOUS
    <3>1. /\ c.from \in Nat /\ c.to \in Nat /\ Aligned(c.from)
          /\ pucAlignedHeap <= c.from /\ c.from < c.to /\ c.to <= HeapTop + n
      <4>1. CASE c \in blocks
        BY <1>1, <1>3, <2>3, <4>1 DEF BlockOK
      <4>2. CASE c = b
        BY <1>3, <2>2, <2>3, <2>5, <4>2
      <4> QED
        BY <2>1, <4>1, <4>2
    <3> QED
      BY <2>4, <3>1 DEF BlockOK, Aligned, pucAlignedHeap
  <2>9. BlocksAreDisjoint'
    <3> SUFFICES ASSUME NEW c \in blocks', NEW d \in blocks', c # d
                 PROVE  c.to <= d.from \/ d.to <= c.from
      BY DEF BlocksAreDisjoint
    <3>1. CASE c \in blocks /\ d \in blocks
      BY <1>1, <3>1 DEF BlocksAreDisjoint
    <3>2. CASE c = b
      <4>1. d.to <= HeapTop
        BY <1>1, <2>1, <3>2 DEF BlockOK
      <4> QED
        BY <2>5, <3>2, <4>1
    <3>3. CASE d = b
      <4>1. c.to <= HeapTop
        BY <1>1, <2>1, <3>3 DEF BlockOK
      <4> QED
        BY <2>5, <3>3, <4>1
    <3> QED
      BY <2>1, <3>1, <3>2, <3>3
  <2>10. Grows
    BY <1>3, <2>1, <2>3, <2>6, <2>7, <2>8, <2>9 DEF Grows
  <2>11. b \in blocks'
    BY <2>1
  <2> QED
    BY <1>2, <2>2, <2>4, <2>10, <2>11 DEF b, n
<1> QED
  BY <1>4, <1>5

LEMMA EndOfRequest ==
  ASSUME BootAssumption, HInv, NEW u \in Everyone, EndRequest(u), suspender' = {}
  PROVE  /\ step' \in [Everyone -> Steps] /\ request' \in [Everyone -> RequestType]
         /\ step'[u] \in {"idle", "idle_tasks"}
         /\ \A v \in Everyone \ {u} : step'[v] = step[v] /\ request'[v] = request[v]
         /\ RequestOK(u)'
PROOF
<1>1. step \in [Everyone -> Steps] /\ request \in [Everyone -> RequestType]
  BY DEF HInv, Shape
<1>2. NoRequest \in RequestType
  BY DEF BootAssumption, NoRequest, RequestType, NULL
<1> DEFINE next == [NoRequest EXCEPT !.idle = request[u].idle + 1, !.ret = request[u].ret]
<1>3. next \in RequestType
  <2>1. request[u].idle + 1 \in Int /\ request[u].ret \in Int
    BY <1>1 DEF RequestType
  <2>2. ASSUME NEW r \in RequestType, NEW i \in Int, NEW j \in Int
        PROVE  [r EXCEPT !.idle = i, !.ret = j] \in RequestType
    BY DEF RequestType
  <2> QED
    BY <1>2, <2>1, <2>2
<1> HIDE DEF next
<1>4. PICK s \in {"idle", "idle_tasks"}, r \in RequestType :
        step' = [step EXCEPT ![u] = s] /\ request' = [request EXCEPT ![u] = r]
  BY <1>2, <1>3 DEF EndRequest, next
<1>5. s \in Steps
  BY DEF Steps
<1>6. /\ step' \in [Everyone -> Steps] /\ request' \in [Everyone -> RequestType]
      /\ step'[u] = s
      /\ \A v \in Everyone \ {u} : step'[v] = step[v] /\ request'[v] = request[v]
  BY <1>1, <1>4, <1>5
<1>7. RequestOK(u)'
  BY <1>6 DEF RequestOK
<1> QED
  BY <1>6, <1>7

LEMMA MallocReturnKeeps ==
  ASSUME BootAssumption, HInv, NEW u \in Everyone, MallocReturns(u)
  PROVE  HInv'
PROOF
<1>1. u \in suspender /\ TakeBlock(u) /\ EndRequest(u) /\ UNCHANGED taskVars
  BY DEF MallocReturns
<1>2. Grows /\ suspender' = {} /\ \A v \in Everyone \ {u} : v \notin suspender
  BY <1>1, BlockTaken
<1>3. /\ step' \in [Everyone -> Steps] /\ request' \in [Everyone -> RequestType]
      /\ step'[u] # "add" /\ RequestOK(u)'
      /\ \A v \in Everyone \ {u} : step'[v] = step[v] /\ request'[v] = request[v]
  BY <1>1, <1>2, EndOfRequest
<1>4. OnlyOf(u)
  BY <1>2, <1>3 DEF OnlyOf
<1> QED
  BY <1>1, <1>2, <1>3, <1>4, OneRequest

LEMMA StackReturnKeeps ==
  ASSUME BootAssumption, HInv, NEW u \in Everyone, StackReturns(u)
  PROVE  HInv'
PROOF
<1>1. u \in suspender /\ step[u] = "stack" /\ TakeBlock(u) /\ UNCHANGED taskVars
  BY DEF StackReturns
<1>2. /\ Grows /\ suspender' = {} /\ \A v \in Everyone \ {u} : v \notin suspender
      /\ request[u].ret # NULL =>
           /\ request[u].ret = HeapTop /\ request[u].wanted > 0
           /\ HeapTop' = HeapTop + request[u].wanted
           /\ [from |-> request[u].ret, to |-> request[u].ret + request[u].wanted]
                \in blocks'
  BY <1>1, BlockTaken
<1>3. CASE request[u].ret = NULL
  <2>1. EndRequest(u)
    BY <1>3 DEF StackReturns
  <2>2. /\ step' \in [Everyone -> Steps] /\ request' \in [Everyone -> RequestType]
        /\ step'[u] # "add" /\ RequestOK(u)'
        /\ \A v \in Everyone \ {u} : step'[v] = step[v] /\ request'[v] = request[v]
    BY <1>2, <2>1, EndOfRequest
  <2>3. OnlyOf(u)
    BY <1>2, <2>2 DEF OnlyOf
  <2> QED
    BY <1>1, <1>2, <2>2, <2>3, OneRequest
<1>4. CASE request[u].ret # NULL
  <2>1. /\ step' = [step EXCEPT ![u] = "tcb"]
        /\ request' = [request EXCEPT ![u].stack = request[u].ret, ![u].wanted = SizeOfTCB]
    BY <1>4 DEF StackReturns
  <2>2. /\ step \in [Everyone -> Steps] /\ request \in [Everyone -> RequestType]
        /\ RequestOK(u)
    BY DEF HInv, Shape
  <2>3. SizeOfTCB \in 0 .. SizeRange - 1 /\ request[u].ret \in Int
    BY <2>2 DEF BootAssumption, RequestType
  <2>4. /\ step' \in [Everyone -> Steps] /\ step'[u] = "tcb"
        /\ \A v \in Everyone \ {u} : step'[v] = step[v]
    BY <2>1, <2>2 DEF Steps
  <2>5. request' \in [Everyone -> RequestType]
    BY <2>1, <2>2, <2>3 DEF RequestType
  <2>6. /\ request'[u].stack = request[u].ret /\ request'[u].depth = request[u].depth
        /\ \A v \in Everyone \ {u} : request'[v] = request[v]
    BY <2>1, <2>2 DEF RequestType
  <2>7. OnlyOf(u)
    BY <1>2, <2>4, <2>6 DEF OnlyOf
  <2>8. RequestOK(u)'
    <3>1. /\ StackBytes(request[u].depth) \in 0 .. SizeRange - 1
          /\ request[u].wanted = Rounded(StackBytes(request[u].depth))
      BY <1>1, <2>2 DEF RequestOK
    <3> DEFINE bytes == StackBytes(request[u].depth)
               n == request[u].wanted
               b == [from |-> request[u].ret, to |-> request[u].ret + n]
    <3>2. b \in blocks' /\ n > 0 /\ request[u].ret = HeapTop
      BY <1>2, <1>4
    <3>3. HeapTop \in Nat
      BY TopType DEF HInv
    <3>4. n \in Nat /\ bytes \in Nat
      BY <3>1, RoundedUp DEF BootAssumption
    <3>5. n >= bytes
      BY <3>1, <3>2, <3>4, RoundedUp
    <3>6. b.from = request[u].ret /\ request[u].ret + bytes <= b.to
      BY <3>2, <3>3, <3>4, <3>5
    <3> HIDE DEF b, n
    <3>7. \E c \in blocks' : /\ c.from = request'[u].stack
                             /\ request'[u].stack + StackBytes(request'[u].depth) <= c.to
      BY <2>6, <3>2, <3>6
    <3> QED
      BY <1>2, <2>4, <3>7 DEF RequestOK, HasStack, StackBytes
  <2> QED
    BY <1>1, <1>2, <2>4, <2>5, <2>7, <2>8, OneRequest
<1> QED
  BY <1>3, <1>4

LEMMA TcbReturnKeeps ==
  ASSUME BootAssumption, HInv, NEW u \in Everyone, TcbReturns(u)
  PROVE  HInv'
PROOF
<1>1. u \in suspender /\ step[u] = "tcb" /\ TakeBlock(u) /\ UNCHANGED taskVars
  BY DEF TcbReturns
<1>2. /\ Grows /\ suspender' = {} /\ \A v \in Everyone \ {u} : v \notin suspender
      /\ request[u].ret # NULL =>
           /\ request[u].ret = HeapTop /\ request[u].wanted > 0
           /\ HeapTop' = HeapTop + request[u].wanted
  BY <1>1, BlockTaken
<1>3. CASE request[u].ret = NULL
  <2>1. EndRequest(u)
    BY <1>3 DEF TcbReturns
  <2>2. /\ step' \in [Everyone -> Steps] /\ request' \in [Everyone -> RequestType]
        /\ step'[u] # "add" /\ RequestOK(u)'
        /\ \A v \in Everyone \ {u} : step'[v] = step[v] /\ request'[v] = request[v]
    BY <1>2, <2>1, EndOfRequest
  <2>3. OnlyOf(u)
    BY <1>2, <2>2 DEF OnlyOf
  <2> QED
    BY <1>1, <1>2, <2>2, <2>3, OneRequest
<1>4. CASE request[u].ret # NULL
  <2>1. step' = [step EXCEPT ![u] = "add"] /\ request' = request
    BY <1>4 DEF TcbReturns
  <2>2. /\ step \in [Everyone -> Steps] /\ request \in [Everyone -> RequestType]
        /\ RequestOK(u)
    BY DEF HInv, Shape
  <2>3. /\ step' \in [Everyone -> Steps] /\ step'[u] = "add"
        /\ \A v \in Everyone \ {u} : step'[v] = step[v]
    BY <2>1, <2>2 DEF Steps
  <2>4. OnlyOf(u)
    BY <1>2, <2>1, <2>3 DEF OnlyOf
  <2>5. HeapTop \in Nat /\ request[u].wanted \in Nat
    <3>1. HeapTop \in Nat
      BY TopType DEF HInv
    <3>2. request[u].wanted \in 0 .. SizeRange - 1
      BY <2>2 DEF RequestType
    <3> QED
      BY <3>1, <3>2 DEF BootAssumption
  <2>6. request'[u].ret = HeapTop /\ request'[u].ret \in 0 .. HeapTop' - 1
    BY <1>2, <1>4, <2>1, <2>5
  <2>7. request'[u].ret \notin DOMAIN tcb'
    <3>1. DOMAIN tcb \subseteq 0 .. HeapTop - 1 /\ tcb' = tcb
      BY <1>1 DEF HInv, TasksOK, taskVars
    <3> QED
      BY <2>5, <2>6, <3>1
  <2>8. HasStack(request[u].stack, request[u].depth)'
    BY <1>1, <1>2, <2>1, <2>2 DEF RequestOK, HasStack, Grows
  <2>9. RequestOK(u)'
    BY <1>2, <2>3, <2>6, <2>7, <2>8 DEF RequestOK
  <2>10. request'[u].ret >= HeapTop
    BY <2>5, <2>6
  <2> QED
    BY <1>1, <1>2, <2>1, <2>2, <2>3, <2>4, <2>9, <2>10, OneRequest
<1> QED
  BY <1>3, <1>4

LEMMA NoRequestType ==
  ASSUME BootAssumption
  PROVE  /\ NoRequest \in RequestType
         /\ NoRequest.idle = NULL /\ NoRequest.ret = NULL
  BY DEF BootAssumption, NoRequest, RequestType, NULL

\* A caller that waits for nothing changes its request.
LEMMA NewRequest ==
  ASSUME BootAssumption, HInv, NEW u \in Everyone,
         step[u] \in {"idle", "idle_tasks"},
         NEW s \in Steps \ {"tcb", "add"}, NEW r \in RequestType,
         s = "stack" => /\ StackBytes(r.depth) \in 0 .. SizeRange - 1
                        /\ r.wanted = StackBytes(r.depth),
         step' = [step EXCEPT ![u] = s], request' = [request EXCEPT ![u] = r],
         UNCHANGED <<heapVars, taskVars>>
  PROVE  HInv'
PROOF
<1>1. UNCHANGED <<xNextFreeByte, blocks, suspender>>
  BY DEF heapVars
<1>2. Shape /\ RequestOK(u) /\ Grows
  BY <1>1, StaysTheSame DEF HInv
<1>3. u \notin suspender
  BY <1>2 DEF RequestOK, FoundOK
<1>4. /\ step' \in [Everyone -> Steps] /\ request' \in [Everyone -> RequestType]
      /\ step'[u] = s /\ request'[u] = r
      /\ \A v \in Everyone \ {u} : step'[v] = step[v] /\ request'[v] = request[v]
  BY <1>2 DEF Shape
<1>5. OnlyOf(u)
  BY <1>1, <1>2, <1>4 DEF OnlyOf, Shape
<1>6. RequestOK(u)'
  BY <1>1, <1>3, <1>4 DEF RequestOK, StackBytes
<1> QED
  BY <1>2, <1>4, <1>5, <1>6, OneRequest

LEMMA BeginCreateKeeps ==
  ASSUME BootAssumption, HInv, NEW u \in Everyone, step[u] \in {"idle", "idle_tasks"},
         NEW depth \in StackDepths \cup {configMINIMAL_STACK_SIZE}, NEW idle \in Int,
         BeginCreate(u, depth, idle), UNCHANGED <<heapVars, taskVars>>
  PROVE  HInv'
PROOF
<1>1. depth \in Nat /\ StackBytes(depth) \in 0 .. SizeRange - 1
  <2>1. depth \in Nat /\ SizeOfStackType \in Nat /\ SizeRange \in Nat
    BY DEF BootAssumption
  <2>2. depth * SizeOfStackType \in Nat
    BY <2>1
  <2>3. depth * SizeOfStackType < SizeRange
    BY DEF BootAssumption
  <2> QED
    BY <2>1, <2>2, <2>3 DEF StackBytes
<1> DEFINE r == [NoRequest EXCEPT !.idle = idle, !.depth = depth,
                                  !.wanted = StackBytes(depth)]
<1>2. ASSUME NEW q \in RequestType, NEW w \in 0 .. SizeRange - 1
      PROVE  /\ [q EXCEPT !.idle = idle, !.depth = depth, !.wanted = w] \in RequestType
             /\ [q EXCEPT !.idle = idle, !.depth = depth, !.wanted = w].depth = depth
             /\ [q EXCEPT !.idle = idle, !.depth = depth, !.wanted = w].wanted = w
  BY <1>1 DEF RequestType
<1>3. r \in RequestType /\ r.depth = depth /\ r.wanted = StackBytes(depth)
  BY <1>1, <1>2, NoRequestType
<1>4. step' = [step EXCEPT ![u] = "stack"] /\ request' = [request EXCEPT ![u] = r]
  BY DEF BeginCreate
<1>5. "stack" \in Steps \ {"tcb", "add"}
  BY DEF Steps
<1> HIDE DEF r
<1> QED
  BY <1>1, <1>3, <1>4, <1>5, NewRequest

LEMMA CreateKeeps ==
  ASSUME BootAssumption, HInv, NEW u \in Everyone, xTaskCreate(u)
  PROVE  HInv'
PROOF
<1>1. PICK depth \in StackDepths : BeginCreate(u, depth, NULL)
  BY DEF xTaskCreate
<1>2. step[u] = "idle" /\ UNCHANGED <<heapVars, taskVars>> /\ NULL \in Int
  BY DEF xTaskCreate, MayAct, NULL
<1> QED
  BY <1>1, <1>2, BeginCreateKeeps

LEMMA AllocateKeeps ==
  ASSUME BootAssumption, HInv, NEW u \in Everyone, Allocate(u)
  PROVE  HInv'
PROOF
<1>1. PICK n \in MallocSizes :
        request' = [request EXCEPT ![u] = [NoRequest EXCEPT !.wanted = n]]
  BY DEF Allocate
<1>2. /\ step[u] = "idle" /\ step' = [step EXCEPT ![u] = "malloc"]
      /\ UNCHANGED <<heapVars, taskVars>>
  BY DEF Allocate, MayAct
<1> DEFINE r == [NoRequest EXCEPT !.wanted = n]
<1>3. ASSUME NEW q \in RequestType, NEW w \in 0 .. SizeRange - 1
      PROVE  [q EXCEPT !.wanted = w] \in RequestType
  BY DEF RequestType
<1>4. n \in 0 .. SizeRange - 1
  BY DEF BootAssumption
<1>5. r \in RequestType
  BY <1>3, <1>4, NoRequestType
<1>6. "malloc" \in Steps \ {"tcb", "add"}
  BY DEF Steps
<1>7. request' = [request EXCEPT ![u] = r]
  BY <1>1
<1> HIDE DEF r
<1> QED
  BY <1>2, <1>5, <1>6, <1>7, NewRequest

LEMMA StartKeeps ==
  ASSUME BootAssumption, HInv, vTaskStartScheduler \/ prvCreateIdleTasks \/ StartOrReturn
  PROVE  HInv'
PROOF
<1>1. Main \in Everyone /\ Shape
  BY DEF Everyone, HInv
<1>2. CASE vTaskStartScheduler
  <2> DEFINE r == [NoRequest EXCEPT !.idle = 0]
  <2>1. /\ step[Main] = "idle" /\ step' = [step EXCEPT ![Main] = "idle_tasks"]
        /\ request' = [request EXCEPT ![Main] = r] /\ UNCHANGED <<heapVars, taskVars>>
    BY <1>2 DEF vTaskStartScheduler, MayAct
  <2>2. ASSUME NEW q \in RequestType
        PROVE  [q EXCEPT !.idle = 0] \in RequestType
    BY DEF RequestType
  <2>3. r \in RequestType
    BY <2>2, NoRequestType
  <2>4. "idle_tasks" \in Steps \ {"tcb", "add"}
    BY DEF Steps
  <2> HIDE DEF r
  <2> QED
    BY <1>1, <2>1, <2>3, <2>4, NewRequest
<1>3. CASE prvCreateIdleTasks
  <2>1. /\ step[Main] = "idle_tasks" /\ UNCHANGED <<heapVars, taskVars>>
        /\ BeginCreate(Main, configMINIMAL_STACK_SIZE, request[Main].idle)
    BY <1>3 DEF prvCreateIdleTasks
  <2>2. request[Main].idle \in Int
    BY <1>1 DEF Shape, RequestType
  <2> QED
    BY <1>1, <2>1, <2>2, BeginCreateKeeps
<1>4. CASE StartOrReturn
  <2>1. /\ step[Main] = "idle_tasks" /\ step' = [step EXCEPT ![Main] = "stopped"]
        /\ UNCHANGED <<heapVars, taskVars>> /\ request' = request
    BY <1>4 DEF StartOrReturn
  <2>2. request[Main] \in RequestType /\ request' = [request EXCEPT ![Main] = request[Main]]
    BY <1>1, <2>1 DEF Shape
  <2>3. "stopped" \in Steps \ {"tcb", "add"}
    BY DEF Steps
  <2> QED
    BY <1>1, <2>1, <2>2, <2>3, NewRequest
<1> QED
  BY <1>2, <1>3, <1>4

LEMMA DeleteKeeps ==
  ASSUME BootAssumption, HInv, NEW t \in readyTasks, vTaskDelete(t)
  PROVE  HInv'
PROOF
<1>1. /\ UNCHANGED <<xNextFreeByte, blocks, suspender, tcb, step, request>>
      /\ readyTasks' = readyTasks \ {t}
      /\ uxCurrentNumberOfTasks' = uxCurrentNumberOfTasks - 1
      /\ deleted' = deleted \cup {t}
  BY DEF vTaskDelete, heapVars
<1>2. /\ Shape /\ Grows /\ AddsDiffer /\ TasksOK /\ FramesAreInside /\ NoTaskIsDropped
      /\ \A u \in Everyone : RequestOK(u)
  BY <1>1, StaysTheSame DEF HInv
<1>3. Shape'
  BY <1>1, <1>2 DEF Shape, Aligned
<1>4. \A u \in Everyone : RequestOK(u)'
  BY <1>1, <1>2 DEF RequestOK, FoundOK, HasStack, HeapTop, pucAlignedHeap, Aligned,
                    StackBytes, Rounded
<1>5. AddsDiffer'
  BY <1>1, <1>2 DEF AddsDiffer
<1>6. TasksOK'
  <2>1. DOMAIN tcb' \subseteq 0 .. HeapTop' - 1
    BY <1>1, <1>2 DEF TasksOK, HeapTop, pucAlignedHeap
  <2>2. IsFiniteSet(readyTasks')
    BY <1>1, <1>2, FS_RemoveElement DEF TasksOK
  <2>3. deleted' \subseteq DOMAIN tcb'
    BY <1>1, <1>2 DEF TasksOK, NoTaskIsDropped
  <2> QED
    BY <2>1, <2>2, <2>3 DEF TasksOK
<1>7. FramesAreInside'
  BY <1>1, <1>2 DEF FramesAreInside
<1>8. NoTaskIsDropped'
  BY <1>1, <1>2, FS_RemoveElement DEF NoTaskIsDropped, TasksOK
<1> QED
  BY <1>2, <1>3, <1>4, <1>5, <1>6, <1>7, <1>8 DEF HInv, Grows

\* No task that lives leaves the ready lists when one comes.
LEMMA AddGrows ==
  ASSUME BootAssumption, HInv, NEW u \in Everyone, prvAddNewTaskToReadyList(u)
  PROVE  /\ readyTasks' = readyTasks \cup {request[u].ret}
         /\ request[u].ret \in Nat /\ request[u].ret \notin DOMAIN tcb
         /\ \A t \in DOMAIN tcb : tcb'[t] = tcb[t]
PROOF
<1> DEFINE new == request[u].ret
<1>1. /\ step[u] = "add"
      /\ uxCurrentNumberOfTasks' = uxCurrentNumberOfTasks + 1
      /\ readyTasks' = (IF InitialisesLists THEN {} ELSE readyTasks) \cup {new}
  BY DEF prvAddNewTaskToReadyList
<1>2. PICK core : tcb' = [t \in DOMAIN tcb \cup {new} |->
                            IF t = new THEN prvInitialiseNewTask(u, core) ELSE tcb[t]]
  BY DEF prvAddNewTaskToReadyList
<1>3. /\ TasksOK /\ NoTaskIsDropped /\ RequestOK(u)
  BY DEF HInv
<1>4. new \in 0 .. HeapTop - 1 /\ new \notin DOMAIN tcb
  BY <1>1, <1>3 DEF RequestOK
<1>5. IsFiniteSet(readyTasks) /\ Cardinality(readyTasks) \in Nat
  BY <1>3, FS_CardinalityType DEF TasksOK
<1>6. InitialisesLists => readyTasks = {}
  <2>1. uxCurrentNumberOfTasks = Cardinality(readyTasks)
    BY <1>3 DEF NoTaskIsDropped
  <2>2. InitialisesLists => Cardinality(readyTasks) = 0
    BY <1>1, <1>5, <2>1 DEF InitialisesLists
  <2> QED
    BY <1>5, <2>2, FS_EmptySet
<1>7. readyTasks' = readyTasks \cup {new}
  BY <1>1, <1>6
<1>8. \A t \in DOMAIN tcb : tcb'[t] = tcb[t]
  BY <1>2, <1>4
<1>9. HeapTop \in Nat
  BY TopType DEF HInv
<1> QED
  BY <1>4, <1>7, <1>8, <1>9

\* The new task is known by its TCB, which is no other task's, and is the first one
\* exactly when no task is left.
LEMMA AddKeeps ==
  ASSUME BootAssumption, HInv, NEW u \in Everyone, prvAddNewTaskToReadyList(u)
  PROVE  HInv'
PROOF
<1> DEFINE new == request[u].ret
<1>1. /\ step[u] = "add" /\ suspender = {} /\ EndRequest(u)
      /\ UNCHANGED <<xNextFreeByte, blocks, suspender, deleted>>
      /\ uxCurrentNumberOfTasks' = uxCurrentNumberOfTasks + 1
      /\ readyTasks' = (IF InitialisesLists THEN {} ELSE readyTasks) \cup {new}
  BY DEF prvAddNewTaskToReadyList, heapVars
<1>2. PICK core : tcb' = [t \in DOMAIN tcb \cup {new} |->
                            IF t = new THEN prvInitialiseNewTask(u, core) ELSE tcb[t]]
  BY DEF prvAddNewTaskToReadyList
<1>3. /\ Shape /\ Grows /\ AddsDiffer /\ TasksOK /\ FramesAreInside /\ NoTaskIsDropped
      /\ \A v \in Everyone : RequestOK(v) /\ \A b \in blocks : BlockOK(b)
  BY <1>1, StaysTheSame DEF HInv
<1>4. /\ step' \in [Everyone -> Steps] /\ request' \in [Everyone -> RequestType]
      /\ step'[u] # "add" /\ RequestOK(u)'
      /\ \A v \in Everyone \ {u} : step'[v] = step[v] /\ request'[v] = request[v]
  BY <1>1, EndOfRequest
<1>5. OnlyOf(u)
  BY <1>1, <1>4 DEF OnlyOf
<1>6. /\ new \in 0 .. HeapTop - 1 /\ new \notin DOMAIN tcb
      /\ HasStack(request[u].stack, request[u].depth)
  BY <1>1, <1>3 DEF RequestOK
<1>7. request[u].depth \in Nat /\ request[u].stack \in Int
  BY <1>3 DEF Shape, RequestType
<1> HIDE DEF new
<1>8. DOMAIN tcb' = DOMAIN tcb \cup {new}
  BY <1>2
<1>9. Shape'
  BY <1>3, <1>4, <1>5 DEF Shape, Grows, OnlyOf
<1>10. \A v \in Everyone : RequestOK(v)'
  <2>1. \A v \in Everyone \ {u} : step[v] = "add" => request[v].ret \notin DOMAIN tcb'
    BY <1>1, <1>3, <1>8 DEF AddsDiffer, RequestOK, new
  <2>2. \A v \in Everyone \ {u} : RequestOK(v)'
    BY <1>3, <1>5, <2>1, Kept
  <2> QED
    BY <1>4, <2>2
<1>11. AddsDiffer'
  BY <1>3, <1>4 DEF AddsDiffer
<1>12. TasksOK'
  <2>1. DOMAIN tcb' \subseteq 0 .. HeapTop' - 1 /\ deleted' \subseteq DOMAIN tcb'
    BY <1>1, <1>3, <1>6, <1>8 DEF TasksOK, HeapTop, pucAlignedHeap
  <2>2. IsFiniteSet(readyTasks')
    BY <1>1, <1>3, FS_AddElement, FS_EmptySet DEF TasksOK
  <2> QED
    BY <2>1, <2>2 DEF TasksOK
<1>13. FramesAreInside'
  <2> SUFFICES ASSUME NEW t \in DOMAIN tcb', tcb'[t].depth > FrameWords
               PROVE  \E b \in blocks' :
                        /\ b.from = tcb'[t].stack /\ b.from <= tcb'[t].top
                        /\ tcb'[t].top + FrameWords * SizeOfStackType <= b.to
    BY DEF FramesAreInside
  <2>1. CASE t # new
    BY <1>1, <1>2, <1>3, <1>8, <2>1 DEF FramesAreInside
  <2>2. CASE t = new
    <3> DEFINE stack == request[u].stack
               depth == request[u].depth
               top == pxPortInitialiseStack(TopOfStack(stack, depth))
    <3>1. tcb'[t].stack = stack /\ tcb'[t].depth = depth /\ tcb'[t].top = top
      BY <1>2, <2>2 DEF prvInitialiseNewTask
    <3>2. PICK b \in blocks : b.from = stack /\ stack + StackBytes(depth) <= b.to
      BY <1>6 DEF HasStack
    <3>3. stack \in Nat /\ Aligned(stack) /\ b.to \in Nat
      BY <1>3, <3>2 DEF BlockOK
    <3> DEFINE frame == FrameWords * SizeOfStackType
    <3>4. stack <= top /\ top + frame <= stack + StackBytes(depth)
      BY <1>7, <3>1, <3>3, FrameFits
    <3>5. top \in Int /\ frame \in Int /\ StackBytes(depth) \in Int
      <4> DEFINE last == stack + (depth - 1) * SizeOfStackType
      <4>1. /\ last \in Int /\ frame \in Int /\ StackBytes(depth) \in Int
            /\ portBYTE_ALIGNMENT \in Nat \ {0}
        BY <1>7, <3>3 DEF BootAssumption, StackBytes
      <4>2. top = (last - (last % portBYTE_ALIGNMENT)) - frame
        BY DEF pxPortInitialiseStack, TopOfStack
      <4> HIDE DEF last, frame, top
      <4>3. last % portBYTE_ALIGNMENT \in Int
        BY <4>1
      <4> QED
        BY <4>1, <4>2, <4>3
    <3> HIDE DEF stack, depth, top, frame
    <3>6. b \in blocks' /\ b.from <= tcb'[t].top /\ tcb'[t].top + frame <= b.to
      BY <1>1, <3>1, <3>2, <3>3, <3>4, <3>5
    <3> QED
      BY <3>1, <3>2, <3>6 DEF frame
  <2> QED
    BY <2>1, <2>2
<1>14. NoTaskIsDropped'
  <2>1. new \notin readyTasks /\ new \notin deleted
    BY <1>3, <1>6 DEF NoTaskIsDropped, TasksOK
  <2>2. IsFiniteSet(readyTasks) /\ Cardinality(readyTasks) \in Nat
    BY <1>3, FS_CardinalityType DEF TasksOK
  <2>3. readyTasks' = readyTasks \cup {new}
    BY AddGrows DEF new
  <2>4. Cardinality(readyTasks') = Cardinality(readyTasks) + 1
    BY <2>1, <2>2, <2>3, FS_AddElement
  <2> QED
    BY <1>1, <1>3, <1>8, <2>1, <2>3, <2>4 DEF NoTaskIsDropped
<1> QED
  BY <1>3, <1>9, <1>10, <1>11, <1>12, <1>13, <1>14 DEF HInv, Grows

LEMMA HInvStep == BootAssumption /\ HInv /\ [BootNext]_bvars => HInv'
PROOF
<1> SUFFICES ASSUME BootAssumption, HInv, [BootNext]_bvars PROVE HInv'
  OBVIOUS
<1>1. CASE \E u \in Everyone : pvPortMalloc(u)
  BY <1>1, MallocKeeps
<1>2. CASE \E u \in Everyone : MallocReturns(u)
  BY <1>2, MallocReturnKeeps
<1>3. CASE \E u \in Everyone : StackReturns(u)
  BY <1>3, StackReturnKeeps
<1>4. CASE \E u \in Everyone : TcbReturns(u)
  BY <1>4, TcbReturnKeeps
<1>5. CASE \E u \in Everyone : prvAddNewTaskToReadyList(u)
  BY <1>5, AddKeeps
<1>6. CASE \E u \in Everyone : xTaskCreate(u)
  BY <1>6, CreateKeeps
<1>7. CASE \E u \in Everyone : Allocate(u)
  BY <1>7, AllocateKeeps
<1>8. CASE \E t \in readyTasks : vTaskDelete(t)
  BY <1>8, DeleteKeeps
<1>9. CASE vTaskStartScheduler \/ prvCreateIdleTasks \/ StartOrReturn
  BY <1>9, StartKeeps
<1>10. CASE UNCHANGED bvars
  <2>1. UNCHANGED <<xNextFreeByte, suspender, blocks, uxCurrentNumberOfTasks, readyTasks, tcb,
                    deleted, step, request>>
    BY <1>10 DEF bvars, heapVars, taskVars
  <2>2. /\ Shape /\ Grows /\ AddsDiffer /\ TasksOK /\ FramesAreInside /\ NoTaskIsDropped
        /\ \A u \in Everyone : RequestOK(u)
    BY <2>1, StaysTheSame DEF HInv
  <2>3. Shape'
    BY <2>1, <2>2 DEF Shape, Aligned
  <2>4. \A u \in Everyone : RequestOK(u)'
    BY <2>1, <2>2 DEF RequestOK, FoundOK, HasStack, HeapTop, pucAlignedHeap, Aligned,
                      StackBytes, Rounded
  <2>5. AddsDiffer' /\ FramesAreInside' /\ NoTaskIsDropped'
    BY <2>1, <2>2 DEF AddsDiffer, FramesAreInside, NoTaskIsDropped
  <2>6. TasksOK'
    BY <2>1, <2>2 DEF TasksOK, HeapTop, pucAlignedHeap
  <2> QED
    BY <2>2, <2>3, <2>4, <2>5, <2>6 DEF HInv, Grows
<1> QED
  BY <1>1, <1>2, <1>3, <1>4, <1>5, <1>6, <1>7, <1>8, <1>9, <1>10 DEF BootNext

LEMMA HInvIsInside == BootAssumption /\ HInv => MemoryIsDisjoint /\ NoTaskIsDropped
PROOF
<1> SUFFICES ASSUME BootAssumption, HInv PROVE MemoryIsDisjoint /\ NoTaskIsDropped
  OBVIOUS
<1>1. /\ Shape /\ \A b \in blocks : BlockOK(b)
      /\ BlocksAreDisjoint /\ FramesAreInside /\ NoTaskIsDropped
  BY DEF HInv
<1>2. ucHeap <= pucAlignedHeap /\ HeapTop <= ucHeap + configTOTAL_HEAP_SIZE
  <2>1. pucAlignedHeap = ucHeap + portBYTE_ALIGNMENT
    BY AlignedHeap
  <2> QED
    BY <1>1, <2>1 DEF BootAssumption, HeapTop, Shape, configADJUSTED_HEAP_SIZE
<1>3. /\ ucHeap \in Nat /\ configTOTAL_HEAP_SIZE \in Nat
      /\ HeapTop \in Nat /\ pucAlignedHeap \in Nat
  BY <1>1, TopType DEF BootAssumption
<1>4. BlocksAreInside
  BY <1>1, <1>2, <1>3 DEF BlocksAreInside, BlockOK, Aligned
<1> QED
  BY <1>1, <1>4 DEF MemoryIsDisjoint

\* The invariant of heap and task creation that the next two theorems rest on
\* (pvPortMalloc, xTaskCreate, vTaskDelete).
THEOREM HeapInvariant == BootSpec => []HInv
PROOF
<1>1. BootInit => HInv
  BY HInvInit, BootAssumption
<1>2. HInv /\ [BootNext]_bvars => HInv'
  BY HInvStep, BootAssumption
<1> QED
  BY <1>1, <1>2, PTL DEF BootSpec

\* No two blocks of the heap overlap, all lie inside it and hold the first frame of
\* their task, whatever is asked for, by whom and in which order (pvPortMalloc,
\* pxPortInitialiseStack).
THEOREM MemoryCorrect == BootSpec => []MemoryIsDisjoint
PROOF
<1>1. HInv => MemoryIsDisjoint
  BY HInvIsInside, BootAssumption
<1> QED
  BY <1>1, HeapInvariant, PTL

\* However many tasks are created and deleted, the ready lists hold those that live
\* and the count is theirs (prvAddNewTaskToReadyList, vTaskDelete).
THEOREM ReadyTasksCorrect == BootSpec => []NoTaskIsDropped
PROOF
<1>1. HInv => NoTaskIsDropped
  BY HInvIsInside, BootAssumption
<1> QED
  BY <1>1, HeapInvariant, PTL

-----------------------------------------------------------------------------
(* The idle tasks.  Before the start only main asks for memory, and none   *)
(* is given back: what one idle task did not get the next ones do not get  *)
(* either, so that the last one tells of all.                              *)

\* The cores below k have their idle tasks, the others have no task.
IdleDone(k) ==
  \A c \in CoreIDs :
    /\ c < k => LET t == pxCurrentTCBs[c] IN
                /\ t \in readyTasks /\ tcb[t].idle /\ tcb[t].core = c
                /\ xIdleTaskHandle[c] = t
    /\ c >= k => pxCurrentTCBs[c] = NULL

NoRoom(n) == n = 0 \/ xNextFreeByte + n >= configADJUSTED_HEAP_SIZE
IdleStack == Rounded(StackBytes(configMINIMAL_STACK_SIZE))
IdleTCB == Rounded(SizeOfTCB)

\* Who is done before the start, and after it.
CallersOK ==
  /\ pxCurrentTCBs \in [CoreIDs -> Int] /\ xIdleTaskHandle \in [CoreIDs -> Int]
  /\ xSchedulerRunning \in BOOLEAN
  /\ \A u \in Callers : /\ request[u].idle = NULL
                        /\ step[u] # "idle_tasks"
                        /\ ~xSchedulerRunning => step[u] = "idle"
  /\ xSchedulerRunning => step[Main] = "stopped" /\ IdleDone(configNUM_CORES)

\* Main creates a task of its own.
OwnRequestOK == step[Main] # "idle_tasks" /\ IdleDone(0)

\* Main creates the idle task of core k.
IdleRequestOK(k) ==
  /\ k \in 0 .. configNUM_CORES
  /\ step[Main] \in {"idle_tasks", "stack", "tcb", "add"}
  /\ step[Main] # "idle_tasks" => k < configNUM_CORES
  /\ step[Main] \in {"idle_tasks", "stack"} =>
       IdleDone(k) \/ NoRoom(IdleStack) \/ NoRoom(IdleTCB)
  /\ step[Main] = "idle_tasks" /\ request[Main].ret # NULL => IdleDone(k)
  /\ step[Main] = "stack" =>
       request[Main].wanted =
         IF Main \in suspender THEN IdleStack ELSE StackBytes(configMINIMAL_STACK_SIZE)
  /\ step[Main] = "tcb" =>
       /\ IdleDone(k) \/ NoRoom(IdleTCB)
       /\ request[Main].wanted = IF Main \in suspender THEN IdleTCB ELSE SizeOfTCB
  /\ step[Main] = "add" => IdleDone(k)
  /\ Main \in suspender => (request[Main].ret = NULL <=> NoRoom(request[Main].wanted))

MainOK ==
  ~xSchedulerRunning /\ step[Main] # "stopped" =>
    /\ request[Main].idle = NULL => OwnRequestOK
    /\ request[Main].idle # NULL => IdleRequestOK(request[Main].idle)

SInv == CallersOK /\ MainOK

LEMMA SInvInit == BootAssumption /\ BootInit => SInv
PROOF
<1> SUFFICES ASSUME BootAssumption, BootInit PROVE SInv
  OBVIOUS
<1>1. NULL \in Int /\ NoRequest.idle = NULL
  BY NoRequestType DEF NULL
<1>2. /\ \A u \in Everyone : request[u].idle = NULL /\ step[u] = "idle"
      /\ Main \in Everyone /\ Callers \subseteq Everyone
  BY <1>1 DEF BootInit, Everyone
<1>3. IdleDone(0)
  BY DEF BootInit, IdleDone, CoreIDs
<1>4. CallersOK
  BY <1>1, <1>2 DEF CallersOK, BootInit
<1> QED
  BY <1>2, <1>3, <1>4 DEF SInv, MainOK, OwnRequestOK

\* Only readers of the tasks: a step that adds tasks keeps the idle tasks in place.
LEMMA IdleDoneKept ==
  ASSUME BootAssumption, HInv, NEW k \in Int, IdleDone(k),
         UNCHANGED <<pxCurrentTCBs, xIdleTaskHandle>>,
         readyTasks \subseteq readyTasks', \A t \in DOMAIN tcb : tcb'[t] = tcb[t]
  PROVE  IdleDone(k)'
PROOF
<1>1. readyTasks \subseteq DOMAIN tcb
  BY DEF HInv, NoTaskIsDropped
<1> QED
  BY <1>1 DEF IdleDone

\* What a caller does once the scheduler runs, or main before: nobody else is
\* involved, and main alone creates idle tasks.
OperationOf(u) ==
  \/ pvPortMalloc(u) \/ MallocReturns(u) \/ StackReturns(u) \/ TcbReturns(u)
  \/ prvAddNewTaskToReadyList(u) \/ xTaskCreate(u) \/ Allocate(u)

LEMMA OthersKeep ==
  ASSUME BootAssumption, HInv, NEW u \in Everyone, OperationOf(u)
  PROVE  /\ \A v \in Everyone \ {u} : step'[v] = step[v] /\ request'[v] = request[v]
         /\ request[u].idle = NULL => request'[u].idle = NULL /\ step'[u] # "idle_tasks"
         /\ xSchedulerRunning' = xSchedulerRunning
PROOF
<1> USE DEF OperationOf
<1>1. step \in [Everyone -> Steps] /\ request \in [Everyone -> RequestType]
  BY DEF HInv, Shape
<1>2. NoRequest \in RequestType /\ NoRequest.idle = NULL
  BY NoRequestType
<1> DEFINE Goal ==
      /\ \A v \in Everyone \ {u} : step'[v] = step[v] /\ request'[v] = request[v]
      /\ request[u].idle = NULL => request'[u].idle = NULL /\ step'[u] # "idle_tasks"
      /\ xSchedulerRunning' = xSchedulerRunning
<1>3. ASSUME EndRequest(u), UNCHANGED startVars PROVE Goal
  <2>1. \A v \in Everyone \ {u} : step'[v] = step[v] /\ request'[v] = request[v]
    BY <1>1, <1>3 DEF EndRequest
  <2>2. request[u].idle = NULL => step'[u] = "idle" /\ request'[u] = NoRequest
    BY <1>1, <1>3 DEF EndRequest
  <2> QED
    BY <1>2, <1>3, <2>1, <2>2 DEF startVars
<1>4. CASE pvPortMalloc(u)
  BY <1>1, <1>4 DEF pvPortMalloc, startVars, RequestType
<1>5. CASE MallocReturns(u)
  BY <1>3, <1>5 DEF MallocReturns
<1>6. CASE StackReturns(u)
  <2>1. CASE request[u].ret = NULL
    BY <1>3, <1>6, <2>1 DEF StackReturns
  <2>2. CASE request[u].ret # NULL
    BY <1>1, <1>6, <2>2 DEF StackReturns, startVars, RequestType
  <2> QED
    BY <2>1, <2>2
<1>7. CASE TcbReturns(u)
  <2>1. CASE request[u].ret = NULL
    BY <1>3, <1>7, <2>1 DEF TcbReturns
  <2>2. CASE request[u].ret # NULL
    BY <1>1, <1>7, <2>2 DEF TcbReturns, startVars
  <2> QED
    BY <2>1, <2>2
<1>8. CASE xTaskCreate(u)
  <2>1. PICK depth \in StackDepths : BeginCreate(u, depth, NULL)
    BY <1>8 DEF xTaskCreate
  <2>2. ASSUME NEW r \in RequestType, NEW w
        PROVE  [r EXCEPT !.idle = NULL, !.depth = depth, !.wanted = w].idle = NULL
    BY DEF RequestType
  <2>3. request'[u].idle = NULL /\ step'[u] = "stack"
    BY <1>1, <1>2, <2>1, <2>2 DEF BeginCreate
  <2>4. \A v \in Everyone \ {u} : step'[v] = step[v] /\ request'[v] = request[v]
    BY <1>1, <2>1 DEF BeginCreate
  <2> QED
    BY <1>8, <2>3, <2>4 DEF xTaskCreate, startVars
<1>9. CASE Allocate(u)
  <2>1. PICK n : request' = [request EXCEPT ![u] = [NoRequest EXCEPT !.wanted = n]]
    BY <1>9 DEF Allocate
  <2>2. ASSUME NEW r \in RequestType
        PROVE  [r EXCEPT !.wanted = n].idle = r.idle
    BY DEF RequestType
  <2>3. request'[u].idle = NULL
    BY <1>1, <1>2, <2>1, <2>2
  <2> QED
    BY <1>1, <1>9, <2>1, <2>3 DEF Allocate, startVars
<1>10. CASE prvAddNewTaskToReadyList(u)
  <2>1. EndRequest(u) /\ xSchedulerRunning' = xSchedulerRunning
    BY <1>10 DEF prvAddNewTaskToReadyList
  <2>2. \A v \in Everyone \ {u} : step'[v] = step[v] /\ request'[v] = request[v]
    BY <1>1, <2>1 DEF EndRequest
  <2>3. request[u].idle = NULL => step'[u] = "idle" /\ request'[u] = NoRequest
    BY <1>1, <2>1 DEF EndRequest
  <2> QED
    BY <1>2, <2>1, <2>2, <2>3
<1> QED
  BY <1>4, <1>5, <1>6, <1>7, <1>8, <1>9, <1>10

\* Callers act when the scheduler runs, and leave the idle tasks alone.
LEMMA CallerKeeps ==
  ASSUME BootAssumption, HInv, SInv, NEW u \in Callers, OperationOf(u)
  PROVE  SInv'
PROOF
<1>1. /\ u \in Everyone /\ u # Main /\ Main \in Everyone /\ Callers \subseteq Everyone
  BY DEF BootAssumption, Everyone
<1>2. /\ request[u].idle = NULL /\ step[u] # "idle_tasks"
      /\ xSchedulerRunning \/ step[u] = "idle"
  BY DEF SInv, CallersOK
<1>3. /\ \A v \in Everyone \ {u} : step'[v] = step[v] /\ request'[v] = request[v]
      /\ request'[u].idle = NULL /\ step'[u] # "idle_tasks"
      /\ xSchedulerRunning' = xSchedulerRunning
  BY <1>1, <1>2, OthersKeep
<1>4. xSchedulerRunning
  BY <1>1, <1>2 DEF OperationOf, pvPortMalloc, MallocReturns, StackReturns, TcbReturns,
                    prvAddNewTaskToReadyList, xTaskCreate, Allocate, MayAct
<1>5. step'[Main] = "stopped"
  BY <1>1, <1>3, <1>4 DEF SInv, CallersOK
<1>6. UNCHANGED <<pxCurrentTCBs, xIdleTaskHandle>>
  <2>1. CASE prvAddNewTaskToReadyList(u)
    <3>1. TakesCores(u) = {}
      BY <1>4 DEF TakesCores
    <3>2. pxCurrentTCBs' = [c \in CoreIDs |-> pxCurrentTCBs[c]]
      BY <2>1, <3>1 DEF prvAddNewTaskToReadyList
    <3> QED
      BY <1>2, <2>1, <3>2 DEF prvAddNewTaskToReadyList, SInv, CallersOK
  <2>2. CASE ~prvAddNewTaskToReadyList(u)
    BY <2>2 DEF OperationOf, pvPortMalloc, MallocReturns, StackReturns, TcbReturns,
                xTaskCreate, Allocate, taskVars, startVars
  <2> QED
    BY <2>1, <2>2
<1>7. readyTasks \subseteq readyTasks' /\ \A t \in DOMAIN tcb : tcb'[t] = tcb[t]
  <2>1. CASE prvAddNewTaskToReadyList(u)
    BY <1>1, <2>1, AddGrows
  <2>2. CASE ~prvAddNewTaskToReadyList(u)
    BY <2>2 DEF OperationOf, pvPortMalloc, MallocReturns, StackReturns, TcbReturns,
                xTaskCreate, Allocate, taskVars, startVars
  <2> QED
    BY <2>1, <2>2
<1>8. IdleDone(configNUM_CORES)'
  <2>1. configNUM_CORES \in Int /\ IdleDone(configNUM_CORES)
    BY <1>4 DEF BootAssumption, SInv, CallersOK
  <2> QED
    BY <1>6, <1>7, <2>1, IdleDoneKept
<1>9. CallersOK'
  BY <1>1, <1>2, <1>3, <1>4, <1>5, <1>6, <1>8 DEF SInv, CallersOK
<1> QED
  BY <1>3, <1>4, <1>9 DEF SInv, MainOK

LEMMA EndOfIdleRequest ==
  ASSUME BootAssumption, HInv, NEW u \in Everyone, EndRequest(u), request[u].idle # NULL
  PROVE  /\ step'[u] = "idle_tasks"
         /\ request'[u].idle = request[u].idle + 1 /\ request'[u].ret = request[u].ret
PROOF
<1>1. step \in [Everyone -> Steps] /\ request \in [Everyone -> RequestType]
  BY DEF HInv, Shape
<1>2. ASSUME NEW r \in RequestType, NEW i, NEW j
      PROVE  /\ [r EXCEPT !.idle = i, !.ret = j].idle = i
             /\ [r EXCEPT !.idle = i, !.ret = j].ret = j
  BY DEF RequestType
<1> DEFINE next == [NoRequest EXCEPT !.idle = request[u].idle + 1, !.ret = request[u].ret]
<1>3. next.idle = request[u].idle + 1 /\ next.ret = request[u].ret
  BY <1>2, NoRequestType
<1>4. /\ step' = [step EXCEPT ![u] = "idle_tasks"]
      /\ request' = [request EXCEPT ![u] = next]
  BY DEF EndRequest
<1> HIDE DEF next
<1> QED
  BY <1>1, <1>3, <1>4

\* Main alone acts before the start, and what it did not find room for it does not
\* find room for later.
LEMMA MainActs ==
  ASSUME BootAssumption, HInv, SInv, OperationOf(Main)
  PROVE  /\ ~xSchedulerRunning /\ step[Main] # "stopped" /\ Main \in Everyone
         /\ xSchedulerRunning' = xSchedulerRunning
         /\ \A u \in Callers : step'[u] = step[u] /\ request'[u] = request[u]
         /\ (pxCurrentTCBs \in [CoreIDs -> Int])' /\ (xIdleTaskHandle \in [CoreIDs -> Int])'
         /\ CallersOK'
PROOF
<1>1. step[Main] \notin {"stopped", "idle_tasks"} /\ Main \in Everyone
  BY DEF Everyone, OperationOf, pvPortMalloc, MallocReturns, StackReturns, TcbReturns,
         prvAddNewTaskToReadyList, xTaskCreate, Allocate, MayAct
<1>2. ~xSchedulerRunning
  BY <1>1 DEF SInv, CallersOK
<1>3. \A u \in Callers : u \in Everyone \ {Main}
  BY DEF Everyone, BootAssumption
<1>4. /\ xSchedulerRunning' = xSchedulerRunning
      /\ \A u \in Callers : step'[u] = step[u] /\ request'[u] = request[u]
  BY <1>1, <1>3, OthersKeep
<1>5. (pxCurrentTCBs \in [CoreIDs -> Int])' /\ (xIdleTaskHandle \in [CoreIDs -> Int])'
  <2>1. CASE prvAddNewTaskToReadyList(Main)
    <3>1. request[Main].ret \in Nat
      BY <1>1, <2>1, AddGrows
    <3>2. pxCurrentTCBs \in [CoreIDs -> Int] /\ xIdleTaskHandle \in [CoreIDs -> Int]
      BY DEF SInv, CallersOK
    <3>3. PICK cores : pxCurrentTCBs' = [c \in CoreIDs |-> IF c \in cores THEN request[Main].ret
                                                         ELSE pxCurrentTCBs[c]]
      BY <2>1 DEF prvAddNewTaskToReadyList
    <3>4. \/ xIdleTaskHandle' = xIdleTaskHandle
          \/ xIdleTaskHandle' =
               [xIdleTaskHandle EXCEPT ![request[Main].idle] = request[Main].ret]
      BY <2>1 DEF prvAddNewTaskToReadyList
    <3>5. pxCurrentTCBs' \in [CoreIDs -> Int]
      BY <3>1, <3>2, <3>3
    <3>6. xIdleTaskHandle' \in [CoreIDs -> Int]
      BY <3>1, <3>2, <3>4
    <3> QED
      BY <3>5, <3>6 DEF CoreIDs
  <2>2. CASE ~prvAddNewTaskToReadyList(Main)
    BY <2>2 DEF OperationOf, pvPortMalloc, MallocReturns, StackReturns, TcbReturns,
                xTaskCreate, Allocate, taskVars, startVars, SInv, CallersOK
  <2> QED
    BY <2>1, <2>2
<1>6. CallersOK'
  BY <1>2, <1>4, <1>5 DEF SInv, CallersOK
<1> QED
  BY <1>1, <1>2, <1>4, <1>5, <1>6

\* The task of main's own.
LEMMA OwnRequestKeeps ==
  ASSUME BootAssumption, HInv, SInv, OperationOf(Main), request[Main].idle = NULL
  PROVE  SInv'
PROOF
<1>1. /\ ~xSchedulerRunning /\ step[Main] # "stopped" /\ Main \in Everyone /\ CallersOK'
      /\ pxCurrentTCBs \in [CoreIDs -> Int]
  BY MainActs DEF SInv, CallersOK
<1>2. request'[Main].idle = NULL /\ step'[Main] # "idle_tasks"
  BY <1>1, OthersKeep
<1>3. pxCurrentTCBs' = pxCurrentTCBs
  <2>1. CASE prvAddNewTaskToReadyList(Main)
    <3>1. TakesCores(Main) = {}
      BY DEF TakesCores
    <3>2. pxCurrentTCBs' = [c \in CoreIDs |-> pxCurrentTCBs[c]]
      BY <2>1, <3>1 DEF prvAddNewTaskToReadyList
    <3> QED
      BY <1>1, <3>2
  <2>2. CASE ~prvAddNewTaskToReadyList(Main)
    BY <2>2 DEF OperationOf, pvPortMalloc, MallocReturns, StackReturns, TcbReturns,
                xTaskCreate, Allocate, taskVars
  <2> QED
    BY <2>1, <2>2
<1>4. IdleDone(0)
  BY <1>1 DEF SInv, MainOK, OwnRequestOK
<1>5. IdleDone(0)'
  BY <1>3, <1>4 DEF IdleDone, CoreIDs
<1> QED
  BY <1>1, <1>2, <1>5 DEF SInv, MainOK, OwnRequestOK

LEMMA LargerSum ==
  ASSUME NEW n \in Nat, NEW m \in Nat, NEW l \in Nat, m <= l, NEW z \in Int,
         n = 0 \/ m + n >= z
  PROVE  n = 0 \/ l + n >= z
  OBVIOUS

LEMMA NoRoomStays ==
  ASSUME BootAssumption, HInv, Grows, NEW n \in Nat, NoRoom(n)
  PROVE  NoRoom(n)'
PROOF
<1>1. xNextFreeByte \in Nat /\ configTOTAL_HEAP_SIZE \in Int /\ portBYTE_ALIGNMENT \in Int
  BY DEF HInv, Shape, BootAssumption
<1>2. xNextFreeByte' \in Nat /\ xNextFreeByte <= xNextFreeByte'
  BY DEF Grows
<1>3. configADJUSTED_HEAP_SIZE \in Int
  BY <1>1 DEF configADJUSTED_HEAP_SIZE
<1>4. n = 0 \/ xNextFreeByte' + n >= configADJUSTED_HEAP_SIZE
  BY <1>1, <1>2, <1>3, LargerSum DEF NoRoom
<1> QED
  BY <1>4 DEF NoRoom, configADJUSTED_HEAP_SIZE

LEMMA IdleSizes ==
  ASSUME BootAssumption
  PROVE  /\ IdleStack \in Nat /\ IdleTCB \in Nat
         /\ StackBytes(configMINIMAL_STACK_SIZE) \in 0 .. SizeRange - 1
         /\ SizeOfTCB \in 0 .. SizeRange - 1
PROOF
<1>1. SizeOfTCB \in 0 .. SizeRange - 1 /\ SizeRange \in Nat
  BY DEF BootAssumption
<1>2. StackBytes(configMINIMAL_STACK_SIZE) \in 0 .. SizeRange - 1
  <2>1. configMINIMAL_STACK_SIZE \in Nat /\ SizeOfStackType \in Nat
    BY DEF BootAssumption
  <2>2. configMINIMAL_STACK_SIZE * SizeOfStackType \in Nat
    BY <2>1
  <2>3. configMINIMAL_STACK_SIZE * SizeOfStackType < SizeRange
    BY DEF BootAssumption
  <2> QED
    BY <1>1, <2>2, <2>3 DEF StackBytes
<1>3. /\ IdleStack \in 0 .. SizeRange - 1 /\ IdleTCB \in 0 .. SizeRange - 1
  BY <1>1, <1>2, RoundedUp DEF IdleStack, IdleTCB
<1> QED
  BY <1>1, <1>2, <1>3

\* With the idle tasks of the cores below k in place the next one goes to core k.
LEMMA NextIdleTask ==
  ASSUME BootAssumption, HInv, SInv, prvAddNewTaskToReadyList(Main),
         NEW k \in 0 .. configNUM_CORES - 1, request[Main].idle = k, IdleDone(k),
         ~xSchedulerRunning
  PROVE  IdleDone(k + 1)'
PROOF
<1> DEFINE new == request[Main].ret
<1>1. Main \in Everyone /\ configNUM_CORES \in Nat /\ k \in CoreIDs /\ k \in Int
  BY DEF Everyone, BootAssumption, CoreIDs
<1>2. /\ readyTasks' = readyTasks \cup {new} /\ new \in Nat /\ new \notin DOMAIN tcb
      /\ \A t \in DOMAIN tcb : tcb'[t] = tcb[t]
  BY <1>1, AddGrows
<1>3. /\ readyTasks \subseteq DOMAIN tcb /\ DOMAIN tcb \subseteq 0 .. HeapTop - 1
  BY DEF HInv, NoTaskIsDropped, TasksOK
<1>4. \A c \in CoreIDs : c < k => pxCurrentTCBs[c] \in DOMAIN tcb /\ pxCurrentTCBs[c] # NULL
  BY <1>3 DEF IdleDone, NULL
<1>5. FreeCores = {c \in CoreIDs : c >= k}
  BY <1>1, <1>4 DEF FreeCores, IdleDone, CoreIDs
<1>6. request[Main].idle # NULL
  BY DEF NULL
<1>7. TakesCores(Main) = {k}
  <2>1. TakesCores(Main) = {c \in FreeCores : \A d \in FreeCores : c <= d}
    BY <1>6 DEF TakesCores
  <2> QED
    BY <1>1, <1>5, <2>1 DEF CoreIDs
<1>8. /\ pxCurrentTCBs' = [c \in CoreIDs |-> IF c = k THEN new ELSE pxCurrentTCBs[c]]
      /\ xIdleTaskHandle' = [xIdleTaskHandle EXCEPT ![k] = new]
      /\ tcb' = [t \in DOMAIN tcb \cup {new} |->
                   IF t = new THEN prvInitialiseNewTask(Main, k) ELSE tcb[t]]
  BY <1>6, <1>7 DEF prvAddNewTaskToReadyList
<1>9. tcb'[new].idle /\ tcb'[new].core = k
  BY <1>6, <1>8 DEF prvInitialiseNewTask
<1> HIDE DEF new
<1>10. xIdleTaskHandle \in [CoreIDs -> Int]
  BY DEF SInv, CallersOK
<1> SUFFICES ASSUME NEW c \in CoreIDs
             PROVE  /\ c < k + 1 => LET t == pxCurrentTCBs'[c] IN
                          /\ t \in readyTasks' /\ tcb'[t].idle /\ tcb'[t].core = c
                          /\ xIdleTaskHandle'[c] = t
                    /\ c >= k + 1 => pxCurrentTCBs'[c] = NULL
  BY DEF IdleDone
<1>11. c \in Int
  BY DEF CoreIDs
<1>12. CASE c = k
  BY <1>1, <1>2, <1>8, <1>9, <1>10, <1>12
<1>13. CASE c < k
  <2>1. /\ pxCurrentTCBs[c] \in readyTasks /\ tcb[pxCurrentTCBs[c]].idle
        /\ tcb[pxCurrentTCBs[c]].core = c /\ xIdleTaskHandle[c] = pxCurrentTCBs[c]
    BY <1>13 DEF IdleDone
  <2>2. pxCurrentTCBs'[c] = pxCurrentTCBs[c] /\ xIdleTaskHandle'[c] = xIdleTaskHandle[c]
    BY <1>1, <1>8, <1>10, <1>11, <1>13
  <2>3. tcb'[pxCurrentTCBs[c]] = tcb[pxCurrentTCBs[c]]
    BY <1>2, <1>4, <1>13
  <2> QED
    BY <1>1, <1>2, <1>11, <1>13, <2>1, <2>2, <2>3
<1>14. CASE c > k
  <2>1. pxCurrentTCBs'[c] = NULL
    BY <1>1, <1>8, <1>11, <1>14 DEF IdleDone
  <2> QED
    BY <1>1, <1>11, <1>14, <2>1
<1> QED
  BY <1>1, <1>11, <1>12, <1>13, <1>14

\* The idle task of core k: what main finds room for, and what not.
LEMMA IdleMallocKeeps ==
  ASSUME BootAssumption, HInv, NEW k \in Int, k # NULL, request[Main].idle = k,
         IdleRequestOK(k), pvPortMalloc(Main)
  PROVE  request'[Main].idle = k /\ IdleRequestOK(k)'
PROOF
<1> DEFINE n == Rounded(request[Main].wanted)
           found == IF Fits(n) THEN pucAlignedHeap + xNextFreeByte ELSE NULL
<1>1. /\ step[Main] \in {"stack", "tcb"} /\ Main \notin suspender /\ suspender' = {Main}
      /\ request' = [request EXCEPT ![Main].wanted = n, ![Main].ret = found]
      /\ UNCHANGED <<xNextFreeByte, taskVars, startVars, step>>
  BY DEF pvPortMalloc, IdleRequestOK
<1>2. /\ Main \in Everyone /\ Shape /\ HeapTop \in Nat
  BY TopType DEF HInv, Everyone
<1>3. request[Main].wanted \in 0 .. SizeRange - 1 /\ request[Main] \in RequestType
  BY <1>2 DEF Shape, RequestType
<1>4. n \in 0 .. SizeRange - 1 /\ Aligned(n)
  BY <1>3, RoundedUp
<1>5. /\ step[Main] = "stack" => n = IdleStack
      /\ step[Main] = "tcb" => n = IdleTCB
  BY <1>1 DEF IdleRequestOK, IdleStack, IdleTCB
<1>6. found = NULL <=> NoRoom(n)
  <2>1. Fits(n) <=> n > 0 /\ xNextFreeByte + n < configADJUSTED_HEAP_SIZE
    BY <1>2, <1>4, FitsInside DEF Shape
  <2>2. xNextFreeByte \in Nat /\ configADJUSTED_HEAP_SIZE \in Int /\ n \in Nat
    BY <1>2, <1>4 DEF Shape, BootAssumption, configADJUSTED_HEAP_SIZE
  <2>3. Fits(n) <=> ~NoRoom(n)
    BY <2>1, <2>2 DEF NoRoom
  <2>4. Fits(n) => found # NULL
    BY <1>2 DEF HeapTop, NULL
  <2> QED
    BY <2>3, <2>4
<1> HIDE DEF n, found
<1>7. /\ request'[Main].wanted = n /\ request'[Main].ret = found
      /\ request'[Main].idle = request[Main].idle
  BY <1>1, <1>2 DEF Shape, RequestType
<1>8. /\ IdleDone(k)' <=> IdleDone(k)
      /\ \A m : NoRoom(m)' <=> NoRoom(m)
  BY <1>1 DEF IdleDone, taskVars, startVars, NoRoom, configADJUSTED_HEAP_SIZE
<1>9. IdleStack' = IdleStack /\ IdleTCB' = IdleTCB
  BY DEF IdleStack, IdleTCB, Rounded, StackBytes
<1>10. (Main \in suspender => (request[Main].ret = NULL <=> NoRoom(request[Main].wanted)))'
  BY <1>6, <1>7, <1>8
<1>11. (step[Main] = "stack" =>
          request[Main].wanted =
            IF Main \in suspender THEN IdleStack
            ELSE StackBytes(configMINIMAL_STACK_SIZE))'
  BY <1>1, <1>5, <1>7, <1>9
<1>12. (step[Main] = "tcb" =>
          /\ IdleDone(k) \/ NoRoom(IdleTCB)
          /\ request[Main].wanted = IF Main \in suspender THEN IdleTCB ELSE SizeOfTCB)'
  BY <1>1, <1>5, <1>7, <1>8, <1>9 DEF IdleRequestOK
<1>13. (step[Main] \in {"idle_tasks", "stack"} =>
          IdleDone(k) \/ NoRoom(IdleStack) \/ NoRoom(IdleTCB))'
  BY <1>1, <1>8, <1>9 DEF IdleRequestOK
<1> QED
  BY <1>1, <1>7, <1>10, <1>11, <1>12, <1>13 DEF IdleRequestOK

LEMMA IdleStackKeeps ==
  ASSUME BootAssumption, HInv, NEW k \in Int, k # NULL, request[Main].idle = k,
         IdleRequestOK(k), StackReturns(Main)
  PROVE  request'[Main].idle # NULL /\ IdleRequestOK(request[Main].idle)'
PROOF
<1>1. /\ Main \in Everyone /\ Main \in suspender /\ step[Main] = "stack" /\ TakeBlock(Main)
      /\ UNCHANGED <<taskVars, startVars>>
  BY DEF StackReturns, Everyone
<1>2. /\ Grows /\ suspender' = {}
      /\ step \in [Everyone -> Steps] /\ request \in [Everyone -> RequestType]
  BY <1>1, BlockTaken DEF HInv, Shape
<1>3. /\ request[Main].wanted = IdleStack
      /\ request[Main].ret = NULL <=> NoRoom(IdleStack)
      /\ IdleDone(k) \/ NoRoom(IdleStack) \/ NoRoom(IdleTCB)
      /\ k \in 0 .. configNUM_CORES - 1
  BY <1>1 DEF IdleRequestOK, BootAssumption
<1>4. /\ IdleDone(k) => IdleDone(k)'
      /\ NoRoom(IdleStack) => NoRoom(IdleStack)'
      /\ NoRoom(IdleTCB) => NoRoom(IdleTCB)'
  <2>1. IdleDone(k)' <=> IdleDone(k)
    BY <1>1 DEF IdleDone, taskVars, startVars
  <2>2. IdleStack' = IdleStack /\ IdleTCB' = IdleTCB
    BY DEF IdleStack, IdleTCB, Rounded, StackBytes
  <2>3. \A n \in Nat : NoRoom(n) => NoRoom(n)'
    BY <1>2, NoRoomStays
  <2> QED
    BY <2>1, <2>2, <2>3, IdleSizes DEF NoRoom
<1>5. CASE request[Main].ret = NULL
  <2>1. EndRequest(Main)
    BY <1>5 DEF StackReturns
  <2>2. /\ step'[Main] = "idle_tasks" /\ request'[Main].idle = k + 1
        /\ request'[Main].ret = NULL
    BY <1>1, <1>5, <2>1, EndOfIdleRequest
  <2>3. k + 1 \in 0 .. configNUM_CORES /\ k + 1 # NULL
    BY <1>3 DEF BootAssumption, NULL
  <2>4. NoRoom(IdleStack)'
    BY <1>3, <1>4, <1>5
  <2> QED
    BY <1>2, <2>2, <2>3, <2>4 DEF IdleRequestOK
<1>6. CASE request[Main].ret # NULL
  <2>1. /\ step' = [step EXCEPT ![Main] = "tcb"]
        /\ request' = [request EXCEPT ![Main].stack = request[Main].ret,
                                      ![Main].wanted = SizeOfTCB]
    BY <1>6 DEF StackReturns
  <2>2. step'[Main] = "tcb" /\ request'[Main].wanted = SizeOfTCB /\ request'[Main].idle = k
    BY <1>1, <1>2, <2>1 DEF RequestType
  <2>3. IdleDone(k)' \/ NoRoom(IdleTCB)'
    BY <1>3, <1>4, <1>6
  <2>4. k \in 0 .. configNUM_CORES /\ k < configNUM_CORES
    BY <1>3 DEF BootAssumption
  <2> QED
    BY <1>2, <2>2, <2>3, <2>4 DEF IdleRequestOK
<1> QED
  BY <1>5, <1>6

LEMMA IdleTcbKeeps ==
  ASSUME BootAssumption, HInv, NEW k \in Int, k # NULL, request[Main].idle = k,
         IdleRequestOK(k), TcbReturns(Main)
  PROVE  request'[Main].idle # NULL /\ IdleRequestOK(request[Main].idle)'
PROOF
<1>1. /\ Main \in Everyone /\ Main \in suspender /\ step[Main] = "tcb" /\ TakeBlock(Main)
      /\ UNCHANGED <<taskVars, startVars>>
  BY DEF TcbReturns, Everyone
<1>2. /\ Grows /\ suspender' = {}
      /\ step \in [Everyone -> Steps] /\ request \in [Everyone -> RequestType]
  BY <1>1, BlockTaken DEF HInv, Shape
<1>3. /\ request[Main].ret = NULL <=> NoRoom(IdleTCB)
      /\ IdleDone(k) \/ NoRoom(IdleTCB)
      /\ k \in 0 .. configNUM_CORES - 1
  BY <1>1 DEF IdleRequestOK, BootAssumption
<1>4. /\ IdleDone(k) => IdleDone(k)'
      /\ NoRoom(IdleTCB) => NoRoom(IdleTCB)'
  <2>1. IdleDone(k)' <=> IdleDone(k)
    BY <1>1 DEF IdleDone, taskVars, startVars
  <2>2. IdleTCB' = IdleTCB
    BY DEF IdleTCB, Rounded
  <2>3. \A n \in Nat : NoRoom(n) => NoRoom(n)'
    BY <1>2, NoRoomStays
  <2> QED
    BY <2>1, <2>2, <2>3, IdleSizes DEF NoRoom
<1>5. CASE request[Main].ret = NULL
  <2>1. EndRequest(Main)
    BY <1>5 DEF TcbReturns
  <2>2. /\ step'[Main] = "idle_tasks" /\ request'[Main].idle = k + 1
        /\ request'[Main].ret = NULL
    BY <1>1, <1>5, <2>1, EndOfIdleRequest
  <2>3. k + 1 \in 0 .. configNUM_CORES /\ k + 1 # NULL
    BY <1>3 DEF BootAssumption, NULL
  <2>4. NoRoom(IdleTCB)'
    BY <1>3, <1>4, <1>5
  <2> QED
    BY <1>2, <2>2, <2>3, <2>4 DEF IdleRequestOK
<1>6. CASE request[Main].ret # NULL
  <2>1. step' = [step EXCEPT ![Main] = "add"] /\ request' = request
    BY <1>6 DEF TcbReturns
  <2>2. step'[Main] = "add" /\ request'[Main].idle = k
    BY <1>1, <1>2, <2>1
  <2>3. IdleDone(k)'
    BY <1>3, <1>4, <1>6
  <2>4. k \in 0 .. configNUM_CORES /\ k < configNUM_CORES
    BY <1>3 DEF BootAssumption
  <2> QED
    BY <1>2, <2>2, <2>3, <2>4 DEF IdleRequestOK
<1> QED
  BY <1>5, <1>6

LEMMA IdleAddKeeps ==
  ASSUME BootAssumption, HInv, SInv, NEW k \in Int, k # NULL, request[Main].idle = k,
         IdleRequestOK(k), ~xSchedulerRunning, prvAddNewTaskToReadyList(Main)
  PROVE  request'[Main].idle # NULL /\ IdleRequestOK(request[Main].idle)'
PROOF
<1>1. /\ Main \in Everyone /\ step[Main] = "add" /\ EndRequest(Main)
      /\ suspender = {} /\ suspender' = suspender
  BY DEF prvAddNewTaskToReadyList, Everyone, heapVars
<1>2. IdleDone(k) /\ k \in 0 .. configNUM_CORES - 1
  BY <1>1 DEF IdleRequestOK, BootAssumption
<1>3. IdleDone(k + 1)'
  BY <1>2, NextIdleTask
<1>4. step'[Main] = "idle_tasks" /\ request'[Main].idle = k + 1
  BY <1>1, EndOfIdleRequest
<1>5. k + 1 \in 0 .. configNUM_CORES /\ k + 1 # NULL
  BY <1>2 DEF BootAssumption, NULL
<1> QED
  BY <1>1, <1>3, <1>4, <1>5 DEF IdleRequestOK

LEMMA MainKeeps ==
  ASSUME BootAssumption, HInv, SInv, OperationOf(Main)
  PROVE  SInv'
PROOF
<1>1. /\ ~xSchedulerRunning /\ step[Main] # "stopped" /\ Main \in Everyone /\ CallersOK'
  BY MainActs
<1>2. CASE request[Main].idle = NULL
  BY <1>2, OwnRequestKeeps
<1>3. CASE request[Main].idle # NULL
  <2>1. PICK k \in Int : k = request[Main].idle
    BY <1>1 DEF HInv, Shape, RequestType
  <2>2. k # NULL /\ IdleRequestOK(k)
    BY <1>1, <1>3, <2>1 DEF SInv, MainOK
  <2>3. step[Main] \in {"stack", "tcb", "add"}
    BY <2>2 DEF IdleRequestOK, OperationOf, pvPortMalloc, MallocReturns, StackReturns,
                TcbReturns, prvAddNewTaskToReadyList, xTaskCreate, Allocate, MayAct
  <2>4. request'[Main].idle # NULL /\ IdleRequestOK(request[Main].idle)'
    <3>1. CASE pvPortMalloc(Main)
      <4>1. request'[Main].idle = k /\ IdleRequestOK(k)'
        BY <2>1, <2>2, <3>1, IdleMallocKeeps
      <4> QED
        BY <2>2, <4>1 DEF IdleRequestOK, IdleDone
    <3>2. CASE StackReturns(Main)
      BY <2>1, <2>2, <3>2, IdleStackKeeps
    <3>3. CASE TcbReturns(Main)
      BY <2>1, <2>2, <3>3, IdleTcbKeeps
    <3>4. CASE prvAddNewTaskToReadyList(Main)
      BY <1>1, <2>1, <2>2, <3>4, IdleAddKeeps
    <3>5. CASE MallocReturns(Main) \/ xTaskCreate(Main) \/ Allocate(Main)
      BY <2>3, <3>5 DEF MallocReturns, xTaskCreate, Allocate, MayAct
    <3> QED
      BY <3>1, <3>2, <3>3, <3>4, <3>5 DEF OperationOf
  <2> QED
    BY <1>1, <2>4 DEF SInv, MainOK
<1> QED
  BY <1>2, <1>3

LEMMA StartUpKeeps ==
  ASSUME BootAssumption, HInv, SInv,
         vTaskStartScheduler \/ prvCreateIdleTasks \/ StartOrReturn
  PROVE  SInv'
PROOF
<1>1. /\ Main \in Everyone /\ step \in [Everyone -> Steps]
      /\ request \in [Everyone -> RequestType] /\ RequestOK(Main)
  BY DEF Everyone, HInv, Shape
<1>2. /\ step[Main] \in {"idle", "idle_tasks"} /\ ~xSchedulerRunning
      /\ Main \notin suspender
      /\ UNCHANGED <<xNextFreeByte, suspender, readyTasks, pxCurrentTCBs, tcb,
                     xIdleTaskHandle>>
  BY <1>1 DEF vTaskStartScheduler, prvCreateIdleTasks, StartOrReturn, MayAct, SInv, CallersOK,
              heapVars, taskVars, startVars, RequestOK, FoundOK
<1>3. PICK s, r : step' = [step EXCEPT ![Main] = s] /\ request' = [request EXCEPT ![Main] = r]
  BY <1>1 DEF vTaskStartScheduler, prvCreateIdleTasks, StartOrReturn, BeginCreate
<1>4. /\ step'[Main] = s /\ request'[Main] = r
      /\ \A u \in Callers : step'[u] = step[u] /\ request'[u] = request[u]
  BY <1>1, <1>3 DEF Everyone, BootAssumption
<1>5. /\ \A k : IdleDone(k)' <=> IdleDone(k)
      /\ \A n : NoRoom(n)' <=> NoRoom(n)
      /\ IdleStack' = IdleStack /\ IdleTCB' = IdleTCB
  BY <1>2 DEF IdleDone, NoRoom, configADJUSTED_HEAP_SIZE, IdleStack, IdleTCB, Rounded,
              StackBytes
<1>6. MainOK
  BY DEF SInv
<1>7. configNUM_CORES \in Nat \ {0}
  BY DEF BootAssumption
<1>8. CASE vTaskStartScheduler
  <2>1. step[Main] = "idle" /\ step'[Main] = "idle_tasks" /\ UNCHANGED xSchedulerRunning
    BY <1>1, <1>8 DEF vTaskStartScheduler, MayAct, startVars
  <2>2. ASSUME NEW q \in RequestType
        PROVE  [q EXCEPT !.idle = 0].idle = 0 /\ [q EXCEPT !.idle = 0].ret = q.ret
    BY DEF RequestType
  <2>3. request'[Main] = [NoRequest EXCEPT !.idle = 0]
    BY <1>1, <1>8 DEF vTaskStartScheduler
  <2>4. request'[Main].idle = 0 /\ request'[Main].ret = NULL
    BY <2>2, <2>3, NoRequestType
  <2>5. IdleDone(0)
    BY <1>2, <1>6, <2>1 DEF MainOK, OwnRequestOK, IdleRequestOK
  <2>6. CallersOK'
    BY <1>2, <1>4, <2>1 DEF SInv, CallersOK
  <2>7. IdleRequestOK(0)'
    BY <1>2, <1>5, <1>7, <2>1, <2>4, <2>5 DEF IdleRequestOK
  <2> QED
    BY <2>4, <2>6, <2>7 DEF SInv, MainOK, IdleRequestOK, NULL
<1>9. CASE prvCreateIdleTasks
  <2> DEFINE k == request[Main].idle
  <2>1. /\ step[Main] = "idle_tasks" /\ k < configNUM_CORES /\ UNCHANGED xSchedulerRunning
        /\ BeginCreate(Main, configMINIMAL_STACK_SIZE, k)
    BY <1>9 DEF prvCreateIdleTasks, startVars
  <2>2. k # NULL /\ IdleRequestOK(k)
    BY <1>2, <1>6, <2>1 DEF MainOK, OwnRequestOK
  <2>3. ASSUME NEW q \in RequestType, NEW d, NEW w
        PROVE  /\ [q EXCEPT !.idle = k, !.depth = d, !.wanted = w].idle = k
               /\ [q EXCEPT !.idle = k, !.depth = d, !.wanted = w].wanted = w
    BY DEF RequestType
  <2>4. /\ step'[Main] = "stack"
        /\ request'[Main] = [NoRequest EXCEPT !.idle = k, !.depth = configMINIMAL_STACK_SIZE,
                                !.wanted = StackBytes(configMINIMAL_STACK_SIZE)]
    BY <1>1, <2>1 DEF BeginCreate
  <2>5. /\ request'[Main].idle = k
        /\ request'[Main].wanted = StackBytes(configMINIMAL_STACK_SIZE)
    BY <2>3, <2>4, NoRequestType
  <2>6. CallersOK'
    BY <1>2, <1>4, <2>1 DEF SInv, CallersOK
  <2>7. PICK j : j = k
    OBVIOUS
  <2>8. IdleRequestOK(j)'
    <3>1. /\ j \in 0 .. configNUM_CORES /\ j < configNUM_CORES
          /\ IdleDone(j) \/ NoRoom(IdleStack) \/ NoRoom(IdleTCB)
      BY <2>1, <2>2, <2>7 DEF IdleRequestOK
    <3>2. (IdleDone(j) \/ NoRoom(IdleStack) \/ NoRoom(IdleTCB))'
      BY <1>5, <3>1
    <3>3. (request[Main].wanted =
             IF Main \in suspender THEN IdleStack
             ELSE StackBytes(configMINIMAL_STACK_SIZE))'
      BY <1>2, <2>5 DEF StackBytes
    <3> QED
      BY <1>2, <2>4, <3>1, <3>2, <3>3 DEF IdleRequestOK
  <2>9. (request[Main].idle = j)' /\ j # NULL
    BY <2>2, <2>5, <2>7
  <2>10. IdleRequestOK(request[Main].idle)' /\ request'[Main].idle # NULL
    BY <2>8, <2>9
  <2> QED
    BY <2>6, <2>10 DEF SInv, MainOK
<1>10. CASE StartOrReturn
  <2>1. /\ step[Main] = "idle_tasks" /\ request[Main].idle = configNUM_CORES
        /\ xSchedulerRunning' = (request[Main].ret # NULL)
        /\ step'[Main] = "stopped"
    BY <1>1, <1>10 DEF StartOrReturn
  <2>2. request[Main].idle # NULL
    BY <1>7, <2>1 DEF NULL
  <2>3. request[Main].ret # NULL => IdleDone(configNUM_CORES)
    BY <1>2, <1>6, <2>1, <2>2 DEF MainOK, IdleRequestOK
  <2>4. CallersOK'
    BY <1>2, <1>4, <1>5, <2>1, <2>3 DEF SInv, CallersOK
  <2> QED
    BY <2>1, <2>4 DEF SInv, MainOK
<1> QED
  BY <1>8, <1>9, <1>10

LEMMA DeletingKeeps ==
  ASSUME BootAssumption, HInv, SInv, NEW t \in readyTasks, vTaskDelete(t)
  PROVE  SInv'
PROOF
<1>1. /\ ~xSchedulerRunning /\ step[Main] = "idle"
      /\ UNCHANGED <<pxCurrentTCBs, xIdleTaskHandle, xSchedulerRunning, step, request>>
  BY DEF vTaskDelete, MayAct, startVars
<1>2. request[Main].idle = NULL /\ IdleDone(0)
  BY <1>1 DEF SInv, MainOK, OwnRequestOK, IdleRequestOK
<1>3. IdleDone(0)'
  BY <1>1, <1>2 DEF IdleDone, CoreIDs
<1> QED
  BY <1>1, <1>2, <1>3 DEF SInv, CallersOK, MainOK, OwnRequestOK

LEMMA SInvStep == BootAssumption /\ HInv /\ SInv /\ [BootNext]_bvars => SInv'
PROOF
<1> SUFFICES ASSUME BootAssumption, HInv, SInv, [BootNext]_bvars PROVE SInv'
  OBVIOUS
<1>1. CASE \E u \in Everyone : OperationOf(u)
  BY <1>1, CallerKeeps, MainKeeps DEF Everyone
<1>2. CASE \E t \in readyTasks : vTaskDelete(t)
  BY <1>2, DeletingKeeps
<1>3. CASE vTaskStartScheduler \/ prvCreateIdleTasks \/ StartOrReturn
  BY <1>3, StartUpKeeps
<1>4. CASE UNCHANGED bvars
  BY <1>4 DEF bvars, heapVars, taskVars, startVars, SInv, CallersOK, MainOK, OwnRequestOK,
              IdleRequestOK, IdleDone, NoRoom, IdleStack, IdleTCB, Rounded, StackBytes,
              configADJUSTED_HEAP_SIZE
<1>5. BootNext => \/ \E u \in Everyone : OperationOf(u)
                  \/ \E t \in readyTasks : vTaskDelete(t)
                  \/ vTaskStartScheduler \/ prvCreateIdleTasks \/ StartOrReturn
  BY DEF BootNext, OperationOf
<1> QED
  BY <1>1, <1>2, <1>3, <1>4, <1>5

\* Whatever memory there is and however it is used before the start, a scheduler that
\* runs has an idle task on each core (prvCreateIdleTasks, vTaskStartScheduler).
THEOREM IdleTasksCorrect == BootSpec => []StartsWithIdleTasks
PROOF
<1>1. BootInit => HInv /\ SInv
  BY HInvInit, SInvInit, BootAssumption
<1>2. HInv /\ SInv /\ [BootNext]_bvars => HInv' /\ SInv'
  BY HInvStep, SInvStep, BootAssumption
<1>3. SInv => StartsWithIdleTasks
  <2> SUFFICES ASSUME SInv, xSchedulerRunning, NEW c \in CoreIDs
               PROVE  LET t == pxCurrentTCBs[c] IN
                      /\ t \in readyTasks /\ tcb[t].idle /\ tcb[t].core = c
                      /\ xIdleTaskHandle[c] = t
    BY DEF StartsWithIdleTasks
  <2>1. IdleDone(configNUM_CORES)
    BY DEF SInv, CallersOK
  <2>2. c < configNUM_CORES
    BY BootAssumption DEF CoreIDs, BootAssumption
  <2> QED
    BY <2>1, <2>2 DEF IdleDone
<1> QED
  BY <1>1, <1>2, <1>3, PTL DEF BootSpec

-----------------------------------------------------------------------------
(* The ring buffer.  First a ring of L slots, read at r and written at w,  *)
(* about constants.                                                        *)

Along(L, i, k) == IF i + k >= L THEN i + k - L ELSE i + k
Used(L, r, w) == IF w < r THEN L - r + w ELSE w - r

LEMMA UsedType ==
  ASSUME NEW L \in Nat \ {0}, NEW r \in 0 .. L - 1, NEW w \in 0 .. L - 1
  PROVE  /\ Used(L, r, w) \in 0 .. L - 1
         /\ \A k \in 0 .. L - 1 : Along(L, r, k) \in 0 .. L - 1
  BY DEF Used, Along

\* Where n more items go.
GoesTo(L, r, w, m, n) ==
  /\ Along(L, w, n) \in 0 .. L - 1 /\ Used(L, r, Along(L, w, n)) = m + n
  /\ \A j \in 1 .. n : /\ Along(L, w, j - 1) = Along(L, r, m + j - 1)
                       /\ Along(L, w, j - 1) \in 0 .. L - 1
  /\ \A j \in 1 .. n, k \in 1 .. m : Along(L, w, j - 1) # Along(L, r, k - 1)
  /\ \A j \in 1 .. n, k \in 1 .. n : Along(L, w, j - 1) = Along(L, w, k - 1) => j = k

LEMMA RingWrite ==
  ASSUME NEW L \in Nat \ {0}, NEW r \in 0 .. L - 1, NEW w \in 0 .. L - 1,
         NEW m, m = Used(L, r, w), NEW n \in 0 .. L - 1 - m
  PROVE  GoesTo(L, r, w, m, n)
PROOF
<1>1. m \in 0 .. L - 1
  BY UsedType
<1> QED
  BY <1>1 DEF Used, Along, GoesTo

\* Where n items are read from, and what is left.
GoesFrom(L, r, w, m, n) ==
  /\ Along(L, r, n) \in 0 .. L - 1 /\ Used(L, Along(L, r, n), w) = m - n
  /\ \A j \in 1 .. m - n : Along(L, Along(L, r, n), j - 1) = Along(L, r, n + j - 1)

LEMMA RingRead ==
  ASSUME NEW L \in Nat \ {0}, NEW r \in 0 .. L - 1, NEW w \in 0 .. L - 1,
         NEW m, m = Used(L, r, w), NEW n \in 0 .. m
  PROVE  GoesFrom(L, r, w, m, n)
PROOF
<1>1. m \in 0 .. L - 1
  BY UsedType
<1> QED
  BY <1>1 DEF Used, Along, GoesFrom

\* f is g followed by n items of h.
Continues(S, m, n, f, g, h) ==
  /\ f \in [1 .. m + n -> S] /\ g \in [1 .. m -> S] /\ h \in Seq(S) /\ n <= Len(h)
  /\ \A k \in 1 .. m : f[k] = g[k]
  /\ \A k \in 1 .. n : f[m + k] = h[k]

LEMMA Joined ==
  ASSUME NEW S, NEW m \in Nat, NEW n \in Nat, NEW f, NEW g, NEW h,
         Continues(S, m, n, f, g, h)
  PROVE  f = g \o SubSeq(h, 1, n)
PROOF
<1> USE DEF Continues
<1> DEFINE e == SubSeq(h, 1, n)
           c == g \o e
<1>1. f \in Seq(S) /\ g \in Seq(S) /\ Len(f) = m + n /\ Len(g) = m
  OBVIOUS
<1>2. e \in Seq(S) /\ Len(e) = n /\ \A k \in 1 .. n : e[k] = h[k]
  OBVIOUS
<1> HIDE DEF e
<1>3. c \in Seq(S) /\ Len(c) = m + n
  <2>1. c \in Seq(S) /\ Len(c) = Len(g) + Len(e)
    BY <1>1, <1>2, ConcatProperties
  <2> QED
    BY <2>1, <1>1, <1>2
<1>4. ASSUME NEW k \in 1 .. m + n PROVE f[k] = c[k]
  <2> k \in Int /\ m \in Int /\ n \in Int
    OBVIOUS
  <2>1. CASE k <= m
    BY <1>1, <1>2, <2>1
  <2>2. CASE k > m
    <3>1. k - m \in 1 .. n /\ k = m + (k - m)
      BY <2>2
    <3>2. f[k] = h[k - m]
      BY <3>1
    <3>3. c[k] = e[k - m]
      BY <1>1, <1>2, <2>2, ConcatProperties
    <3>4. e[k - m] = h[k - m]
      BY <1>2, <3>1
    <3> QED
      BY <3>2, <3>3, <3>4
  <2> HIDE DEF c
  <2> QED
    BY <2>1, <2>2
<1> HIDE DEF c
<1>5. f = c
  BY <1>1, <1>3, <1>4, SeqEqual
<1> QED
  BY <1>5 DEF c, e

\* g is the first n of the m items of f, and h the others.
Parts(S, m, n, f, g, h) ==
  /\ f \in [1 .. m -> S] /\ g \in [1 .. n -> S] /\ h \in [1 .. m - n -> S]
  /\ \A k \in 1 .. n : g[k] = f[k]
  /\ \A k \in 1 .. m - n : h[k] = f[n + k]

LEMMA Cut ==
  ASSUME NEW S, NEW m \in Nat, NEW n \in 0 .. m, NEW f, NEW g, NEW h,
         Parts(S, m, n, f, g, h)
  PROVE  /\ g = SubSeq(f, 1, n)
         /\ h = SubSeq(f, n + 1, m)
PROOF
<1> USE DEF Parts
<1>1. f \in Seq(S) /\ Len(f) = m /\ g \in Seq(S) /\ Len(g) = n /\ h \in Seq(S)
      /\ Len(h) = m - n
  OBVIOUS
<1> DEFINE c == SubSeq(f, 1, n)
           d == SubSeq(f, n + 1, m)
<1>2. c \in Seq(S) /\ Len(c) = n /\ \A k \in 1 .. n : c[k] = f[k]
  BY <1>1
<1>3. d \in Seq(S) /\ Len(d) = m - n /\ \A k \in 1 .. m - n : d[k] = f[n + k]
  BY <1>1
<1> HIDE DEF c, d
<1>4. g = c
  BY <1>1, <1>2, SeqEqual
<1>5. h = d
  BY <1>1, <1>3, SeqEqual
<1> QED
  BY <1>4, <1>5 DEF c, d

\* The ring of Fifo is this ring.
Item == {Blank} \cup UNION {{b[k] : k \in DOMAIN b} : b \in Batches}

FInv == FTypeOK /\ buffer \in [0 .. size - 1 -> Item]

Unread == [k \in 1 .. count_read |-> buffer[Advanced(read_index, k - 1)]]

LEMMA BatchType ==
  ASSUME FifoAssumption, NEW b \in Batches
  PROVE  b \in Seq(Item)
PROOF
<1>1. b \in Seq({b[k] : k \in DOMAIN b}) /\ {b[k] : k \in DOMAIN b} \subseteq Item
  BY DEF FifoAssumption, Item
<1> QED
  BY <1>1

LEMMA RingOfFifo ==
  ASSUME FifoAssumption, FInv
  PROVE  /\ size \in Nat \ {0}
         /\ write_index \in 0 .. size - 1 /\ read_index \in 0 .. size - 1
         /\ count_read = Used(size, read_index, write_index)
         /\ count_read \in 0 .. size - 1
         /\ count_write = size - 1 - count_read
         /\ \A i, k : Advanced(i, k) = Along(size, i, k)
         /\ Unread \in [1 .. count_read -> Item]
         /\ Unread \in Seq(Item) /\ Len(Unread) = count_read
PROOF
<1>1. /\ size \in Nat \ {0} /\ buffer \in [0 .. size - 1 -> Item]
      /\ write_index \in 0 .. size - 1 /\ read_index \in 0 .. size - 1
  BY DEF FifoAssumption, FInv, FTypeOK
<1>2. count_read = Used(size, read_index, write_index) /\ count_read \in 0 .. size - 1
  BY <1>1, UsedType DEF count_read, Used
<1>3. count_write = size - 1 - count_read
  BY <1>1 DEF count_read, count_write
<1>4. \A i, k : Advanced(i, k) = Along(size, i, k)
  BY DEF Advanced, Along
<1>5. \A k \in 1 .. count_read : Advanced(read_index, k - 1) \in 0 .. size - 1
  <2>1. \A k \in 1 .. count_read : k - 1 \in 0 .. size - 1
    BY <1>1, <1>2
  <2> QED
    BY <1>1, <1>4, <2>1, UsedType
<1>6. Unread \in [1 .. count_read -> Item]
  BY <1>1, <1>5 DEF Unread
<1>7. count_read \in Nat
  BY <1>2
<1>8. Unread \in Seq(Item) /\ Len(Unread) = count_read
  BY <1>6, <1>7
<1> QED
  BY <1>1, <1>2, <1>3, <1>4, <1>6, <1>8

LEMMA WriteKeeps ==
  ASSUME FifoAssumption, FInv, NEW data_in \in Batches, write(data_in)
  PROVE  FInv' /\ Q!Write(data_in)
PROOF
<1> DEFINE n == Fewer(Len(data_in), count_write)
           m == count_read
           hits(i) == {k \in 1 .. n : Advanced(write_index, k - 1) = i}
<1>1. /\ buffer' = [i \in 0 .. size - 1 |-> IF hits(i) = {} THEN buffer[i]
                                            ELSE data_in[CHOOSE k \in hits(i) : TRUE]]
      /\ write_index' = Advanced(write_index, n)
      /\ size' = size /\ read_index' = read_index /\ data_out' = data_out
  BY DEF write
<1>2. /\ size \in Nat \ {0} /\ write_index \in 0 .. size - 1 /\ read_index \in 0 .. size - 1
      /\ m = Used(size, read_index, write_index) /\ m \in 0 .. size - 1
      /\ count_write = size - 1 - m
      /\ \A i, k : Advanced(i, k) = Along(size, i, k)
      /\ Unread \in [1 .. m -> Item] /\ Len(Unread) = m
  BY RingOfFifo
<1>3. data_in \in Seq(Item) /\ Len(data_in) \in Nat
  BY BatchType
<1>4. n \in 0 .. size - 1 - m /\ n <= Len(data_in)
  BY <1>2, <1>3 DEF Fewer
<1>15. Unread = [k \in 1 .. m |-> buffer[Advanced(read_index, k - 1)]]
  BY DEF Unread
<1> HIDE DEF n, m
<1>5. GoesTo(size, read_index, write_index, m, n)
  BY <1>2, <1>4, RingWrite
<1>14. /\ write_index' \in 0 .. size - 1 /\ Used(size, read_index, write_index') = m + n
       /\ \A j \in 1 .. n :
            /\ Advanced(write_index, j - 1) = Advanced(read_index, m + j - 1)
            /\ Advanced(write_index, j - 1) \in 0 .. size - 1
       /\ \A j \in 1 .. n, k \in 1 .. m :
            Advanced(write_index, j - 1) # Advanced(read_index, k - 1)
       /\ \A j \in 1 .. n, k \in 1 .. n :
            Advanced(write_index, j - 1) = Advanced(write_index, k - 1) => j = k
  BY <1>1, <1>2, <1>5 DEF GoesTo
<1>6. \A i \in 0 .. size - 1 : buffer'[i] = IF hits(i) = {} THEN buffer[i]
                                           ELSE data_in[CHOOSE k \in hits(i) : TRUE]
  BY <1>1
<1>7. \A j \in 1 .. n : buffer'[Advanced(write_index, j - 1)] = data_in[j]
  <2> TAKE j \in 1 .. n
  <2>1. hits(Advanced(write_index, j - 1)) = {j}
    BY <1>14
  <2> QED
    BY <1>14, <1>6, <2>1
<1>8. \A k \in 1 .. m : buffer'[Advanced(read_index, k - 1)]
                          = buffer[Advanced(read_index, k - 1)]
  <2> TAKE k \in 1 .. m
  <2>1. hits(Advanced(read_index, k - 1)) = {}
    BY <1>14
  <2>2. Advanced(read_index, k - 1) \in 0 .. size - 1
    <3>1. k - 1 \in 0 .. size - 1
      BY <1>2
    <3> QED
      BY <1>2, <3>1, UsedType
  <2> QED
    BY <1>6, <2>1, <2>2
<1>9. buffer' \in [0 .. size - 1 -> Item]
  <2>1. \A i \in 0 .. size - 1 : buffer'[i] \in Item
    <3> TAKE i \in 0 .. size - 1
    <3>1. CASE hits(i) = {}
      BY <1>6, <3>1 DEF FInv
    <3>2. CASE hits(i) # {}
      <4>1. (CHOOSE k \in hits(i) : TRUE) \in 1 .. n
        BY <3>2
      <4>2. (CHOOSE k \in hits(i) : TRUE) \in 1 .. Len(data_in)
        BY <1>2, <1>3, <1>4, <4>1
      <4> HIDE DEF hits
      <4> QED
        BY <1>3, <1>6, <3>2, <4>2
    <3> QED
      BY <3>1, <3>2
  <2>2. buffer' = [i \in 0 .. size - 1 |-> buffer'[i]]
    BY <1>1
  <2> QED
    BY <2>1, <2>2
<1>10. FInv'
  BY <1>1, <1>2, <1>14, <1>9 DEF FInv, FTypeOK
<1>11. count_read' = m + n
  <2>1. count_read' = Used(size, read_index, write_index')
    BY <1>1 DEF count_read, Used
  <2> QED
    BY <1>14, <2>1
<1>12. Unread' = Unread \o SubSeq(data_in, 1, n)
  <2>1. Unread' = [k \in 1 .. m + n |-> buffer'[Advanced(read_index, k - 1)]]
    BY <1>1, <1>11 DEF Unread, Advanced
  <2>2. \A k \in 1 .. m : Unread'[k] = Unread[k]
    <3> TAKE k \in 1 .. m
    <3>1. k \in 1 .. m + n
      BY <1>2, <1>4
    <3> QED
      BY <1>8, <1>15, <2>1, <3>1
  <2>3. \A k \in 1 .. n : Unread'[m + k] = data_in[k]
    <3> TAKE k \in 1 .. n
    <3>1. m + k \in 1 .. m + n
      BY <1>2, <1>4
    <3>2. Unread'[m + k] = buffer'[Advanced(read_index, m + k - 1)]
      <4>1. (m + k) - 1 = m + k - 1
        BY <1>2, <1>4
      <4>2. Unread'[m + k] = buffer'[Advanced(read_index, (m + k) - 1)]
        BY <2>1, <3>1
      <4> QED
        BY <4>1, <4>2
    <3>3. Advanced(write_index, k - 1) = Advanced(read_index, m + k - 1)
      BY <1>14
    <3> QED
      BY <1>7, <3>2, <3>3
  <2>4. Unread' \in [1 .. m + n -> Item]
    <3>1. \A k \in 1 .. m + n : Unread'[k] \in Item
      <4> TAKE k \in 1 .. m + n
      <4>1. CASE k <= m
        BY <1>2, <2>2, <4>1
      <4>2. CASE k > m
        <5>1. k - m \in 1 .. n /\ k = m + (k - m)
          BY <1>2, <1>4, <4>2
        <5>2. Unread'[m + (k - m)] = data_in[k - m]
          BY <2>3, <5>1
        <5>3. k - m \in 1 .. Len(data_in)
          BY <1>2, <1>3, <1>4, <5>1
        <5> QED
          BY <1>3, <5>1, <5>2, <5>3
      <4> QED
        BY <1>2, <1>4, <4>1, <4>2
    <3> QED
      BY <2>1, <3>1
  <2>5. m \in Nat /\ n \in Nat
    BY <1>2, <1>4
  <2>6. PICK f : f = Unread'
    OBVIOUS
  <2>7. PICK g : g = Unread
    OBVIOUS
  <2>8. Continues(Item, m, n, f, g, data_in)
    BY <1>2, <1>3, <1>4, <2>2, <2>3, <2>4, <2>6, <2>7 DEF Continues
  <2>9. f = g \o SubSeq(data_in, 1, n)
    BY <2>5, <2>8, Joined
  <2> QED
    BY <2>6, <2>7, <2>9
<1>13. Q!Least(Len(data_in), size - 1 - Len(Unread)) = n
  BY <1>2 DEF n, Fewer, Q!Least
<1> QED
  BY <1>1, <1>10, <1>12, <1>13 DEF Q!Write, Unread

LEMMA ReadKeeps ==
  ASSUME FifoAssumption, FInv, NEW data_out_size \in Requests, read(data_out_size)
  PROVE  FInv' /\ Q!Read(data_out_size)
PROOF
<1> DEFINE n == Fewer(data_out_size, count_read)
           m == count_read
<1>1. /\ data_out' = [k \in 1 .. n |-> buffer[Advanced(read_index, k - 1)]]
      /\ read_index' = Advanced(read_index, n)
      /\ size' = size /\ buffer' = buffer /\ write_index' = write_index
  BY DEF read
<1>2. /\ size \in Nat \ {0} /\ write_index \in 0 .. size - 1 /\ read_index \in 0 .. size - 1
      /\ m = Used(size, read_index, write_index) /\ m \in 0 .. size - 1
      /\ \A i, k : Advanced(i, k) = Along(size, i, k)
      /\ Unread \in [1 .. m -> Item] /\ Len(Unread) = m
  BY RingOfFifo
<1>3. n \in 0 .. m
  BY <1>2 DEF Fewer, FifoAssumption
<1>4. Unread = [k \in 1 .. m |-> buffer[Advanced(read_index, k - 1)]]
  BY DEF Unread
<1> HIDE DEF n, m
<1>5. GoesFrom(size, read_index, write_index, m, n)
  BY <1>2, <1>3, RingRead
<1>6. FInv'
  BY <1>1, <1>2, <1>5 DEF FInv, FTypeOK, GoesFrom
<1>7. count_read' = m - n
  <2>1. count_read' = Used(size, read_index', write_index)
    BY <1>1 DEF count_read, Used
  <2> QED
    BY <1>1, <1>2, <1>5, <2>1 DEF GoesFrom
<1>8. \A k \in 1 .. n : data_out'[k] = Unread[k]
  <2> TAKE k \in 1 .. n
  <2>1. k \in 1 .. m
    BY <1>2, <1>3
  <2> QED
    BY <1>1, <1>4, <2>1
<1>9. \A k \in 1 .. m - n : /\ Unread'[k] = Unread[n + k]
                            /\ Unread[n + k] \in Item
  <2> TAKE k \in 1 .. m - n
  <2>1. n + k \in 1 .. m /\ (n + k) - 1 = n + k - 1
    BY <1>2, <1>3
  <2>2. Unread'[k] = buffer[Advanced(Advanced(read_index, n), k - 1)]
    BY <1>1, <1>7 DEF Unread, Advanced
  <2>3. Advanced(Advanced(read_index, n), k - 1) = Advanced(read_index, n + k - 1)
    BY <1>2, <1>5 DEF GoesFrom
  <2>4. Unread[n + k] = buffer[Advanced(read_index, (n + k) - 1)]
    BY <1>4, <2>1
  <2> QED
    BY <1>2, <2>1, <2>2, <2>3, <2>4
<1>10. PICK f : f = Unread
  OBVIOUS
<1>11. PICK g : g = data_out'
  OBVIOUS
<1>12. PICK h : h = Unread'
  OBVIOUS
<1>13. Parts(Item, m, n, f, g, h)
  <2>1. h = [k \in 1 .. m - n |-> h[k]]
    BY <1>7, <1>12 DEF Unread
  <2>2. h \in [1 .. m - n -> Item]
    BY <1>9, <1>12, <2>1
  <2>3. \A k \in 1 .. n : k \in 1 .. m
    BY <1>2, <1>3
  <2>4. g \in [1 .. n -> Item]
    <3>1. g = [k \in 1 .. n |-> g[k]]
      BY <1>1, <1>11
    <3>2. \A k \in 1 .. n : g[k] \in Item
      BY <1>2, <1>8, <1>11, <2>3
    <3> QED
      BY <3>1, <3>2
  <2> QED
    BY <1>2, <1>8, <1>9, <1>10, <1>11, <1>12, <2>2, <2>4 DEF Parts
<1>14. g = SubSeq(f, 1, n) /\ h = SubSeq(f, n + 1, m)
  <2>1. m \in Nat
    BY <1>2
  <2> QED
    BY <1>3, <1>13, <2>1, Cut
<1>15. Q!Least(data_out_size, Len(Unread)) = n
  BY <1>2 DEF n, m, Fewer, Q!Least
<1> QED
  BY <1>1, <1>2, <1>6, <1>10, <1>11, <1>12, <1>14, <1>15 DEF Q!Read, Unread

LEMMA ResetKeeps ==
  ASSUME FifoAssumption, FInv, reset
  PROVE  FInv' /\ Q!Reset
PROOF
<1>1. size \in Nat \ {0} /\ size' = size /\ buffer' = buffer /\ data_out' = data_out
  BY RingOfFifo DEF reset
<1>2. write_index' = 0 /\ read_index' = 0
  BY DEF reset
<1>3. FInv'
  BY <1>1, <1>2 DEF FInv, FTypeOK
<1>4. count_read' = 0
  BY <1>2 DEF count_read
<1>5. Unread' = <<>>
  BY <1>4 DEF Unread
<1> QED
  BY <1>1, <1>3, <1>5 DEF Q!Reset, Unread

\* For any size, the ring is a queue of size - 1 items: whatever is written and read in
\* whatever amounts, items come out once and in order (fifo::write, fifo::read).
THEOREM QueueCorrect == FifoSpec => IsQueue
PROOF
<1> USE FifoAssumption
<1>1. FifoInit => FInv /\ Q!QueueInit
  <2> SUFFICES ASSUME FifoInit PROVE FInv /\ Q!QueueInit
    OBVIOUS
  <2>1. /\ size \in Nat \ {0} /\ size \in Sizes
        /\ buffer = [i \in 0 .. size - 1 |-> Blank]
        /\ write_index = 0 /\ read_index = 0 /\ data_out = <<>>
    BY DEF FifoInit, fifo, FifoAssumption
  <2>2. FInv
    BY <2>1 DEF FInv, FTypeOK, Item
  <2>3. count_read = 0
    BY <2>1 DEF count_read
  <2>4. Unread = <<>>
    BY <2>3 DEF Unread
  <2> QED
    BY <2>1, <2>2, <2>4 DEF Q!QueueInit, Unread
<1>2. FInv /\ [FifoNext]_fvars => FInv' /\ [Q!QueueNext]_<<size - 1, Unread, data_out>>
  <2> SUFFICES ASSUME FInv, [FifoNext]_fvars
               PROVE  FInv' /\ [Q!QueueNext]_<<size - 1, Unread, data_out>>
    OBVIOUS
  <2>1. CASE \E data_in \in Batches : write(data_in)
    BY <2>1, WriteKeeps DEF Q!QueueNext
  <2>2. CASE \E n \in Requests : read(n)
    BY <2>2, ReadKeeps DEF Q!QueueNext
  <2>3. CASE reset
    BY <2>3, ResetKeeps DEF Q!QueueNext
  <2>4. CASE UNCHANGED fvars
    BY <2>4 DEF fvars, FInv, FTypeOK, Unread, count_read, Advanced
  <2> QED
    BY <2>1, <2>2, <2>3, <2>4 DEF FifoNext
<1> QED
  BY <1>1, <1>2, PTL DEF FifoSpec, IsQueue, Q!QueueSpec, Unread
=============================================================================
