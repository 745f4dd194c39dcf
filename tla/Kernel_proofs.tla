--------------------------- MODULE Kernel_proofs ---------------------------
(***************************************************************************)
(* Proofs about the restricted kernel, its memory and processes            *)
(* (KernelMemory) and its descriptors (KernelDescriptors), and about the   *)
(* firmware that boots it (Stage0Memory).                                  *)
(*                                                                         *)
(* Memory, for any memory map, bitmap, programs and sequence of system     *)
(* calls: every step adds uses of frames that were available, each with a  *)
(* frame of its own, so the uses stay apart and are those of the allocated *)
(* frames.  That the allocator's n lowest frames are n frames is a fact    *)
(* about finite sets of numbers (NthExists).                               *)
(*                                                                         *)
(* Descriptors, for any sizes of the layers, the key, the event log and    *)
(* the buffers: the three states of a descriptor (layer 0, being written,  *)
(* readable) are related to what was accepted and returned.  The index is  *)
(* the number of bytes that went through it in this state, and the data    *)
(* before and after the index are what the state says.                     *)
(*                                                                         *)
(* Firmware, for any E820 table, kernel and RAM disk: a table is compared  *)
(* with another by the types it has for an address (Has), a map being a    *)
(* table whose entries follow one another.  The loops of insert_e820_entry *)
(* and ensure_e820_gap have invariants of their own (Absorbed,             *)
(* KeptOutside); with them each is a claim of AddressMap.  What is loaded  *)
(* stays apart because RAM is never claimed back: no RAM spans the gap     *)
(* below 1 MiB, and all RAM above it is accepted.                          *)
(***************************************************************************)
EXTENDS KernelMemory, KernelDescriptors, Stage0Memory, SequenceTheorems, FiniteSetTheorems,
        WellFoundedInduction, TLAPS

BootStages ==
    {"initial_pml4", "init_guest_host_heap", "init_kernel_heap", "allocate_stack",
     "load_application", "enable_syscalls", "start"}
Mappings == UNION {[P -> Nat] : P \in SUBSET Nat}

(* Uses with the frames they take; FramesApart is Apart(Uses, allocated).  *)
Apart(U, A) == (\A u, v \in U : u[3] = v[3] => u = v) /\ {u[3] : u \in U} = A

PoolUses(pl) == {<<"pool", 0, f>> : f \in {pl.frame} \cap Frames}
FrameUses(name, S) == {<<name, 0, f>> : f \in S}
SeqUses(name, s) == {<<name, i, s[i]>> : i \in DOMAIN s}
MapUses(pid, m) == {<<"user", <<pid, p>>, m[p]>> : p \in DOMAIN m}
UserUses(ps) == UNION {MapUses(pid, ps[pid]) : pid \in DOMAIN ps}

(* What the firmware's map allows to hand out, before and after the        *)
(* ramdisk is released.                                                    *)
RamFrames == (UNION {Inside(r) : r \in memory.ram}) \ (UNION {Touched(r) : r \in memory.image})
ValidOK ==
    /\ valid \subseteq RamFrames \cup Touched(memory.ramdisk)
    /\ stage \in BootStages \ {"enable_syscalls", "start"} =>
          valid \subseteq RamFrames \ Touched(memory.ramdisk)

KernelTyped ==
    /\ stage \in BootStages \cup {"running", "panicked"}
    /\ valid \subseteq Frames /\ allocated \subseteq valid
    /\ pool \in [frame : Nat, used : Nat]
    /\ heap \in Seq(Nat) /\ stacks \in Seq(Nat)
    /\ processes \in Seq(Mappings)

(* The inductive invariant.                                                *)
KernelInv ==
    /\ KernelTyped /\ ValidOK
    /\ stage = "initial_pml4" => pool.frame = BitmapLen
    /\ stage \in {"initial_pml4", "init_guest_host_heap"} => shared = {}
    /\ stage \in BootStages => processes = << >>
    /\ stage = "running" => current_pid \in DOMAIN processes
    /\ FramesApart
    /\ SwitchTargetsSaved

-----------------------------------------------------------------------------
(* A set of numbers has a least one, and Min finds it.                     *)
LEMMA LeastNumber ==
    ASSUME NEW S \in SUBSET Nat, S # {}
    PROVE  \E m \in S : \A k \in S : m <= k
<1>1. \E x \in S : \A y \in S : ~(<<y, x>> \in OpToRel(<, Nat))
  BY NatLessThanWellFounded, WFMin
<1>2. PICK x \in S : \A y \in S : ~(<<y, x>> \in OpToRel(<, Nat))
  BY <1>1
<1>3. ASSUME NEW y \in S PROVE x <= y
  <2>1. ~(y < x)
    BY <1>2 DEF OpToRel
  <2>. QED  BY <2>1
<1>. QED  BY <1>3

(* What Min of a set of naturals is.                                       *)
LEMMA MinIsLeast ==
    ASSUME NEW S \in SUBSET Nat, S # {}
    PROVE  Min(S) \in S /\ \A k \in S : Min(S) <= k
  BY LeastNumber DEF Min

(* The i-th of a finite set of numbers.                                    *)
LEMMA NthExists ==
    ASSUME NEW S \in SUBSET Nat, NEW bound \in Nat, \A g \in S : g <= bound,
           NEW i \in 1..Cardinality(S)
    PROVE  \E f \in S : Cardinality({g \in S : g < f}) = i - 1
<1>. DEFINE UpTo(x) == {g \in S : g <= x}
            Below(x) == {g \in S : g < x}
            Enough == {x \in Nat : Cardinality(UpTo(x)) >= i}
<1>1. IsFiniteSet(S) /\ Cardinality(S) \in Nat
  BY FS_BoundedSetOfNaturals, FS_CardinalityType
<1>2. \A x \in Nat : /\ IsFiniteSet(UpTo(x)) /\ Cardinality(UpTo(x)) \in Nat
                     /\ IsFiniteSet(Below(x)) /\ Cardinality(Below(x)) \in Nat
  <2>1. \A x : UpTo(x) \in SUBSET S /\ Below(x) \in SUBSET S
    OBVIOUS
  <2>. HIDE DEF UpTo, Below
  <2>. QED  BY <1>1, <2>1, FS_Subset, FS_CardinalityType
<1>3. bound \in Enough
  <2>1. UpTo(bound) = S
    OBVIOUS
  <2>. QED  BY <1>1, <2>1
<1>4. \E x \in Enough : \A y \in Enough : x <= y
  <2>1. Enough \in SUBSET Nat /\ Enough # {}
    BY <1>3
  <2>. HIDE DEF Enough
  <2>. QED  BY <2>1, LeastNumber
<1>5. PICK x \in Nat : /\ Cardinality(UpTo(x)) >= i
                       /\ \A y \in Nat : Cardinality(UpTo(y)) >= i => x <= y
  BY <1>4
<1>6. Cardinality(Below(x)) < i
  <2>1. CASE x = 0
    <3>1. \A g \in Nat : ~(g < x)
      BY <2>1
    <3>2. Below(x) = {}
      BY <3>1
    <3>. QED  BY <3>2, FS_EmptySet
  <2>2. CASE x # 0
    <3>1. x - 1 \in Nat /\ ~(x <= x - 1) /\ \A g \in Nat : g < x <=> g <= x - 1
      BY <2>2
    <3>2. Below(x) = UpTo(x - 1)
      BY <3>1
    <3>. HIDE DEF UpTo, Below
    <3>. QED  BY <1>2, <1>5, <3>1, <3>2
  <2>. QED  BY <2>1, <2>2
<1>7. x \in S
  <2>1. SUFFICES ASSUME x \notin S PROVE FALSE
    OBVIOUS
  <2>2. \A g \in S : g <= x <=> g < x
    BY <2>1
  <2>3. UpTo(x) = Below(x)
    BY <2>2
  <2>. HIDE DEF UpTo, Below
  <2>. QED  BY <1>2, <1>5, <1>6, <2>3
<1>8. Cardinality(UpTo(x)) = Cardinality(Below(x)) + 1
  <2>1. ~(x < x) /\ x <= x /\ \A g \in S : g <= x <=> g < x \/ g = x
    OBVIOUS
  <2>2. UpTo(x) = Below(x) \cup {x} /\ x \notin Below(x)
    BY <1>7, <2>1
  <2>. HIDE DEF UpTo, Below
  <2>. QED  BY <1>2, <2>2, FS_AddElement
<1>9. Cardinality(Below(x)) = i - 1
  <2>. HIDE DEF UpTo, Below
  <2>. QED  BY <1>2, <1>5, <1>6, <1>8
<1>. QED  BY <1>7, <1>9

(* Frames are finitely many.                                               *)
LEMMA AvailableIsFinite ==
    ASSUME Available \subseteq Frames
    PROVE  IsFiniteSet(Available) /\ Cardinality(Available) \in Nat
<1>1. BitmapLen - 1 \in Int
  BY KernelAssumption
<1>2. IsFiniteSet(Frames)
  BY <1>1, FS_Interval DEF Frames
<1>. QED  BY <1>2, FS_Subset, FS_CardinalityType

(* The allocator's lowest frames are available and not two are the same.   *)
LEMMA LowestFrames ==
    ASSUME Available \subseteq Frames, NEW n \in Nat, n <= Cardinality(Available)
    PROVE  /\ DOMAIN Lowest(n) = 1..n
           /\ \A i \in 1..n : Lowest(n)[i] \in Available
           /\ \A i, j \in 1..n : Lowest(n)[i] = Lowest(n)[j] => i = j
<1>. DEFINE Rank(f) == Cardinality({g \in Available : g < f})
<1>1. IsFiniteSet(Available) /\ Cardinality(Available) \in Nat
  BY AvailableIsFinite
<1>2. ASSUME NEW i \in 1..n
      PROVE  Lowest(n)[i] \in Available /\ Rank(Lowest(n)[i]) = i - 1
  <2>1. i \in 1..Cardinality(Available)
    BY <1>1
  <2>2. Available \in SUBSET Nat /\ BitmapLen \in Nat /\ \A g \in Available : g <= BitmapLen
    BY KernelAssumption DEF Frames
  <2>3. \E f \in Available : Rank(f) = i - 1
    BY <2>1, <2>2, NthExists
  <2>4. Lowest(n)[i] = CHOOSE f \in Available : Rank(f) = i - 1
    BY DEF Lowest, Nth
  <2>. QED  BY <2>3, <2>4
<1>3. ASSUME NEW i \in 1..n, NEW j \in 1..n, Lowest(n)[i] = Lowest(n)[j] PROVE i = j
  <2>1. i - 1 = j - 1
    BY <1>2, <1>3
  <2>. QED  BY <2>1
<1>. QED  BY <1>2, <1>3 DEF Lowest

-----------------------------------------------------------------------------
(* Who uses a frame, part by part, before and after a step.                *)
LEMMA UsesParts ==
    /\ Uses = PoolUses(pool) \cup FrameUses("shared", shared) \cup FrameUses("lost", lost)
                \cup SeqUses("heap", heap) \cup SeqUses("stack", stacks) \cup UserUses(processes)
    /\ Uses' = PoolUses(pool') \cup FrameUses("shared", shared') \cup FrameUses("lost", lost')
                \cup SeqUses("heap", heap') \cup SeqUses("stack", stacks')
                \cup UserUses(processes')
  BY DEF Uses, PoolUses, FrameUses, SeqUses, UserUses, MapUses

(* New uses of frames that were not in use stay apart from the others.     *)
LEMMA ApartUnion ==
    ASSUME NEW U, NEW A, NEW W, NEW B, Apart(U, A), Apart(W, B), A \cap B = {}
    PROVE  Apart(U \cup W, A \cup B)
<1>1. (\A u \in U : u[3] \in A) /\ (\A w \in W : w[3] \in B)
  BY DEF Apart
<1>2. \A u, v \in U \cup W : u[3] = v[3] => u = v
  BY <1>1 DEF Apart
<1>3. {u[3] : u \in U \cup W} = A \cup B
  BY DEF Apart
<1>. QED  BY <1>2, <1>3 DEF Apart

(* Frames that were free may be put to new uses.                           *)
LEMMA ApartMore ==
    ASSUME FramesApart, NEW W, NEW B, Apart(W, B), B \cap allocated = {},
           Uses' = Uses \cup W, allocated' = allocated \cup B
    PROVE  FramesApart'
<1>1. Apart(Uses, allocated)
  BY DEF FramesApart, Apart
<1>2. Apart(Uses \cup W, allocated \cup B)
  BY <1>1, ApartUnion
<1>. QED  BY <1>2 DEF FramesApart, Apart

(* One use of one frame.                                                   *)
LEMMA ApartOne == ASSUME NEW name, NEW x, NEW f PROVE Apart({<<name, x, f>>}, {f})
  BY DEF Apart

(* One use of each of some frames.                                         *)
LEMMA ApartFrames == ASSUME NEW name, NEW S PROVE Apart(FrameUses(name, S), S)
<1>1. \A u \in FrameUses(name, S) : u = <<name, 0, u[3]>> /\ u[3] \in S
  BY DEF FrameUses
<1>2. \A f \in S : <<name, 0, f>> \in FrameUses(name, S) /\ <<name, 0, f>>[3] = f
  BY DEF FrameUses
<1>. HIDE DEF FrameUses
<1>3. {u[3] : u \in FrameUses(name, S)} = S
  <2>1. \A f \in S : \E u \in FrameUses(name, S) : f = u[3]
    BY <1>2
  <2>. QED  BY <1>1, <2>1
<1>4. ASSUME NEW u \in FrameUses(name, S), NEW v \in FrameUses(name, S), u[3] = v[3] PROVE u = v
  BY <1>1, <1>4, Zenon
<1>. QED  BY <1>3, <1>4 DEF Apart

(* Page tables take from the pool what is left of its frame.               *)
LEMMA PoolTaken ==
    ASSUME KernelTyped, NEW tables \in TableCounts,
           \/ pool' = [pool EXCEPT !.used = @ + tables]
           \/ pool' = [pool EXCEPT !.used = PoolSize]
    PROVE  pool' \in [frame : Nat, used : Nat] /\ pool'.frame = pool.frame
                /\ PoolUses(pool') = PoolUses(pool)
<1>1. pool \in [frame : Nat, used : Nat] /\ tables \in Nat
  BY KernelAssumption DEF KernelTyped
<1>2. pool.used + tables \in Nat /\ PoolSize \in Nat
  BY <1>1, KernelAssumption
<1>3. PICK k \in Nat : pool' = [pool EXCEPT !.used = k]
  BY <1>1, <1>2
<1>4. pool' \in [frame : Nat, used : Nat] /\ pool'.frame = pool.frame
  BY <1>1, <1>3
<1>. QED  BY <1>4 DEF PoolUses

(* A frame more in a sequence is a use more.                               *)
LEMMA SeqUsesAppend ==
    ASSUME NEW name, NEW s \in Seq(Nat), NEW f \in Nat
    PROVE  SeqUses(name, Append(s, f)) = SeqUses(name, s) \cup {<<name, Len(s) + 1, f>>}
<1>. DEFINE t == Append(s, f)
<1>1. /\ DOMAIN t = 1..(Len(s) + 1) /\ Len(s) \in Nat /\ DOMAIN s = 1..Len(s)
      /\ \A i \in 1..Len(s) : t[i] = s[i]
      /\ t[Len(s) + 1] = f
  BY AppendProperties
<1>. HIDE DEF t
<1>2. DOMAIN t = DOMAIN s \cup {Len(s) + 1}
  BY <1>1
<1>. QED  BY <1>1, <1>2 DEF SeqUses, t

(* A frame that the allocator hands out is one nobody uses.                *)
LEMMA FirstFree ==
    ASSUME KernelTyped, Available # {}
    PROVE  /\ Min(Available) \in Available /\ Min(Available) \in Nat
           /\ {Min(Available)} \cap allocated = {} /\ Min(Available) \in valid
<1>1. Available \in SUBSET Nat
  BY KernelAssumption DEF KernelTyped, Available, Frames
<1>2. Min(Available) \in Available
  BY <1>1, MinIsLeast
<1>. QED  BY <1>1, <1>2 DEF Available

(* The step of a machine that panics.                                      *)
LEMMA PanickedKeeps ==
    ASSUME KernelInv, Panicked
    PROVE  KernelInv'
<1>1. UNCHANGED <<memory, valid, allocated, pool, shared, heap, stacks, lost, processes,
                  current_pid, saved>> /\ stage' = "panicked"
  BY DEF Panicked
<1>2. FramesApart' /\ SwitchTargetsSaved'
  <2>1. Uses' = Uses
    BY <1>1, UsesParts DEF Uses
  <2>. QED  BY <1>1, <2>1 DEF KernelInv, FramesApart, SwitchTargetsSaved
<1>3. ValidOK'
  BY <1>1 DEF KernelInv, ValidOK, RamFrames, BootStages
<1>. QED  BY <1>1, <1>2, <1>3 DEF KernelInv, KernelTyped, BootStages

(* The boot stages and the growth of the heap: each takes what is free.    *)
LEMMA InitialPml4Keeps ==
    ASSUME KernelInv, InitialPml4
    PROVE  KernelInv'
<1>1. CASE Panicked
  BY <1>1, PanickedKeeps
<1>2. CASE ~Panicked
  <2>. DEFINE m == Min(Available)
  <2>1. /\ Available # {} /\ stage = "initial_pml4" /\ stage' = "init_guest_host_heap"
        /\ pool' = [frame |-> m, used |-> InitialTables] /\ allocated' = allocated \cup {m}
        /\ UNCHANGED <<memory, valid, shared, heap, stacks, lost, processes, current_pid, saved>>
    BY <1>2 DEF InitialPml4
  <2>2. m \in Nat /\ {m} \cap allocated = {} /\ m \in valid /\ m \in Frames
    BY <2>1, FirstFree DEF KernelInv, KernelTyped
  <2>. HIDE DEF m
  <2>3. PoolUses(pool) = {} /\ PoolUses(pool') = {<<"pool", 0, m>>}
    <3>1. pool.frame \notin Frames
      BY <2>1, KernelAssumption DEF KernelInv, Frames
    <3>. QED  BY <2>1, <2>2, <3>1 DEF PoolUses
  <2>4. Uses' = Uses \cup {<<"pool", 0, m>>}
    BY <2>1, <2>3, UsesParts
  <2>5. FramesApart'
    BY <2>1, <2>2, <2>4, ApartOne, ApartMore DEF KernelInv
  <2>6. KernelTyped'
    BY <2>1, <2>2, KernelAssumption DEF KernelInv, KernelTyped, BootStages
  <2>7. ValidOK' /\ SwitchTargetsSaved'
    BY <2>1 DEF KernelInv, ValidOK, RamFrames, BootStages, SwitchTargetsSaved
  <2>. QED  BY <2>1, <2>5, <2>6, <2>7 DEF KernelInv, BootStages
<1>. QED  BY <1>1, <1>2

(* Each action keeps the invariant: the heap shared with the host,         *)
LEMMA InitGuestHostHeapKeeps ==
    ASSUME KernelInv, InitGuestHostHeap
    PROVE  KernelInv'
<1>1. CASE Panicked
  BY <1>1, PanickedKeeps
<1>2. CASE ~Panicked
  <2>. DEFINE windows == {f \in Frames : {f, f + 1} \subseteq Available}
              m == Min(windows)
  <2>1. /\ windows # {} /\ stage = "init_guest_host_heap" /\ stage' = "init_kernel_heap"
        /\ shared' = {m, m + 1} /\ allocated' = allocated \cup shared'
        /\ UNCHANGED <<memory, valid, pool, heap, stacks, lost, processes, current_pid, saved>>
    BY <1>2 DEF InitGuestHostHeap
  <2>2. m \in windows
    <3>1. windows \in SUBSET Nat
      BY KernelAssumption DEF Frames
    <3>. HIDE DEF windows
    <3>. QED  BY <2>1, <3>1, MinIsLeast
  <2>3. {m, m + 1} \cap allocated = {} /\ {m, m + 1} \subseteq valid
    BY <2>2 DEF Available
  <2>. HIDE DEF m, windows
  <2>4. Apart(FrameUses("shared", {m, m + 1}), {m, m + 1})
    BY ApartFrames
  <2>5. FramesApart'
    <3>1. shared = {}
      BY <2>1 DEF KernelInv
    <3>2. FrameUses("shared", shared) = {}
      BY <3>1 DEF FrameUses
    <3>3. Uses' = Uses \cup FrameUses("shared", {m, m + 1})
      BY <2>1, <3>2, UsesParts
    <3>. QED  BY <2>1, <2>3, <2>4, <3>3, ApartMore DEF KernelInv
  <2>6. KernelTyped'
    BY <2>1, <2>3 DEF KernelInv, KernelTyped, BootStages
  <2>7. ValidOK' /\ SwitchTargetsSaved'
    BY <2>1 DEF KernelInv, ValidOK, RamFrames, BootStages, SwitchTargetsSaved
  <2>. QED  BY <2>1, <2>5, <2>6, <2>7 DEF KernelInv, BootStages
<1>. QED  BY <1>1, <1>2

(* the heap of the kernel growing,                                         *)
LEMMA ExtendHeapKeeps ==
    ASSUME KernelInv, ExtendHeap
    PROVE  KernelInv'
<1>1. CASE Panicked
  BY <1>1, PanickedKeeps
<1>2. CASE ~Panicked
  <2>. DEFINE m == Min(Available)
  <2>1. PICK tables \in TableCounts :
           /\ Available # {}
           /\ stage \in {"init_kernel_heap", "allocate_stack", "load_application",
                         "enable_syscalls", "start", "running"}
           /\ stage' = IF stage = "init_kernel_heap" THEN "allocate_stack" ELSE stage
           /\ heap' = Append(heap, m) /\ allocated' = allocated \cup {m}
           /\ pool' = [pool EXCEPT !.used = @ + tables]
           /\ UNCHANGED <<memory, valid, shared, stacks, lost, processes, current_pid, saved>>
    BY <1>2 DEF ExtendHeap
  <2>2. m \in Nat /\ {m} \cap allocated = {} /\ m \in valid /\ m \in Frames
    BY <2>1, FirstFree DEF KernelInv, KernelTyped
  <2>. HIDE DEF m
  <2>3. heap \in Seq(Nat) /\ heap' \in Seq(Nat)
    BY <2>1, <2>2, AppendProperties DEF KernelInv, KernelTyped
  <2>4. SeqUses("heap", heap') = SeqUses("heap", heap) \cup {<<"heap", Len(heap) + 1, m>>}
    BY <2>1, <2>2, <2>3, SeqUsesAppend
  <2>5. pool' \in [frame : Nat, used : Nat] /\ PoolUses(pool') = PoolUses(pool)
    BY <2>1, PoolTaken DEF KernelInv
  <2>6. Uses' = Uses \cup {<<"heap", Len(heap) + 1, m>>}
    BY <2>1, <2>4, <2>5, UsesParts
  <2>7. FramesApart'
    BY <2>1, <2>2, <2>6, ApartOne, ApartMore DEF KernelInv
  <2>8. KernelTyped'
    BY <2>1, <2>2, <2>3, <2>5 DEF KernelInv, KernelTyped, BootStages
  <2>9. ValidOK' /\ SwitchTargetsSaved'
    BY <2>1 DEF KernelInv, ValidOK, RamFrames, BootStages, SwitchTargetsSaved
  <2>. QED  BY <2>1, <2>7, <2>8, <2>9 DEF KernelInv, BootStages
<1>. QED  BY <1>1, <1>2

(* the stack of a process,                                                 *)
LEMMA AllocateStackKeeps ==
    ASSUME KernelInv, AllocateStack
    PROVE  KernelInv'
<1>1. CASE Panicked
  BY <1>1, PanickedKeeps
<1>2. CASE ~Panicked
  <2>. DEFINE m == Min(Available)
  <2>1. PICK tables \in TableCounts :
           /\ Available # {} /\ stage \in {"allocate_stack", "enable_syscalls"}
           /\ stage' = IF stage = "enable_syscalls" THEN "start"
                       ELSE IF Len(stacks) = 0 THEN stage ELSE "load_application"
           /\ stacks' = Append(stacks, m) /\ allocated' = allocated \cup {m}
           /\ pool' = [pool EXCEPT !.used = @ + tables]
           /\ UNCHANGED <<memory, valid, shared, heap, lost, processes, current_pid, saved>>
    BY <1>2 DEF AllocateStack
  <2>2. m \in Nat /\ {m} \cap allocated = {} /\ m \in valid /\ m \in Frames
    BY <2>1, FirstFree DEF KernelInv, KernelTyped
  <2>. HIDE DEF m
  <2>3. stacks \in Seq(Nat) /\ stacks' \in Seq(Nat)
    BY <2>1, <2>2, AppendProperties DEF KernelInv, KernelTyped
  <2>4. SeqUses("stack", stacks') = SeqUses("stack", stacks) \cup {<<"stack", Len(stacks) + 1, m>>}
    BY <2>1, <2>2, <2>3, SeqUsesAppend
  <2>5. pool' \in [frame : Nat, used : Nat] /\ PoolUses(pool') = PoolUses(pool)
    BY <2>1, PoolTaken DEF KernelInv
  <2>6. Uses' = Uses \cup {<<"stack", Len(stacks) + 1, m>>}
    BY <2>1, <2>4, <2>5, UsesParts
  <2>7. FramesApart'
    BY <2>1, <2>2, <2>6, ApartOne, ApartMore DEF KernelInv
  <2>8. KernelTyped'
    BY <2>1, <2>2, <2>3, <2>5 DEF KernelInv, KernelTyped, BootStages
  <2>9. ValidOK' /\ SwitchTargetsSaved'
    BY <2>1 DEF KernelInv, ValidOK, RamFrames, BootStages, SwitchTargetsSaved
  <2>. QED  BY <2>1, <2>7, <2>8, <2>9 DEF KernelInv, BootStages
<1>. QED  BY <1>1, <1>2

(* the application being read,                                             *)
LEMMA LoadApplicationKeeps ==
    ASSUME KernelInv, LoadApplication
    PROVE  KernelInv'
<1>1. /\ stage = "load_application" /\ stage' = "enable_syscalls"
      /\ valid' = valid \cup Touched(memory.ramdisk)
      /\ UNCHANGED <<memory, allocated, pool, shared, heap, stacks, lost, processes,
                     current_pid, saved>>
  BY DEF LoadApplication
<1>2. FramesApart' /\ SwitchTargetsSaved'
  <2>1. Uses' = Uses
    BY <1>1 DEF Uses
  <2>. QED  BY <1>1, <2>1 DEF KernelInv, FramesApart, SwitchTargetsSaved
<1>3. KernelTyped'
  BY <1>1 DEF KernelInv, KernelTyped, BootStages, Touched
<1>4. ValidOK'
  BY <1>1 DEF KernelInv, ValidOK, RamFrames, BootStages
<1>. QED  BY <1>1, <1>2, <1>3, <1>4 DEF KernelInv, BootStages

(* and a switch to another process.                                        *)
LEMMA SwitchProcessKeeps ==
    ASSUME KernelInv, NEW pid, SwitchProcess(pid)
    PROVE  KernelInv'
<1>1. /\ stage = "running" /\ saved' = saved \cup {current_pid}
      /\ current_pid' = IF pid \in DOMAIN processes THEN pid ELSE current_pid
      /\ UNCHANGED <<memory, stage, valid, allocated, pool, shared, heap, stacks, lost, processes>>
  BY DEF SwitchProcess
<1>2. FramesApart' /\ SwitchTargetsSaved'
  <2>1. Uses' = Uses
    BY <1>1 DEF Uses
  <2>. QED  BY <1>1, <2>1 DEF KernelInv, FramesApart, SwitchTargetsSaved
<1>3. KernelTyped' /\ ValidOK'
  BY <1>1 DEF KernelInv, KernelTyped, ValidOK, RamFrames
<1>. QED  BY <1>1, <1>2, <1>3 DEF KernelInv

-----------------------------------------------------------------------------
(* Mappings: a new process, and more pages of one.                         *)
LEMMA UserUsesAppend ==
    ASSUME NEW ps \in Seq(Mappings), NEW m \in Mappings
    PROVE  /\ UserUses(Append(ps, m)) = UserUses(ps) \cup MapUses(Len(ps) + 1, m)
           /\ Append(ps, m) \in Seq(Mappings) /\ DOMAIN Append(ps, m) = DOMAIN ps \cup {Len(ps) + 1}
           /\ Len(ps) \in Nat /\ Len(ps) + 1 \notin DOMAIN ps
           /\ \A pid \in DOMAIN ps : Append(ps, m)[pid] = ps[pid]
<1>. DEFINE qs == Append(ps, m)
            n == Len(ps) + 1
<1>. HIDE DEF Mappings
<1>1. /\ qs \in Seq(Mappings) /\ DOMAIN qs = 1..n /\ Len(ps) \in Nat /\ DOMAIN ps = 1..Len(ps)
      /\ \A i \in 1..Len(ps) : qs[i] = ps[i]
      /\ qs[n] = m
  BY AppendProperties
<1>. HIDE DEF qs
<1>2. DOMAIN qs = DOMAIN ps \cup {n} /\ n \notin DOMAIN ps
  BY <1>1
<1>. HIDE DEF n
<1>3. UserUses(qs) = UserUses(ps) \cup MapUses(n, m)
  <2>. HIDE DEF MapUses
  <2>. QED  BY <1>1, <1>2 DEF UserUses
<1>. QED  BY <1>1, <1>2, <1>3 DEF qs, n

(* Pages more in one process are uses more.                                *)
LEMMA UserUsesExcept ==
    ASSUME NEW ps \in Seq(Mappings), NEW pid \in DOMAIN ps, NEW m \in Mappings, NEW W,
           MapUses(pid, m) = MapUses(pid, ps[pid]) \cup W
    PROVE  LET qs == [ps EXCEPT ![pid] = m]
           IN  /\ UserUses(qs) = UserUses(ps) \cup W
               /\ qs \in Seq(Mappings) /\ DOMAIN qs = DOMAIN ps
               /\ qs[pid] = m /\ \A q \in DOMAIN ps : q # pid => qs[q] = ps[q]
<1>. DEFINE qs == [ps EXCEPT ![pid] = m]
<1>. HIDE DEF Mappings
<1>1. DOMAIN ps = 1..Len(ps)
  OBVIOUS
<1>2. qs \in Seq(Mappings) /\ qs[pid] = m /\ \A q \in DOMAIN ps : q # pid => qs[q] = ps[q]
  BY <1>1, ExceptSeq
<1>3. DOMAIN qs = DOMAIN ps
  OBVIOUS
<1>. HIDE DEF qs, MapUses
<1>4. UserUses(qs) = UserUses(ps) \cup W
  <2>1. ASSUME NEW u \in UserUses(qs) PROVE u \in UserUses(ps) \cup W
    <3>1. PICK q \in DOMAIN ps : u \in MapUses(q, qs[q])
      BY <1>3, <2>1 DEF UserUses
    <3>2. CASE q = pid
      BY <1>2, <3>1, <3>2 DEF UserUses
    <3>3. CASE q # pid
      BY <1>2, <3>1, <3>3 DEF UserUses
    <3>. QED  BY <3>2, <3>3
  <2>2. ASSUME NEW u \in UserUses(ps) PROVE u \in UserUses(qs)
    <3>1. PICK q \in DOMAIN ps : u \in MapUses(q, ps[q])
      BY <2>2 DEF UserUses
    <3>2. u \in MapUses(q, qs[q])
      BY <1>2, <3>1
    <3>. QED  BY <1>3, <3>2 DEF UserUses
  <2>3. ASSUME NEW u \in W PROVE u \in UserUses(qs)
    <3>1. u \in MapUses(pid, qs[pid])
      BY <1>2, <2>3
    <3>. QED  BY <1>3, <3>1 DEF UserUses
  <2>. QED  BY <2>1, <2>2, <2>3
<1>. QED  BY <1>2, <1>3, <1>4 DEF qs

(* Pages with frames of their own.                                         *)
LEMMA ApartMap ==
    ASSUME NEW pid, NEW m, \A p, q \in DOMAIN m : m[p] = m[q] => p = q
    PROVE  Apart(MapUses(pid, m), {m[p] : p \in DOMAIN m})
<1>1. \A u \in MapUses(pid, m) : \E p \in DOMAIN m : u = <<"user", <<pid, p>>, m[p]>> /\ u[3] = m[p]
  BY DEF MapUses
<1>2. \A p \in DOMAIN m : \E u \in MapUses(pid, m) : u[3] = m[p]
  <2>1. ASSUME NEW p \in DOMAIN m PROVE <<"user", <<pid, p>>, m[p]>> \in MapUses(pid, m)
    BY DEF MapUses
  <2>2. \A p \in DOMAIN m : <<"user", <<pid, p>>, m[p]>>[3] = m[p]
    OBVIOUS
  <2>. QED  BY <2>1, <2>2
<1>3. ASSUME NEW u \in MapUses(pid, m), NEW v \in MapUses(pid, m), u[3] = v[3] PROVE u = v
  BY <1>1, <1>3
<1>4. {u[3] : u \in MapUses(pid, m)} = {m[p] : p \in DOMAIN m}
  BY <1>1, <1>2
<1>. QED  BY <1>3, <1>4 DEF Apart

(* The frames that n requests get.                                         *)
LEMMA TakenFrames ==
    ASSUME KernelTyped, NEW n \in Nat, n <= Cardinality(Available)
    PROVE  /\ DOMAIN Lowest(n) = 1..n
           /\ \A i \in 1..n : Lowest(n)[i] \in Nat
           /\ \A i, j \in 1..n : Lowest(n)[i] = Lowest(n)[j] => i = j
           /\ ToSet(Lowest(n)) = {Lowest(n)[i] : i \in 1..n}
           /\ ToSet(Lowest(n)) \subseteq valid /\ ToSet(Lowest(n)) \cap allocated = {}
<1>1. Available \subseteq Frames
  BY DEF KernelTyped, Available
<1>2. /\ DOMAIN Lowest(n) = 1..n
      /\ \A i \in 1..n : Lowest(n)[i] \in Available
      /\ \A i, j \in 1..n : Lowest(n)[i] = Lowest(n)[j] => i = j
  BY <1>1, LowestFrames
<1>3. Available \subseteq Nat
  BY <1>1, KernelAssumption DEF Frames
<1>4. ToSet(Lowest(n)) = {Lowest(n)[i] : i \in 1..n}
  BY <1>2 DEF ToSet
<1>. QED  BY <1>2, <1>3, <1>4 DEF Available

(* Process::from_elf_executeable: the i-th page gets the i-th frame.       *)
LEMMA NewMapping ==
    ASSUME KernelTyped, NEW pages \in Seq(Nat), IsInjective(pages),
           Len(pages) <= Cardinality(Available)
    PROVE  LET frames == Lowest(Len(pages))
               m == [p \in ToSet(pages) |-> frames[CHOOSE i \in DOMAIN pages : pages[i] = p]]
           IN  /\ m \in Mappings
               /\ \A p, q \in DOMAIN m : m[p] = m[q] => p = q
               /\ {m[p] : p \in DOMAIN m} = ToSet(frames)
<1>. DEFINE n == Len(pages)
            frames == Lowest(n)
            Index(p) == CHOOSE i \in DOMAIN pages : pages[i] = p
            m == [p \in ToSet(pages) |-> frames[Index(p)]]
<1>1. n \in Nat /\ DOMAIN pages = 1..n /\ \A i \in 1..n : pages[i] \in Nat
  OBVIOUS
<1>2. /\ \A i \in 1..n : frames[i] \in Nat
      /\ \A i, j \in 1..n : frames[i] = frames[j] => i = j
      /\ ToSet(frames) = {frames[i] : i \in 1..n}
  BY <1>1, TakenFrames
<1>. HIDE DEF n, frames
<1>3. \A p \in ToSet(pages) : Index(p) \in 1..n /\ pages[Index(p)] = p /\ p \in Nat
  BY <1>1 DEF ToSet
<1>4. \A i \in 1..n : pages[i] \in ToSet(pages) /\ Index(pages[i]) = i
  BY <1>1 DEF ToSet, IsInjective
<1>. HIDE DEF Index
<1>5. m \in [ToSet(pages) -> Nat] /\ ToSet(pages) \in SUBSET Nat
  BY <1>2, <1>3
<1>6. m \in Mappings
  BY <1>5 DEF Mappings
<1>7. \A p, q \in DOMAIN m : m[p] = m[q] => p = q
  BY <1>2, <1>3
<1>8. {m[p] : p \in DOMAIN m} = ToSet(frames)
  <2>1. ASSUME NEW p \in DOMAIN m PROVE m[p] \in ToSet(frames)
    BY <1>2, <1>3
  <2>2. ASSUME NEW i \in 1..n PROVE \E p \in DOMAIN m : m[p] = frames[i]
    BY <1>4
  <2>. QED  BY <1>2, <2>1, <2>2
<1>. QED  BY <1>6, <1>7, <1>8 DEF n, frames, Index

(* A process is made with its segments mapped.                             *)
LEMMA CreateProcessKeeps ==
    ASSUME KernelInv, NEW program \in Programs, CreateProcess(program)
    PROVE  KernelInv'
<1>1. CASE Panicked
  BY <1>1, PanickedKeeps
<1>2. CASE ~Panicked
  <2>. DEFINE pages == Layout(program)
              frames == Lowest(Len(pages))
              m == [p \in ToSet(pages) |-> frames[CHOOSE i \in DOMAIN pages : pages[i] = p]]
  <2>1. PICK tables \in TableCounts :
           /\ stage \in {"start", "running"}
           /\ IsInjective(pages) /\ Len(pages) <= Cardinality(Available)
           /\ allocated' = allocated \cup ToSet(frames)
           /\ pool' = [pool EXCEPT !.used = @ + tables]
           /\ saved' = IF stage = "running" THEN saved \cup {current_pid} ELSE saved
           /\ UNCHANGED <<memory, valid, shared, heap, stacks>>
           /\ IF Len(processes) < MAX_PROCESSES
              THEN /\ processes' = Append(processes, m)
                   /\ current_pid' = Len(processes) + 1
                   /\ stage' = "running"
                   /\ UNCHANGED lost
              ELSE /\ lost' = lost \cup ToSet(frames)
                   /\ UNCHANGED <<processes, current_pid, stage>>
    BY <1>2 DEF CreateProcess, Loads
  <2>2. pages \in Seq(Nat) /\ Len(pages) \in Nat
    BY ProgramsAssumption
  <2>3. ToSet(frames) \subseteq valid /\ ToSet(frames) \cap allocated = {}
    BY <2>1, <2>2, TakenFrames DEF KernelInv
  <2>4. m \in Mappings /\ (\A p, q \in DOMAIN m : m[p] = m[q] => p = q)
        /\ {m[p] : p \in DOMAIN m} = ToSet(frames)
    BY <2>1, <2>2, NewMapping DEF KernelInv
  <2>. HIDE DEF pages, frames, m
  <2>5. pool' \in [frame : Nat, used : Nat] /\ PoolUses(pool') = PoolUses(pool)
    BY <2>1, PoolTaken DEF KernelInv
  <2>6. processes \in Seq(Mappings) /\ (stage = "start" => processes = << >>)
    BY DEF KernelInv, KernelTyped, BootStages
  <2>7. CASE Len(processes) < MAX_PROCESSES
    <3>1. /\ UserUses(processes') = UserUses(processes) \cup MapUses(Len(processes) + 1, m)
          /\ processes' \in Seq(Mappings)
          /\ DOMAIN processes' = DOMAIN processes \cup {Len(processes) + 1}
      <4>1. PICK ps \in Seq(Mappings), mp \in Mappings : ps = processes /\ mp = m
        BY <2>4, <2>6, Zenon
      <4>2. processes' = Append(ps, mp)
        BY <2>1, <2>7, <4>1
      <4>3. /\ UserUses(Append(ps, mp)) = UserUses(ps) \cup MapUses(Len(ps) + 1, mp)
            /\ Append(ps, mp) \in Seq(Mappings)
            /\ DOMAIN Append(ps, mp) = DOMAIN ps \cup {Len(ps) + 1}
        BY UserUsesAppend, Zenon
      <4>. QED  BY <4>1, <4>2, <4>3, Zenon
    <3>2. Uses' = Uses \cup MapUses(Len(processes) + 1, m)
      BY <2>1, <2>5, <2>7, <3>1, UsesParts
    <3>3. Apart(MapUses(Len(processes) + 1, m), ToSet(frames))
      BY <2>4, ApartMap
    <3>4. FramesApart'
      BY <2>1, <2>3, <3>2, <3>3, ApartMore DEF KernelInv
    <3>5. SwitchTargetsSaved'
      <4>1. CASE stage = "start"
        <5>1. DOMAIN processes = {}
          BY <2>6, <4>1
        <5>. QED  BY <2>1, <2>7, <3>1, <5>1 DEF SwitchTargetsSaved
      <4>2. CASE stage = "running"
        BY <2>1, <2>7, <3>1, <4>2 DEF SwitchTargetsSaved, KernelInv
      <4>. QED  BY <2>1, <4>1, <4>2
    <3>6. KernelTyped'
      BY <2>1, <2>3, <2>5, <2>7, <3>1 DEF KernelInv, KernelTyped, BootStages
    <3>7. ValidOK'
      BY <2>1, <2>7 DEF KernelInv, ValidOK, RamFrames, BootStages
    <3>8. stage' = "running" /\ current_pid' \in DOMAIN processes'
      BY <2>1, <2>7, <3>1
    <3>. QED  BY <3>4, <3>5, <3>6, <3>7, <3>8 DEF KernelInv, BootStages
  <2>8. CASE ~(Len(processes) < MAX_PROCESSES)
    <3>1. FrameUses("lost", lost') = FrameUses("lost", lost) \cup FrameUses("lost", ToSet(frames))
      BY <2>1, <2>8 DEF FrameUses
    <3>2. Uses' = Uses \cup FrameUses("lost", ToSet(frames))
      BY <2>1, <2>5, <2>8, <3>1, UsesParts
    <3>3. FramesApart'
      BY <2>1, <2>3, <3>2, ApartFrames, ApartMore DEF KernelInv
    <3>4. SwitchTargetsSaved'
      BY <2>1, <2>8 DEF SwitchTargetsSaved, KernelInv
    <3>5. KernelTyped'
      BY <2>1, <2>3, <2>5, <2>8 DEF KernelInv, KernelTyped, BootStages
    <3>6. ValidOK'
      BY <2>1, <2>8 DEF KernelInv, ValidOK, RamFrames, BootStages
    <3>. QED  BY <2>1, <2>8, <3>3, <3>4, <3>5, <3>6 DEF KernelInv, BootStages
  <2>. QED  BY <2>7, <2>8
<1>. QED  BY <1>1, <1>2

(* The current process and its pages.                                      *)
LEMMA MappedPages ==
    ASSUME KernelInv, stage = "running"
    PROVE  /\ current_pid \in DOMAIN processes /\ processes \in Seq(Mappings)
           /\ Mapped \in SUBSET Nat /\ processes[current_pid] \in [Mapped -> Nat]
<1>1. current_pid \in DOMAIN processes /\ processes \in Seq(Mappings)
  BY DEF KernelInv, KernelTyped
<1>2. processes[current_pid] \in Mappings
  BY <1>1
<1>3. PICK P \in SUBSET Nat : processes[current_pid] \in [P -> Nat]
  BY <1>2 DEF Mappings
<1>. QED  BY <1>1, <1>3 DEF Mapped

(* find_unallocated_pages ends: from a mapped page it goes up.             *)
LEMMA FirstGapIsPage ==
    ASSUME KernelInv, stage = "running", NEW page \in Nat, NEW count \in Nat
    PROVE  FirstGap(page, count) \in Nat
<1>. DEFINE C == {page} \cup {q + 1 : q \in {m \in Mapped : m >= page}}
            Good(s) == s + count >= UserPages \/ Unallocated(s, count)
            D == {k \in Nat : \E s \in C : s + k = UserPages}
<1>1. Mapped \in SUBSET Nat /\ UserPages \in Nat
  BY MappedPages, KernelAssumption
<1>2. \A s \in C : s \in Nat /\ s >= page
  BY <1>1
<1>3. \E s \in C : Good(s)
  <2>1. SUFFICES ASSUME \A s \in C : ~Good(s) PROVE FALSE
    OBVIOUS
  <2>2. \A s \in C : s + count < UserPages /\ \E q \in Mapped : s <= q
    <3>1. ASSUME NEW s \in C PROVE s + count < UserPages /\ \E q \in Mapped : s <= q
      <4>1. ~(s + count >= UserPages) /\ ~Unallocated(s, count) /\ s \in Nat
        BY <1>2, <2>1
      <4>2. s + count < UserPages
        BY <1>1, <4>1
      <4>3. \E q \in Mapped : q \in s..(s + count - 1)
        BY <4>1 DEF Unallocated
      <4>4. \A q \in s..(s + count - 1) : s <= q
        BY <4>1
      <4>. QED  BY <4>2, <4>3, <4>4
    <3>. QED  BY <3>1
  <2>3. \A s \in C : \E t \in C : t > s
    <3>1. ASSUME NEW s \in C PROVE \E t \in C : t > s
      <4>1. PICK q \in Mapped : s <= q
        BY <2>2
      <4>2. s \in Nat /\ s >= page /\ q \in Nat
        BY <1>1, <1>2
      <4>3. q >= page /\ q + 1 > s
        BY <4>1, <4>2
      <4>. QED  BY <4>3
    <3>. QED  BY <3>1
  <2>4. \A s \in C : \E k \in D : s + k = UserPages
    <3>1. ASSUME NEW s \in C PROVE \E k \in D : s + k = UserPages
      <4>1. s \in Nat /\ s + count < UserPages
        BY <1>2, <2>2
      <4>2. UserPages - s \in Nat /\ s + (UserPages - s) = UserPages
        BY <1>1, <4>1
      <4>. QED  BY <4>2
    <3>. QED  BY <3>1
  <2>5. D \in SUBSET Nat /\ D # {}
    BY <2>4
  <2>6. \A k \in D : \E s \in C : s + k = UserPages
    OBVIOUS
  <2>. HIDE DEF C, D
  <2>7. PICK k \in D : \A l \in D : k <= l
    BY <2>5, LeastNumber
  <2>8. PICK s \in C : s + k = UserPages
    BY <2>6, <2>7
  <2>9. PICK t \in C : t > s
    BY <2>3
  <2>10. PICK l \in D : t + l = UserPages
    BY <2>4
  <2>11. s \in Nat /\ t \in Nat /\ k \in Nat /\ l \in Nat /\ k <= l
    BY <1>2, <2>5, <2>7
  <2>. QED  BY <1>1, <2>8, <2>9, <2>10, <2>11
<1>4. FirstGap(page, count) = Min({s \in C : Good(s)})
  BY DEF FirstGap
<1>5. {s \in C : Good(s)} \in SUBSET Nat /\ {s \in C : Good(s)} # {}
  BY <1>2, <1>3
<1>. HIDE DEF C, Good
<1>6. FirstGap(page, count) \in {s \in C : Good(s)}
  BY <1>4, <1>5, MinIsLeast
<1>. QED  BY <1>5, <1>6

(* The loop of mmap over pages without a mapping, however it ends.         *)
LEMMA MapPagesKeeps ==
    ASSUME KernelInv, stage = "running", NEW page \in Nat, NEW count \in Nat,
           Unallocated(page, count), MapPages(page, count), saved' = saved \cup {current_pid},
           UNCHANGED <<memory, stage, valid, shared, heap, stacks, current_pid>>
    PROVE  /\ KernelInv'
           /\ \A pid \in DOMAIN processes :
                 /\ \A p \in DOMAIN processes[pid] :
                       p \in DOMAIN processes'[pid] /\ processes'[pid][p] = processes[pid][p]
                 /\ pid # current_pid => processes'[pid] = processes[pid]
<1>1. PICK tables \in TableCounts, n \in 0..Min({count, Cardinality(Available)}) :
         LET failed == tables > PoolLeft
             frames == Lowest(IF failed THEN n + 1 ELSE n)
         IN  /\ failed => n < Min({count, Cardinality(Available)})
             /\ processes' = [processes EXCEPT ![current_pid] =
                   [p \in Mapped \cup (page..(page + n - 1)) |->
                      IF p \in Mapped THEN @[p] ELSE frames[p - page + 1]]]
             /\ allocated' = allocated \cup ToSet(frames)
             /\ lost' = IF failed THEN lost \cup {frames[n + 1]} ELSE lost
             /\ pool' = [pool EXCEPT !.used = IF failed THEN PoolSize ELSE @ + tables]
  BY DEF MapPages
<1>. DEFINE failed == tables > PoolLeft
            l == IF failed THEN n + 1 ELSE n
            frames == Lowest(l)
            old == processes[current_pid]
            new == page..(page + n - 1)
            g == [p \in new |-> frames[p - page + 1]]
            m == [p \in Mapped \cup new |-> IF p \in Mapped THEN old[p] ELSE frames[p - page + 1]]
            L == IF failed THEN {frames[n + 1]} ELSE {}
<1>2. /\ current_pid \in DOMAIN processes /\ processes \in Seq(Mappings)
      /\ Mapped \in SUBSET Nat /\ old \in [Mapped -> Nat]
  BY MappedPages
<1>3. Cardinality(Available) \in Nat
  <2>1. Available \subseteq Frames
    BY DEF KernelInv, KernelTyped, Available
  <2>. QED  BY <2>1, AvailableIsFinite
<1>4. /\ n \in Nat /\ n <= count /\ n <= Cardinality(Available)
      /\ failed => n < Cardinality(Available)
  <2>1. PICK k \in Nat : k = Cardinality(Available)
    BY <1>3
  <2>2. {count, k} \in SUBSET Nat /\ {count, k} # {}
    OBVIOUS
  <2>3. Min({count, k}) \in Nat /\ Min({count, k}) <= count /\ Min({count, k}) <= k
    BY <2>2, MinIsLeast
  <2>4. n \in 0..Min({count, k}) /\ (failed => n < Min({count, k}))
    BY <1>1, <2>1
  <2>. HIDE DEF failed
  <2>5. PICK least \in Nat : least = Min({count, k}) /\ least <= count /\ least <= k
    BY <2>3
  <2>6. n \in 0..least /\ (failed => n < least)
    BY <2>4, <2>5
  <2>. QED  BY <2>1, <2>5, <2>6
<1>5. l \in Nat /\ l <= Cardinality(Available) /\ (failed => l = n + 1) /\ (~failed => l = n)
  BY <1>3, <1>4
<1>6. /\ processes' = [processes EXCEPT ![current_pid] = m]
      /\ allocated' = allocated \cup ToSet(frames)
      /\ lost' = lost \cup L
      /\ \/ pool' = [pool EXCEPT !.used = @ + tables]
         \/ pool' = [pool EXCEPT !.used = PoolSize]
  BY <1>1
<1>. HIDE DEF failed, l
<1>7. /\ \A i \in 1..l : frames[i] \in Nat
      /\ \A i, j \in 1..l : frames[i] = frames[j] => i = j
      /\ ToSet(frames) = {frames[i] : i \in 1..l}
      /\ ToSet(frames) \subseteq valid /\ ToSet(frames) \cap allocated = {}
  BY <1>5, TakenFrames DEF KernelInv
<1>. HIDE DEF frames, old
<1>8. new \in SUBSET Nat /\ new \cap Mapped = {}
  <2>1. \A p \in new : p \in Nat /\ p \in page..(page + count - 1)
    BY <1>4
  <2>. QED  BY <2>1 DEF Unallocated
<1>9. /\ \A p \in new : p - page + 1 \in 1..n /\ p - page + 1 \in 1..l
      /\ \A i \in 1..n : page + i - 1 \in new /\ (page + i - 1) - page + 1 = i
  <2>1. n <= l
    BY <1>4, <1>5
  <2>. QED  BY <1>4, <1>5, <2>1
<1>10. /\ DOMAIN g = new /\ (\A p, q \in new : g[p] = g[q] => p = q)
       /\ {g[p] : p \in DOMAIN g} = {frames[i] : i \in 1..n}
  <2>1. \A p \in new : g[p] = frames[p - page + 1]
    OBVIOUS
  <2>2. \A p, q \in new : p - page + 1 = q - page + 1 => p = q
    BY <1>8
  <2>3. \A i \in 1..n : g[page + i - 1] = frames[i]
    BY <1>9
  <2>4. DOMAIN g = new
    OBVIOUS
  <2>. HIDE DEF new, g
  <2>5. \A p, q \in new : g[p] = g[q] => p = q
    BY <1>7, <1>9, <2>1, <2>2
  <2>6. {g[p] : p \in DOMAIN g} = {frames[i] : i \in 1..n}
    BY <1>9, <2>1, <2>3, <2>4
  <2>. QED  BY <2>4, <2>5, <2>6
<1>11. m \in Mappings
  <2>1. \A p \in Mapped \cup new : p \in Nat /\ m[p] \in Nat
    BY <1>2, <1>7, <1>8, <1>9
  <2>2. m \in [Mapped \cup new -> Nat] /\ Mapped \cup new \in SUBSET Nat
    BY <2>1
  <2>. QED  BY <2>2 DEF Mappings
<1>12. /\ DOMAIN m = Mapped \cup new /\ DOMAIN old = Mapped
       /\ (\A p \in Mapped : m[p] = old[p]) /\ (\A p \in new : m[p] = g[p])
  BY <1>2, <1>8
<1>13. MapUses(current_pid, m) = MapUses(current_pid, old) \cup MapUses(current_pid, g)
  <2>. HIDE DEF m, g, new
  <2>. QED  BY <1>10, <1>12 DEF MapUses
<1>. HIDE DEF m, g, new
<1>14. /\ UserUses(processes') = UserUses(processes) \cup MapUses(current_pid, g)
       /\ processes' \in Seq(Mappings) /\ DOMAIN processes' = DOMAIN processes
       /\ processes'[current_pid] = m
       /\ \A q \in DOMAIN processes : q # current_pid => processes'[q] = processes[q]
  <2>1. PICK ps \in Seq(Mappings), mp \in Mappings : ps = processes /\ mp = m
    BY <1>2, <1>11, Zenon
  <2>2. PICK pid \in DOMAIN ps : pid = current_pid
    BY <1>2, <2>1, Zenon
  <2>3. PICK W : W = MapUses(current_pid, g)
    OBVIOUS
  <2>4. MapUses(pid, mp) = MapUses(pid, ps[pid]) \cup W
    BY <1>13, <2>1, <2>2, <2>3, Zenon DEF old
  <2>5. PICK qs : qs = [ps EXCEPT ![pid] = mp]
    OBVIOUS
  <2>6. /\ UserUses(qs) = UserUses(ps) \cup W /\ qs \in Seq(Mappings) /\ DOMAIN qs = DOMAIN ps
        /\ qs[pid] = mp /\ \A q \in DOMAIN ps : q # pid => qs[q] = ps[q]
    BY <2>4, <2>5, UserUsesExcept, ZenonT(30)
  <2>7. processes' = qs
    BY <1>6, <2>1, <2>2, <2>5
  <2>. QED  BY <2>1, <2>2, <2>3, <2>6, <2>7, Zenon
<1>15. FramesApart'
  <2>1. Apart(MapUses(current_pid, g), {frames[i] : i \in 1..n})
    BY <1>10, ApartMap
  <2>2. Apart(FrameUses("lost", L), L)
    BY ApartFrames
  <2>3. {frames[i] : i \in 1..n} \cap L = {} /\ {frames[i] : i \in 1..n} \cup L = ToSet(frames)
    <3>1. CASE failed
      <4>1. 1..l = 1..n \cup {n + 1} /\ n + 1 \notin 1..n
        BY <1>4, <1>5, <3>1
      <4>. QED  BY <1>7, <3>1, <4>1
    <3>2. CASE ~failed
      BY <1>5, <1>7, <3>2
    <3>. QED  BY <3>1, <3>2
  <2>. DEFINE W == MapUses(current_pid, g) \cup FrameUses("lost", L)
  <2>4. Apart(W, ToSet(frames))
    BY <2>1, <2>2, <2>3, ApartUnion
  <2>5. FrameUses("lost", lost') = FrameUses("lost", lost) \cup FrameUses("lost", L)
    <3>. HIDE DEF L
    <3>. QED  BY <1>6 DEF FrameUses
  <2>6. PoolUses(pool') = PoolUses(pool)
    BY <1>6, PoolTaken DEF KernelInv
  <2>7. Uses' = Uses \cup W
    BY <1>14, <2>5, <2>6, UsesParts
  <2>. HIDE DEF W
  <2>. QED  BY <1>6, <1>7, <2>4, <2>7, ApartMore DEF KernelInv
<1>16. SwitchTargetsSaved'
  BY <1>14 DEF KernelInv, SwitchTargetsSaved
<1>17. KernelTyped'
  <2>1. pool' \in [frame : Nat, used : Nat]
    BY <1>6, PoolTaken DEF KernelInv
  <2>. QED  BY <1>6, <1>7, <1>14, <2>1 DEF KernelInv, KernelTyped
<1>18. ValidOK'
  BY DEF KernelInv, ValidOK, RamFrames
<1>19. KernelInv'
  BY <1>14, <1>15, <1>16, <1>17, <1>18 DEF KernelInv, BootStages
<1>20. ASSUME NEW pid \in DOMAIN processes
       PROVE  /\ \A p \in DOMAIN processes[pid] :
                    p \in DOMAIN processes'[pid] /\ processes'[pid][p] = processes[pid][p]
              /\ pid # current_pid => processes'[pid] = processes[pid]
  <2>1. CASE pid = current_pid
    BY <1>12, <1>14, <2>1 DEF old
  <2>2. CASE pid # current_pid
    BY <1>14, <2>2
  <2>. QED  BY <2>1, <2>2
<1>. QED  BY <1>19, <1>20

(* mmap keeps the invariant and every page that was mapped.                *)
LEMMA MmapKeeps ==
    ASSUME KernelInv, NEW fixed \in BOOLEAN, NEW page \in 0..(UserPages - 1),
           NEW count \in MmapCounts, Mmap(fixed, page, count)
    PROVE  /\ KernelInv'
           /\ \A pid \in DOMAIN processes :
                 /\ \A p \in DOMAIN processes[pid] :
                       p \in DOMAIN processes'[pid] /\ processes'[pid][p] = processes[pid][p]
                 /\ pid # current_pid => processes'[pid] = processes[pid]
<1>1. CASE Panicked
  BY <1>1, PanickedKeeps DEF Panicked
<1>2. CASE ~Panicked
  <2>. DEFINE start == IF fixed THEN page ELSE FirstGap(Max({page, 1}), count)
  <2>1. /\ stage = "running" /\ saved' = saved \cup {current_pid}
        /\ UNCHANGED <<memory, stage, valid, shared, heap, stacks, current_pid>>
        /\ \/ UNCHANGED <<processes, allocated, lost, pool>>
           \/ Unallocated(start, count) /\ MapPages(start, count)
    BY <1>2 DEF Mmap
  <2>2. page \in Nat /\ count \in Nat
    BY KernelAssumption
  <2>3. start \in Nat
    <3>1. Max({page, 1}) \in Nat
      <4>1. \E x \in {page, 1} : \A y \in {page, 1} : x >= y
        <5>1. CASE page >= 1
          BY <2>2, <5>1
        <5>2. CASE ~(page >= 1)
          <6>1. 1 >= page /\ 1 >= 1
            BY <2>2, <5>2
          <6>. QED  BY <6>1
        <5>. QED  BY <5>1, <5>2
      <4>2. Max({page, 1}) \in {page, 1}
        BY <4>1 DEF Max
      <4>. QED  BY <2>2, <4>2
    <3>. QED  BY <2>1, <2>2, <3>1, FirstGapIsPage
  <2>. HIDE DEF start
  <2>4. CASE UNCHANGED <<processes, allocated, lost, pool>>
    <3>1. FramesApart' /\ SwitchTargetsSaved'
      <4>1. Uses' = Uses
        BY <2>1, <2>4 DEF Uses
      <4>. QED  BY <2>1, <2>4, <4>1 DEF KernelInv, FramesApart, SwitchTargetsSaved
    <3>. QED  BY <2>1, <2>4, <3>1 DEF KernelInv, KernelTyped, ValidOK, RamFrames
  <2>5. CASE Unallocated(start, count) /\ MapPages(start, count)
    BY <2>1, <2>2, <2>3, <2>5, MapPagesKeeps
  <2>. QED  BY <2>1, <2>4, <2>5
<1>. QED  BY <1>1, <1>2

-----------------------------------------------------------------------------
(* The frames of the memory map that the image does not touch.             *)
LEMMA RamFramesAre ==
    \A f : f \in RamFrames <=> /\ \E r \in memory.ram : f \in Inside(r)
                               /\ \A i \in memory.image : f \notin Touched(i)
  BY DEF RamFrames

(* The invariant holds at first.                                           *)
LEMMA KernelStarts ==
    ASSUME KernelInit
    PROVE  KernelInv
<1>1. /\ stage = "initial_pml4" /\ allocated = {} /\ pool = [frame |-> BitmapLen, used |-> 0]
      /\ shared = {} /\ heap = << >> /\ stacks = << >> /\ lost = {} /\ processes = << >>
      /\ valid \subseteq RamFrames \ Touched(memory.ramdisk)
  <2>1. valid \subseteq RamFrames \ Touched(memory.ramdisk)
    <3>1. valid = (UNION {Inside(r) : r \in memory.ram})
                    \ ({0} \cup (UNION {Touched(r) : r \in memory.image})
                           \cup Touched(memory.ramdisk))
      BY DEF KernelInit
    <3>. QED  BY <3>1 DEF RamFrames
  <2>. QED  BY <2>1 DEF KernelInit
<1>2. pool.frame = BitmapLen /\ BitmapLen \notin Frames
  BY <1>1, KernelAssumption DEF Frames
<1>3. Uses = {}
  BY <1>1, <1>2 DEF Uses
<1>4. FramesApart /\ SwitchTargetsSaved
  BY <1>1, <1>3 DEF FramesApart, SwitchTargetsSaved
<1>5. KernelTyped
  <2>1. << >> \in Seq(Nat) /\ << >> \in Seq(Mappings) /\ BitmapLen \in Nat
    BY KernelAssumption
  <2>2. pool \in [frame : Nat, used : Nat]
    BY <1>1, <2>1
  <2>3. RamFrames \subseteq Frames
    BY DEF RamFrames, Inside
  <2>. QED  BY <1>1, <2>1, <2>2, <2>3 DEF KernelTyped, BootStages
<1>. QED  BY <1>1, <1>2, <1>4, <1>5 DEF KernelInv, ValidOK, BootStages

(* Every step keeps it.                                                    *)
LEMMA KernelKeeps ==
    ASSUME KernelInv, [KernelNext]_kernelVars
    PROVE  KernelInv'
<1>1. CASE UNCHANGED kernelVars
  <2>1. UNCHANGED <<memory, stage, valid, allocated, pool, shared, heap, stacks, lost, processes,
                    current_pid, saved>>
    BY <1>1 DEF kernelVars
  <2>2. FramesApart'
    <3>1. Uses' = Uses
      BY <2>1 DEF Uses
    <3>. QED  BY <2>1, <3>1 DEF KernelInv, FramesApart
  <2>3. KernelTyped' /\ ValidOK' /\ SwitchTargetsSaved'
    BY <2>1 DEF KernelInv, KernelTyped, ValidOK, RamFrames, SwitchTargetsSaved
  <2>. QED  BY <2>1, <2>2, <2>3 DEF KernelInv
<1>. QED  BY <1>1, InitialPml4Keeps, InitGuestHostHeapKeeps, ExtendHeapKeeps, AllocateStackKeeps,
             LoadApplicationKeeps, CreateProcessKeeps, SwitchProcessKeeps, MmapKeeps
          DEF KernelNext

(* Frames that are valid lie in RAM, apart from what is reserved.          *)
LEMMA ValidIsFreeRam ==
    ASSUME KernelTyped, ValidOK
    PROVE  OnlyFreeRam
<1>. DEFINE released == stage \in {"enable_syscalls", "start", "running", "panicked"}
            ram == UNION {Halves(r) : r \in memory.ram}
            image == UNION {Halves(r) : r \in memory.image}
<1>1. SUFFICES ASSUME NEW f \in allocated, ~(released /\ f \in Touched(memory.ramdisk))
               PROVE  {2 * f, 2 * f + 1} \subseteq ram \ (image \cup Halves(memory.ramdisk))
  BY DEF OnlyFreeRam
<1>2. f \in Frames /\ f \in RamFrames /\ f \notin Touched(memory.ramdisk)
  BY <1>1 DEF KernelTyped, ValidOK, BootStages
<1>3. PICK r \in memory.ram : f \in Inside(r)
  BY <1>2 DEF RamFrames
<1>4. {2 * f, 2 * f + 1} \subseteq Halves(r)
  BY <1>3 DEF Inside
<1>5. ASSUME NEW i \in memory.image PROVE {2 * f, 2 * f + 1} \cap Halves(i) = {}
  <2>1. f \notin Touched(i)
    BY <1>2, RamFramesAre
  <2>. QED  BY <1>2, <2>1 DEF Touched
<1>6. {2 * f, 2 * f + 1} \cap Halves(memory.ramdisk) = {}
  BY <1>2 DEF Touched
<1>7. ASSUME NEW h \in {2 * f, 2 * f + 1} PROVE h \in ram \ (image \cup Halves(memory.ramdisk))
  <2>1. h \in ram
    BY <1>3, <1>4
  <2>2. h \notin image
    BY <1>5
  <2>. HIDE DEF ram, image
  <2>. QED  BY <1>6, <2>1, <2>2
<1>. QED  BY <1>7

(* The restricted kernel's allocator, mmap and create_process: no frame    *)
(* has two uses, and a process that may be switched to has a stack pointer.*)
(* Until load_application has copied the ramdisk only RAM outside of the   *)
(* image and the ramdisk is handed out, and later besides it only frames   *)
(* that the ramdisk touched.  This is for any memory map, any programs and *)
(* any sequence of system calls and of growths of the heap.                *)
THEOREM KernelIsSound == KernelSpec => []KernelSound
<1>1. KernelInit => KernelInv
  BY KernelStarts
<1>2. KernelInv /\ [KernelNext]_kernelVars => KernelInv'
  BY KernelKeeps
<1>3. KernelInv => KernelSound
  BY ValidIsFreeRam DEF KernelInv, KernelSound
<1>. QED  BY <1>1, <1>2, <1>3, PTL DEF KernelSpec

(* mmap, create_process and switch_process: a mapped page keeps its frame, *)
(* and only the current process maps pages.                                *)
THEOREM PagesStayMapped == KernelSpec => MappingsStay
<1>. DEFINE Stay ==
         \A pid \in DOMAIN processes :
           /\ \A p \in DOMAIN processes[pid] :
                 p \in DOMAIN processes'[pid] /\ processes'[pid][p] = processes[pid][p]
           /\ pid # current_pid => processes'[pid] = processes[pid]
<1>1. ASSUME KernelInv, NEW program \in Programs, CreateProcess(program) PROVE Stay
  <2>1. processes' = processes \/ \E m : processes' = Append(processes, m)
    BY <1>1 DEF CreateProcess, Panicked
  <2>2. processes \in Seq(Mappings)
    BY <1>1 DEF KernelInv, KernelTyped
  <2>3. ASSUME NEW m, processes' = Append(processes, m) PROVE Stay
    <3>1. \A pid \in DOMAIN processes : Append(processes, m)[pid] = processes[pid]
      BY <2>2
    <3>. QED  BY <2>3, <3>1
  <2>. QED  BY <2>1, <2>3
<1>2. ASSUME KernelInv, NEW fixed \in BOOLEAN, NEW page \in 0..(UserPages - 1),
             NEW count \in MmapCounts, Mmap(fixed, page, count)
      PROVE  Stay
  BY <1>2, MmapKeeps
<1>3. ASSUME \/ InitialPml4 \/ InitGuestHostHeap \/ ExtendHeap \/ AllocateStack \/ LoadApplication
             \/ \E pid \in 1..MAX_PROCESSES : SwitchProcess(pid)
             \/ UNCHANGED kernelVars
      PROVE  Stay
  <2>1. processes' = processes
    BY <1>3 DEF InitialPml4, InitGuestHostHeap, ExtendHeap, AllocateStack, LoadApplication,
                SwitchProcess, kernelVars, Panicked
  <2>. QED  BY <2>1
<1>4. KernelInv /\ [KernelNext]_kernelVars => [Stay]_kernelVars
  BY <1>1, <1>2, <1>3 DEF KernelNext
<1>5. KernelSpec => []KernelInv
  BY KernelStarts, KernelKeeps, PTL DEF KernelSpec
<1>. QED  BY <1>4, <1>5, PTL DEF KernelSpec, MappingsStay

-----------------------------------------------------------------------------
(* The descriptors.                                                        *)
(* r is what the first Len(r) bytes of a are.                              *)
Begins(r, a) ==
    /\ r \in Seq(Nat) /\ a \in Seq(Nat)
    /\ Len(r) <= Len(a) /\ \A i \in 1..Len(r) : r[i] = a[i]

(* data holds the bytes a up to index and nothing after them.              *)
FilledTo(data, index, a) ==
    \A i \in 1..Len(data) : data[i] = IF i <= index THEN a[i] ELSE 0

LeakedOK ==
    leaked \in Seq(Nat) /\ Len(leaked) <= Layer0Len /\ \A i \in 1..Len(leaked) : leaked[i] = i

DiceRecord ==
    [kind : {"Readable", "Writeable"}, layer : {0, 1}, data : Seq(Nat), index : Nat]
DiceLayer0 ==
    /\ dice.kind = "Readable" /\ dice.layer = 0
    /\ Len(dice.data) = Layer0Len /\ dice.index = Len(leaked)
    /\ \A i \in 1..Layer0Len : dice.data[i] = IF i <= dice.index THEN 0 ELSE i
    /\ accepted.dice = << >> /\ returned.dice = << >>
DiceWritten ==
    /\ dice.kind = "Writeable" /\ dice.layer = 1
    /\ Len(dice.data) = Layer1Len
    /\ dice.index = Len(accepted.dice) /\ dice.index <= Layer1Len
    /\ FilledTo(dice.data, dice.index, accepted.dice)
    /\ returned.dice = << >>
DiceRead ==
    /\ dice.kind = "Readable" /\ dice.layer = 1
    /\ Len(dice.data) = Layer1Len /\ Len(accepted.dice) = Layer1Len
    /\ dice.index = Len(returned.dice) /\ Begins(returned.dice, accepted.dice)
    /\ \A i \in 1..Layer1Len : dice.data[i] = IF i <= dice.index THEN 0 ELSE accepted.dice[i]
DiceOK ==
    /\ dice \in DiceRecord /\ accepted.dice \in Seq(Bytes)
    /\ DiceLayer0 \/ DiceWritten \/ DiceRead

KeyWritten ==
    /\ key.kind = "Writeable"
    /\ key.index = Len(accepted.key) /\ key.index <= KeyBytes
    /\ FilledTo(key.data, key.index, accepted.key)
    /\ returned.key = << >>
KeyRead ==
    /\ key.kind = "Readable" /\ key.data = accepted.key
    /\ key.index = Len(returned.key) /\ Begins(returned.key, accepted.key)
KeyOK ==
    /\ key \in [kind : {"Readable", "Writeable"}, data : Seq(Nat), index : Nat]
    /\ accepted.key \in Seq(Bytes) /\ Len(key.data) = KeyBytes
    /\ KeyWritten \/ KeyRead

LogOK ==
    /\ log \in [state : {"Reading", "Writing"}, data : Seq(Nat), index : Nat]
    /\ log.data = accepted.log /\ Len(log.data) <= MAX_EVENT_LOG_SIZE
    /\ log.state = "Reading" => log.index = Len(returned.log) /\ Begins(returned.log, log.data)

HistoryOK ==
    /\ DOMAIN accepted = {"dice", "key", "log"} /\ DOMAIN returned = {"dice", "key", "log"}

(* The inductive invariant.                                                *)
DescriptorsInv == HistoryOK /\ LeakedOK /\ DiceOK /\ KeyOK /\ LogOK

-----------------------------------------------------------------------------
(* Sequences of bytes.                                                     *)
LEMMA BytesAreNat == ASSUME NEW s \in Seq(Bytes) PROVE s \in Seq(Nat)
  BY DescriptorsAssumption, SeqMonotonic

(* A beginning is a subsequence.                                           *)
LEMMA BeginsIsSubSeq == ASSUME NEW r, NEW a, Begins(r, a) PROVE r = SubSeq(a, 1, Len(r))
<1>. DEFINE n == Len(r)
            t == SubSeq(a, 1, n)
<1>1. r \in Seq(Nat) /\ a \in Seq(Nat) /\ n \in Nat /\ n <= Len(a) /\ Len(a) \in Nat
  BY DEF Begins
<1>2. \A i \in 1..n : a[i] \in Nat /\ r[i] = a[i]
  BY <1>1 DEF Begins
<1>. HIDE DEF n
<1>3. /\ t \in Seq(Nat) /\ Len(t) = (IF 1 <= n THEN n - 1 + 1 ELSE 0)
      /\ \A i \in 1..(n - 1 + 1) : t[i] = a[1 + i - 1]
  BY <1>1, <1>2, SubSeqProperties
<1>. HIDE DEF t
<1>4. Len(t) = n /\ \A i \in 1..n : t[i] = a[i]
  <2>1. n - 1 + 1 = n /\ \A i \in 1..n : 1 + i - 1 = i
    BY <1>1
  <2>. QED  BY <1>1, <1>3, <2>1
<1>5. r = t
  <2>1. Len(r) = Len(t) /\ \A i \in 1..Len(r) : r[i] = t[i]
    BY <1>2, <1>4 DEF n
  <2>. QED  BY <1>1, <1>3, <2>1, SeqEqual
<1>. QED  BY <1>5 DEF t, n

(* What a read returns.                                                    *)
LEMMA SliceProperties ==
    ASSUME NEW d, NEW n \in Nat, d.data \in Seq(Nat), d.index \in Nat, d.index <= Len(d.data)
    PROVE  LET s == Slice(d, n)
           IN  /\ s \in Seq(Nat) /\ Len(s) \in Nat /\ d.index + Len(s) <= Len(d.data)
               /\ \A i \in 1..Len(s) : s[i] = d.data[d.index + i]
<1>. DEFINE a == d.data
            x == d.index
            y == Least(x + n, Len(a))
            s == SubSeq(a, x + 1, y)
<1>1. a \in Seq(Nat) /\ x \in Nat /\ x <= Len(a) /\ Len(a) \in Nat /\ s = Slice(d, n)
  BY DEF Slice
<1>. HIDE DEF a, x
<1>2. y \in Nat /\ y <= Len(a) /\ x <= y
  BY <1>1 DEF Least
<1>. HIDE DEF y
<1>3. \A i \in (x + 1)..y : a[i] \in Nat
  BY SMTT(30), <1>1, <1>2
<1>4. /\ s \in Seq(Nat)
      /\ Len(s) = (IF x + 1 <= y THEN y - (x + 1) + 1 ELSE 0)
      /\ \A i \in 1..(y - (x + 1) + 1) : s[i] = a[(x + 1) + i - 1]
  BY <1>1, <1>2, <1>3, SubSeqProperties
<1>. HIDE DEF s
<1>5. Len(s) = y - x /\ \A i \in 1..Len(s) : s[i] = a[x + i]
  <2>1. Len(s) = y - x /\ y - (x + 1) + 1 = y - x
    BY <1>1, <1>2, <1>4
  <2>2. ASSUME NEW i \in 1..Len(s) PROVE s[i] = a[x + i]
    <3>1. i \in 1..(y - (x + 1) + 1) /\ (x + 1) + i - 1 = x + i
      BY <1>1, <1>2, <2>1
    <3>. QED  BY Zenon, <1>4, <3>1
  <2>. QED  BY <2>1, <2>2
<1>6. Len(s) \in Nat /\ x + Len(s) <= Len(a)
  BY <1>1, <1>2, <1>5
<1>. QED  BY <1>1, <1>4, <1>5, <1>6 DEF a, x

(* Returning the bytes that follow keeps the returned ones a beginning.    *)
LEMMA BeginsExtended ==
    ASSUME NEW r, NEW a, NEW s \in Seq(Nat), Begins(r, a), Len(r) + Len(s) <= Len(a),
           \A i \in 1..Len(s) : s[i] = a[Len(r) + i]
    PROVE  Begins(r \o s, a) /\ Len(r \o s) = Len(r) + Len(s)
<1>1. r \in Seq(Nat) /\ a \in Seq(Nat) /\ Len(r) \in Nat /\ Len(s) \in Nat /\ Len(a) \in Nat
  BY DEF Begins
<1>. DEFINE t == r \o s
<1>2. /\ t \in Seq(Nat) /\ Len(t) = Len(r) + Len(s)
      /\ \A i \in 1..(Len(r) + Len(s)) : t[i] = IF i <= Len(r) THEN r[i] ELSE s[i - Len(r)]
  BY <1>1, ConcatProperties
<1>. HIDE DEF t
<1>3. \A i \in 1..Len(t) : t[i] = a[i]
  <2>1. ASSUME NEW i \in 1..Len(t) PROVE t[i] = a[i]
    <3>1. CASE i <= Len(r)
      <4>1. i \in 1..Len(r) /\ i \in 1..(Len(r) + Len(s))
        BY <1>1, <1>2, <3>1
      <4>2. r[i] = a[i]
        BY <4>1 DEF Begins
      <4>. QED  BY Zenon, <1>2, <3>1, <4>1, <4>2
    <3>2. CASE ~(i <= Len(r))
      <4>1. i - Len(r) \in 1..Len(s) /\ Len(r) + (i - Len(r)) = i
        BY <1>1, <1>2, <3>2
      <4>. QED  BY <1>1, <1>2, <3>2, <4>1
    <3>. QED  BY <3>1, <3>2
  <2>. QED  BY <2>1
<1>. QED  BY <1>1, <1>2, <1>3 DEF Begins, t

(* Writing at the index.                                                   *)
LEMMA FilledProperties ==
    ASSUME NEW data \in Seq(Nat), NEW index \in Nat, NEW buf \in Seq(Nat)
    PROVE  LET t == Filled(data, index, buf)
           IN  /\ t \in Seq(Nat) /\ Len(t) = Len(data)
               /\ \A i \in 1..Len(data) :
                     t[i] = IF i > index /\ i <= index + Len(buf) THEN buf[i - index] ELSE data[i]
<1>. DEFINE t == Filled(data, index, buf)
<1>1. Len(data) \in Nat /\ Len(buf) \in Nat
  OBVIOUS
<1>2. \A i \in 1..Len(data) :
         i \in (index + 1)..(index + Len(buf)) <=> i > index /\ i <= index + Len(buf)
  BY <1>1
<1>3. \A i \in 1..Len(data) : i > index /\ i <= index + Len(buf) => i - index \in 1..Len(buf)
  BY <1>1
<1>4. t = [i \in 1..Len(data) |-> IF i > index /\ i <= index + Len(buf) THEN buf[i - index]
                                  ELSE data[i]]
  BY <1>2 DEF Filled
<1>5. \A i \in 1..Len(data) :
         (IF i > index /\ i <= index + Len(buf) THEN buf[i - index] ELSE data[i]) \in Nat
  BY <1>3
<1>. HIDE DEF t
<1>. QED  BY <1>1, <1>4, <1>5 DEF t

(* A buffer that was filled to a place is filled further.                  *)
LEMMA FilledFurther ==
    ASSUME NEW data \in Seq(Nat), NEW a \in Seq(Bytes), NEW buf \in Seq(Bytes),
           FilledTo(data, Len(a), a), Len(a) + Len(buf) <= Len(data)
    PROVE  LET t == Filled(data, Len(a), buf)
           IN  /\ t \in Seq(Nat) /\ Len(t) = Len(data)
               /\ a \o buf \in Seq(Bytes) /\ Len(a \o buf) = Len(a) + Len(buf)
               /\ FilledTo(t, Len(a) + Len(buf), a \o buf)
<1>. DEFINE t == Filled(data, Len(a), buf)
            b == a \o buf
<1>1. Len(data) \in Nat /\ Len(buf) \in Nat /\ Len(a) \in Nat /\ buf \in Seq(Nat)
  BY BytesAreNat
<1>2. /\ t \in Seq(Nat) /\ Len(t) = Len(data)
      /\ \A i \in 1..Len(data) :
            t[i] = IF i > Len(a) /\ i <= Len(a) + Len(buf) THEN buf[i - Len(a)] ELSE data[i]
  BY <1>1, FilledProperties
<1>3. /\ b \in Seq(Bytes) /\ Len(b) = Len(a) + Len(buf)
      /\ \A i \in 1..(Len(a) + Len(buf)) : b[i] = IF i <= Len(a) THEN a[i] ELSE buf[i - Len(a)]
  BY ConcatProperties
<1>. HIDE DEF t, b
<1>4. FilledTo(t, Len(a) + Len(buf), b)
  <2>1. ASSUME NEW i \in 1..Len(t) PROVE t[i] = IF i <= Len(a) + Len(buf) THEN b[i] ELSE 0
    <3>1. CASE i <= Len(a)
      BY <1>1, <1>2, <1>3, <3>1 DEF FilledTo
    <3>2. CASE i > Len(a) /\ i <= Len(a) + Len(buf)
      <4>1. ~(i <= Len(a)) /\ i \in 1..Len(data) /\ i \in 1..(Len(a) + Len(buf))
        BY <1>1, <1>2, <3>2
      <4>2. t[i] = buf[i - Len(a)]
        BY <1>2, <3>2, <4>1
      <4>3. b[i] = buf[i - Len(a)]
        BY <1>3, <4>1
      <4>. QED  BY <3>2, <4>2, <4>3
    <3>3. CASE i > Len(a) + Len(buf)
      <4>1. ~(i <= Len(a)) /\ ~(i <= Len(a) + Len(buf)) /\ i \in 1..Len(data)
        BY <1>1, <1>2, <3>3
      <4>2. data[i] = 0 /\ t[i] = data[i]
        BY <1>2, <4>1 DEF FilledTo
      <4>. QED  BY <4>1, <4>2
    <3>4. i <= Len(a) \/ (i > Len(a) /\ i <= Len(a) + Len(buf)) \/ i > Len(a) + Len(buf)
      <4>. HIDE DEF t
      <4>1. PICK x \in Nat : x = Len(a)
        BY <1>1
      <4>2. PICK y \in Nat : y = Len(buf)
        BY <1>1
      <4>3. i \in Int
        BY <1>1, <1>2
      <4>4. i <= x \/ (i > x /\ i <= x + y) \/ i > x + y
        BY <4>3
      <4>. QED  BY <4>1, <4>2, <4>4
    <3>. QED  BY <3>1, <3>2, <3>3, <3>4
  <2>. QED  BY <2>1 DEF FilledTo
<1>. QED  BY <1>2, <1>3, <1>4 DEF t, b

-----------------------------------------------------------------------------
(* Each descriptor's part of the invariant depends on its own state only.  *)
LEMMA DiceFrame ==
    ASSUME DiceOK /\ LeakedOK, dice' = dice, leaked' = leaked,
           accepted'.dice = accepted.dice, returned'.dice = returned.dice
    PROVE  DiceOK' /\ LeakedOK'
  BY DEF DiceOK, DiceLayer0, DiceWritten, DiceRead, FilledTo, Begins, LeakedOK

(* What the key depends on.                                                *)
LEMMA KeyFrame ==
    ASSUME KeyOK, key' = key, accepted'.key = accepted.key, returned'.key = returned.key
    PROVE  KeyOK'
  BY DEF KeyOK, KeyWritten, KeyRead, FilledTo, Begins

(* What the event log depends on.                                          *)
LEMMA LogFrame ==
    ASSUME LogOK, log' = log, accepted'.log = accepted.log, returned'.log = returned.log
    PROVE  LogOK'
  BY DEF LogOK, Begins

(* A buffer of a call.                                                     *)
LEMMA BufIsSeq == ASSUME NEW buf \in Bufs PROVE buf \in Seq(Bytes) /\ Len(buf) \in Nat \ {0}
<1>1. PICK n \in 1..MaxBuf : buf \in [1..n -> Bytes]
  BY DEF Bufs
<1>. QED  BY <1>1, DescriptorsAssumption

(* A zeroed buffer.                                                        *)
LEMMA ZeroedIsSeq ==
    ASSUME NEW n \in Nat
    PROVE  Zeroed(n) \in Seq(Nat) /\ Len(Zeroed(n)) = n /\ \A i \in 1..n : Zeroed(n)[i] = 0
  BY DEF Zeroed

(* The sizes of the buffers.                                               *)
LEMMA SizesAreNat ==
    /\ Layer0Len \in Nat \ {0} /\ Layer1Len \in Nat \ {0} /\ KeyBytes \in Nat \ {0}
    /\ MAX_EVENT_LOG_SIZE \in Nat \ {0} /\ MaxBuf \in Nat
  BY DescriptorsAssumption

(* Initially layer 0 is complete, nothing was written and the log is       *)
(* readable.                                                               *)
LEMMA DescriptorsInitOK == DescriptorsInit => DescriptorsInv
<1>. SUFFICES ASSUME DescriptorsInit PROVE DescriptorsInv
  OBVIOUS
<1>1. HistoryOK /\ accepted.dice = << >> /\ accepted.key = << >> /\ accepted.log = <<1>>
      /\ returned.dice = << >> /\ returned.key = << >> /\ returned.log = << >>
  BY DEF DescriptorsInit, HistoryOK
<1>2. LeakedOK /\ Len(leaked) = 0
  BY SizesAreNat DEF DescriptorsInit, LeakedOK
<1>3. DiceOK
  <2>. DEFINE s == [i \in 1..Layer0Len |-> i]
  <2>1. s \in Seq(Nat) /\ Len(s) = Layer0Len /\ \A i \in 1..Layer0Len : s[i] = i
    BY SizesAreNat
  <2>. HIDE DEF s
  <2>2. dice = [kind |-> "Readable", layer |-> 0, data |-> s, index |-> 0]
    BY DEF DescriptorsInit, s
  <2>3. \A i \in 1..Layer0Len : ~(i <= 0)
    BY SizesAreNat
  <2>4. DiceLayer0
    BY <1>1, <1>2, <2>1, <2>2, <2>3 DEF DiceLayer0
  <2>5. accepted.dice \in Seq(Bytes)
    BY <1>1
  <2>. QED  BY <2>1, <2>2, <2>4, <2>5 DEF DiceOK, DiceRecord
<1>4. KeyOK
  <2>1. PICK s \in Seq(Nat) : s = Zeroed(KeyBytes)
    BY ZeroedIsSeq, SizesAreNat
  <2>2. Len(s) = KeyBytes /\ \A i \in 1..KeyBytes : s[i] = 0
    BY <2>1, ZeroedIsSeq, SizesAreNat
  <2>3. key = [kind |-> "Writeable", data |-> s, index |-> 0]
    BY <2>1 DEF DescriptorsInit
  <2>4. FilledTo(s, 0, << >>)
    <3>1. \A i \in 1..KeyBytes : ~(i <= 0)
      BY SizesAreNat
    <3>. QED  BY <2>2, <3>1 DEF FilledTo
  <2>5. KeyWritten
    BY <1>1, <2>3, <2>4, SizesAreNat DEF KeyWritten
  <2>. QED  BY <1>1, <2>2, <2>3, <2>5 DEF KeyOK
<1>5. LogOK
  <2>1. log = [state |-> "Reading", data |-> <<1>>, index |-> 0]
    BY DEF DescriptorsInit
  <2>2. Begins(<< >>, <<1>>)
    BY DEF Begins
  <2>. QED  BY <1>1, <2>1, <2>2, SizesAreNat DEF LogOK
<1>. QED  BY <1>1, <1>2, <1>3, <1>4, <1>5 DEF DescriptorsInv

-----------------------------------------------------------------------------
(* A read zeroes the bytes it returns and moves the index past them.       *)
LEMMA ReadAndZeroed ==
    ASSUME NEW data \in Seq(Nat), NEW index \in Nat, NEW k \in Nat
    PROVE  LET t == Filled(data, index, Zeroed(k))
           IN  /\ t \in Seq(Nat) /\ Len(t) = Len(data)
               /\ \A i \in 1..Len(data) :
                     t[i] = IF i > index /\ i <= index + k THEN 0 ELSE data[i]
<1>1. PICK z \in Seq(Nat) : z = Zeroed(k)
  BY ZeroedIsSeq
<1>2. Len(z) = k /\ \A i \in 1..k : z[i] = 0
  BY <1>1, ZeroedIsSeq
<1>. DEFINE t == Filled(data, index, z)
<1>3. /\ t \in Seq(Nat) /\ Len(t) = Len(data)
      /\ \A i \in 1..Len(data) :
            t[i] = IF i > index /\ i <= index + k THEN z[i - index] ELSE data[i]
  BY <1>2, FilledProperties
<1>4. \A i \in 1..Len(data) : i > index /\ i <= index + k => i - index \in 1..k
  <2>1. Len(data) \in Nat
    OBVIOUS
  <2>. QED  BY <2>1
<1>. HIDE DEF t
<1>5. \A i \in 1..Len(data) : t[i] = IF i > index /\ i <= index + k THEN 0 ELSE data[i]
  BY <1>2, <1>3, <1>4
<1>. QED  BY <1>1, <1>3, <1>5 DEF t

(* DiceDataDescriptor::read.                                               *)
LEMMA ReadDiceOK ==
    ASSUME DescriptorsInv, NEW n \in 1..MaxBuf, ReadDice(n)
    PROVE  DescriptorsInv'
<1>. USE SizesAreNat
<1>. DEFINE r == Slice(dice, n)
            t == Filled(dice.data, dice.index, Zeroed(Len(r)))
            x == dice.index
<1>1. /\ dice.kind = "Readable" /\ dice \in DiceRecord /\ accepted.dice \in Seq(Bytes)
      /\ HistoryOK /\ LeakedOK /\ KeyOK /\ LogOK
      /\ DiceLayer0 \/ DiceRead
  BY DEF DescriptorsInv, DiceOK, DiceWritten, ReadDice
<1>2. /\ dice' = [dice EXCEPT !.index = @ + Len(r), !.data = t]
      /\ key' = key /\ log' = log /\ accepted' = accepted
      /\ dice.layer = 0 => leaked' = leaked \o r /\ returned' = returned
      /\ dice.layer # 0 => returned' = [returned EXCEPT !.dice = @ \o r] /\ leaked' = leaked
  BY DEF ReadDice
<1>3. dice.data \in Seq(Nat) /\ x \in Nat /\ Len(dice.data) \in Nat /\ x <= Len(dice.data)
  BY <1>1 DEF DiceRecord, DiceLayer0, DiceRead, LeakedOK, Begins
<1>4. /\ r \in Seq(Nat) /\ Len(r) \in Nat /\ x + Len(r) <= Len(dice.data)
      /\ \A i \in 1..Len(r) : r[i] = dice.data[x + i]
  BY <1>3, SliceProperties
<1>. HIDE DEF r
<1>5. /\ t \in Seq(Nat) /\ Len(t) = Len(dice.data)
      /\ \A i \in 1..Len(dice.data) :
            t[i] = IF i > x /\ i <= x + Len(r) THEN 0 ELSE dice.data[i]
  BY ZenonT(30), <1>3, <1>4, ReadAndZeroed
<1>. HIDE DEF t
<1>6. /\ dice'.kind = dice.kind /\ dice'.layer = dice.layer /\ dice' \in DiceRecord
      /\ dice'.index = x + Len(r) /\ dice'.data = t
  <2>1. /\ DOMAIN dice = {"kind", "layer", "data", "index"}
        /\ dice.kind \in {"Readable", "Writeable"} /\ dice.layer \in {0, 1}
    BY <1>1 DEF DiceRecord
  <2>2. dice' = [kind |-> dice.kind, layer |-> dice.layer, data |-> t, index |-> x + Len(r)]
    BY <1>1, <1>2, <2>1 DEF DiceRecord
  <2>3. x + Len(r) \in Nat
    BY <1>3, <1>4
  <2>. QED  BY <1>5, <2>1, <2>2, <2>3 DEF DiceRecord
<1>7. HistoryOK' /\ returned'.key = returned.key /\ returned'.log = returned.log
  BY <1>1, <1>2 DEF HistoryOK
<1>8. KeyOK' /\ LogOK'
  BY <1>1, <1>2, <1>7, KeyFrame, LogFrame
<1>9. CASE DiceLayer0
  <2>1. /\ dice.layer = 0 /\ Len(dice.data) = Layer0Len /\ x = Len(leaked)
        /\ \A i \in 1..Layer0Len : dice.data[i] = IF i <= x THEN 0 ELSE i
        /\ accepted.dice = << >> /\ returned.dice = << >>
    BY <1>9 DEF DiceLayer0
  <2>2. leaked' = leaked \o r /\ returned' = returned
    BY <1>2, <2>1
  <2>3. leaked \in Seq(Nat) /\ Len(leaked) <= Layer0Len /\ Len(leaked) \in Nat
    BY <1>1 DEF LeakedOK
  <2>. DEFINE c == [i \in 1..Layer0Len |-> i]
  <2>4. c \in Seq(Nat) /\ Len(c) = Layer0Len /\ \A i \in 1..Layer0Len : c[i] = i
    OBVIOUS
  <2>. HIDE DEF c
  <2>5. Begins(leaked, c)
    <3>1. \A i \in 1..Len(leaked) : i \in 1..Layer0Len /\ leaked[i] = i
      BY <1>1, <2>3 DEF LeakedOK
    <3>. QED  BY <2>3, <2>4, <3>1 DEF Begins
  <2>6. \A i \in 1..Len(r) : r[i] = c[Len(leaked) + i]
    <3>1. \A i \in 1..Len(r) : x + i \in 1..Layer0Len /\ ~(x + i <= x)
      BY SMTT(30), <1>3, <1>4, <2>1
    <3>. QED  BY <1>4, <2>1, <2>4, <3>1
  <2>7. Begins(leaked \o r, c) /\ Len(leaked \o r) = x + Len(r)
    <3>1. Len(leaked) + Len(r) <= Len(c)
      BY <1>4, <2>1, <2>4
    <3>. QED  BY <1>4, <2>1, <2>5, <2>6, <3>1, BeginsExtended
  <2>8. LeakedOK'
    <3>1. \A i \in 1..(x + Len(r)) : i \in 1..Layer0Len
      BY <1>3, <1>4, <2>1
    <3>. QED  BY <1>4, <2>1, <2>2, <2>4, <2>7, <3>1 DEF LeakedOK, Begins
  <2>9. \A i \in 1..Layer0Len : t[i] = IF i <= x + Len(r) THEN 0 ELSE i
    <3>1. ASSUME NEW i \in 1..Layer0Len PROVE t[i] = IF i <= x + Len(r) THEN 0 ELSE i
      <4>1. PICK m \in Nat : m = Len(r)
        BY <1>4
      <4>2. t[i] = IF i > x /\ i <= x + m THEN 0 ELSE IF i <= x THEN 0 ELSE i
        BY <1>5, <2>1, <4>1
      <4>3. ~(i > x) <=> i <= x
        BY <1>3
      <4>4. i <= x => i <= x + m
        BY <1>3
      <4>. QED  BY <4>1, <4>2, <4>3, <4>4
    <3>. QED  BY <3>1
  <2>10. DiceLayer0'
    BY <1>1, <1>2, <1>5, <1>6, <2>1, <2>2, <2>7, <2>9 DEF DiceLayer0
  <2>. QED  BY <1>1, <1>2, <1>6, <1>7, <1>8, <2>8, <2>10 DEF DescriptorsInv, DiceOK
<1>10. CASE DiceRead
  <2>1. /\ dice.layer = 1 /\ Len(dice.data) = Layer1Len /\ Len(accepted.dice) = Layer1Len
        /\ x = Len(returned.dice) /\ Begins(returned.dice, accepted.dice)
        /\ \A i \in 1..Layer1Len : dice.data[i] = IF i <= x THEN 0 ELSE accepted.dice[i]
    BY <1>10 DEF DiceRead
  <2>2. returned' = [returned EXCEPT !.dice = @ \o r] /\ leaked' = leaked
    BY <1>2, <2>1
  <2>3. returned'.dice = returned.dice \o r
    BY <1>1, <2>2 DEF HistoryOK
  <2>4. \A i \in 1..Len(r) : r[i] = accepted.dice[Len(returned.dice) + i]
    <3>1. \A i \in 1..Len(r) : x + i \in 1..Layer1Len /\ ~(x + i <= x)
      BY SMTT(30), <1>3, <1>4, <2>1
    <3>. QED  BY <1>4, <2>1, <3>1
  <2>5. Begins(returned'.dice, accepted.dice) /\ Len(returned'.dice) = x + Len(r)
    <3>1. Len(returned.dice) + Len(r) <= Len(accepted.dice)
      BY <1>4, <2>1
    <3>2. /\ Begins(returned.dice \o r, accepted.dice)
          /\ Len(returned.dice \o r) = Len(returned.dice) + Len(r)
      BY <1>4, <2>1, <2>4, <3>1, BeginsExtended
    <3>. QED  BY <2>1, <2>3, <3>2
  <2>6. \A i \in 1..Layer1Len : t[i] = IF i <= x + Len(r) THEN 0 ELSE accepted.dice[i]
    <3>1. ASSUME NEW i \in 1..Layer1Len
          PROVE  t[i] = IF i <= x + Len(r) THEN 0 ELSE accepted.dice[i]
      <4>1. PICK m \in Nat : m = Len(r)
        BY <1>4
      <4>2. t[i] = IF i > x /\ i <= x + m THEN 0 ELSE IF i <= x THEN 0 ELSE accepted.dice[i]
        BY <1>5, <2>1, <4>1
      <4>3. ~(i > x) <=> i <= x
        BY <1>3
      <4>4. i <= x => i <= x + m
        BY <1>3
      <4>. QED  BY <4>1, <4>2, <4>3, <4>4
    <3>. QED  BY <3>1
  <2>7. DiceRead'
    BY <1>1, <1>2, <1>5, <1>6, <2>1, <2>5, <2>6 DEF DiceRead, Begins
  <2>8. LeakedOK'
    BY <1>1, <2>2 DEF LeakedOK
  <2>. QED  BY <1>1, <1>2, <1>6, <1>7, <1>8, <2>7, <2>8 DEF DescriptorsInv, DiceOK
<1>. QED  BY <1>1, <1>9, <1>10

(* DiceDataDescriptor::write.                                              *)
LEMMA WriteDiceOK ==
    ASSUME DescriptorsInv, NEW buf \in Bufs, WriteDice(buf)
    PROVE  DescriptorsInv'
<1>. USE SizesAreNat
<1>. DEFINE d == DiceForWrite
            end == d.index + Len(buf)
            data == Filled(d.data, d.index, buf)
            Refused == d.kind = "Readable" \/ end > Layer1Len
<1>1. /\ HistoryOK /\ LeakedOK /\ KeyOK /\ LogOK /\ accepted.dice \in Seq(Bytes)
      /\ dice \in DiceRecord /\ (DiceLayer0 \/ DiceWritten \/ DiceRead)
  BY DEF DescriptorsInv, DiceOK
<1>2. /\ key' = key /\ log' = log /\ leaked' = leaked /\ returned' = returned
      /\ Refused => dice' = d /\ accepted' = accepted
      /\ ~Refused => /\ dice' = IF end = Layer1Len
                                 THEN [kind |-> "Readable", layer |-> 1, data |-> data, index |-> 0]
                                 ELSE [d EXCEPT !.data = data, !.index = end]
                     /\ accepted' = [accepted EXCEPT !.dice = @ \o buf]
  BY DEF WriteDice
<1>3. buf \in Seq(Bytes) /\ Len(buf) \in Nat
  BY BufIsSeq
<1>4. /\ HistoryOK' /\ accepted'.key = accepted.key /\ accepted'.log = accepted.log
      /\ ~Refused => accepted'.dice = accepted.dice \o buf
  <2>. HIDE DEF Refused
  <2>. QED  BY <1>1, <1>2 DEF HistoryOK
<1>5. KeyOK' /\ LogOK' /\ LeakedOK'
  BY <1>1, <1>2, <1>4, KeyFrame, LogFrame DEF LeakedOK
<1>6. CASE DiceRead
  <2>1. d = dice /\ d.kind = "Readable"
    BY <1>6 DEF DiceRead, DiceForWrite
  <2>2. dice' = dice /\ accepted' = accepted
    BY <1>2, <2>1
  <2>3. DiceOK'
    BY <1>1, <1>2, <2>2, DiceFrame DEF DescriptorsInv
  <2>. QED  BY <1>4, <1>5, <2>3 DEF DescriptorsInv
<1>7. CASE DiceLayer0 \/ DiceWritten
  <2>1. /\ d \in DiceRecord /\ d.kind = "Writeable" /\ d.layer = 1 /\ Len(d.data) = Layer1Len
        /\ d.index = Len(accepted.dice) /\ d.index <= Layer1Len
        /\ FilledTo(d.data, d.index, accepted.dice) /\ returned.dice = << >>
    <3>1. CASE DiceWritten
      <4>1. d = dice
        BY <3>1 DEF DiceWritten, DiceForWrite
      <4>. QED  BY <1>1, <3>1, <4>1 DEF DiceWritten
    <3>2. CASE DiceLayer0
      <4>1. PICK z \in Seq(Nat) : z = Zeroed(Layer1Len)
        BY ZeroedIsSeq
      <4>2. Len(z) = Layer1Len /\ \A i \in 1..Layer1Len : z[i] = 0
        BY <4>1, ZeroedIsSeq
      <4>3. d = [kind |-> "Writeable", layer |-> 1, data |-> z, index |-> 0]
        BY <3>2, <4>1 DEF DiceLayer0, DiceForWrite, Writeable
      <4>4. accepted.dice = << >> /\ returned.dice = << >>
        BY <3>2 DEF DiceLayer0
      <4>5. FilledTo(z, 0, << >>)
        <5>1. \A i \in 1..Layer1Len : ~(i <= 0)
          OBVIOUS
        <5>. QED  BY <4>2, <5>1 DEF FilledTo
      <4>. HIDE DEF d
      <4>6. d \in DiceRecord
        BY <4>3 DEF DiceRecord
      <4>. QED  BY <4>2, <4>3, <4>4, <4>5, <4>6
    <3>. QED  BY <1>7, <3>1, <3>2
  <2>2. d.data \in Seq(Nat) /\ d.index \in Nat
    BY <2>1 DEF DiceRecord
  <2>. HIDE DEF d
  <2>3. CASE Refused
    <3>1. dice' = d /\ accepted' = accepted
      BY <1>2, <2>3
    <3>2. DiceWritten' /\ dice' \in DiceRecord
      BY <1>2, <2>1, <3>1 DEF DiceWritten, FilledTo
    <3>3. DiceOK'
      BY <1>1, <3>1, <3>2 DEF DiceOK
    <3>. QED  BY <1>4, <1>5, <3>3 DEF DescriptorsInv
  <2>4. CASE ~Refused
    <3>1. end <= Layer1Len
      <4>1. ~(end > Layer1Len) /\ end \in Nat
        BY <1>3, <2>2, <2>4
      <4>. HIDE DEF end
      <4>. QED  BY <4>1
    <3>2. Len(accepted.dice) + Len(buf) <= Len(d.data)
      BY <2>1, <3>1
    <3>3. data = Filled(d.data, Len(accepted.dice), buf)
      BY <2>1
    <3>4. FilledTo(d.data, Len(accepted.dice), accepted.dice)
      BY <2>1
    <3>5. PICK a : a = accepted.dice \o buf
      OBVIOUS
    <3>6. /\ data \in Seq(Nat) /\ Len(data) = Len(d.data)
          /\ a \in Seq(Bytes) /\ Len(a) = Len(accepted.dice) + Len(buf)
          /\ FilledTo(data, Len(accepted.dice) + Len(buf), a)
      <4>. HIDE DEF data, end, Refused
      <4>1. PICK s \in Seq(Nat) : s = d.data
        BY <2>2
      <4>2. PICK b \in Seq(Bytes) : b = accepted.dice
        BY <1>1
      <4>3. FilledTo(s, Len(b), b) /\ Len(b) + Len(buf) <= Len(s) /\ buf \in Seq(Bytes)
        BY <1>3, <3>2, <3>4, <4>1, <4>2
      <4>4. /\ Filled(s, Len(b), buf) \in Seq(Nat) /\ Len(Filled(s, Len(b), buf)) = Len(s)
            /\ b \o buf \in Seq(Bytes) /\ Len(b \o buf) = Len(b) + Len(buf)
            /\ FilledTo(Filled(s, Len(b), buf), Len(b) + Len(buf), b \o buf)
        BY <4>3, FilledFurther
      <4>. QED  BY <3>3, <3>5, <4>1, <4>2, <4>4
    <3>7. accepted'.dice = a /\ Len(a) = end /\ end \in Nat
      BY <1>3, <1>4, <2>1, <2>2, <2>4, <3>5, <3>6
    <3>8. CASE end = Layer1Len
      <4>1. dice' = [kind |-> "Readable", layer |-> 1, data |-> data, index |-> 0]
        BY <1>2, <2>4, <3>8
      <4>. HIDE DEF data, end, Refused
      <4>2. /\ dice' \in DiceRecord /\ dice'.kind = "Readable" /\ dice'.layer = 1
            /\ dice'.data = data /\ dice'.index = 0
        BY <3>6, <4>1 DEF DiceRecord
      <4>3. Begins(<< >>, a)
        BY <3>6, BytesAreNat DEF Begins
      <4>4. \A i \in 1..Layer1Len : data[i] = IF i <= 0 THEN 0 ELSE a[i]
        <5>1. \A i \in 1..Layer1Len : i <= Layer1Len /\ ~(i <= 0)
          OBVIOUS
        <5>2. FilledTo(data, Layer1Len, a) /\ Len(data) = Layer1Len
          BY <2>1, <3>6, <3>7, <3>8
        <5>. QED  BY <5>1, <5>2 DEF FilledTo
      <4>5. DiceRead'
        BY <1>2, <2>1, <3>6, <3>7, <3>8, <4>2, <4>3, <4>4 DEF DiceRead, Begins
      <4>6. DiceOK'
        BY <3>6, <3>7, <4>2, <4>5 DEF DiceOK
      <4>. QED  BY <1>4, <1>5, <4>6 DEF DescriptorsInv
    <3>9. CASE end # Layer1Len
      <4>1. dice' = [d EXCEPT !.data = data, !.index = end]
        BY <1>2, <2>4, <3>9
      <4>. HIDE DEF data, end, Refused
      <4>2. /\ dice' \in DiceRecord /\ dice'.kind = "Writeable" /\ dice'.layer = 1
            /\ dice'.data = data /\ dice'.index = end
        BY <2>1, <3>6, <3>7, <4>1 DEF DiceRecord
      <4>3. FilledTo(data, end, a) /\ Len(data) = Layer1Len
        BY <2>1, <3>6, <3>7
      <4>4. DiceWritten'
        BY <1>2, <2>1, <3>1, <3>6, <3>7, <4>2, <4>3 DEF DiceWritten, FilledTo
      <4>5. DiceOK'
        BY <3>6, <3>7, <4>2, <4>4 DEF DiceOK
      <4>. QED  BY <1>4, <1>5, <4>5 DEF DescriptorsInv
    <3>. QED  BY <3>8, <3>9
  <2>. QED  BY <2>3, <2>4
<1>. QED  BY <1>1, <1>6, <1>7

(* DerivedKeyDescriptor::read.                                             *)
LEMMA ReadKeyOK ==
    ASSUME DescriptorsInv, NEW n \in 1..MaxBuf, ReadKey(n)
    PROVE  DescriptorsInv'
<1>. USE SizesAreNat
<1>. DEFINE r == Slice(key, n)
<1>1. /\ HistoryOK /\ LeakedOK /\ DiceOK /\ LogOK /\ KeyRead
      /\ key \in [kind : {"Readable", "Writeable"}, data : Seq(Nat), index : Nat]
      /\ accepted.key \in Seq(Bytes) /\ Len(key.data) = KeyBytes
  BY DEF DescriptorsInv, KeyOK, KeyWritten, ReadKey
<1>2. /\ key' = [key EXCEPT !.index = @ + Len(r)]
      /\ returned' = [returned EXCEPT !.key = @ \o r]
      /\ dice' = dice /\ log' = log /\ leaked' = leaked /\ accepted' = accepted
  BY DEF ReadKey
<1>3. /\ key.data \in Seq(Nat) /\ key.index \in Nat /\ key.data = accepted.key
      /\ key.index = Len(returned.key) /\ Begins(returned.key, accepted.key)
  BY <1>1 DEF KeyRead
<1>4. key.index <= Len(key.data)
  BY <1>3 DEF Begins
<1>5. /\ r \in Seq(Nat) /\ Len(r) \in Nat /\ key.index + Len(r) <= Len(key.data)
      /\ \A i \in 1..Len(r) : r[i] = key.data[key.index + i]
  <2>1. n \in Nat
    OBVIOUS
  <2>. QED  BY <1>3, <1>4, <2>1, SliceProperties
<1>. HIDE DEF r
<1>6. /\ HistoryOK' /\ returned'.key = returned.key \o r
      /\ returned'.dice = returned.dice /\ returned'.log = returned.log
  BY <1>1, <1>2 DEF HistoryOK
<1>7. Begins(returned'.key, accepted.key) /\ Len(returned'.key) = key.index + Len(r)
  <2>1. /\ Len(returned.key) + Len(r) <= Len(accepted.key)
        /\ \A i \in 1..Len(r) : r[i] = accepted.key[Len(returned.key) + i]
    BY <1>3, <1>5
  <2>2. /\ Begins(returned.key \o r, accepted.key)
        /\ Len(returned.key \o r) = Len(returned.key) + Len(r)
    BY <1>3, <1>5, <2>1, BeginsExtended
  <2>. QED  BY <1>3, <1>6, <2>2
<1>8. key' = [kind |-> key.kind, data |-> key.data, index |-> key.index + Len(r)]
  BY <1>1, <1>2
<1>9. /\ key' \in [kind : {"Readable", "Writeable"}, data : Seq(Nat), index : Nat]
      /\ key'.kind = "Readable" /\ key'.data = key.data /\ key'.index = key.index + Len(r)
  <2>1. key.kind = "Readable" /\ key.index + Len(r) \in Nat
    BY <1>1, <1>3, <1>5 DEF KeyRead
  <2>. QED  BY <1>3, <1>8, <2>1
<1>10. KeyOK'
  BY <1>1, <1>2, <1>3, <1>7, <1>9 DEF KeyOK, KeyRead, Begins
<1>11. DiceOK' /\ LeakedOK' /\ LogOK'
  BY <1>1, <1>2, <1>6, DiceFrame, LogFrame
<1>. QED  BY <1>6, <1>10, <1>11 DEF DescriptorsInv

(* DerivedKeyDescriptor::write.                                            *)
LEMMA WriteKeyOK ==
    ASSUME DescriptorsInv, NEW buf \in Bufs, WriteKey(buf)
    PROVE  DescriptorsInv'
<1>. USE SizesAreNat
<1>. DEFINE end == key.index + Len(buf)
            data == Filled(key.data, key.index, buf)
            Keys == [kind : {"Readable", "Writeable"}, data : Seq(Nat), index : Nat]
<1>1. /\ HistoryOK /\ LeakedOK /\ DiceOK /\ LogOK /\ KeyWritten
      /\ key \in Keys /\ accepted.key \in Seq(Bytes) /\ Len(key.data) = KeyBytes
  BY DEF DescriptorsInv, KeyOK, KeyRead, WriteKey
<1>2. /\ dice' = dice /\ log' = log /\ leaked' = leaked /\ returned' = returned
      /\ accepted' = [accepted EXCEPT !.key = @ \o buf] /\ end <= KeyBytes
      /\ key' = IF end = KeyBytes THEN [kind |-> "Readable", data |-> data, index |-> 0]
                ELSE [key EXCEPT !.data = data, !.index = end]
  BY DEF WriteKey
<1>3. buf \in Seq(Bytes) /\ Len(buf) \in Nat
  BY BufIsSeq
<1>4. PICK s \in Seq(Nat) : s = key.data
  BY <1>1
<1>5. PICK b \in Seq(Bytes) : b = accepted.key
  BY <1>1
<1>6. key.index = Len(b) /\ key.index \in Nat /\ FilledTo(s, Len(b), b) /\ returned.key = << >>
  BY <1>1, <1>4, <1>5 DEF KeyWritten
<1>7. PICK a : a = b \o buf
  OBVIOUS
<1>8. /\ data \in Seq(Nat) /\ Len(data) = KeyBytes
      /\ a \in Seq(Bytes) /\ Len(a) = end /\ end \in Nat /\ FilledTo(data, end, a)
  <2>1. Len(b) + Len(buf) <= Len(s)
    BY <1>1, <1>2, <1>4, <1>6
  <2>2. /\ Filled(s, Len(b), buf) \in Seq(Nat) /\ Len(Filled(s, Len(b), buf)) = Len(s)
        /\ b \o buf \in Seq(Bytes) /\ Len(b \o buf) = Len(b) + Len(buf)
        /\ FilledTo(Filled(s, Len(b), buf), Len(b) + Len(buf), b \o buf)
    BY <1>3, <1>6, <2>1, FilledFurther
  <2>3. end \in Nat
    BY <1>3, <1>6
  <2>. QED  BY <1>1, <1>4, <1>6, <1>7, <2>2, <2>3
<1>9. /\ HistoryOK' /\ accepted'.key = a
      /\ accepted'.dice = accepted.dice /\ accepted'.log = accepted.log
  BY <1>1, <1>2, <1>5, <1>7 DEF HistoryOK
<1>10. DiceOK' /\ LeakedOK' /\ LogOK'
  BY <1>1, <1>2, <1>9, DiceFrame, LogFrame
<1>11. CASE end = KeyBytes
  <2>1. key' = [kind |-> "Readable", data |-> data, index |-> 0]
    BY <1>2, <1>11
  <2>. HIDE DEF data, end
  <2>2. key' \in Keys /\ key'.kind = "Readable" /\ key'.data = data /\ key'.index = 0
    BY <1>8, <2>1
  <2>3. a \in Seq(Nat)
    BY <1>8, BytesAreNat
  <2>4. data = a
    <3>1. \A i \in 1..KeyBytes : i <= KeyBytes
      OBVIOUS
    <3>2. Len(data) = Len(a) /\ \A i \in 1..Len(data) : data[i] = a[i]
      BY <1>8, <1>11, <3>1 DEF FilledTo
    <3>. QED  BY <1>8, <2>3, <3>2, SeqEqual
  <2>5. Begins(<< >>, a)
    BY <2>3 DEF Begins
  <2>6. KeyOK'
    BY <1>2, <1>6, <1>8, <1>9, <2>2, <2>4, <2>5 DEF KeyOK, KeyRead, Begins
  <2>. QED  BY <1>9, <1>10, <2>6 DEF DescriptorsInv
<1>12. CASE end # KeyBytes
  <2>1. key' = [key EXCEPT !.data = data, !.index = end]
    BY <1>2, <1>12
  <2>. HIDE DEF data, end
  <2>2. key' \in Keys /\ key'.kind = "Writeable" /\ key'.data = data /\ key'.index = end
    BY <1>1, <1>8, <2>1 DEF KeyWritten
  <2>3. KeyOK'
    BY <1>2, <1>6, <1>8, <1>9, <2>2 DEF KeyOK, KeyWritten, FilledTo
  <2>. QED  BY <1>9, <1>10, <2>3 DEF DescriptorsInv
<1>. QED  BY <1>11, <1>12

(* EventLogDescriptor::read.                                               *)
LEMMA ReadLogOK ==
    ASSUME DescriptorsInv, NEW n \in 1..MaxBuf, ReadLog(n)
    PROVE  DescriptorsInv'
<1>. USE SizesAreNat
<1>. DEFINE l == IF log.state = "Writing" THEN [log EXCEPT !.state = "Reading", !.index = 0]
                 ELSE log
            base == IF log.state = "Writing" THEN << >> ELSE returned.log
            r == Slice(l, n)
            Logs == [state : {"Reading", "Writing"}, data : Seq(Nat), index : Nat]
<1>1. /\ HistoryOK /\ LeakedOK /\ DiceOK /\ KeyOK /\ log \in Logs
      /\ log.data = accepted.log /\ Len(log.data) <= MAX_EVENT_LOG_SIZE
      /\ log.state = "Reading" => log.index = Len(returned.log) /\ Begins(returned.log, log.data)
  BY DEF DescriptorsInv, LogOK
<1>2. /\ log' = [l EXCEPT !.index = @ + Len(r)]
      /\ returned' = [returned EXCEPT !.log = base \o r]
      /\ dice' = dice /\ key' = key /\ leaked' = leaked /\ accepted' = accepted
  BY DEF ReadLog
<1>3. /\ l \in Logs /\ l.state = "Reading" /\ l.data = log.data /\ l.index = Len(base)
      /\ Begins(base, l.data)
  <2>1. CASE log.state = "Writing"
    <3>1. l = [state |-> "Reading", data |-> log.data, index |-> 0] /\ base = << >>
      BY <1>1, <2>1
    <3>. HIDE DEF l, base
    <3>2. Begins(<< >>, log.data)
      BY <1>1 DEF Begins
    <3>. QED  BY <1>1, <3>1, <3>2
  <2>2. CASE log.state = "Reading"
    <3>1. l = log /\ base = returned.log
      BY <2>2
    <3>. HIDE DEF l, base
    <3>. QED  BY <1>1, <2>2, <3>1
  <2>. QED  BY <1>1, <2>1, <2>2
<1>. HIDE DEF l, base
<1>4. l.data \in Seq(Nat) /\ l.index \in Nat /\ l.index <= Len(l.data)
  BY <1>3 DEF Begins
<1>5. /\ r \in Seq(Nat) /\ Len(r) \in Nat /\ l.index + Len(r) <= Len(l.data)
      /\ \A i \in 1..Len(r) : r[i] = l.data[l.index + i]
  <2>1. n \in Nat
    OBVIOUS
  <2>. QED  BY <1>4, <2>1, SliceProperties
<1>. HIDE DEF r
<1>6. Begins(base \o r, l.data) /\ Len(base \o r) = l.index + Len(r)
  <2>1. PICK a : a = l.data
    OBVIOUS
  <2>2. PICK b : b = base
    OBVIOUS
  <2>3. /\ Begins(b, a) /\ Len(b) + Len(r) <= Len(a)
        /\ \A i \in 1..Len(r) : r[i] = a[Len(b) + i]
    BY <1>3, <1>5, <2>1, <2>2
  <2>4. Begins(b \o r, a) /\ Len(b \o r) = Len(b) + Len(r)
    BY <1>5, <2>3, BeginsExtended
  <2>. QED  BY <1>3, <2>1, <2>2, <2>4
<1>7. /\ HistoryOK' /\ returned'.log = base \o r
      /\ returned'.dice = returned.dice /\ returned'.key = returned.key
  BY <1>1, <1>2 DEF HistoryOK
<1>8. log' \in Logs /\ log'.data = l.data /\ log'.index = l.index + Len(r)
  <2>1. log' = [state |-> "Reading", data |-> l.data, index |-> l.index + Len(r)]
    BY <1>2, <1>3
  <2>2. l.index + Len(r) \in Nat
    BY <1>4, <1>5
  <2>. QED  BY <1>4, <2>1, <2>2
<1>9. LogOK'
  BY <1>1, <1>2, <1>3, <1>6, <1>7, <1>8 DEF LogOK, Begins
<1>10. DiceOK' /\ LeakedOK' /\ KeyOK'
  BY <1>1, <1>2, <1>7, DiceFrame, KeyFrame
<1>. QED  BY <1>7, <1>9, <1>10 DEF DescriptorsInv

(* EventLogDescriptor::write.                                              *)
LEMMA WriteLogOK ==
    ASSUME DescriptorsInv, NEW buf \in Bufs, WriteLog(buf)
    PROVE  DescriptorsInv'
<1>. USE SizesAreNat
<1>. DEFINE before == IF log.state = "Reading" THEN << >> ELSE log.data
            k == Least(Len(buf), MAX_EVENT_LOG_SIZE - Len(before))
            written == SubSeq(buf, 1, k)
            index == IF log.state = "Reading" THEN 0 ELSE log.index
            Logs == [state : {"Reading", "Writing"}, data : Seq(Nat), index : Nat]
<1>1. /\ HistoryOK /\ LeakedOK /\ DiceOK /\ KeyOK /\ log \in Logs
      /\ log.data = accepted.log /\ Len(log.data) <= MAX_EVENT_LOG_SIZE
  BY DEF DescriptorsInv, LogOK
<1>2. /\ log' = [state |-> "Writing", data |-> before \o written, index |-> index]
      /\ accepted' = [accepted EXCEPT !.log = before \o written]
      /\ dice' = dice /\ key' = key /\ leaked' = leaked /\ returned' = returned
  BY <1>1 DEF WriteLog
<1>3. buf \in Seq(Bytes) /\ buf \in Seq(Nat) /\ Len(buf) \in Nat
  BY BufIsSeq, BytesAreNat
<1>4. /\ before \in Seq(Nat) /\ Len(before) \in Nat /\ Len(before) <= MAX_EVENT_LOG_SIZE
      /\ index \in Nat
  BY <1>1
<1>. HIDE DEF before, index
<1>5. k \in Nat /\ k <= Len(buf) /\ Len(before) + k <= MAX_EVENT_LOG_SIZE
  BY <1>3, <1>4 DEF Least
<1>. HIDE DEF k
<1>6. written \in Seq(Nat) /\ Len(written) = k
  <2>1. \A i \in 1..k : buf[i] \in Nat
    BY <1>3, <1>5
  <2>2. written \in Seq(Nat) /\ Len(written) = (IF 1 <= k THEN k - 1 + 1 ELSE 0)
    BY <1>3, <1>5, <2>1, SubSeqProperties
  <2>. HIDE DEF written
  <2>. QED  BY <1>5, <2>2
<1>. HIDE DEF written
<1>7. before \o written \in Seq(Nat) /\ Len(before \o written) = Len(before) + k
  BY <1>4, <1>6, ConcatProperties
<1>8. /\ HistoryOK' /\ accepted'.log = before \o written
      /\ accepted'.dice = accepted.dice /\ accepted'.key = accepted.key
  BY <1>1, <1>2 DEF HistoryOK
<1>9. LogOK'
  BY <1>2, <1>4, <1>5, <1>7, <1>8 DEF LogOK
<1>10. DiceOK' /\ LeakedOK' /\ KeyOK'
  BY <1>1, <1>2, <1>8, DiceFrame, KeyFrame
<1>. QED  BY <1>8, <1>9, <1>10 DEF DescriptorsInv

-----------------------------------------------------------------------------
(* The invariant gives the property.                                       *)
LEMMA InvIsSound == DescriptorsInv => DescriptorsSound
<1>. SUFFICES ASSUME DescriptorsInv PROVE DescriptorsSound
  OBVIOUS
<1>. USE SizesAreNat
<1>1. /\ LeakedOK /\ DiceOK /\ KeyOK /\ LogOK
      /\ leaked \in Seq(Nat) /\ Len(leaked) \in Nat /\ Len(leaked) <= Layer0Len
      /\ \A j \in 1..Len(leaked) : leaked[j] = j /\ j \in 1..Layer0Len
  BY DEF DescriptorsInv, LeakedOK
<1>2. /\ dice.data \in Seq(Nat) /\ Len(dice.data) \in Nat /\ dice.index \in Nat
      /\ accepted.dice \in Seq(Bytes) /\ (DiceLayer0 \/ DiceWritten \/ DiceRead)
  BY <1>1 DEF DiceOK, DiceRecord
<1>3. \A b \in Bytes : b \in Nat /\ b > Layer0Len /\ b \notin 1..Layer0Len
  BY DescriptorsAssumption
<1>4. ~DiceLayer0 => \A i \in 1..Len(dice.data) : dice.data[i] \notin 1..Layer0Len
  <2>1. SUFFICES ASSUME DiceWritten \/ DiceRead, NEW i \in 1..Len(dice.data)
                 PROVE  dice.data[i] \notin 1..Layer0Len
    BY <1>2
  <2>2. i \in Nat /\ i >= 1 /\ i <= Len(dice.data) /\ 0 \notin 1..Layer0Len
    BY <1>2
  <2>3. CASE DiceWritten
    <3>1. dice.data[i] = IF i <= Len(accepted.dice) THEN accepted.dice[i] ELSE 0
      BY <2>3 DEF DiceWritten, FilledTo
    <3>2. i <= Len(accepted.dice) => accepted.dice[i] \in Bytes
      BY <1>2, <2>2
    <3>. QED  BY <1>3, <2>2, <3>1, <3>2
  <2>4. CASE DiceRead
    <3>1. /\ dice.data[i] = IF i <= dice.index THEN 0 ELSE accepted.dice[i]
          /\ Len(dice.data) = Len(accepted.dice)
      BY <2>4 DEF DiceRead
    <3>2. accepted.dice[i] \in Bytes
      BY <1>2, <2>2, <3>1
    <3>. QED  BY <1>3, <2>2, <3>1, <3>2
  <2>. QED  BY <2>1, <2>3, <2>4
<1>5. SecretsOnce
  <2>1. \A i, j \in 1..Len(leaked) : leaked[i] = leaked[j] => i = j
    BY <1>1
  <2>2. ASSUME NEW i \in 1..Len(dice.data), NEW j \in 1..Len(leaked)
        PROVE  dice.data[i] # leaked[j]
    <3>1. CASE DiceLayer0
      <4>1. /\ dice.data[i] = (IF i <= Len(leaked) THEN 0 ELSE i) /\ leaked[j] = j
            /\ j \in Nat /\ j >= 1 /\ j <= Len(leaked)
        BY <1>1, <3>1 DEF DiceLayer0
      <4>2. CASE i <= Len(leaked)
        BY <4>1, <4>2
      <4>3. CASE ~(i <= Len(leaked))
        <5>1. i # j
          BY <4>1, <4>3
        <5>. QED  BY <4>1, <4>3, <5>1
      <4>. QED  BY <4>2, <4>3
    <3>2. CASE ~DiceLayer0
      BY <1>1, <1>4, <3>2
    <3>. QED  BY <3>1, <3>2
  <2>3. accepted.dice # << >> => ~DiceLayer0
    BY DEF DiceLayer0
  <2>. QED  BY <1>4, <2>1, <2>2, <2>3 DEF SecretsOnce
<1>6. HandedOver
  <2>1. /\ returned.dice # << >> => Len(accepted.dice) = Layer1Len
        /\ Begins(returned.dice, accepted.dice)
    <3>1. Begins(<< >>, accepted.dice)
      BY <1>2, BytesAreNat DEF Begins
    <3>. QED  BY <1>2, <3>1 DEF DiceLayer0, DiceWritten, DiceRead
  <2>2. /\ returned.key # << >> => Len(accepted.key) = KeyBytes
        /\ Begins(returned.key, accepted.key)
    <3>1. Begins(<< >>, accepted.key)
      BY <1>1, BytesAreNat DEF Begins, KeyOK
    <3>. QED  BY <1>1, <3>1 DEF KeyOK, KeyWritten, KeyRead
  <2>3. /\ Len(log.data) <= MAX_EVENT_LOG_SIZE
        /\ log.state = "Reading" => Begins(returned.log, accepted.log)
    BY <1>1 DEF LogOK
  <2>. QED  BY <2>1, <2>2, <2>3, BeginsIsSubSeq DEF HandedOver
<1>. QED  BY <1>5, <1>6 DEF DescriptorsSound

(* DescriptorsSound, for every size of the layers, the key, the log and    *)
(* the buffers and any number of calls: a byte of stage 0's DICE data      *)
(* leaves the kernel at most once and none of it survives the first write, *)
(* and what an application reads through the descriptors is what its       *)
(* predecessor's accepted writes put there.                                *)
THEOREM HandsOver == DescriptorsSpec => []DescriptorsSound
<1>1. DescriptorsInv /\ [DescriptorsNext]_descriptorVars => DescriptorsInv'
  <2>. SUFFICES ASSUME DescriptorsInv, [DescriptorsNext]_descriptorVars PROVE DescriptorsInv'
    OBVIOUS
  <2>1. CASE \E n \in 1..MaxBuf : ReadDice(n) \/ ReadKey(n) \/ ReadLog(n)
    BY <2>1, ReadDiceOK, ReadKeyOK, ReadLogOK
  <2>2. CASE \E buf \in Bufs : WriteDice(buf) \/ WriteKey(buf) \/ WriteLog(buf)
    BY <2>2, WriteDiceOK, WriteKeyOK, WriteLogOK
  <2>3. CASE UNCHANGED descriptorVars
    <3>1. HistoryOK /\ LeakedOK /\ DiceOK /\ KeyOK /\ LogOK
      BY DEF DescriptorsInv
    <3>2. /\ dice' = dice /\ key' = key /\ log' = log /\ leaked' = leaked
          /\ accepted' = accepted /\ returned' = returned
      BY <2>3 DEF descriptorVars
    <3>. QED  BY <3>1, <3>2, DiceFrame, KeyFrame, LogFrame DEF DescriptorsInv, HistoryOK
  <2>. QED  BY <2>1, <2>2, <2>3 DEF DescriptorsNext
<1>. QED  BY <1>1, DescriptorsInitOK, InvIsSound, PTL DEF DescriptorsSpec

-----------------------------------------------------------------------------
(*                       Stage 0: the E820 table                           *)

(* An entry gives an address a type; a table does if one of its entries    *)
(* does.  A map is a table whose entries follow one another.               *)
Holds(e, a, y) == e.addr <= a /\ a < e.end /\ e.type = y
Has(t, a, y) == \E i \in DOMAIN t : Holds(t[i], a, y)
Ordered(t) == \A i, j \in DOMAIN t : i < j => t[i].end <= t[j].addr
EndsBy(t, b) == \A i \in DOMAIN t : t[i].end <= b
StartsFrom(t, b) == \A i \in DOMAIN t : b <= t[i].addr
IsMap(t) == t \in Seq(E820Entries) /\ Ordered(t)

(* What an entry is made of.                                               *)
LEMMA EntryFields ==
    ASSUME NEW e \in E820Entries
    PROVE  /\ e.addr \in Nat /\ e.end \in Nat /\ e.type \in E820Types /\ e.addr <= e.end
           /\ e = E820Entry(e.addr, e.end, e.type)
           /\ \A b : [e EXCEPT !.addr = b] = E820Entry(b, e.end, e.type)
           /\ \A b : [e EXCEPT !.end = b] = E820Entry(e.addr, b, e.type)
  BY DEF E820Entries, E820Entry

(* What makes an entry.                                                    *)
LEMMA EntryMade ==
    ASSUME NEW a \in Nat, NEW b \in Nat, a <= b, NEW y \in E820Types
    PROVE  /\ E820Entry(a, b, y) \in E820Entries
           /\ E820Entry(a, b, y).addr = a
           /\ E820Entry(a, b, y).end = b
           /\ E820Entry(a, b, y).type = y
  BY DEF E820Entries, E820Entry

(* The entries of a table are entries.                                     *)
LEMMA EntryOf ==
    ASSUME NEW t \in Seq(E820Entries), NEW i \in DOMAIN t
    PROVE  /\ t[i] \in E820Entries /\ i \in 1..Len(t) /\ i \in Nat
           /\ t[i].addr \in Nat /\ t[i].end \in Nat
           /\ t[i].type \in E820Types /\ t[i].addr <= t[i].end
<1>1. t[i] \in E820Entries /\ i \in 1..Len(t) /\ Len(t) \in Nat
  OBVIOUS
<1>. QED  BY <1>1, EntryFields

(* A map of one entry.                                                     *)
LEMMA OneEntry ==
    ASSUME NEW e \in E820Entries
    PROVE  /\ IsMap(<<e>>)
           /\ \A a, y : Has(<<e>>, a, y) <=> Holds(e, a, y)
           /\ \A b : EndsBy(<<e>>, b) <=> e.end <= b
           /\ \A b : StartsFrom(<<e>>, b) <=> b <= e.addr
<1>1. <<e>> \in Seq(E820Entries) /\ DOMAIN <<e>> = {1} /\ <<e>>[1] = e
  OBVIOUS
<1>. QED  BY <1>1 DEF IsMap, Ordered, Has, EndsBy, StartsFrom

(* A map of none.                                                          *)
LEMMA NoEntry ==
    /\ IsMap(<< >>)
    /\ \A a, y : ~Has(<< >>, a, y)
    /\ \A b : EndsBy(<< >>, b) /\ StartsFrom(<< >>, b)
  BY DEF IsMap, Ordered, Has, EndsBy, StartsFrom

(* One map after another.                                                  *)
LEMMA MapsJoined ==
    ASSUME NEW s, NEW t, IsMap(s), IsMap(t), NEW b \in Nat, EndsBy(s, b), StartsFrom(t, b)
    PROVE  /\ IsMap(s \o t)
           /\ \A a, y : Has(s \o t, a, y) <=> Has(s, a, y) \/ Has(t, a, y)
           /\ \A c : EndsBy(s \o t, c) <=> EndsBy(s, c) /\ EndsBy(t, c)
           /\ \A c : StartsFrom(s \o t, c) <=> StartsFrom(s, c) /\ StartsFrom(t, c)
<1>. DEFINE g == s \o t
<1>1. s \in Seq(E820Entries) /\ t \in Seq(E820Entries) /\ g \in Seq(E820Entries)
  BY DEF IsMap
<1>2. /\ Len(s) \in Nat /\ Len(t) \in Nat
      /\ DOMAIN s = 1..Len(s) /\ DOMAIN t = 1..Len(t) /\ DOMAIN g = 1..(Len(s) + Len(t))
      /\ \A i \in DOMAIN s : i \in DOMAIN g /\ g[i] = s[i]
      /\ \A i \in DOMAIN t : i + Len(s) \in DOMAIN g /\ g[i + Len(s)] = t[i]
      /\ \A i \in DOMAIN g : i \notin DOMAIN s => i - Len(s) \in DOMAIN t /\ g[i] = t[i - Len(s)]
  BY <1>1
<1>. HIDE DEF g
<1>3. \A a, y : Has(g, a, y) <=> Has(s, a, y) \/ Has(t, a, y)
  BY <1>2 DEF Has
<1>4. \A c : EndsBy(g, c) <=> EndsBy(s, c) /\ EndsBy(t, c)
  BY <1>2 DEF EndsBy
<1>5. \A c : StartsFrom(g, c) <=> StartsFrom(s, c) /\ StartsFrom(t, c)
  BY <1>2 DEF StartsFrom
<1>6. ASSUME NEW i \in DOMAIN g, NEW j \in DOMAIN g, i < j PROVE g[i].end <= g[j].addr
  <2>1. CASE i \in DOMAIN s /\ j \in DOMAIN s
    BY <1>2, <1>6, <2>1 DEF IsMap, Ordered
  <2>2. CASE i \in DOMAIN s /\ j \notin DOMAIN s
    <3>1. g[i].end <= b /\ b <= g[j].addr /\ g[i].end \in Nat /\ g[j].addr \in Nat
      BY <1>1, <1>2, <2>2, EntryOf DEF EndsBy, StartsFrom
    <3>. QED  BY <3>1
  <2>3. CASE i \notin DOMAIN s
    <3>1. j \notin DOMAIN s /\ i - Len(s) < j - Len(s)
      BY <1>2, <1>6, <2>3
    <3>. QED  BY <1>2, <2>3, <3>1 DEF IsMap, Ordered
  <2>. QED  BY <2>1, <2>2, <2>3
<1>. QED  BY <1>1, <1>3, <1>4, <1>5, <1>6 DEF IsMap, Ordered, g

(* A map taken apart.                                                      *)
LEMMA MapCut ==
    ASSUME NEW t, IsMap(t), NEW k \in 0..Len(t)
    PROVE  LET s == SubSeq(t, 1, k)
               r == SubSeq(t, k + 1, Len(t))
           IN  /\ IsMap(s) /\ Len(s) = k /\ \A i \in 1..k : s[i] = t[i]
               /\ IsMap(r)
               /\ Len(r) = Len(t) - k
               /\ \A i \in 1..Len(r) : r[i] = t[i + k]
               /\ \A a, y : Has(t, a, y) <=> Has(s, a, y) \/ Has(r, a, y)
<1>. DEFINE s == SubSeq(t, 1, k)
            r == SubSeq(t, k + 1, Len(t))
<1>1. t \in Seq(E820Entries) /\ Len(t) \in Nat /\ k \in Nat /\ k <= Len(t)
  BY DEF IsMap
<1>2. s \in Seq(E820Entries) /\ Len(s) = k /\ DOMAIN s = 1..k /\ \A i \in 1..k : s[i] = t[i]
  BY <1>1
<1>3. /\ r \in Seq(E820Entries) /\ Len(r) = Len(t) - k /\ DOMAIN r = 1..(Len(t) - k)
      /\ \A i \in 1..(Len(t) - k) : r[i] = t[i + k]
  BY <1>1
<1>. HIDE DEF s, r
<1>4. DOMAIN t = 1..Len(t)
  BY <1>1
<1>5. Ordered(s)
  BY <1>1, <1>2, <1>4 DEF IsMap, Ordered
<1>6. Ordered(r)
  <2>1. ASSUME NEW i \in DOMAIN r, NEW j \in DOMAIN r, i < j PROVE r[i].end <= r[j].addr
    <3>1. i + k \in DOMAIN t /\ j + k \in DOMAIN t /\ i + k < j + k
      BY <1>1, <1>3, <1>4, <2>1
    <3>. QED  BY <1>3, <3>1 DEF IsMap, Ordered
  <2>. QED  BY <2>1 DEF Ordered
<1>7. ASSUME NEW a, NEW y PROVE Has(t, a, y) <=> Has(s, a, y) \/ Has(r, a, y)
  <2>1. \A i \in DOMAIN t : i \in 1..k \/ (i - k \in DOMAIN r /\ r[i - k] = t[i])
    BY <1>1, <1>3, <1>4
  <2>2. \A i \in DOMAIN r : i + k \in DOMAIN t /\ r[i] = t[i + k]
    BY <1>1, <1>3, <1>4
  <2>3. \A i \in DOMAIN s : i \in DOMAIN t /\ s[i] = t[i]
    BY <1>1, <1>2, <1>4
  <2>. QED  BY <1>2, <2>1, <2>2, <2>3 DEF Has
<1>. QED  BY <1>2, <1>3, <1>5, <1>6, <1>7 DEF IsMap, s, r

-----------------------------------------------------------------------------
(* The course of the loop of insert_e820_entry: f[i] is the entry, and the *)
(* entries kept behind it, after i of those it was inserted before.        *)
Absorbs(entry, back, f, n) ==
    f = [i \in 0..n |-> IF i = 0 THEN [entry |-> entry, kept |-> << >>]
                        ELSE AbsorbNext(f[i - 1], back[i])]

(* The loop runs over any number of entries.                               *)
LEMMA AbsorbsExist ==
    ASSUME NEW entry, NEW back, NEW n \in Nat
    PROVE  \E f : Absorbs(entry, back, f, n)
<1>. DEFINE Bad == {m \in Nat : ~ \E f : Absorbs(entry, back, f, m)}
            first == [entry |-> entry, kept |-> << >>]
<1>. SUFFICES ASSUME Bad # {} PROVE FALSE
  OBVIOUS
<1>1. PICK m \in Bad : \A l \in Bad : m <= l
  <2>1. Bad \in SUBSET Nat
    OBVIOUS
  <2>. HIDE DEF Bad
  <2>. QED  BY <2>1, LeastNumber
<1>2. CASE m = 0
  <2>. DEFINE f == [i \in 0..0 |-> first]
  <2>1. \A i \in 0..0 : i = 0
    OBVIOUS
  <2>2. Absorbs(entry, back, f, 0)
    BY <2>1 DEF Absorbs
  <2>. QED  BY <1>2, <2>2
<1>3. CASE m # 0
  <2>1. m - 1 \in Nat /\ m - 1 \notin Bad
    BY <1>1, <1>3
  <2>2. PICK f : Absorbs(entry, back, f, m - 1)
    BY <2>1
  <2>. DEFINE last == AbsorbNext(f[m - 1], back[m])
              g == [i \in 0..m |-> IF i = m THEN last ELSE f[i]]
  <2>3. \A i \in 0..(m - 1) : f[i] = IF i = 0 THEN first ELSE AbsorbNext(f[i - 1], back[i])
    BY <2>2 DEF Absorbs
  <2>4. g[m] = last /\ \A i \in 0..(m - 1) : g[i] = f[i]
    OBVIOUS
  <2>5. g = [i \in 0..m |-> g[i]]
    OBVIOUS
  <2>. HIDE DEF g
  <2>6. ASSUME NEW i \in 0..m
        PROVE  g[i] = IF i = 0 THEN first ELSE AbsorbNext(g[i - 1], back[i])
    <3>1. CASE i = m
      <4>1. g[m - 1] = f[m - 1]
        BY <2>1, <2>4
      <4>. QED  BY <1>3, <2>4, <3>1, <4>1
    <3>2. CASE i # m
      <4>1. i \in 0..(m - 1) /\ (i # 0 => i - 1 \in 0..(m - 1))
        BY <3>2
      <4>2. g[i] = f[i] /\ (i # 0 => g[i - 1] = f[i - 1])
        BY <2>4, <4>1
      <4>. QED  BY <2>3, <4>1, <4>2
    <3>. QED  BY <3>1, <3>2
  <2>7. Absorbs(entry, back, g, m)
    BY <2>5, <2>6 DEF Absorbs
  <2>. QED  BY <2>7
<1>. QED  BY <1>2, <1>3

(* What holds after i entries: the entry has only grown, and either not at *)
(* all or up to the next of its type; what is kept lies behind it and is   *)
(* what the i entries had behind the end it came with.                     *)
Absorbed(entry, back, acc, i) ==
    /\ acc = [entry |-> acc.entry, kept |-> acc.kept]
    /\ acc.entry \in E820Entries /\ IsMap(acc.kept)
    /\ acc.entry.addr = entry.addr /\ acc.entry.type = entry.type /\ acc.entry.end >= entry.end
    /\ StartsFrom(acc.kept, acc.entry.end)
    /\ \A j \in (i + 1)..Len(back) :
          /\ EndsBy(acc.kept, back[j].addr)
          /\ acc.kept # << >> => acc.entry.end < back[j].addr
          /\ acc.entry.end = entry.end \/ acc.entry.end <= back[j].addr
    /\ \A a \in Nat, y \in E820Types : a >= entry.end =>
          (Holds(acc.entry, a, y) \/ Has(acc.kept, a, y) <=> \E j \in 1..i : Holds(back[j], a, y))

(* Nothing has been absorbed at first.                                     *)
LEMMA AbsorbedNone ==
    ASSUME NEW entry \in E820Entries, NEW back
    PROVE  Absorbed(entry, back, [entry |-> entry, kept |-> << >>], 0)
<1>. DEFINE acc == [entry |-> entry, kept |-> << >>]
<1>1. acc.entry = entry /\ acc.kept = << >>
  OBVIOUS
<1>2. entry.end \in Nat /\ entry.addr \in Nat /\ entry.end >= entry.end
  BY EntryFields
<1>3. \A a \in Nat : \A y : a >= entry.end => ~Holds(entry, a, y)
  BY <1>2 DEF Holds
<1>4. ~ \E j \in 1..0 : TRUE
  OBVIOUS
<1>. HIDE DEF acc
<1>5. acc = [entry |-> acc.entry, kept |-> acc.kept]
  BY <1>1 DEF acc
<1>. QED  BY <1>1, <1>2, <1>3, <1>4, <1>5, NoEntry DEF Absorbed

(* One entry more behind a map.                                            *)
LEMMA MapAppended ==
    ASSUME NEW t, IsMap(t), NEW e \in E820Entries, EndsBy(t, e.addr)
    PROVE  /\ IsMap(Append(t, e))
           /\ \A a, y : Has(Append(t, e), a, y) <=> Has(t, a, y) \/ Holds(e, a, y)
           /\ \A c : EndsBy(Append(t, e), c) <=> EndsBy(t, c) /\ e.end <= c
           /\ \A c : StartsFrom(Append(t, e), c) <=> StartsFrom(t, c) /\ c <= e.addr
<1>1. Append(t, e) = t \o <<e>>
  BY AppendIsConcat DEF IsMap
<1>2. IsMap(<<e>>) /\ e.addr \in Nat /\ StartsFrom(<<e>>, e.addr)
  BY OneEntry, EntryFields
<1>3. /\ IsMap(t \o <<e>>)
      /\ \A a, y : Has(t \o <<e>>, a, y) <=> Has(t, a, y) \/ Has(<<e>>, a, y)
      /\ \A c : EndsBy(t \o <<e>>, c) <=> EndsBy(t, c) /\ EndsBy(<<e>>, c)
      /\ \A c : StartsFrom(t \o <<e>>, c) <=> StartsFrom(t, c) /\ StartsFrom(<<e>>, c)
  BY <1>2, MapsJoined
<1>. QED  BY <1>1, <1>3, OneEntry

(* One round of the loop.                                                  *)
LEMMA AbsorbedMore ==
    ASSUME NEW entry \in E820Entries, NEW back, IsMap(back), StartsFrom(back, entry.addr),
           NEW i \in Nat, i < Len(back), NEW acc, Absorbed(entry, back, acc, i)
    PROVE  Absorbed(entry, back, AbsorbNext(acc, back[i + 1]), i + 1)
<1>. DEFINE next == back[i + 1]
            e == acc.entry
            kept == acc.kept
            new == AbsorbNext(acc, next)
            upTo(n, a, y) == \E j \in 1..n : Holds(back[j], a, y)
            rest == (i + 2)..Len(back)
<1>1. back \in Seq(E820Entries) /\ Len(back) \in Nat /\ DOMAIN back = 1..Len(back)
  BY DEF IsMap
<1>2. i + 1 \in DOMAIN back
  BY <1>1
<1>3. /\ next \in E820Entries /\ next.addr \in Nat /\ next.end \in Nat /\ next.addr <= next.end
      /\ entry.addr <= next.addr /\ next.type \in E820Types
  BY <1>1, <1>2, EntryOf DEF StartsFrom
<1>4. /\ e \in E820Entries /\ e.addr \in Nat /\ e.end \in Nat /\ e.addr <= e.end
      /\ e.addr = entry.addr /\ e.type = entry.type /\ e.end >= entry.end /\ entry.end \in Nat
      /\ e.type \in E820Types
      /\ IsMap(kept) /\ StartsFrom(kept, e.end)
      /\ acc = [entry |-> e, kept |-> kept]
  BY EntryFields DEF Absorbed
<1>5. \A j \in rest : /\ j \in (i + 1)..Len(back) /\ j \in DOMAIN back
                      /\ next.end <= back[j].addr /\ back[j].addr \in Nat
  BY <1>1, <1>2, EntryOf DEF IsMap, Ordered
<1>6. i + 1 \in (i + 1)..Len(back)
  BY <1>1
<1>7. /\ EndsBy(kept, next.addr)
      /\ kept # << >> => e.end < next.addr
      /\ e.end = entry.end \/ e.end <= next.addr
  BY <1>6 DEF Absorbed
<1>8. \A j \in rest : /\ EndsBy(kept, back[j].addr)
                      /\ kept # << >> => e.end < back[j].addr
                      /\ e.end = entry.end \/ e.end <= back[j].addr
  BY <1>5 DEF Absorbed
<1>9. \A a, y : upTo(i + 1, a, y) <=> upTo(i, a, y) \/ Holds(next, a, y)
  <2>1. \A j \in 1..(i + 1) : j \in 1..i \/ j = i + 1
    OBVIOUS
  <2>2. \A j \in 1..i : j \in 1..(i + 1)
    OBVIOUS
  <2>3. i + 1 \in 1..(i + 1)
    OBVIOUS
  <2>. QED  BY <2>1, <2>2, <2>3
<1>10. \A a \in Nat, y \in E820Types : a >= entry.end =>
          (Holds(e, a, y) \/ Has(kept, a, y) <=> upTo(i, a, y))
  BY DEF Absorbed
<1>. HIDE DEF upTo, e, kept
<1>11. \A s : s \in Seq(E820Entries) => \A x \in E820Entries : Append(s, x) # << >>
  OBVIOUS
<1>12. CASE e.end < next.addr
  <2>. DEFINE k == Append(kept, next)
  <2>1. new = [entry |-> e, kept |-> k]
    BY <1>4, <1>12 DEF AbsorbNext, e, kept
  <2>2. /\ IsMap(k) /\ StartsFrom(k, e.end)
        /\ \A a, y : Has(k, a, y) <=> Has(kept, a, y) \/ Holds(next, a, y)
        /\ \A c : EndsBy(k, c) <=> EndsBy(kept, c) /\ next.end <= c
    BY <1>3, <1>4, <1>7, <1>12, MapAppended
  <2>. HIDE DEF k
  <2>3. \A j \in rest : EndsBy(k, back[j].addr) /\ e.end < back[j].addr
    <3>. TAKE j \in rest
    <3>1. next.end <= back[j].addr /\ back[j].addr \in Nat /\ EndsBy(kept, back[j].addr)
      BY <1>5, <1>8
    <3>2. EndsBy(k, back[j].addr)
      BY <2>2, <3>1
    <3>. QED  BY <1>3, <1>4, <1>12, <3>1, <3>2
  <2>4. \A a \in Nat, y \in E820Types : a >= entry.end =>
            (Holds(e, a, y) \/ Has(k, a, y) <=> upTo(i + 1, a, y))
    BY <1>9, <1>10, <2>2
  <2>5. new.entry = e /\ new.kept = k
    BY <2>1
  <2>. HIDE DEF new
  <2>6. \A j \in ((i + 1) + 1)..Len(back) : j \in rest /\ back[j].addr \in Nat
    BY <1>1, <1>5
  <2>. QED  BY <1>4, <1>8, <2>1, <2>2, <2>3, <2>4, <2>5, <2>6 DEF Absorbed, upTo, new
<1>13. CASE e.end >= next.addr /\ e.end >= next.end
  <2>1. new = acc
    BY <1>3, <1>4, <1>13 DEF AbsorbNext, e, kept
  <2>2. \A a \in Nat, y \in E820Types : a >= entry.end => ~Holds(next, a, y)
    BY <1>3, <1>4, <1>7, <1>13 DEF Holds
  <2>3. \A a \in Nat, y \in E820Types : a >= entry.end =>
            (Holds(e, a, y) \/ Has(kept, a, y) <=> upTo(i + 1, a, y))
    BY <1>9, <1>10, <2>2
  <2>4. \A j \in ((i + 1) + 1)..Len(back) : j \in rest
    BY <1>1
  <2>. QED  BY <1>4, <1>8, <2>1, <2>3, <2>4 DEF Absorbed, upTo, e, kept
<1>14. CASE e.end >= next.addr /\ e.end < next.end /\ e.type = next.type
  <2>. DEFINE f == E820Entry(e.addr, next.end, e.type)
  <2>1. new = [entry |-> f, kept |-> kept]
    <3>1. new = [acc EXCEPT !.entry = [acc.entry EXCEPT !.end = next.end]]
      BY <1>3, <1>4, <1>14 DEF AbsorbNext, e, kept
    <3>2. [acc.entry EXCEPT !.end = next.end] = f
      BY <1>4, EntryFields DEF e
    <3>. QED  BY <1>4, <3>1, <3>2
  <2>2. f \in E820Entries /\ f.addr = e.addr /\ f.end = next.end /\ f.type = e.type
    BY <1>3, <1>4, <1>14, EntryMade
  <2>. HIDE DEF f
  <2>3. kept = << >>
    BY <1>3, <1>4, <1>7, <1>14
  <2>4. \A a \in Nat, y \in E820Types : Holds(f, a, y) <=> Holds(e, a, y) \/ Holds(next, a, y)
    BY <1>3, <1>4, <1>14, <2>2 DEF Holds
  <2>5. \A a \in Nat, y \in E820Types : a >= entry.end =>
            (Holds(f, a, y) \/ Has(kept, a, y) <=> upTo(i + 1, a, y))
    BY <1>9, <1>10, <2>4
  <2>6. new.entry = f /\ new.kept = kept
    BY <2>1
  <2>. HIDE DEF new
  <2>7. \A j \in ((i + 1) + 1)..Len(back) : j \in rest
    BY <1>1
  <2>8. f.addr = entry.addr /\ f.type = entry.type /\ f.end >= entry.end
    BY <1>3, <1>4, <1>14, <2>2
  <2>9. StartsFrom(kept, f.end)
    BY <2>3, NoEntry
  <2>. QED  BY <1>4, <1>5, <1>8, <2>1, <2>2, <2>3, <2>5, <2>6, <2>7, <2>8, <2>9
            DEF Absorbed, upTo, new
<1>15. CASE e.end >= next.addr /\ e.end < next.end /\ e.type # next.type
  <2>. DEFINE f == E820Entry(e.end, next.end, next.type)
              k == Append(kept, f)
  <2>1. new = [entry |-> e, kept |-> k]
    <3>1. new = [acc EXCEPT !.kept = Append(acc.kept, [next EXCEPT !.addr = acc.entry.end])]
      BY <1>3, <1>4, <1>15 DEF AbsorbNext, e, kept
    <3>2. [next EXCEPT !.addr = acc.entry.end] = f
      BY <1>3, EntryFields DEF e
    <3>. QED  BY <1>4, <3>1, <3>2
  <2>2. f \in E820Entries /\ f.addr = e.end /\ f.end = next.end /\ f.type = next.type
    BY <1>3, <1>4, <1>15, EntryMade
  <2>. HIDE DEF f
  <2>3. kept = << >>
    BY <1>3, <1>4, <1>7, <1>15
  <2>4. EndsBy(kept, f.addr)
    BY <2>3, NoEntry
  <2>5. /\ IsMap(k) /\ StartsFrom(k, e.end)
        /\ \A a, y : Has(k, a, y) <=> Has(kept, a, y) \/ Holds(f, a, y)
        /\ \A c : EndsBy(k, c) <=> EndsBy(kept, c) /\ f.end <= c
    BY <1>4, <2>2, <2>4, MapAppended
  <2>. HIDE DEF k
  <2>6. \A j \in rest : EndsBy(k, back[j].addr) /\ e.end < back[j].addr
    <3>. TAKE j \in rest
    <3>1. next.end <= back[j].addr /\ back[j].addr \in Nat /\ EndsBy(kept, back[j].addr)
      BY <1>5, <1>8
    <3>2. EndsBy(k, back[j].addr)
      BY <2>2, <2>5, <3>1
    <3>. QED  BY <1>3, <1>4, <1>15, <3>1, <3>2
  <2>7. e.end = entry.end \/ e.end = next.addr
    BY <1>3, <1>4, <1>7, <1>15
  <2>8. \A a \in Nat, y \in E820Types : a >= entry.end => (Holds(f, a, y) <=> Holds(next, a, y))
    BY <1>3, <1>4, <1>15, <2>2, <2>7 DEF Holds
  <2>9. \A a \in Nat, y \in E820Types : a >= entry.end =>
            (Holds(e, a, y) \/ Has(k, a, y) <=> upTo(i + 1, a, y))
    BY <1>9, <1>10, <2>5, <2>8
  <2>10. new.entry = e /\ new.kept = k
    BY <2>1
  <2>. HIDE DEF new
  <2>11. \A j \in ((i + 1) + 1)..Len(back) : j \in rest /\ back[j].addr \in Nat
    BY <1>1, <1>5
  <2>. QED  BY <1>4, <1>8, <2>1, <2>5, <2>6, <2>9, <2>10, <2>11 DEF Absorbed, upTo, new
<1>. QED  BY <1>3, <1>4, <1>12, <1>13, <1>14, <1>15

(* insert_e820_entry's loop leaves a map: what lies before the entry, the  *)
(* entry, and behind its end what was there.                               *)
LEMMA AbsorbIsMap ==
    ASSUME NEW front, IsMap(front), NEW entry \in E820Entries, EndsBy(front, entry.addr),
           NEW back, IsMap(back), StartsFrom(back, entry.addr)
    PROVE  /\ IsMap(Absorb(front, entry, back))
           /\ \A a \in Nat, y \in E820Types : Has(Absorb(front, entry, back), a, y) <=>
                 \/ Has(front, a, y)
                 \/ Holds(entry, a, y)
                 \/ a >= entry.end /\ Has(back, a, y)
<1>. DEFINE n == Len(back)
            f == CHOOSE f : Absorbs(entry, back, f, n)
<1>1. n \in Nat /\ DOMAIN back = 1..n
  BY DEF IsMap
<1>2. Absorb(front, entry, back) = front \o <<f[n].entry>> \o f[n].kept
  BY DEF Absorb, Absorbs
<1>3. Absorbs(entry, back, f, n)
  BY <1>1, AbsorbsExist
<1>. HIDE DEF f, n
<1>4. \A i \in 0..n : f[i] = IF i = 0 THEN [entry |-> entry, kept |-> << >>]
                             ELSE AbsorbNext(f[i - 1], back[i])
  BY <1>3 DEF Absorbs
<1>. DEFINE Bad == {i \in 0..n : ~Absorbed(entry, back, f[i], i)}
<1>5. Bad = {}
  <2>. SUFFICES ASSUME Bad # {} PROVE FALSE
    OBVIOUS
  <2>1. PICK m \in Bad : \A l \in Bad : m <= l
    <3>1. Bad \in SUBSET Nat
      BY <1>1
    <3>. HIDE DEF Bad
    <3>. QED  BY <3>1, LeastNumber
  <2>2. m # 0
    BY <1>1, <1>4, <2>1, AbsorbedNone
  <2>. DEFINE i == m - 1
  <2>3. i \in Nat /\ i < n /\ i \in 0..n /\ m = i + 1 /\ i \notin Bad
    BY <1>1, <2>1, <2>2
  <2>4. Absorbed(entry, back, f[i], i)
    BY <2>3
  <2>5. f[m] = AbsorbNext(f[i], back[m])
    BY <1>1, <1>4, <2>1, <2>2
  <2>. HIDE DEF i
  <2>6. Absorbed(entry, back, f[m], i + 1)
    BY <2>3, <2>4, <2>5, AbsorbedMore DEF n
  <2>7. ~Absorbed(entry, back, f[m], m)
    BY <2>1
  <2>. QED  BY <2>3, <2>6, <2>7
<1>. DEFINE e == f[n].entry
            kept == f[n].kept
<1>6. Absorbed(entry, back, f[n], n)
  BY <1>1, <1>5
<1>7. /\ e \in E820Entries /\ IsMap(kept) /\ StartsFrom(kept, e.end)
      /\ e.addr = entry.addr /\ e.type = entry.type /\ e.end >= entry.end
      /\ \A a \in Nat, y \in E820Types : a >= entry.end =>
            (Holds(e, a, y) \/ Has(kept, a, y) <=> Has(back, a, y))
  BY <1>1, <1>6 DEF Absorbed, Has
<1>. HIDE DEF e, kept
<1>8. /\ e.addr \in Nat /\ e.end \in Nat /\ e.addr <= e.end
      /\ entry.addr \in Nat /\ entry.end \in Nat /\ entry.addr <= entry.end
      /\ entry.type \in E820Types
  BY <1>7, EntryFields
<1>9. /\ IsMap(<<e>>) /\ EndsBy(<<e>>, e.end) /\ StartsFrom(<<e>>, e.addr)
      /\ \A a, y : Has(<<e>>, a, y) <=> Holds(e, a, y)
  BY <1>7, <1>8, OneEntry
<1>. DEFINE s == front \o <<e>>
<1>10. /\ IsMap(s)
       /\ \A a, y : Has(s, a, y) <=> Has(front, a, y) \/ Holds(e, a, y)
       /\ \A c : EndsBy(s, c) <=> EndsBy(front, c) /\ EndsBy(<<e>>, c)
  BY <1>7, <1>8, <1>9, MapsJoined
<1>. HIDE DEF s
<1>11. EndsBy(front, e.end)
  <2>1. \A i \in DOMAIN front : front[i].end <= entry.addr /\ front[i].end \in Nat
    BY EntryOf DEF EndsBy, IsMap
  <2>. QED  BY <1>7, <1>8, <2>1 DEF EndsBy
<1>12. /\ IsMap(s \o kept)
       /\ \A a, y : Has(s \o kept, a, y) <=> Has(s, a, y) \/ Has(kept, a, y)
  BY <1>7, <1>8, <1>9, <1>10, <1>11, MapsJoined
<1>13. ASSUME NEW a \in Nat, NEW y \in E820Types
       PROVE  Holds(e, a, y) \/ Has(kept, a, y) <=>
                 Holds(entry, a, y) \/ (a >= entry.end /\ Has(back, a, y))
  <2>1. CASE a >= entry.end
    BY <1>7, <1>8, <2>1 DEF Holds
  <2>2. CASE a < entry.end
    <3>1. Holds(e, a, y) <=> Holds(entry, a, y)
      BY <1>7, <1>8, <2>2 DEF Holds
    <3>2. ~Has(kept, a, y)
      <4>1. \A i \in DOMAIN kept : e.end <= kept[i].addr /\ kept[i].addr \in Nat
        BY <1>7, EntryOf DEF StartsFrom, IsMap
      <4>. QED  BY <1>7, <1>8, <2>2, <4>1 DEF Has, Holds
    <3>. QED  BY <1>8, <2>2, <3>1, <3>2
  <2>. QED  BY <1>8, <2>1, <2>2
<1>. QED  BY <1>2, <1>10, <1>12, <1>13 DEF s, e, kept

(* Where insert_e820_entry puts an entry: before the first that does not   *)
(* begin below it.                                                         *)
LEMMA PlaceFound ==
    ASSUME NEW t, IsMap(t), NEW entry \in E820Entries
    PROVE  LET i == PlaceOf(t, entry)
           IN  /\ i \in 1..(Len(t) + 1)
               /\ \A j \in 1..(i - 1) : t[j].addr < entry.addr
               /\ \A j \in i..Len(t) : entry.addr <= t[j].addr
<1>. DEFINE I == {j \in 1..Len(t) : entry.addr <= t[j].addr}
            i == PlaceOf(t, entry)
<1>1. /\ t \in Seq(E820Entries) /\ Len(t) \in Nat /\ DOMAIN t = 1..Len(t) /\ entry.addr \in Nat
      /\ \A j \in 1..Len(t) : t[j].addr \in Nat /\ t[j].end \in Nat /\ t[j].addr <= t[j].end
  BY EntryOf, EntryFields DEF IsMap
<1>2. i = IF (IF I # {} THEN Min(I) ELSE 0) = 0 THEN Len(t) + 1
          ELSE (IF I # {} THEN Min(I) ELSE 0)
  BY DEF PlaceOf, SelectInSeq
<1>3. CASE I = {}
  <2>1. i = Len(t) + 1
    BY <1>2, <1>3
  <2>2. \A j \in 1..Len(t) : t[j].addr < entry.addr
    BY <1>1, <1>3
  <2>. QED  BY <1>1, <2>1, <2>2
<1>4. CASE I # {}
  <2>1. I \in SUBSET Nat
    OBVIOUS
  <2>2. Min(I) \in I /\ \A k \in I : Min(I) <= k
    <3>. HIDE DEF I
    <3>. QED  BY <1>4, <2>1, MinIsLeast
  <2>3. i = Min(I) /\ i \in 1..Len(t) /\ entry.addr <= t[i].addr
    BY <1>2, <1>4, <2>2
  <2>. HIDE DEF i
  <2>4. \A j \in 1..(i - 1) : t[j].addr < entry.addr
    <3>. TAKE j \in 1..(i - 1)
    <3>1. j \in 1..Len(t) /\ ~(i <= j)
      BY <1>1, <2>3
    <3>2. j \notin I
      BY <2>2, <2>3, <3>1
    <3>. QED  BY <1>1, <3>1, <3>2
  <2>5. ASSUME NEW j \in i..Len(t) PROVE entry.addr <= t[j].addr
    <3>1. CASE j = i
      BY <2>3, <3>1
    <3>2. CASE j # i
      <4>1. i \in DOMAIN t /\ j \in DOMAIN t /\ i < j
        BY <1>1, <2>3, <2>5, <3>2
      <4>2. t[i].end <= t[j].addr
        BY <4>1 DEF IsMap, Ordered
      <4>. QED  BY <1>1, <2>3, <4>1, <4>2
    <3>. QED  BY <3>1, <3>2
  <2>. QED  BY <1>1, <2>3, <2>4, <2>5 DEF i
<1>. QED  BY <1>3, <1>4

(* The table that insert_e820_entry is meant to leave.                     *)
Inserted(t, entry, g) ==
    /\ IsMap(g)
    /\ \A a \in Nat, y \in E820Types :
          Has(g, a, y) <=> IF entry.addr <= a /\ a < entry.end THEN y = entry.type
                           ELSE Has(t, a, y)

(* And it does leave it, whatever the entry overlaps.                      *)
LEMMA InsertIsMap ==
    ASSUME NEW t, IsMap(t), NEW entry \in E820Entries
    PROVE  Inserted(t, entry, InsertE820Entry(t, entry))
<1>. DEFINE i == PlaceOf(t, entry)
            front == SubSeq(t, 1, i - 1)
            back == SubSeq(t, i, Len(t))
            prev == t[i - 1]
            g == InsertE820Entry(t, entry)
<1>1. /\ t \in Seq(E820Entries) /\ Len(t) \in Nat /\ DOMAIN t = 1..Len(t)
      /\ entry.addr \in Nat /\ entry.end \in Nat /\ entry.addr <= entry.end
      /\ entry.type \in E820Types
      /\ \A j \in 1..Len(t) : /\ t[j].addr \in Nat /\ t[j].end \in Nat /\ t[j].addr <= t[j].end
                              /\ t[j] \in E820Entries
  BY EntryOf, EntryFields DEF IsMap
<1>2. /\ i \in 1..(Len(t) + 1) /\ i \in Nat
      /\ \A j \in 1..(i - 1) : t[j].addr < entry.addr
      /\ \A j \in i..Len(t) : entry.addr <= t[j].addr
  <2>1. /\ i \in 1..(Len(t) + 1)
        /\ \A j \in 1..(i - 1) : t[j].addr < entry.addr
        /\ \A j \in i..Len(t) : entry.addr <= t[j].addr
    BY PlaceFound
  <2>. HIDE DEF i
  <2>. QED  BY <1>1, <2>1
<1>. HIDE DEF i
<1>. DEFINE k == i - 1
<1>3. k \in 0..Len(t) /\ k + 1 = i /\ k \in Nat
  BY <1>1, <1>2
<1>4. /\ IsMap(front) /\ Len(front) = k /\ \A j \in 1..k : front[j] = t[j]
      /\ IsMap(back)
      /\ Len(back) = Len(t) - k
      /\ \A j \in 1..Len(back) : back[j] = t[j + k]
      /\ \A a, y : Has(t, a, y) <=> Has(front, a, y) \/ Has(back, a, y)
  <2>. HIDE DEF k
  <2>1. front = SubSeq(t, 1, k) /\ back = SubSeq(t, k + 1, Len(t))
    BY <1>3 DEF k
  <2>. HIDE DEF front, back
  <2>. QED  BY <1>3, <2>1, MapCut
<1>5. \A j \in DOMAIN back : j \in 1..Len(back) /\ j + k \in i..Len(t) /\ j + k \in 1..Len(t)
  BY <1>1, <1>3, <1>4 DEF IsMap
<1>6. StartsFrom(back, entry.addr)
  BY <1>2, <1>4, <1>5 DEF StartsFrom
<1>7. DOMAIN front = 1..k
  BY <1>3, <1>4 DEF IsMap
<1>8. \A a \in Nat, y \in E820Types : Has(front, a, y) => k # 0 /\ a < t[k].end
  <2>. SUFFICES ASSUME NEW a \in Nat, NEW y \in E820Types, Has(front, a, y)
                PROVE  k # 0 /\ a < t[k].end
    OBVIOUS
  <2>1. PICK j \in 1..k : a < t[j].end
    BY <1>4, <1>7 DEF Has, Holds
  <2>2. CASE j = k
    BY <1>3, <2>1, <2>2
  <2>3. CASE j # k
    <3>1. j \in DOMAIN t /\ k \in DOMAIN t /\ j < k
      BY <1>1, <1>3, <2>3
    <3>2. t[j].end <= t[k].addr
      BY <3>1 DEF IsMap, Ordered
    <3>. QED  BY <1>1, <2>1, <3>1, <3>2
  <2>. QED  BY <2>2, <2>3
<1>9. \A a \in Nat, y \in E820Types : Has(back, a, y) =>
          /\ entry.addr <= a
          /\ k # 0 => t[k].end <= a
  <2>. SUFFICES ASSUME NEW a \in Nat, NEW y \in E820Types, Has(back, a, y)
                PROVE  entry.addr <= a /\ (k # 0 => t[k].end <= a)
    OBVIOUS
  <2>1. PICK j \in DOMAIN back : t[j + k].addr <= a
    BY <1>4, <1>5 DEF Has, Holds
  <2>2. entry.addr <= t[j + k].addr /\ t[j + k].addr \in Nat
    BY <1>1, <1>2, <1>5
  <2>3. ASSUME k # 0 PROVE t[k].end <= t[j + k].addr /\ t[k].end \in Nat
    <3>1. k \in DOMAIN t /\ j + k \in DOMAIN t /\ k < j + k
      BY <1>1, <1>3, <1>5, <2>3
    <3>. QED  BY <1>1, <3>1 DEF IsMap, Ordered
  <2>. QED  BY <1>1, <2>1, <2>2, <2>3
<1>10. CASE ~TouchesPrevious(t, entry)
  <2>1. g = Absorb(front, entry, back)
    BY <1>10 DEF InsertE820Entry, i
  <2>2. k # 0 => t[k].end < entry.addr
    BY <1>1, <1>2, <1>3, <1>10 DEF TouchesPrevious, i
  <2>3. EndsBy(front, entry.addr)
    <3>1. ASSUME NEW j \in 1..k PROVE t[j].end <= entry.addr
      <4>1. CASE j = k
        BY <1>1, <1>3, <2>2, <4>1
      <4>2. CASE j # k
        <5>1. j \in DOMAIN t /\ k \in DOMAIN t /\ j < k /\ k # 0
          BY <1>1, <1>3, <4>2
        <5>2. t[j].end <= t[k].addr
          BY <5>1 DEF IsMap, Ordered
        <5>. QED  BY <1>1, <2>2, <5>1, <5>2
      <4>. QED  BY <4>1, <4>2
    <3>. QED  BY <1>4, <1>7, <3>1 DEF EndsBy
  <2>. HIDE DEF front, back, g, k
  <2>4. /\ IsMap(g)
        /\ \A a \in Nat, y \in E820Types : Has(g, a, y) <=>
              Has(front, a, y) \/ Holds(entry, a, y) \/ (a >= entry.end /\ Has(back, a, y))
    BY <1>4, <1>6, <2>1, <2>3, AbsorbIsMap
  <2>5. \A a \in Nat, y \in E820Types : Has(front, a, y) => a < entry.addr
    <3>. SUFFICES ASSUME NEW a \in Nat, NEW y \in E820Types, Has(front, a, y) PROVE a < entry.addr
      OBVIOUS
    <3>1. k # 0 /\ a < t[k].end
      BY <1>8
    <3>2. t[k].end \in Nat
      BY <1>1, <1>3, <3>1
    <3>. QED  BY <1>1, <2>2, <3>1, <3>2
  <2>6. ASSUME NEW a \in Nat, NEW y \in E820Types
        PROVE  Has(g, a, y) <=> IF entry.addr <= a /\ a < entry.end THEN y = entry.type
                                ELSE Has(t, a, y)
    <3>1. Has(g, a, y) <=>
              Has(front, a, y) \/ Holds(entry, a, y) \/ (a >= entry.end /\ Has(back, a, y))
      BY <2>4
    <3>2. Has(t, a, y) <=> Has(front, a, y) \/ Has(back, a, y)
      BY <1>4
    <3>3. (Has(front, a, y) => a < entry.addr) /\ (Has(back, a, y) => entry.addr <= a)
      BY <1>9, <2>5
    <3>. QED  BY <1>1, <3>1, <3>2, <3>3 DEF Holds
  <2>. QED  BY <2>4, <2>6 DEF Inserted, g
<1>11. CASE TouchesPrevious(t, entry)
  <2>. DEFINE before == SubSeq(t, 1, k - 1)
  <2>1. i > 1 /\ prev.end >= entry.addr /\ k # 0 /\ k - 1 \in 0..Len(t) /\ k \in 1..Len(t)
    BY <1>1, <1>2, <1>3, <1>11 DEF TouchesPrevious, i
  <2>2. /\ prev.addr \in Nat /\ prev.end \in Nat /\ prev.addr <= prev.end
        /\ prev \in E820Entries /\ prev.type \in E820Types /\ prev.addr < entry.addr
    <3>1. prev = t[k] /\ k \in 1..Len(t) /\ k \in 1..(i - 1)
      BY <1>3, <2>1
    <3>2. t[k] \in E820Entries /\ t[k].addr < entry.addr
      BY <1>1, <1>2, <3>1
    <3>. HIDE DEF prev, k
    <3>. QED  BY <3>1, <3>2, EntryFields
  <2>3. Last(front) = prev /\ Front(front) = before
    <3>1. Last(front) = prev
      BY <1>3, <1>4, <2>1 DEF Last
    <3>2. /\ Front(front) \in Seq(E820Entries) /\ before \in Seq(E820Entries)
          /\ Len(Front(front)) = k - 1 /\ Len(before) = k - 1
          /\ \A j \in 1..(k - 1) : Front(front)[j] = t[j] /\ before[j] = t[j]
      <4>1. /\ front \in Seq(E820Entries) /\ Len(front) = k /\ \A j \in 1..k : front[j] = t[j]
            /\ k \in Nat /\ k <= Len(t)
        BY <1>3, <1>4 DEF IsMap
      <4>. HIDE DEF front, k
      <4>. QED  BY <1>1, <2>1, <4>1 DEF Front
    <3>3. Front(front) = before
      BY <3>2, SeqEqual
    <3>. QED  BY <3>1, <3>3
  <2>4. /\ IsMap(before)
        /\ \A a, y : Has(front, a, y) <=> Has(before, a, y) \/ Holds(prev, a, y)
        /\ EndsBy(before, prev.addr)
    <3>1. front = Append(before, prev)
      <4>1. front \in Seq(E820Entries) /\ front # << >>
        BY <1>3, <1>4, <2>1 DEF IsMap
      <4>2. front = Append(Front(front), Last(front))
        <5>. HIDE DEF front
        <5>. QED  BY <4>1 DEF Front, Last
      <4>. QED  BY <2>3, <4>2
    <3>2. IsMap(before) /\ Len(before) = k - 1 /\ \A j \in 1..(k - 1) : before[j] = t[j]
      <4>. DEFINE h == k - 1
      <4>1. h \in 0..Len(t)
        BY <2>1
      <4>. HIDE DEF h
      <4>2. IsMap(SubSeq(t, 1, h)) /\ Len(SubSeq(t, 1, h)) = h
            /\ \A j \in 1..h : SubSeq(t, 1, h)[j] = t[j]
        BY <4>1, MapCut
      <4>. QED  BY <4>2 DEF h
    <3>3. EndsBy(before, prev.addr)
      <4>1. DOMAIN before = 1..(k - 1)
        BY <1>3, <2>1, <3>2 DEF IsMap
      <4>2. \A j \in 1..(k - 1) : j \in DOMAIN t /\ k \in DOMAIN t /\ j < k
        BY <1>1, <1>3, <2>1
      <4>. QED  BY <3>2, <4>1, <4>2 DEF EndsBy, IsMap, Ordered
    <3>. HIDE DEF before, front, prev
    <3>. QED  BY <2>2, <3>1, <3>2, <3>3, MapAppended
  <2>5. \A a \in Nat, y \in E820Types : Has(before, a, y) => a < prev.addr
    <3>1. \A j \in DOMAIN before : before[j].end <= prev.addr /\ before[j].end \in Nat
      BY <2>4, EntryOf DEF EndsBy, IsMap
    <3>. SUFFICES ASSUME NEW a \in Nat, NEW y \in E820Types, Has(before, a, y)
                  PROVE  a < prev.addr
      OBVIOUS
    <3>2. PICK j \in DOMAIN before : a < before[j].end
      BY DEF Has, Holds
    <3>. HIDE DEF before, prev
    <3>. QED  BY <2>2, <3>1, <3>2
  <2>6. \A a \in Nat, y \in E820Types : Has(back, a, y) => entry.addr <= a /\ prev.end <= a
    BY <1>9, <2>1
  <2>7. StartsFrom(back, prev.addr) /\ StartsFrom(back, prev.end)
    <3>1. \A j \in DOMAIN back : /\ back[j].addr \in Nat /\ prev.end <= back[j].addr
      <4>1. \A j \in DOMAIN back : k \in DOMAIN t /\ j + k \in DOMAIN t /\ k < j + k
        BY <1>1, <1>3, <1>5, <2>1
      <4>2. \A j \in DOMAIN back : t[j + k].addr \in Nat /\ t[k].end <= t[j + k].addr
        BY <1>1, <4>1 DEF IsMap, Ordered
      <4>. QED  BY <1>4, <1>5, <4>2
    <3>. HIDE DEF back, prev
    <3>2. \A j \in DOMAIN back : prev.addr <= back[j].addr
      BY <2>2, <3>1
    <3>. QED  BY <3>1, <3>2 DEF StartsFrom
  <2>8. \A a, y : Has(t, a, y) <=> Has(before, a, y) \/ Holds(prev, a, y) \/ Has(back, a, y)
    BY <1>4, <2>4
  <2>9. CASE prev.type = entry.type
    <3>. DEFINE m == IF prev.end >= entry.end THEN prev.end ELSE entry.end
                e == E820Entry(prev.addr, m, prev.type)
    <3>1. Max({prev.end, entry.end}) = m
      BY <1>1, <2>2 DEF Max
    <3>2. g = Absorb(before, e, back)
      <4>1. g = Absorb(Front(front), [prev EXCEPT !.end = Max({prev.end, entry.end})], back)
        BY <1>11, <2>3, <2>9 DEF InsertE820Entry, i
      <4>2. [prev EXCEPT !.end = m] = e
        <5>. HIDE DEF m, prev
        <5>. QED  BY <2>2, EntryFields
      <4>. QED  BY <2>3, <3>1, <4>1, <4>2
    <3>3. m \in Nat /\ prev.addr <= m /\ m >= prev.end /\ m >= entry.end
      BY <1>1, <2>2
    <3>4. e \in E820Entries /\ e.addr = prev.addr /\ e.end = m /\ e.type = prev.type
      <4>. HIDE DEF m
      <4>. QED  BY <2>2, <3>3, EntryMade
    <3>. HIDE DEF e, before, back, g, front, prev
    <3>5. /\ IsMap(g)
          /\ \A a \in Nat, y \in E820Types : Has(g, a, y) <=>
                Has(before, a, y) \/ Holds(e, a, y) \/ (a >= e.end /\ Has(back, a, y))
      BY <1>4, <2>4, <2>7, <3>2, <3>4, AbsorbIsMap
    <3>6. ASSUME NEW a \in Nat, NEW y \in E820Types
          PROVE  Has(g, a, y) <=> IF entry.addr <= a /\ a < entry.end THEN y = entry.type
                                  ELSE Has(t, a, y)
      <4>1. Has(g, a, y) <=>
                Has(before, a, y) \/ Holds(e, a, y) \/ (a >= m /\ Has(back, a, y))
        BY <3>4, <3>5
      <4>2. Has(t, a, y) <=> Has(before, a, y) \/ Holds(prev, a, y) \/ Has(back, a, y)
        BY <2>8
      <4>3. /\ Has(before, a, y) => a < prev.addr
            /\ Has(back, a, y) => entry.addr <= a /\ prev.end <= a
        BY <2>5, <2>6
      <4>. QED  BY <1>1, <2>1, <2>2, <2>9, <3>4, <4>1, <4>2, <4>3 DEF Holds
    <3>. QED  BY <3>5, <3>6 DEF Inserted, g
  <2>10. CASE prev.type # entry.type
    <3>. DEFINE cut == E820Entry(prev.addr, entry.addr, prev.type)
                tail == E820Entry(entry.end, prev.end, prev.type)
                rest == IF prev.end > entry.end THEN <<tail>> ELSE << >>
                before2 == Append(before, cut)
                back2 == rest \o back
    <3>1. g = Absorb(before2, entry, back2)
      <4>1. g = Absorb(Append(Front(front), [prev EXCEPT !.end = entry.addr]), entry, back2)
        BY <1>11, <2>3, <2>10 DEF InsertE820Entry, i
      <4>2. [prev EXCEPT !.end = entry.addr] = cut
        <5>. HIDE DEF prev
        <5>. QED  BY <2>2, EntryFields
      <4>. QED  BY <2>3, <4>1, <4>2
    <3>2. /\ cut \in E820Entries /\ cut.addr = prev.addr
          /\ cut.end = entry.addr /\ cut.type = prev.type
      <4>. HIDE DEF prev
      <4>. QED  BY <1>1, <2>2, EntryMade
    <3>. HIDE DEF cut, before, back, g, front, prev
    <3>3. /\ IsMap(before2)
          /\ \A a, y : Has(before2, a, y) <=> Has(before, a, y) \/ Holds(cut, a, y)
          /\ EndsBy(before2, entry.addr)
      <4>1. EndsBy(before, entry.addr)
        <5>1. \A j \in DOMAIN before : before[j].end <= prev.addr /\ before[j].end \in Nat
          BY <2>4, EntryOf DEF EndsBy, IsMap
        <5>. QED  BY <1>1, <2>2, <5>1 DEF EndsBy
      <4>2. entry.addr <= entry.addr
        BY <1>1
      <4>. QED  BY <2>4, <3>2, <4>1, <4>2, MapAppended
    <3>4. /\ IsMap(rest) /\ EndsBy(rest, prev.end) /\ StartsFrom(rest, entry.addr)
          /\ \A a \in Nat, y \in E820Types :
                Has(rest, a, y) <=> entry.end <= a /\ a < prev.end /\ prev.type = y
      <4>1. CASE prev.end > entry.end
        <5>1. /\ tail \in E820Entries /\ tail.addr = entry.end
              /\ tail.end = prev.end /\ tail.type = prev.type
          BY <1>1, <2>2, <4>1, EntryMade
        <5>2. rest = <<tail>>
          BY <4>1
        <5>. HIDE DEF tail, rest
        <5>3. prev.end <= prev.end
          BY <2>2
        <5>. QED  BY <1>1, <2>2, <5>1, <5>2, <5>3, OneEntry DEF Holds
      <4>2. CASE ~(prev.end > entry.end)
        <5>1. rest = << >>
          BY <4>2
        <5>. HIDE DEF rest
        <5>2. \A a \in Nat : ~(entry.end <= a /\ a < prev.end)
          BY <1>1, <2>2, <4>2
        <5>. QED  BY <5>1, <5>2, NoEntry
      <4>. QED  BY <4>1, <4>2
    <3>. HIDE DEF rest
    <3>5. /\ IsMap(back2) /\ StartsFrom(back2, entry.addr)
          /\ \A a, y : Has(back2, a, y) <=> Has(rest, a, y) \/ Has(back, a, y)
      BY <1>4, <1>6, <2>2, <2>7, <3>4, MapsJoined
    <3>. HIDE DEF back2, before2
    <3>6. /\ IsMap(g)
          /\ \A a \in Nat, y \in E820Types : Has(g, a, y) <=>
                Has(before2, a, y) \/ Holds(entry, a, y) \/ (a >= entry.end /\ Has(back2, a, y))
      BY <3>1, <3>3, <3>5, AbsorbIsMap
    <3>7. ASSUME NEW a \in Nat, NEW y \in E820Types
          PROVE  Has(g, a, y) <=> IF entry.addr <= a /\ a < entry.end THEN y = entry.type
                                  ELSE Has(t, a, y)
      <4>1. Has(g, a, y) <=>
                \/ Has(before, a, y) \/ Holds(cut, a, y) \/ Holds(entry, a, y)
                \/ a >= entry.end /\ (\/ entry.end <= a /\ a < prev.end /\ prev.type = y
                                      \/ Has(back, a, y))
        BY <3>3, <3>4, <3>5, <3>6
      <4>2. Has(t, a, y) <=> Has(before, a, y) \/ Holds(prev, a, y) \/ Has(back, a, y)
        BY <2>8
      <4>3. /\ Has(before, a, y) => a < prev.addr
            /\ Has(back, a, y) => entry.addr <= a /\ prev.end <= a
        BY <2>5, <2>6
      <4>. QED  BY <1>1, <2>1, <2>2, <2>10, <3>2, <4>1, <4>2, <4>3 DEF Holds
    <3>. QED  BY <3>6, <3>7 DEF Inserted, g
  <2>. QED  BY <2>9, <2>10
<1>. QED  BY <1>10, <1>11

(* validate_e820_table looks at neighbours only; that orders them all.     *)
LEMMA SortedIsOrdered ==
    ASSUME NEW t \in Seq(E820Entries)
    PROVE  Sorted(t) <=> Ordered(t)
<1>1. Len(t) \in Nat /\ DOMAIN t = 1..Len(t)
  OBVIOUS
<1>2. \A i \in 1..Len(t) : t[i].addr \in Nat /\ t[i].end \in Nat /\ t[i].addr <= t[i].end
  BY <1>1, EntryOf
<1>3. ASSUME Ordered(t) PROVE Sorted(t)
  <2>1. \A i \in 1..(Len(t) - 1) : i \in DOMAIN t /\ i + 1 \in DOMAIN t /\ i < i + 1
    BY <1>1
  <2>. QED  BY <1>3, <2>1 DEF Sorted, Ordered
<1>4. ASSUME Sorted(t) PROVE Ordered(t)
  <2>. DEFINE Bad == {j \in 1..Len(t) : \E i \in 1..Len(t) : i < j /\ ~(t[i].end <= t[j].addr)}
  <2>1. Bad = {}
    <3>. SUFFICES ASSUME Bad # {} PROVE FALSE
      OBVIOUS
    <3>1. PICK j \in Bad : \A l \in Bad : j <= l
      <4>1. Bad \in SUBSET Nat
        BY <1>1
      <4>. HIDE DEF Bad
      <4>. QED  BY <4>1, LeastNumber
    <3>2. PICK i \in 1..Len(t) : i < j /\ ~(t[i].end <= t[j].addr)
      BY <3>1
    <3>3. j - 1 \in 1..(Len(t) - 1) /\ (j - 1) + 1 = j /\ j \in 1..Len(t) /\ j - 1 \in 1..Len(t)
      BY <1>1, <3>1, <3>2
    <3>4. t[j - 1].end <= t[j].addr
      BY <1>4, <3>3 DEF Sorted
    <3>5. i # j - 1 /\ i < j - 1
      BY <1>1, <3>2, <3>3, <3>4
    <3>6. j - 1 \notin Bad
      BY <1>1, <3>1, <3>3
    <3>7. t[i].end <= t[j - 1].addr
      BY <3>3, <3>5, <3>6
    <3>8. /\ t[i].end \in Nat /\ t[j].addr \in Nat
          /\ t[j - 1].addr \in Nat /\ t[j - 1].end \in Nat /\ t[j - 1].addr <= t[j - 1].end
      BY <1>2, <3>3
    <3>. QED  BY <3>2, <3>4, <3>7, <3>8
  <2>. QED  BY <1>1, <2>1 DEF Ordered
<1>. QED  BY <1>3, <1>4

-----------------------------------------------------------------------------
(* The loop of ensure_e820_gap over a table that it splits no entry of.    *)
Trims(t, start, end, f, n) ==
    f = [i \in 0..n |-> IF i = 0 THEN << >> ELSE f[i - 1] \o Trimmed(t[i], start, end)]

(* The loop runs over any number of entries.                               *)
LEMMA TrimsExist ==
    ASSUME NEW t, NEW start, NEW end, NEW n \in Nat
    PROVE  \E f : Trims(t, start, end, f, n)
<1>. DEFINE Bad == {m \in Nat : ~ \E f : Trims(t, start, end, f, m)}
<1>. SUFFICES ASSUME Bad # {} PROVE FALSE
  OBVIOUS
<1>1. PICK m \in Bad : \A l \in Bad : m <= l
  <2>1. Bad \in SUBSET Nat
    OBVIOUS
  <2>. HIDE DEF Bad
  <2>. QED  BY <2>1, LeastNumber
<1>2. CASE m = 0
  <2>. DEFINE f == [i \in 0..0 |-> << >>]
  <2>1. \A i \in 0..0 : i = 0
    OBVIOUS
  <2>2. Trims(t, start, end, f, 0)
    BY <2>1 DEF Trims
  <2>. QED  BY <1>2, <2>2
<1>3. CASE m # 0
  <2>1. m - 1 \in Nat /\ m - 1 \notin Bad
    BY <1>1, <1>3
  <2>2. PICK f : Trims(t, start, end, f, m - 1)
    BY <2>1
  <2>. DEFINE last == f[m - 1] \o Trimmed(t[m], start, end)
              g == [i \in 0..m |-> IF i = m THEN last ELSE f[i]]
  <2>3. \A i \in 0..(m - 1) :
            f[i] = IF i = 0 THEN << >> ELSE f[i - 1] \o Trimmed(t[i], start, end)
    BY <2>2 DEF Trims
  <2>. HIDE DEF last
  <2>4. g[m] = last /\ \A i \in 0..(m - 1) : g[i] = f[i]
    OBVIOUS
  <2>5. g = [i \in 0..m |-> g[i]]
    OBVIOUS
  <2>. HIDE DEF g
  <2>6. ASSUME NEW i \in 0..m
        PROVE  g[i] = IF i = 0 THEN << >> ELSE g[i - 1] \o Trimmed(t[i], start, end)
    <3>1. CASE i = m
      <4>1. g[m - 1] = f[m - 1]
        BY <2>1, <2>4
      <4>. QED  BY <1>3, <2>4, <3>1, <4>1 DEF last
    <3>2. CASE i # m
      <4>1. i \in 0..(m - 1) /\ (i # 0 => i - 1 \in 0..(m - 1))
        BY <3>2
      <4>2. g[i] = f[i] /\ (i # 0 => g[i - 1] = f[i - 1])
        BY <2>4, <4>1
      <4>. QED  BY <2>3, <4>1, <4>2
    <3>. QED  BY <3>1, <3>2
  <2>7. Trims(t, start, end, g, m)
    BY <2>5, <2>6 DEF Trims
  <2>. QED  BY <2>7
<1>. QED  BY <1>2, <1>3

(* What the loop has kept after i entries: what they have outside of the   *)
(* gap.                                                                    *)
KeptOutside(t, start, end, kept, i) ==
    /\ IsMap(kept)
    /\ \A j \in (i + 1)..Len(t) : EndsBy(kept, t[j].addr)
    /\ \A a \in Nat, y \in E820Types :
          Has(kept, a, y) <=> ~(start <= a /\ a < end) /\ \E j \in 1..i : Holds(t[j], a, y)

(* What it keeps of one entry.                                             *)
LEMMA TrimmedOutside ==
    ASSUME NEW e \in E820Entries, NEW start \in Nat, NEW end \in Nat, start < end,
           ~(e.addr < start /\ e.end > end)
    PROVE  LET s == Trimmed(e, start, end)
           IN  /\ IsMap(s) /\ StartsFrom(s, e.addr) /\ EndsBy(s, e.end)
               /\ \A a \in Nat, y \in E820Types :
                     Has(s, a, y) <=> ~(start <= a /\ a < end) /\ Holds(e, a, y)
<1>. DEFINE s == Trimmed(e, start, end)
<1>1. e.addr \in Nat /\ e.end \in Nat /\ e.addr <= e.end /\ e.type \in E820Types
  BY EntryFields
<1>2. CASE end <= e.addr \/ e.end <= start
  <2>1. s = <<e>>
    BY <1>2 DEF Trimmed
  <2>2. \A a \in Nat, y \in E820Types : Holds(e, a, y) => ~(start <= a /\ a < end)
    BY <1>1, <1>2 DEF Holds
  <2>. HIDE DEF s
  <2>3. e.addr <= e.addr /\ e.end <= e.end
    BY <1>1
  <2>. QED  BY <2>1, <2>2, <2>3, OneEntry DEF s
<1>3. CASE ~(end <= e.addr \/ e.end <= start) /\ e.addr >= start /\ e.end <= end
  <2>1. s = << >>
    BY <1>3 DEF Trimmed
  <2>2. \A a \in Nat, y \in E820Types : Holds(e, a, y) => start <= a /\ a < end
    BY <1>1, <1>3 DEF Holds
  <2>. HIDE DEF s
  <2>. QED  BY <2>1, <2>2, NoEntry DEF s
<1>4. CASE ~(end <= e.addr \/ e.end <= start) /\ e.addr < start
  <2>. DEFINE f == E820Entry(e.addr, start, e.type)
  <2>1. s = <<f>>
    <3>1. [e EXCEPT !.end = start] = f
      BY EntryFields
    <3>. QED  BY <1>1, <1>4, <3>1 DEF Trimmed
  <2>2. f \in E820Entries /\ f.addr = e.addr /\ f.end = start /\ f.type = e.type
    BY <1>1, <1>4, EntryMade
  <2>. HIDE DEF s, f
  <2>3. \A a \in Nat, y \in E820Types :
            Holds(f, a, y) <=> ~(start <= a /\ a < end) /\ Holds(e, a, y)
    BY <1>1, <1>4, <2>2 DEF Holds
  <2>4. e.addr <= f.addr /\ f.end <= e.end
    BY <1>1, <1>4, <2>2
  <2>. QED  BY <2>1, <2>2, <2>3, <2>4, OneEntry DEF s
<1>5. CASE ~(end <= e.addr \/ e.end <= start) /\ e.addr >= start /\ e.end > end
  <2>. DEFINE f == E820Entry(end, e.end, e.type)
  <2>1. s = <<f>>
    <3>1. [e EXCEPT !.addr = end] = f
      BY EntryFields
    <3>. QED  BY <1>1, <1>5, <3>1 DEF Trimmed
  <2>2. f \in E820Entries /\ f.addr = end /\ f.end = e.end /\ f.type = e.type
    BY <1>1, <1>5, EntryMade
  <2>. HIDE DEF s, f
  <2>3. \A a \in Nat, y \in E820Types :
            Holds(f, a, y) <=> ~(start <= a /\ a < end) /\ Holds(e, a, y)
    BY <1>1, <1>5, <2>2 DEF Holds
  <2>4. e.addr <= f.addr /\ f.end <= e.end
    BY <1>1, <1>5, <2>2
  <2>. QED  BY <2>1, <2>2, <2>3, <2>4, OneEntry DEF s
<1>. QED  BY <1>1, <1>2, <1>3, <1>4, <1>5

(* The table that ensure_e820_gap is meant to leave.                       *)
HasGap(t, start, end, g) ==
    /\ IsMap(g)
    /\ \A a \in Nat, y \in E820Types :
          Has(g, a, y) <=> ~(start <= a /\ a < end) /\ Has(t, a, y)

(* The loop leaves it when no entry has to be split.                       *)
LEMMA TrimsLeaveGap ==
    ASSUME NEW t, IsMap(t), NEW start \in Nat, NEW end \in Nat, start < end,
           \A i \in 1..Len(t) : ~(t[i].addr < start /\ t[i].end > end),
           NEW f, Trims(t, start, end, f, Len(t))
    PROVE  HasGap(t, start, end, f[Len(t)])
<1>. DEFINE n == Len(t)
<1>1. t \in Seq(E820Entries) /\ n \in Nat /\ DOMAIN t = 1..n
  BY DEF IsMap
<1>2. \A i \in 0..n : f[i] = IF i = 0 THEN << >> ELSE f[i - 1] \o Trimmed(t[i], start, end)
  BY DEF Trims
<1>. DEFINE Bad == {i \in 0..n : ~KeptOutside(t, start, end, f[i], i)}
<1>3. Bad = {}
  <2>. SUFFICES ASSUME Bad # {} PROVE FALSE
    OBVIOUS
  <2>1. PICK m \in Bad : \A l \in Bad : m <= l
    <3>1. Bad \in SUBSET Nat
      BY <1>1
    <3>. HIDE DEF Bad
    <3>. QED  BY <3>1, LeastNumber
  <2>2. m # 0
    <3>1. f[0] = << >>
      BY <1>1, <1>2
    <3>2. ~ \E j \in 1..0 : TRUE
      OBVIOUS
    <3>3. KeptOutside(t, start, end, f[0], 0)
      BY <3>1, <3>2, NoEntry DEF KeptOutside
    <3>. QED  BY <2>1, <3>3
  <2>. DEFINE i == m - 1
              s == Trimmed(t[m], start, end)
              kept == f[i]
  <2>3. i \in Nat /\ i < n /\ i \in 0..n /\ m = i + 1 /\ i \notin Bad /\ m \in 1..n
    BY <1>1, <2>1, <2>2
  <2>4. KeptOutside(t, start, end, kept, i)
    BY <2>3
  <2>5. f[m] = kept \o s
    BY <1>1, <1>2, <2>1, <2>2
  <2>6. /\ t[m] \in E820Entries /\ t[m].addr \in Nat /\ t[m].end \in Nat
        /\ t[m].addr <= t[m].end
    BY <1>1, <2>3, EntryOf
  <2>7. /\ IsMap(s) /\ StartsFrom(s, t[m].addr) /\ EndsBy(s, t[m].end)
        /\ \A a \in Nat, y \in E820Types :
              Has(s, a, y) <=> ~(start <= a /\ a < end) /\ Holds(t[m], a, y)
    BY <2>3, <2>6, TrimmedOutside
  <2>. HIDE DEF s, kept, i
  <2>8. EndsBy(kept, t[m].addr) /\ IsMap(kept)
    <3>1. m \in (i + 1)..Len(t)
      BY <1>1, <2>3
    <3>. QED  BY <2>4, <3>1 DEF KeptOutside
  <2>9. /\ IsMap(kept \o s)
        /\ \A a, y : Has(kept \o s, a, y) <=> Has(kept, a, y) \/ Has(s, a, y)
        /\ \A c : EndsBy(kept \o s, c) <=> EndsBy(kept, c) /\ EndsBy(s, c)
    BY <2>6, <2>7, <2>8, MapsJoined
  <2>10. ASSUME NEW j \in (m + 1)..Len(t) PROVE EndsBy(kept \o s, t[j].addr)
    <3>1. j \in (i + 1)..Len(t) /\ j \in DOMAIN t /\ m \in DOMAIN t /\ m < j
      BY <1>1, <2>3
    <3>2. EndsBy(kept, t[j].addr)
      BY <2>4, <3>1 DEF KeptOutside
    <3>3. t[m].end <= t[j].addr /\ t[j].addr \in Nat
      BY <1>1, <3>1, EntryOf DEF IsMap, Ordered
    <3>4. \A l \in DOMAIN s : s[l].end <= t[m].end /\ s[l].end \in Nat
      BY <2>7, EntryOf DEF EndsBy, IsMap
    <3>5. EndsBy(s, t[j].addr)
      BY <2>6, <3>3, <3>4 DEF EndsBy
    <3>. QED  BY <2>9, <3>2, <3>5
  <2>11. ASSUME NEW a \in Nat, NEW y \in E820Types
         PROVE  Has(kept \o s, a, y) <=>
                    ~(start <= a /\ a < end) /\ \E j \in 1..m : Holds(t[j], a, y)
    <3>1. \A j \in 1..m : j \in 1..i \/ j = m
      BY <2>3
    <3>2. m \in 1..m /\ \A j \in 1..i : j \in 1..m
      BY <2>3
    <3>3. Has(kept, a, y) <=> ~(start <= a /\ a < end) /\ \E j \in 1..i : Holds(t[j], a, y)
      BY <2>4 DEF KeptOutside
    <3>. QED  BY <2>7, <2>9, <3>1, <3>2, <3>3
  <2>12. KeptOutside(t, start, end, f[m], m)
    BY <2>5, <2>9, <2>10, <2>11 DEF KeptOutside
  <2>. QED  BY <2>1, <2>12
<1>4. KeptOutside(t, start, end, f[n], n)
  BY <1>1, <1>3
<1>. QED  BY <1>1, <1>4 DEF KeptOutside, HasGap, Has

(* ensure_e820_gap leaves the table it is meant to, whatever the gap cuts. *)
LEMMA EnsuresGap ==
    ASSUME NEW t, IsMap(t), NEW start \in Nat, NEW end \in Nat, start < end
    PROVE  HasGap(t, start, end, EnsureE820Gap(t, start, end))
<1>. DEFINE I == {i \in 1..Len(t) : t[i].addr < start /\ t[i].end > end}
            g == EnsureE820Gap(t, start, end)
<1>1. /\ t \in Seq(E820Entries) /\ Len(t) \in Nat /\ DOMAIN t = 1..Len(t)
      /\ \A i \in 1..Len(t) : /\ t[i] \in E820Entries /\ t[i].addr \in Nat /\ t[i].end \in Nat
                              /\ t[i].addr <= t[i].end /\ t[i].type \in E820Types
  BY EntryOf DEF IsMap
<1>2. SplitBy(t, start, end) = IF I # {} THEN Min(I) ELSE 0
  BY DEF SplitBy, SelectInSeq
<1>3. CASE I = {}
  <2>. DEFINE f == CHOOSE f : Trims(t, start, end, f, Len(t))
  <2>1. SplitBy(t, start, end) = 0
    BY <1>2, <1>3
  <2>2. g = f[Len(t)]
    BY <2>1 DEF EnsureE820Gap, Trims
  <2>3. Trims(t, start, end, f, Len(t))
    BY <1>1, TrimsExist
  <2>. HIDE DEF f, g
  <2>4. \A i \in 1..Len(t) : ~(t[i].addr < start /\ t[i].end > end)
    BY <1>3
  <2>5. HasGap(t, start, end, f[Len(t)])
    BY <2>3, <2>4, TrimsLeaveGap
  <2>. QED  BY <2>2, <2>5 DEF g
<1>4. CASE I # {}
  <2>. DEFINE s == Min(I)
  <2>1. s \in I
    <3>1. I \in SUBSET Nat
      OBVIOUS
    <3>. HIDE DEF I
    <3>. QED  BY <1>4, <3>1, MinIsLeast
  <2>2. SplitBy(t, start, end) = s
    BY <1>2, <1>4
  <2>. HIDE DEF s
  <2>3. s \in 1..Len(t) /\ s # 0 /\ t[s].addr < start /\ t[s].end > end
    BY <2>1
  <2>. HIDE DEF I
  <2>. DEFINE e == t[s]
              cut == E820Entry(e.addr, start, e.type)
              tail == E820Entry(end, e.end, e.type)
              u == [t EXCEPT ![s] = cut]
  <2>4. e \in E820Entries /\ e.addr \in Nat /\ e.end \in Nat /\ e.type \in E820Types
    BY <1>1, <2>3
  <2>5. g = InsertE820Entry(u, tail)
    <3>1. g = InsertE820Entry(ReplaceAt(t, s, [e EXCEPT !.end = start]), tail)
      BY <2>2, <2>3 DEF EnsureE820Gap
    <3>2. [e EXCEPT !.end = start] = cut
      <4>. HIDE DEF e
      <4>. QED  BY <2>4, EntryFields
    <3>. QED  BY <3>1, <3>2 DEF ReplaceAt
  <2>6. cut \in E820Entries /\ cut.addr = e.addr /\ cut.end = start /\ cut.type = e.type
    <3>. HIDE DEF e
    <3>1. e.addr <= start
      BY <2>3, <2>4 DEF e
    <3>. QED  BY <2>4, <3>1, EntryMade
  <2>7. tail \in E820Entries /\ tail.addr = end /\ tail.end = e.end /\ tail.type = e.type
    <3>. HIDE DEF e
    <3>1. end <= e.end
      BY <2>3, <2>4 DEF e
    <3>. QED  BY <2>4, <3>1, EntryMade
  <2>. HIDE DEF cut, tail
  <2>8. /\ u \in Seq(E820Entries) /\ DOMAIN u = DOMAIN t /\ u[s] = cut
        /\ \A i \in DOMAIN t : i # s => u[i] = t[i]
    BY <1>1, <2>3, <2>6
  <2>. HIDE DEF u
  <2>9. /\ \A i \in DOMAIN t : u[i].addr = t[i].addr
        /\ \A i \in DOMAIN t : u[i].end <= t[i].end /\ u[i].end \in Nat
    <3>1. start <= t[s].end /\ start \in Nat
      BY <1>1, <2>3
    <3>2. \A i \in DOMAIN t : t[i].end \in Nat /\ t[i].end <= t[i].end
      BY <1>1
    <3>. QED  BY <2>6, <2>8, <3>1, <3>2
  <2>10. IsMap(u)
    <3>1. ASSUME NEW i \in DOMAIN t, NEW j \in DOMAIN t, i < j PROVE u[i].end <= u[j].addr
      <4>1. t[i].end <= t[j].addr
        BY <3>1 DEF IsMap, Ordered
      <4>2. t[i].end \in Nat /\ t[j].addr \in Nat
        BY <1>1
      <4>. QED  BY <2>9, <4>1, <4>2
    <3>. QED  BY <2>8, <3>1 DEF IsMap, Ordered
  <2>11. ASSUME NEW i \in DOMAIN t, i # s, NEW a \in Nat, t[i].addr <= a, a < t[i].end
         PROVE  a < e.addr \/ e.end <= a
    <3>1. s \in DOMAIN t /\ (i < s \/ s < i)
      BY <1>1, <2>3, <2>11
    <3>2. t[i].end <= e.addr \/ e.end <= t[i].addr
      BY <3>1 DEF IsMap, Ordered
    <3>3. t[i].addr \in Nat /\ t[i].end \in Nat
      BY <1>1
    <3>. QED  BY <2>4, <2>11, <3>2, <3>3
  <2>12. Inserted(u, tail, g)
    BY <2>5, <2>7, <2>10, InsertIsMap
  <2>13. ASSUME NEW a \in Nat, NEW y \in E820Types
         PROVE  Has(g, a, y) <=> ~(start <= a /\ a < end) /\ Has(t, a, y)
    <3>1. Has(g, a, y) <=> IF end <= a /\ a < e.end THEN y = e.type ELSE Has(u, a, y)
      BY <2>7, <2>12 DEF Inserted
    <3>2. \A i \in DOMAIN t : i # s => (Holds(u[i], a, y) <=> Holds(t[i], a, y))
      BY <2>8
    <3>3. Holds(u[s], a, y) <=> Holds(e, a, y) /\ a < start
      BY <2>3, <2>4, <2>6, <2>8 DEF Holds
    <3>4. s \in DOMAIN t
      BY <1>1, <2>3
    <3>5. CASE e.addr <= a /\ a < e.end
      <4>1. \A i \in DOMAIN t : i # s => ~Holds(t[i], a, y)
        BY <2>4, <2>11, <3>5 DEF Holds
      <4>2. Has(t, a, y) <=> Holds(e, a, y)
        BY <3>4, <4>1 DEF Has
      <4>3. Has(u, a, y) <=> Holds(e, a, y) /\ a < start
        BY <2>8, <3>2, <3>3, <3>4, <4>1 DEF Has
      <4>4. Holds(e, a, y) <=> y = e.type
        BY <3>5 DEF Holds
      <4>. HIDE DEF e
      <4>. QED  BY <2>4, <3>1, <3>5, <4>2, <4>3, <4>4
    <3>6. CASE ~(e.addr <= a /\ a < e.end)
      <4>1. ~Holds(e, a, y)
        BY <3>6 DEF Holds
      <4>2. Has(t, a, y) <=> Has(u, a, y)
        BY <2>8, <3>2, <3>3, <3>4, <4>1 DEF Has
      <4>3. ~(end <= a /\ a < e.end) /\ ~(start <= a /\ a < end)
        BY <2>3, <2>4, <3>6
      <4>. QED  BY <3>1, <4>2, <4>3
    <3>. QED  BY <3>5, <3>6
  <2>. QED  BY <2>12, <2>13 DEF HasGap, Inserted, g
<1>. QED  BY <1>3, <1>4

-----------------------------------------------------------------------------
(* Pages: an address lies in its page, whose first address is aligned.     *)
Aligned(a) == a % Page = 0

(* Two aligned addresses differ by whole pages.                            *)
LEMMA AlignedApart ==
    ASSUME NEW x \in Nat, NEW y \in Nat, Aligned(x), Aligned(y), x < y + Page
    PROVE  x <= y
<1>1. Page \in Nat \ {0}
  BY LayoutAssumption
<1>. DEFINE k == x \div Page
            m == y \div Page
<1>2. k \in Int /\ m \in Int /\ x = Page * k /\ y = Page * m
  BY <1>1 DEF Aligned
<1>. HIDE DEF k, m
<1>3. Page * k < Page * (m + 1)
  BY <1>1, <1>2
<1>4. k < m + 1
  <2>. SUFFICES ASSUME m + 1 <= k PROVE FALSE
    BY <1>2
  <2>1. Page * (m + 1) <= Page * k
    BY <1>1, <1>2
  <2>. QED  BY <1>1, <1>2, <1>3, <2>1
<1>5. k <= m
  BY <1>2, <1>4
<1>6. Page * k <= Page * m
  BY <1>1, <1>2, <1>5
<1>. QED  BY <1>2, <1>6

(* Aligned down, and up.                                                   *)
LEMMA PageIs ==
    ASSUME NEW a \in Nat
    PROVE  /\ PageOf(a) \in Nat /\ PageOf(a) <= a /\ a < PageOf(a) + Page /\ Aligned(PageOf(a))
           /\ AlignUp(a, Page) \in Nat /\ a <= AlignUp(a, Page) /\ AlignUp(a, Page) < a + Page
           /\ Aligned(AlignUp(a, Page))
           /\ Page \in Nat \ {0}
<1>1. Page \in Nat \ {0}
  BY LayoutAssumption
<1>2. ASSUME NEW b \in Nat
      PROVE  /\ b - (b % Page) \in Nat /\ b - (b % Page) <= b /\ b < b - (b % Page) + Page
             /\ Aligned(b - (b % Page))
  <2>. DEFINE q == b \div Page
              r == b % Page
  <2>1. q \in Int /\ r \in 0..(Page - 1) /\ b = Page * q + r
    BY <1>1
  <2>. HIDE DEF q, r
  <2>2. b - r = Page * q
    BY <1>1, <2>1
  <2>3. (Page * q) % Page = 0
    BY <1>1, <2>1
  <2>4. b - r \in Nat /\ b - r <= b /\ b < b - r + Page
    <3>1. q >= 0
      <4>. SUFFICES ASSUME q <= -1 PROVE FALSE
        BY <2>1
      <4>1. Page * q <= Page * (-1)
        BY <1>1, <2>1
      <4>. QED  BY <1>1, <2>1, <4>1
    <3>2. Page * q >= 0 /\ Page * q \in Int
      BY <1>1, <2>1, <3>1
    <3>. QED  BY <1>1, <2>1, <2>2, <3>2
  <2>. QED  BY <2>2, <2>3, <2>4 DEF Aligned, r
<1>3. a + Page - 1 \in Nat
  BY <1>1
<1>4. /\ AlignUp(a, Page) \in Nat /\ AlignUp(a, Page) <= a + Page - 1
      /\ a + Page - 1 < AlignUp(a, Page) + Page /\ Aligned(AlignUp(a, Page))
  BY <1>2, <1>3 DEF AlignUp, AlignDown
<1>5. a <= AlignUp(a, Page) /\ AlignUp(a, Page) < a + Page
  <2>. DEFINE u == AlignUp(a, Page)
  <2>1. u \in Nat /\ u <= a + Page - 1 /\ a + Page - 1 < u + Page
    BY <1>4
  <2>. HIDE DEF u
  <2>2. a <= u /\ u < a + Page
    BY <1>1, <2>1
  <2>. QED  BY <2>2 DEF u
<1>. QED  BY <1>1, <1>2, <1>4, <1>5 DEF PageOf, AlignDown

(* The addresses of one page.                                              *)
LEMMA SamePage ==
    ASSUME NEW a \in Nat, NEW b \in Nat, PageOf(a) <= b, b <= a
    PROVE  PageOf(b) = PageOf(a)
<1>1. /\ PageOf(a) \in Nat /\ PageOf(a) <= a /\ a < PageOf(a) + Page /\ Aligned(PageOf(a))
      /\ PageOf(b) \in Nat /\ PageOf(b) <= b /\ b < PageOf(b) + Page /\ Aligned(PageOf(b))
      /\ Page \in Nat
  BY PageIs
<1>. DEFINE x == PageOf(a)
            y == PageOf(b)
<1>. HIDE DEF x, y
<1>2. x \in Nat /\ y \in Nat /\ Aligned(x) /\ Aligned(y) /\ x < y + Page /\ y < x + Page
  BY <1>1 DEF x, y
<1>3. x <= y /\ y <= x
  BY <1>2, AlignedApart
<1>4. x = y
  BY <1>2, <1>3
<1>. QED  BY <1>4 DEF x, y

-----------------------------------------------------------------------------
(* The bounds that claims leave in the table: no new ones but their own.   *)
Within(B) == {e \in E820Entries : e.addr \in B /\ e.end \in B}

(* A table of such entries, and what is put together from them.            *)
LEMMA WithinSeq ==
    ASSUME NEW B
    PROVE  /\ \A t \in Seq(Within(B)) : t \in Seq(E820Entries)
           /\ \A t \in Seq(E820Entries) :
                 t \in Seq(Within(B)) <=> \A i \in DOMAIN t : t[i].addr \in B /\ t[i].end \in B
<1>1. Within(B) \subseteq E820Entries
  BY DEF Within
<1>2. ASSUME NEW t \in Seq(E820Entries), \A i \in DOMAIN t : t[i].addr \in B /\ t[i].end \in B
      PROVE  t \in Seq(Within(B))
  <2>1. /\ Len(t) \in Nat /\ DOMAIN t = 1..Len(t) /\ \A i \in 1..Len(t) : t[i] \in Within(B)
    BY <1>2, EntryOf DEF Within
  <2>2. t = [i \in 1..Len(t) |-> t[i]]
    BY <1>2
  <2>3. t \in [1..Len(t) -> Within(B)]
    BY <2>1, <2>2
  <2>. QED  BY <2>1, <2>3, SeqDef
<1>3. ASSUME NEW t \in Seq(Within(B)) PROVE t \in Seq(E820Entries)
  BY <1>1
<1>4. \A t \in Seq(Within(B)) : \A i \in DOMAIN t : t[i].addr \in B /\ t[i].end \in B
  <2>1. \A t \in Seq(Within(B)) : \A i \in DOMAIN t : t[i] \in Within(B)
    OBVIOUS
  <2>. QED  BY <2>1 DEF Within
<1>. QED  BY <1>2, <1>3, <1>4

(* The loop of insert_e820_entry adds none.                                *)
LEMMA AbsorbWithin ==
    ASSUME NEW B, NEW front \in Seq(Within(B)), NEW entry \in Within(B),
           NEW back \in Seq(Within(B))
    PROVE  Absorb(front, entry, back) \in Seq(Within(B))
<1>. DEFINE n == Len(back)
            W == Within(B)
            f == CHOOSE f : Absorbs(entry, back, f, n)
            good(acc) == /\ acc = [entry |-> acc.entry, kept |-> acc.kept]
                         /\ acc.entry \in W /\ acc.kept \in Seq(W)
<1>1. n \in Nat /\ \A i \in 1..n : back[i] \in W
  OBVIOUS
<1>2. Absorb(front, entry, back) = front \o <<f[n].entry>> \o f[n].kept
  BY DEF Absorb, Absorbs
<1>3. Absorbs(entry, back, f, n)
  BY <1>1, AbsorbsExist
<1>. HIDE DEF f, n
<1>4. \A i \in 0..n : f[i] = IF i = 0 THEN [entry |-> entry, kept |-> << >>]
                             ELSE AbsorbNext(f[i - 1], back[i])
  BY <1>3 DEF Absorbs
<1>0. ASSUME NEW x \in W, NEW k \in Seq(W) PROVE good([entry |-> x, kept |-> k])
  <2>. DEFINE acc == [entry |-> x, kept |-> k]
  <2>1. acc.entry = x /\ acc.kept = k
    OBVIOUS
  <2>. HIDE DEF W
  <2>. QED  BY <2>1
<1>5. ASSUME NEW acc, good(acc), NEW next \in W PROVE good(AbsorbNext(acc, next))
  <2>. DEFINE e == acc.entry
              kept == acc.kept
  <2>1. acc = [entry |-> e, kept |-> kept] /\ e \in W /\ kept \in Seq(W)
    BY <1>5
  <2>. HIDE DEF e, kept
  <2>2. /\ e \in E820Entries /\ next \in E820Entries
        /\ e.addr \in B /\ e.end \in B /\ next.addr \in B /\ next.end \in B
        /\ e.addr \in Nat /\ e.end \in Nat /\ next.addr \in Nat /\ next.end \in Nat
        /\ e.addr <= e.end /\ e.type \in E820Types /\ next.type \in E820Types
    BY <2>1, EntryFields DEF Within
  <2>3. acc.entry = e /\ acc.kept = kept
    BY <2>1
  <2>4. CASE e.end < next.addr
    <3>1. AbsorbNext(acc, next) = [entry |-> e, kept |-> Append(kept, next)]
      BY <2>1, <2>3, <2>4 DEF AbsorbNext
    <3>2. Append(kept, next) \in Seq(W)
      BY <2>1
    <3>. QED  BY <2>1, <3>1, <3>2, <1>0
  <2>5. CASE ~(e.end < next.addr) /\ e.end >= next.end
    <3>1. AbsorbNext(acc, next) = acc
      BY <2>3, <2>5 DEF AbsorbNext
    <3>. QED  BY <1>5, <3>1
  <2>6. CASE ~(e.end < next.addr) /\ ~(e.end >= next.end) /\ e.type = next.type
    <3>1. AbsorbNext(acc, next) = [acc EXCEPT !.entry.end = next.end]
      BY <2>3, <2>6 DEF AbsorbNext
    <3>. DEFINE g == [e EXCEPT !.end = next.end]
    <3>2. [acc EXCEPT !.entry.end = next.end] = [entry |-> g, kept |-> kept]
      BY <2>1
    <3>3. g = E820Entry(e.addr, next.end, e.type)
      BY <2>2, EntryFields
    <3>4. e.addr <= next.end
      BY <2>2, <2>6
    <3>5. g \in W
      BY <2>2, <3>3, <3>4, EntryMade DEF Within
    <3>. HIDE DEF g
    <3>. QED  BY <2>1, <3>1, <3>2, <3>5, <1>0
  <2>7. CASE ~(e.end < next.addr) /\ ~(e.end >= next.end) /\ e.type # next.type
    <3>. DEFINE g == [next EXCEPT !.addr = e.end]
    <3>1. AbsorbNext(acc, next) = [entry |-> e, kept |-> Append(kept, g)]
      BY <2>1, <2>3, <2>7 DEF AbsorbNext
    <3>2. g = E820Entry(e.end, next.end, next.type)
      BY <2>2, EntryFields
    <3>5. e.end <= next.end
      BY <2>2, <2>7
    <3>3. g \in W
      BY <2>2, <3>2, <3>5, EntryMade DEF Within
    <3>. HIDE DEF g
    <3>4. Append(kept, g) \in Seq(W)
      BY <2>1, <3>3
    <3>. QED  BY <2>1, <3>1, <3>4, <1>0
  <2>. QED  BY <2>4, <2>5, <2>6, <2>7
<1>. DEFINE Bad == {i \in 0..n : ~good(f[i])}
<1>6. Bad = {}
  <2>. SUFFICES ASSUME Bad # {} PROVE FALSE
    OBVIOUS
  <2>1. PICK m \in Bad : \A l \in Bad : m <= l
    <3>1. Bad \in SUBSET Nat
      BY <1>1
    <3>. HIDE DEF Bad
    <3>. QED  BY <3>1, LeastNumber
  <2>2. m # 0
    <3>1. f[0] = [entry |-> entry, kept |-> << >>]
      BY <1>1, <1>4
    <3>2. << >> \in Seq(W)
      OBVIOUS
    <3>3. good(f[0])
      BY <3>1, <3>2
    <3>. QED  BY <2>1, <3>3
  <2>3. m - 1 \in 0..n /\ m - 1 \notin Bad /\ m \in 1..n
    BY <1>1, <2>1, <2>2
  <2>4. good(f[m - 1]) /\ f[m] = AbsorbNext(f[m - 1], back[m])
    BY <1>1, <1>4, <2>1, <2>2, <2>3
  <2>. HIDE DEF good
  <2>5. good(f[m])
    BY <1>1, <1>5, <2>3, <2>4
  <2>. QED  BY <2>1, <2>5
<1>7. f[n].entry \in W /\ f[n].kept \in Seq(W)
  <2>1. n \in 0..n
    BY <1>1
  <2>. QED  BY <1>6, <2>1
<1>. HIDE DEF W
<1>8. front \o <<f[n].entry>> \o f[n].kept \in Seq(W)
  <2>. DEFINE x == f[n].entry
              k == f[n].kept
  <2>1. x \in W /\ k \in Seq(W) /\ front \in Seq(W)
    BY <1>7 DEF W
  <2>. HIDE DEF x, k
  <2>2. <<x>> \in Seq(W)
    BY <2>1
  <2>3. front \o <<x>> \in Seq(W)
    BY <2>1, <2>2
  <2>4. front \o <<x>> \o k \in Seq(W)
    BY <2>1, <2>3
  <2>. QED  BY <2>4 DEF x, k
<1>. QED  BY <1>2, <1>8 DEF W

(* Nor does insert_e820_entry.                                             *)
LEMMA InsertWithin ==
    ASSUME NEW B, NEW t \in Seq(Within(B)), IsMap(t), NEW entry \in Within(B)
    PROVE  InsertE820Entry(t, entry) \in Seq(Within(B))
<1>. DEFINE W == Within(B)
            i == PlaceOf(t, entry)
            front == SubSeq(t, 1, i - 1)
            back == SubSeq(t, i, Len(t))
            previous == Last(front)
            rest == IF previous.end > entry.end
                    THEN <<E820Entry(entry.end, previous.end, previous.type)>> ELSE << >>
<1>1. /\ entry \in E820Entries /\ entry.addr \in B /\ entry.end \in B /\ entry.addr \in Nat
      /\ entry.end \in Nat /\ entry.addr <= entry.end /\ entry.type \in E820Types
      /\ Len(t) \in Nat
  BY EntryFields DEF Within
<1>2. i \in 1..(Len(t) + 1) /\ \A j \in 1..(i - 1) : t[j].addr < entry.addr
  BY <1>1, PlaceFound
<1>. HIDE DEF i
<1>3. front \in Seq(W) /\ back \in Seq(W) /\ Len(front) = i - 1
      /\ \A j \in 1..(i - 1) : front[j] = t[j]
  <2>. HIDE DEF W
  <2>1. t \in Seq(W)
    BY DEF W
  <2>. QED  BY <1>1, <1>2, <2>1
<1>4. CASE ~TouchesPrevious(t, entry)
  <2>1. InsertE820Entry(t, entry) = Absorb(front, entry, back)
    BY <1>4 DEF InsertE820Entry, i
  <2>. HIDE DEF front, back
  <2>. QED  BY <1>3, <2>1, AbsorbWithin
<1>5. CASE TouchesPrevious(t, entry)
  <2>1. i > 1
    BY <1>5 DEF TouchesPrevious, i
  <2>2. previous \in W /\ Front(front) \in Seq(W) /\ previous.addr < entry.addr
    <3>1. i - 1 \in 1..Len(front) /\ i - 1 \in 1..(i - 1) /\ front # << >>
      BY <1>2, <1>3, <2>1
    <3>2. previous = t[i - 1] /\ previous = front[i - 1]
      BY <1>3, <3>1 DEF Last
    <3>. HIDE DEF W, front
    <3>3. front[i - 1] \in W /\ Front(front) \in Seq(W)
      BY <1>3, <3>1 DEF Front
    <3>. QED  BY <1>2, <3>1, <3>2, <3>3
  <2>3. /\ previous \in E820Entries /\ previous.addr \in B /\ previous.end \in B
        /\ previous.addr \in Nat /\ previous.end \in Nat /\ previous.addr <= previous.end
        /\ previous.type \in E820Types
    BY <2>2, EntryFields DEF Within
  <2>. HIDE DEF previous
  <2>4. CASE previous.type = entry.type
    <3>. DEFINE m == IF previous.end >= entry.end THEN previous.end ELSE entry.end
                e == [previous EXCEPT !.end = m]
    <3>1. Max({previous.end, entry.end}) = m
      BY <1>1, <2>3 DEF Max
    <3>2. InsertE820Entry(t, entry) = Absorb(Front(front), e, back)
      BY <1>5, <2>4, <3>1 DEF InsertE820Entry, i, previous
    <3>3. m \in Nat /\ m \in B /\ previous.addr <= m
      BY <1>1, <2>3
    <3>4. e = E820Entry(previous.addr, m, previous.type)
      BY <2>3, EntryFields
    <3>. HIDE DEF m
    <3>5. e \in W
      BY <2>3, <3>3, <3>4, EntryMade DEF Within
    <3>. HIDE DEF front, back, e
    <3>. QED  BY <1>3, <2>2, <3>2, <3>5, AbsorbWithin
  <2>5. CASE previous.type # entry.type
    <3>. DEFINE e == [previous EXCEPT !.end = entry.addr]
    <3>1. InsertE820Entry(t, entry) = Absorb(Append(Front(front), e), entry, rest \o back)
      BY <1>5, <2>5 DEF InsertE820Entry, i, previous
    <3>2. e = E820Entry(previous.addr, entry.addr, previous.type)
      BY <2>3, EntryFields
    <3>6. previous.addr <= entry.addr
      BY <1>1, <2>2, <2>3
    <3>3. e \in W
      BY <1>1, <2>3, <3>2, <3>6, EntryMade DEF Within
    <3>4. rest \in Seq(W)
      <4>1. ASSUME previous.end > entry.end
            PROVE  E820Entry(entry.end, previous.end, previous.type) \in W
        BY <1>1, <2>3, <4>1, EntryMade DEF Within
      <4>. HIDE DEF W
      <4>. QED  BY <4>1
    <3>. HIDE DEF front, back, e, rest, W
    <3>5. Append(Front(front), e) \in Seq(W) /\ rest \o back \in Seq(W)
      BY <1>3, <2>2, <3>3, <3>4
    <3>. QED  BY <3>1, <3>5, AbsorbWithin DEF W
  <2>. QED  BY <2>4, <2>5
<1>. QED  BY <1>4, <1>5

(* Nor does ensure_e820_gap.                                               *)
LEMMA GapWithin ==
    ASSUME NEW B, NEW t \in Seq(Within(B)), IsMap(t), NEW start \in Nat, NEW end \in Nat,
           start \in B, end \in B, start < end
    PROVE  EnsureE820Gap(t, start, end) \in Seq(Within(B))
<1>. DEFINE W == Within(B)
            I == {i \in 1..Len(t) : t[i].addr < start /\ t[i].end > end}
<1>1. /\ Len(t) \in Nat /\ DOMAIN t = 1..Len(t)
      /\ \A i \in 1..Len(t) : /\ t[i] \in W /\ t[i] \in E820Entries
                              /\ t[i].addr \in B /\ t[i].end \in B
                              /\ t[i].addr \in Nat /\ t[i].end \in Nat
                              /\ t[i].addr <= t[i].end /\ t[i].type \in E820Types
  <2>1. Len(t) \in Nat /\ DOMAIN t = 1..Len(t) /\ \A i \in 1..Len(t) : t[i] \in W
    OBVIOUS
  <2>. QED  BY <2>1, EntryFields DEF Within
<1>2. SplitBy(t, start, end) = IF I # {} THEN Min(I) ELSE 0
  BY DEF SplitBy, SelectInSeq
<1>3. CASE I = {}
  <2>. DEFINE f == CHOOSE f : Trims(t, start, end, f, Len(t))
  <2>1. SplitBy(t, start, end) = 0
    BY <1>2, <1>3
  <2>2. EnsureE820Gap(t, start, end) = f[Len(t)]
    BY <2>1 DEF EnsureE820Gap, Trims
  <2>3. Trims(t, start, end, f, Len(t))
    BY <1>1, TrimsExist
  <2>. HIDE DEF f
  <2>4. \A i \in 0..Len(t) :
            f[i] = IF i = 0 THEN << >> ELSE f[i - 1] \o Trimmed(t[i], start, end)
    BY <2>3 DEF Trims
  <2>5. ASSUME NEW i \in 1..Len(t) PROVE Trimmed(t[i], start, end) \in Seq(W)
    <3>. DEFINE e == t[i]
    <3>1. /\ e \in W /\ e \in E820Entries /\ e.addr \in B /\ e.end \in B
          /\ e.addr \in Nat /\ e.end \in Nat /\ e.addr <= e.end /\ e.type \in E820Types
          /\ ~(e.addr < start /\ e.end > end)
      BY <1>1, <1>3
    <3>. HIDE DEF e
    <3>2. /\ [e EXCEPT !.end = start] = E820Entry(e.addr, start, e.type)
          /\ [e EXCEPT !.addr = end] = E820Entry(end, e.end, e.type)
      BY <3>1, EntryFields
    <3>3. e.addr <= start => E820Entry(e.addr, start, e.type) \in W
      BY <3>1, EntryMade DEF Within
    <3>4. end <= e.end => E820Entry(end, e.end, e.type) \in W
      BY <3>1, EntryMade DEF Within
    <3>5. \/ Trimmed(e, start, end) = << >>
          \/ \E x \in W : Trimmed(e, start, end) = <<x>>
      <4>. HIDE DEF W
      <4>1. CASE end <= e.addr \/ e.end <= start
        BY <3>1, <4>1 DEF Trimmed
      <4>2. CASE ~(end <= e.addr \/ e.end <= start) /\ e.addr >= start /\ e.end <= end
        BY <4>2 DEF Trimmed
      <4>3. CASE ~(end <= e.addr \/ e.end <= start) /\ e.addr < start
        <5>1. Trimmed(e, start, end) = <<E820Entry(e.addr, start, e.type)>>
          BY <3>1, <3>2, <4>3 DEF Trimmed
        <5>2. e.addr <= start
          BY <3>1, <4>3
        <5>. QED  BY <3>3, <5>1, <5>2
      <4>4. CASE ~(end <= e.addr \/ e.end <= start) /\ e.addr >= start /\ e.end > end
        <5>1. Trimmed(e, start, end) = <<E820Entry(end, e.end, e.type)>>
          BY <3>1, <3>2, <4>4 DEF Trimmed
        <5>2. end <= e.end
          BY <3>1, <4>4
        <5>. QED  BY <3>4, <5>1, <5>2
      <4>. QED  BY <3>1, <4>1, <4>2, <4>3, <4>4
    <3>. HIDE DEF W
    <3>6. << >> \in Seq(W) /\ \A x \in W : <<x>> \in Seq(W)
      OBVIOUS
    <3>. QED  BY <3>5, <3>6 DEF e
  <2>. DEFINE Bad == {i \in 0..Len(t) : f[i] \notin Seq(W)}
  <2>6. Bad = {}
    <3>. SUFFICES ASSUME Bad # {} PROVE FALSE
      OBVIOUS
    <3>1. PICK m \in Bad : \A l \in Bad : m <= l
      <4>1. Bad \in SUBSET Nat
        BY <1>1
      <4>. HIDE DEF Bad
      <4>. QED  BY <4>1, LeastNumber
    <3>2. m # 0
      <4>1. f[0] = << >>
        BY <1>1, <2>4
      <4>2. << >> \in Seq(W)
        <5>. HIDE DEF W
        <5>. QED  OBVIOUS
      <4>. QED  BY <3>1, <4>1, <4>2
    <3>3. m - 1 \in 0..Len(t) /\ m - 1 \notin Bad /\ m \in 1..Len(t)
      BY <1>1, <3>1, <3>2
    <3>4. f[m - 1] \in Seq(W) /\ f[m] = f[m - 1] \o Trimmed(t[m], start, end)
      BY <1>1, <2>4, <3>1, <3>2, <3>3
    <3>5. f[m - 1] \o Trimmed(t[m], start, end) \in Seq(W)
      <4>1. Trimmed(t[m], start, end) \in Seq(W)
        BY <2>5, <3>3
      <4>. HIDE DEF W
      <4>. QED  BY <3>4, <4>1
    <3>. QED  BY <3>1, <3>4, <3>5
  <2>. QED  BY <1>1, <2>2, <2>6
<1>4. CASE I # {}
  <2>. DEFINE s == Min(I)
  <2>1. s \in I
    <3>1. I \in SUBSET Nat
      OBVIOUS
    <3>. HIDE DEF I
    <3>. QED  BY <1>4, <3>1, MinIsLeast
  <2>2. SplitBy(t, start, end) = s
    BY <1>2, <1>4
  <2>. HIDE DEF s
  <2>3. s \in 1..Len(t) /\ s # 0 /\ t[s].addr < start /\ t[s].end > end
    BY <2>1
  <2>. HIDE DEF I
  <2>. DEFINE e == t[s]
              cut == E820Entry(e.addr, start, e.type)
              tail == E820Entry(end, e.end, e.type)
              u == [t EXCEPT ![s] = cut]
  <2>4. /\ e \in E820Entries /\ e.addr \in Nat /\ e.end \in Nat /\ e.type \in E820Types
        /\ e.addr \in B /\ e.end \in B /\ e.addr <= start /\ end <= e.end
    BY <1>1, <2>3
  <2>5. EnsureE820Gap(t, start, end) = InsertE820Entry(u, tail)
    <3>1. EnsureE820Gap(t, start, end)
              = InsertE820Entry(ReplaceAt(t, s, [e EXCEPT !.end = start]), tail)
      BY <2>2, <2>3 DEF EnsureE820Gap
    <3>2. [e EXCEPT !.end = start] = cut
      <4>. HIDE DEF e
      <4>. QED  BY <2>4, EntryFields
    <3>. QED  BY <3>1, <3>2 DEF ReplaceAt
  <2>6. /\ cut \in W /\ tail \in W
        /\ cut \in E820Entries /\ cut.addr = e.addr /\ cut.end = start
    <3>. HIDE DEF e
    <3>. QED  BY <2>4, EntryMade DEF Within
  <2>. HIDE DEF cut, tail
  <2>7. u \in Seq(W) /\ DOMAIN u = DOMAIN t /\ u[s] = cut
        /\ \A i \in DOMAIN t : i # s => u[i] = t[i]
    <3>. HIDE DEF W
    <3>1. t \in Seq(W)
      BY DEF W
    <3>. QED  BY <1>1, <2>3, <2>6, <3>1
  <2>8. IsMap(u)
    <3>1. u \in Seq(E820Entries)
      BY <2>7, WithinSeq
    <3>2. ASSUME NEW i \in DOMAIN t, NEW j \in DOMAIN t, i < j PROVE u[i].end <= u[j].addr
      <4>1. t[i].end <= t[j].addr
        BY <3>2 DEF IsMap, Ordered
      <4>2. u[j].addr = t[j].addr
        BY <2>6, <2>7
      <4>3. u[i].end <= t[i].end /\ u[i].end \in Nat
        BY <1>1, <2>3, <2>6, <2>7
      <4>4. t[i].end \in Nat /\ t[j].addr \in Nat
        BY <1>1
      <4>. QED  BY <4>1, <4>2, <4>3, <4>4
    <3>. QED  BY <2>7, <3>1, <3>2 DEF IsMap, Ordered
  <2>. HIDE DEF u
  <2>. QED  BY <2>5, <2>6, <2>7, <2>8, InsertWithin
<1>. QED  BY <1>3, <1>4

-----------------------------------------------------------------------------
(* What Max of a bounded set of naturals is.                               *)
LEMMA MaxIsGreatest ==
    ASSUME NEW n \in Nat, NEW S \in SUBSET (0..n), S # {}
    PROVE  Max(S) \in S /\ \A k \in S : Max(S) >= k
<1>. DEFINE D == {n - k : k \in S}
<1>1. D \in SUBSET Nat /\ D # {}
  <2>1. \A k \in S : k \in 0..n
    OBVIOUS
  <2>2. \A k \in S : n - k \in Nat
    BY <2>1
  <2>3. PICK k \in S : TRUE
    OBVIOUS
  <2>4. n - k \in D
    OBVIOUS
  <2>. QED  BY <2>2, <2>4
<1>. HIDE DEF D
<1>2. PICK d \in D : \A x \in D : d <= x
  BY <1>1, LeastNumber
<1>3. PICK m \in S : d = n - m
  BY DEF D
<1>4. ASSUME NEW k \in S PROVE m >= k
  <2>1. n - m <= n - k
    BY <1>2, <1>3 DEF D
  <2>2. m \in 0..n /\ k \in 0..n
    OBVIOUS
  <2>. QED  BY <2>1, <2>2
<1>. QED  BY <1>4 DEF Max

(* The entries that are RAM, and the pages they have.                      *)
LEMMA RamHas ==
    ASSUME NEW a \in Nat, e820 \in Seq(E820Entries)
    PROVE  /\ Has(e820, a, "RAM") <=> \E e \in Ram : a \in Held(e)
           /\ \A e \in Ram : e \in E820Entries /\ e.addr \in Nat /\ e.end \in Nat
                             /\ e.addr <= e.end /\ e.type = "RAM"
<1>1. \A e \in Ram : /\ e \in E820Entries /\ e.addr \in Nat /\ e.end \in Nat
                     /\ e.addr <= e.end /\ e.type = "RAM"
  BY EntryOf DEF Ram, ToSet
<1>2. \A i \in DOMAIN e820 : e820[i].addr \in Nat /\ e820[i].end \in Nat
  BY EntryOf
<1>3. \A i \in DOMAIN e820 : a \in Held(e820[i]) <=> e820[i].addr <= a /\ a < e820[i].end
  BY <1>2 DEF Held
<1>. QED  BY <1>1, <1>3 DEF Has, Holds, Ram, ToSet

-----------------------------------------------------------------------------
(*                     Stage 0: the steps of rust64_start                  *)

Early == {"smbios", "validate"}
Accepted == {"heap", "kernel", "low", "high", "initrd", "data 1", "data 2", "data 3", "jump"}

Plain == {"fill", "smbios", "validate", "heap", "kernel", "low", "high"}

(* The bounds that are aligned or that the hypervisor's table has inside of*)
(* a page; and the part of a range that lies in other pages than those.    *)
Known == {b \in Nat : Aligned(b) \/ PageOf(b) \in ragged}
Whole(r) == {a \in Span(r) : PageOf(a) \notin ragged}

(* Where an address is RAM, so is what its page has before it.             *)
RamFillsPages ==
    \A x \in Nat : Has(e820, x, "RAM") /\ PageOf(x) \notin ragged =>
        \A b \in Nat : PageOf(x) <= b /\ b <= x => Has(e820, b, "RAM")

(* The inductive invariant but for the RAM disk: the table is a map from   *)
(* the first step on, none of its RAM spans the gap, all whole pages of RAM*)
(* are accepted, and until the ACPI tables have their place its bounds are *)
(* those that were read, or aligned.                                       *)
TableInv ==
    /\ boot \in {"fill", "panic"} \cup Early \cup Accepted
    /\ boot # "panic" => cause = "none"
    /\ e820 \in Seq(E820Entries)
    /\ boot \in Plain => e820 \in Seq(Within(Known))
    /\ boot # "fill" /\ cause # "not a memory map" => IsMap(e820)
    /\ boot \in Early \cup Accepted => ~Has(e820, GapStart, "RAM")
    /\ boot \in Accepted =>
          \A a \in Nat : Has(e820, a, "RAM") /\ PageOf(a) \notin ragged => a \in validated
    /\ boot = "initrd" => RamFillsPages
    /\ 0..(GapStart - 1) \subseteq validated
LoadedInv ==
    /\ DOMAIN loaded = {"kernel", "acpi", "initrd"}
    /\ \A x \in {"kernel", "acpi", "initrd"} : loaded[x] \in Nat \X Nat
    /\ loaded = [kernel |-> loaded.kernel, acpi |-> loaded.acpi, initrd |-> loaded.initrd]
    /\ boot \notin {"panic", "data 1", "data 2", "data 3", "jump"} => loaded.initrd = Nowhere
    /\ Whole(loaded.kernel) \subseteq validated
    /\ Whole(loaded.acpi) \subseteq validated
    /\ \A a \in Span(loaded.acpi) : a >= GapStart /\ ~Has(e820, a, "RAM")
Stage0Inv == TableInv /\ LoadedInv

(* The layout's numbers are numbers.                                       *)
LEMMA LayoutNumbers ==
    /\ GapStart \in Nat /\ SmbiosStart \in Nat /\ OneMiB \in Nat /\ KernelStart \in Nat
    /\ TopOfMemory \in Nat /\ HighMemSize \in Nat
    /\ GapStart < SmbiosStart /\ SmbiosStart <= OneMiB /\ OneMiB <= KernelStart
    /\ GapStart < HighMemSize
    /\ Aligned(GapStart) /\ Aligned(SmbiosStart) /\ Aligned(OneMiB) /\ Aligned(TopOfMemory)
    /\ Aligned(Ebda[1]) /\ Aligned(Ebda[2])
    /\ Ebda[1] \in Nat /\ Ebda[2] \in Nat /\ Ebda[1] <= Ebda[2] /\ Ebda[2] <= GapStart
    /\ DOMAIN BootData = 1..3
    /\ \A i \in 1..3 : /\ BootData[i] \in Nat \X Nat
                       /\ BootData[i][1] \in Nat /\ BootData[i][2] \in Nat
                       /\ BootData[i][1] <= BootData[i][2] /\ BootData[i][2] <= GapStart
<1>1. BootData \in Seq(Nat \X Nat) /\ Len(BootData) = 3
  BY LayoutAssumption
<1>2. DOMAIN BootData = 1..3 /\ \A i \in 1..3 : BootData[i] \in Nat \X Nat
  BY <1>1
<1>3. \A i \in 1..3 : BootData[i][1] \in Nat /\ BootData[i][2] \in Nat
  BY <1>2
<1>. QED  BY <1>2, <1>3, LayoutAssumption DEF Aligned

(* The pages of a range, and of none.                                      *)
LEMMA SpanIs ==
    ASSUME NEW r \in Nat \X Nat
    PROVE  /\ \A a : a \in Span(r) <=> a \in Nat /\ r[1] <= a /\ a < r[2]
           /\ Span(Nowhere) = {} /\ Nowhere \in Nat \X Nat
<1>. DEFINE x == r[1]
            y == r[2]
<1>1. x \in Nat /\ y \in Nat
  OBVIOUS
<1>2. Span(r) = x..(y - 1)
  BY DEF Span
<1>. HIDE DEF x, y
<1>3. \A a : a \in x..(y - 1) <=> a \in Nat /\ x <= a /\ a < y
  BY <1>1
<1>4. Span(Nowhere) = 0..(0 - 1) /\ Nowhere \in Nat \X Nat
  BY DEF Span, Nowhere
<1>5. 0..(0 - 1) = {}
  OBVIOUS
<1>. QED  BY <1>2, <1>3, <1>4, <1>5 DEF x, y

(* A panic changes nothing but boot and cause.                             *)
LEMMA PanicsKeeps ==
    ASSUME Stage0Inv, NEW why, Panics(why), boot # "panic",
           boot = "fill" => why = "not a memory map" \/ IsMap(e820)
    PROVE  Stage0Inv' /\ ragged' = ragged
<1>1. /\ boot' = "panic" /\ cause' = why /\ e820' = e820 /\ ragged' = ragged
      /\ validated' = validated /\ loaded' = loaded
  BY DEF Panics
<1>2. why # "not a memory map" => IsMap(e820)
  BY DEF Stage0Inv, TableInv
<1>3. \A a : Has(e820, a, "RAM")' <=> Has(e820, a, "RAM")
  BY <1>1 DEF Has, Holds
<1>4. IsMap(e820)' <=> IsMap(e820)
  BY <1>1 DEF IsMap, Ordered
<1>5. TableInv'
  BY <1>1, <1>2, <1>4 DEF Stage0Inv, TableInv, Early, Accepted, Plain
<1>6. LoadedInv'
  BY <1>1, <1>3 DEF Stage0Inv, LoadedInv, Whole, Span
<1>. QED  BY <1>1, <1>5, <1>6 DEF Stage0Inv

(* A step that claims a range for something else than RAM, or frees one.   *)
LEMMA ClaimKeeps ==
    ASSUME Stage0Inv, boot \in Early \cup Accepted, boot' \in Early \cup Accepted,
           boot \in Accepted <=> boot' \in Accepted, boot' # "initrd",
           cause' = cause, validated' = validated, loaded' = loaded, ragged' = ragged,
           boot' \notin {"data 1", "data 2", "data 3", "jump"} => loaded.initrd = Nowhere,
           boot' \in Plain => e820' \in Seq(Within(Known)),
           IsMap(e820'), \A a \in Nat : Has(e820', a, "RAM") => Has(e820, a, "RAM")
    PROVE  Stage0Inv'
<1>1. e820' \in Seq(E820Entries) /\ cause = "none"
  BY DEF IsMap, Stage0Inv, TableInv, Early, Accepted
<1>2. (IsMap(e820)' <=> IsMap(e820')) /\ Known' = Known
  BY DEF IsMap, Ordered, Known
<1>3. \A a, y : Has(e820, a, y)' <=> Has(e820', a, y)
  BY DEF Has, Holds
<1>4. ~Has(e820', GapStart, "RAM")
  BY LayoutNumbers DEF Stage0Inv, TableInv
<1>5. boot' \in Plain => e820' \in Seq(Within(Known))'
  BY <1>2 DEF Within
<1>6. TableInv'
  BY <1>1, <1>2, <1>3, <1>4, <1>5 DEF Stage0Inv, TableInv, Early, Accepted
<1>7. \A a \in Span(loaded.acpi) : a \in Nat
  BY SpanIs DEF Stage0Inv, LoadedInv
<1>8. LoadedInv'
  BY <1>3, <1>7 DEF Stage0Inv, LoadedInv, Whole, Span
<1>. QED  BY <1>6, <1>8 DEF Stage0Inv

(* The same of Claims: the range is inserted, or the table is full.        *)
LEMMA ClaimsKeeps ==
    ASSUME Stage0Inv, NEW entry \in E820Entries, entry.type # "RAM", NEW next,
           Claims(entry, next), next # "initrd",
           boot \in Early \cup Accepted, next \in Early \cup Accepted,
           boot \in Accepted <=> next \in Accepted,
           next \in Plain => boot \in Plain /\ entry \in Within(Known),
           next \notin {"data 1", "data 2", "data 3", "jump"} => loaded.initrd = Nowhere
    PROVE  /\ Stage0Inv'
           /\ loaded' = loaded /\ validated' = validated /\ ragged' = ragged
           /\ \/ UNCHANGED <<e820, claim>>
              \/ claim' = entry /\ Inserted(e820, entry, e820')
<1>1. IsMap(e820)
  BY DEF Stage0Inv, TableInv, Early, Accepted
<1>2. CASE Overflows(e820, entry)
  <2>1. Panics("out of bounds")
    BY <1>2 DEF Claims
  <2>2. Stage0Inv'
    BY <1>1, <2>1, PanicsKeeps DEF Early, Accepted
  <2>. QED  BY <2>1, <2>2 DEF Panics
<1>3. CASE ~Overflows(e820, entry)
  <2>1. /\ e820' = InsertE820Entry(e820, entry) /\ claim' = entry /\ boot' = next
        /\ cause' = cause /\ validated' = validated /\ loaded' = loaded /\ ragged' = ragged
    BY <1>3 DEF Claims
  <2>2. Inserted(e820, entry, e820')
    BY <1>1, <2>1, InsertIsMap
  <2>3. "RAM" \in E820Types
    BY DEF E820Types
  <2>4. \A a \in Nat : Has(e820', a, "RAM") => Has(e820, a, "RAM")
    BY <2>2, <2>3 DEF Inserted
  <2>5. boot' \in Plain => e820' \in Seq(Within(Known))
    BY <1>1, <2>1, InsertWithin DEF Stage0Inv, TableInv
  <2>6. Stage0Inv'
    BY <2>1, <2>2, <2>4, <2>5, ClaimKeeps DEF Inserted
  <2>. QED  BY <2>1, <2>2, <2>6
<1>. QED  BY <1>2, <1>3

(* What a step does to the table.                                          *)
MapStep ==
    \/ UNCHANGED <<e820, claim>>
    \/ claim' \in E820Entries /\ Inserted(e820, claim', e820')
    \/ \E s \in Nat, t \in Nat : claim' = E820Entry(s, t, "none") /\ HasGap(e820, s, t, e820')

(* fill_e820_table, up to the gap.                                         *)
LEMMA FillKeeps == ASSUME Stage0Inv, FillE820Table PROVE Stage0Inv' /\ MapStep
<1>1. /\ boot = "fill" /\ e820 \in Seq(E820Entries) /\ cause = "none"
      /\ 0..(GapStart - 1) \subseteq validated /\ e820 \in Seq(Within(Known))
  BY DEF FillE820Table, Stage0Inv, TableInv, Plain
<1>2. CASE e820 = << >> \/ ~Sorted(e820)
  <2>1. Panics("not a memory map")
    BY <1>2 DEF FillE820Table
  <2>. QED  BY <1>1, <2>1, PanicsKeeps DEF Panics, MapStep
<1>3. CASE ~(e820 = << >> \/ ~Sorted(e820))
  <2>1. IsMap(e820)
    BY <1>1, <1>3, SortedIsOrdered DEF IsMap
  <2>2. CASE SplitBy(e820, GapStart, SmbiosStart) # 0 /\ Len(e820) = MaxE820
    <3>1. Panics("out of bounds")
      BY <1>3, <2>2 DEF FillE820Table
    <3>. QED  BY <1>1, <2>1, <3>1, PanicsKeeps DEF Panics, MapStep
  <2>3. CASE ~(SplitBy(e820, GapStart, SmbiosStart) # 0 /\ Len(e820) = MaxE820)
    <3>1. /\ e820' = EnsureE820Gap(e820, GapStart, SmbiosStart)
          /\ claim' = E820Entry(GapStart, SmbiosStart, "none")
          /\ boot' = "smbios" /\ cause' = cause /\ validated' = validated /\ loaded' = loaded
          /\ ragged' = ragged
      BY <1>3, <2>3 DEF FillE820Table
    <3>2. HasGap(e820, GapStart, SmbiosStart, e820')
      BY <2>1, <3>1, LayoutNumbers, EnsuresGap
    <3>3. "RAM" \in E820Types
      BY DEF E820Types
    <3>4. /\ IsMap(e820') /\ ~Has(e820', GapStart, "RAM")
          /\ \A a \in Nat : Has(e820', a, "RAM") => Has(e820, a, "RAM")
      BY <3>2, <3>3, LayoutNumbers DEF HasGap
    <3>5. /\ IsMap(e820)' <=> IsMap(e820')
          /\ \A a, y : Has(e820, a, y)' <=> Has(e820', a, y)
          /\ Known' = Known
      BY <3>1 DEF Has, Holds, IsMap, Ordered, Known
    <3>6. e820' \in Seq(E820Entries) /\ e820' \in Seq(Within(Known))'
      <4>1. GapStart \in Known /\ SmbiosStart \in Known
        BY LayoutNumbers DEF Known
      <4>2. e820' \in Seq(Within(Known))
        BY <1>1, <2>1, <3>1, <4>1, LayoutNumbers, GapWithin
      <4>. QED  BY <3>4, <3>5, <4>2 DEF IsMap, Within
    <3>7. TableInv'
      BY <1>1, <3>1, <3>4, <3>5, <3>6 DEF TableInv, Early, Accepted
    <3>8. \A a \in Span(loaded.acpi) : a \in Nat
      BY SpanIs DEF Stage0Inv, LoadedInv
    <3>9. LoadedInv'
      BY <1>1, <3>1, <3>4, <3>5, <3>8 DEF Stage0Inv, LoadedInv, Whole, Span
    <3>. QED  BY <3>1, <3>2, <3>7, <3>9, LayoutNumbers DEF Stage0Inv, MapStep
  <2>. QED  BY <2>2, <2>3
<1>. QED  BY <1>2, <1>3

(* A step that leaves the table and where things are as they were.         *)
LEMMA AdvanceKeeps ==
    ASSUME Stage0Inv, boot \in Accepted, boot' \in Accepted, boot' # "initrd",
           boot' \in Plain => boot \in Plain,
           UNCHANGED <<cause, e820, claim, validated, loaded, ragged>>,
           boot' \notin {"data 1", "data 2", "data 3", "jump"} => loaded.initrd = Nowhere
    PROVE  Stage0Inv' /\ MapStep
<1>1. /\ e820' = e820 /\ cause' = cause /\ validated' = validated /\ loaded' = loaded
      /\ ragged' = ragged
  OBVIOUS
<1>2. /\ IsMap(e820) /\ \A a \in Nat : Has(e820', a, "RAM") => Has(e820, a, "RAM")
      /\ boot' \in Plain => e820' \in Seq(Within(Known))
  BY <1>1 DEF Stage0Inv, TableInv, Accepted
<1>. QED  BY <1>1, <1>2, ClaimKeeps DEF MapStep

(* The SMBIOS range.                                                       *)
LEMMA SmbiosKeeps == ASSUME Stage0Inv, ReserveSmbios PROVE Stage0Inv' /\ MapStep
<1>. DEFINE entry == E820Entry(SmbiosStart, OneMiB, "RESERVED")
<1>1. entry \in E820Entries /\ entry.type = "RESERVED" /\ entry \in Within(Known)
  BY LayoutNumbers, EntryMade DEF E820Types, Within, Known
<1>2. boot = "smbios" /\ Claims(entry, "validate")
  BY DEF ReserveSmbios
<1>. HIDE DEF entry
<1>3. loaded.initrd = Nowhere
  BY <1>2 DEF Stage0Inv, LoadedInv
<1>. QED  BY <1>1, <1>2, <1>3, ClaimsKeeps DEF Early, Accepted, Plain, MapStep

(* The bounds of huge pages are numbers.                                   *)
LEMMA AlignedIsInt ==
    ASSUME NEW a \in Nat PROVE AlignUp(a, HugePage) \in Int /\ AlignDown(a, HugePage) \in Int
<1>1. HugePage \in Nat \ {0}
  BY LayoutAssumption
<1>2. \A x \in Int : x % HugePage \in Int
  BY <1>1
<1>3. \A x \in Int : x - (x % HugePage) \in Int
  BY <1>2
<1>4. a + HugePage - 1 \in Int
  BY <1>1
<1>. QED  BY <1>3, <1>4 DEF AlignUp, AlignDown

(* Every whole page of an entry is among the leading, the huge or the      *)
(* trailing.                                                               *)
LEMMA AllAccepted ==
    ASSUME NEW e, e.addr \in Nat, e.end \in Nat
    PROVE  First(e)..(Limit(e) - 1) \subseteq Leading(e) \cup Huge(e) \cup Trailing(e)
<1>. DEFINE x == First(e)
            y == Limit(e)
            up == AlignUp(x, HugePage)
            down == AlignDown(y, HugePage)
            m == IF up <= y THEN up ELSE y
            n == IF x >= down THEN x ELSE down
<1>1. x \in Nat /\ y \in Nat
  BY PageIs DEF First, Limit
<1>. HIDE DEF x, y
<1>2. up \in Int /\ down \in Int
  BY <1>1, AlignedIsInt
<1>. HIDE DEF up, down
<1>3. Min({up, y}) = m /\ Max({x, down}) = n
  BY <1>1, <1>2 DEF Min, Max
<1>4. /\ Leading(e) = x..(m - 1) /\ Huge(e) = up..(down - 1) /\ Trailing(e) = n..(y - 1)
      /\ First(e)..(Limit(e) - 1) = x..(y - 1)
  BY <1>3 DEF Leading, Huge, Trailing, up, down, x, y
<1>5. \A a \in x..(y - 1) : a \in x..(m - 1) \/ a \in up..(down - 1) \/ a \in n..(y - 1)
  BY <1>1, <1>2
<1>. QED  BY <1>4, <1>5

(* An address of an entry that no bound shares the page of lies in a whole *)
(* page of the entry, and so does what the page has before it.             *)
LEMMA WholePage ==
    ASSUME NEW e \in Within(Known), NEW a \in Nat, e.addr <= a, a < e.end, PageOf(a) \notin ragged
    PROVE  First(e) <= a /\ a < Limit(e) /\ e.addr <= PageOf(a)
<1>. DEFINE p == PageOf(a)
            x == e.addr
            y == e.end
<1>1. /\ x \in Nat /\ y \in Nat /\ x <= a /\ a < y
      /\ Aligned(x) \/ PageOf(x) \in ragged
      /\ Aligned(y) \/ PageOf(y) \in ragged
  BY EntryFields DEF Within, Known
<1>2. p \in Nat /\ p <= a /\ a < p + Page /\ Aligned(p) /\ p \notin ragged /\ Page \in Nat \ {0}
  BY PageIs
<1>3. x <= p
  <2>. SUFFICES ASSUME p < x PROVE FALSE
    BY <1>1, <1>2
  <2>1. PageOf(x) = p
    BY <1>1, <1>2, SamePage
  <2>2. Aligned(x)
    BY <1>1, <1>2, <2>1
  <2>. HIDE DEF p
  <2>3. x <= p
    BY <1>1, <1>2, <2>2, AlignedApart
  <2>. QED  BY <1>1, <1>2, <2>3
<1>4. p + Page <= y
  <2>. SUFFICES ASSUME y < p + Page PROVE FALSE
    BY <1>1, <1>2
  <2>. DEFINE q == PageOf(y)
  <2>1. q \in Nat /\ q <= y /\ y < q + Page /\ Aligned(q)
    BY <1>1, PageIs
  <2>2. q <= p /\ p <= q
    <3>. HIDE DEF p, q
    <3>. QED  BY <1>1, <1>2, <2>1, AlignedApart
  <2>3. q = p
    <3>. HIDE DEF p, q
    <3>. QED  BY <1>2, <2>1, <2>2
  <2>4. Aligned(y)
    BY <1>1, <1>2, <2>3
  <2>5. y <= p
    <3>. HIDE DEF p
    <3>. QED  BY <1>1, <1>2, <2>4, AlignedApart
  <2>. HIDE DEF p
  <2>. QED  BY <1>1, <1>2, <2>5
<1>5. First(e) <= p
  <2>1. First(e) \in Nat /\ First(e) < x + Page /\ Aligned(First(e))
    BY <1>1, PageIs DEF First
  <2>2. First(e) < p + Page
    <3>. HIDE DEF p, x
    <3>. QED  BY <1>1, <1>2, <1>3, <2>1
  <2>. HIDE DEF p
  <2>. QED  BY <1>2, <2>1, <2>2, AlignedApart
<1>6. p + Page <= Limit(e)
  <2>. DEFINE q == Limit(e)
              r == p + Page
  <2>1. q \in Nat /\ y < q + Page /\ Aligned(q)
    BY <1>1, PageIs DEF Limit
  <2>2. r \in Nat /\ Aligned(r)
    <3>. HIDE DEF p
    <3>1. p % Page = 0
      BY <1>2 DEF Aligned
    <3>2. (p + Page) % Page = 0
      <4>. DEFINE k == p \div Page
      <4>1. k \in Int /\ p = Page * k
        BY <1>2, <3>1
      <4>. HIDE DEF k
      <4>2. p + Page = Page * (k + 1) /\ k + 1 \in Int
        BY <1>2, <4>1
      <4>3. \A j \in Int : (Page * j) % Page = 0
        BY <1>2
      <4>. QED  BY <4>2, <4>3
    <3>. QED  BY <1>2, <3>2 DEF Aligned
  <2>3. r < q + Page
    <3>. HIDE DEF p, q, y
    <3>. QED  BY <1>1, <1>2, <1>4, <2>1
  <2>. HIDE DEF q, r
  <2>4. r <= q
    BY <1>2, <2>1, <2>2, <2>3, AlignedApart
  <2>. QED  BY <2>4 DEF q, r
<1>7. First(e) \in Nat /\ Limit(e) \in Nat
  BY <1>1, PageIs DEF First, Limit
<1>. HIDE DEF p
<1>8. First(e) <= a /\ a < Limit(e)
  BY <1>2, <1>5, <1>6, <1>7
<1>. QED  BY <1>3, <1>8 DEF p

(* validate_memory accepts all whole pages of RAM above the gap.           *)
LEMMA ValidateKeeps == ASSUME Stage0Inv, ValidateMemory PROVE Stage0Inv' /\ MapStep
<1>. DEFINE above == {e \in Ram : e.addr >= GapStart}
            accept == {e \in above : First(e) <= Limit(e)}
<1>1. boot = "validate" /\ e820 \in Seq(E820Entries) /\ ~Has(e820, GapStart, "RAM")
      /\ cause = "none" /\ IsMap(e820) /\ e820 \in Seq(Within(Known))
      /\ 0..(GapStart - 1) \subseteq validated
  BY DEF ValidateMemory, Stage0Inv, TableInv, Early, Plain
<1>2. \/ \E why : Panics(why)
      \/ /\ validated' = validated \cup SmbiosStart..(OneMiB - 1) \cup
                UNION {Leading(e) \cup Huge(e) \cup Trailing(e) : e \in accept}
         /\ boot' = "heap"
         /\ UNCHANGED <<cause, e820, claim, loaded, ragged>>
  BY DEF ValidateMemory
<1>3. CASE \E why : Panics(why)
  <2>1. PICK why : Panics(why)
    BY <1>3
  <2>. QED  BY <1>1, <2>1, PanicsKeeps DEF Panics, MapStep
<1>4. CASE /\ validated' = validated \cup SmbiosStart..(OneMiB - 1) \cup
                UNION {Leading(e) \cup Huge(e) \cup Trailing(e) : e \in accept}
           /\ boot' = "heap"
           /\ UNCHANGED <<cause, e820, claim, loaded, ragged>>
  <2>1. ASSUME NEW a \in Nat, Has(e820, a, "RAM"), PageOf(a) \notin ragged
        PROVE  a \in validated'
    <3>1. CASE a < GapStart
      BY <1>1, <1>4, <3>1, LayoutNumbers
    <3>2. CASE a >= GapStart
      <4>1. PICK e \in Ram : a \in Held(e)
        BY <1>1, <2>1, RamHas
      <4>2. e.addr \in Nat /\ e.end \in Nat
        BY <1>1, RamHas
      <4>3. e.addr <= a /\ a < e.end
        BY <4>1, <4>2 DEF Held
      <4>4. GapStart \notin Held(e)
        BY <1>1, LayoutNumbers, RamHas
      <4>5. e.addr >= GapStart
        BY <3>2, <4>2, <4>3, <4>4, LayoutNumbers DEF Held
      <4>6. e \in Within(Known)
        BY <1>1 DEF Ram, ToSet
      <4>7. First(e) <= a /\ a < Limit(e)
        BY <2>1, <4>3, <4>6, WholePage
      <4>8. First(e) \in Nat /\ Limit(e) \in Nat
        BY <4>2, PageIs DEF First, Limit
      <4>9. a \in First(e)..(Limit(e) - 1) /\ First(e) <= Limit(e)
        BY <4>7, <4>8
      <4>10. a \in Leading(e) \cup Huge(e) \cup Trailing(e)
        BY <4>2, <4>9, AllAccepted
      <4>11. e \in accept
        BY <4>5, <4>9
      <4>. HIDE DEF accept
      <4>. QED  BY <1>4, <4>10, <4>11
    <3>. QED  BY <3>1, <3>2, LayoutNumbers
  <2>2. /\ IsMap(e820)' <=> IsMap(e820)
        /\ \A a, y : Has(e820, a, y)' <=> Has(e820, a, y)
        /\ Known' = Known
    BY <1>4 DEF Has, Holds, IsMap, Ordered, Known
  <2>3. /\ boot' = "heap" /\ cause' = cause /\ e820' = e820 /\ claim' = claim
        /\ loaded' = loaded /\ validated \subseteq validated' /\ ragged' = ragged
    BY <1>4
  <2>4. e820' \in Seq(Within(Known))'
    BY <1>1, <2>2, <2>3 DEF Within
  <2>5. TableInv'
    BY <1>1, <2>1, <2>2, <2>3, <2>4 DEF Stage0Inv, TableInv, Early, Accepted
  <2>6. LoadedInv'
    BY <1>1, <2>2, <2>3 DEF Stage0Inv, LoadedInv, Whole, Span
  <2>. QED  BY <2>3, <2>5, <2>6 DEF Stage0Inv, MapStep
<1>. QED  BY <1>2, <1>3, <1>4

(* init_global_allocator.                                                  *)
LEMMA HeapKeeps == ASSUME Stage0Inv, InitGlobalAllocator PROVE Stage0Inv' /\ MapStep
<1>1. boot = "heap" /\ loaded.initrd = Nowhere
  BY DEF InitGlobalAllocator, Stage0Inv, LoadedInv
<1>2. \/ Panics("heap is not backed by physical memory")
      \/ boot' = "kernel" /\ UNCHANGED <<cause, e820, claim, validated, loaded, ragged>>
  BY DEF InitGlobalAllocator
<1>3. CASE Panics("heap is not backed by physical memory")
  BY <1>1, <1>3, PanicsKeeps DEF Panics, MapStep
<1>4. CASE boot' = "kernel" /\ UNCHANGED <<cause, e820, claim, validated, loaded, ragged>>
  <2>1. boot' \in Accepted /\ boot \in Accepted /\ boot \in Plain
    BY <1>1, <1>4 DEF Accepted, Plain
  <2>. QED  BY <1>1, <1>4, <2>1, AdvanceKeeps
<1>. QED  BY <1>2, <1>3, <1>4

(* try_load_kernel_image: the kernel lies in RAM, above the gap.           *)
LEMMA KernelImageKeeps ==
    ASSUME Stage0Inv, NEW size \in KernelSizes, TryLoadKernelImage(size)
    PROVE  Stage0Inv' /\ MapStep
<1>. DEFINE range == <<KernelStart, KernelStart + size>>
<1>1. boot = "kernel" /\ loaded.initrd = Nowhere /\ e820 \in Seq(E820Entries) /\ IsMap(e820)
      /\ cause = "none"
  BY DEF TryLoadKernelImage, Stage0Inv, LoadedInv, TableInv, Accepted
<1>2. \/ Panics("kernel does not fit")
      \/ /\ \E e \in Ram : Span(range) \subseteq Held(e)
         /\ loaded' = [loaded EXCEPT !.kernel = range]
         /\ boot' = "low"
         /\ UNCHANGED <<cause, e820, claim, validated, ragged>>
  BY DEF TryLoadKernelImage
<1>3. CASE Panics("kernel does not fit")
  BY <1>1, <1>3, PanicsKeeps DEF Panics, MapStep
<1>4. CASE /\ \E e \in Ram : Span(range) \subseteq Held(e)
           /\ loaded' = [loaded EXCEPT !.kernel = range]
           /\ boot' = "low"
           /\ UNCHANGED <<cause, e820, claim, validated, ragged>>
  <2>1. range \in Nat \X Nat /\ range[1] = KernelStart
    <3>1. size \in Nat
      BY LayoutAssumption
    <3>. QED  BY <3>1, LayoutNumbers
  <2>. HIDE DEF range
  <2>2. ASSUME NEW a \in Whole(range) PROVE a \in validated
    <3>1. a \in Nat /\ a \in Span(range) /\ PageOf(a) \notin ragged
      BY <2>1, SpanIs DEF Whole
    <3>2. Has(e820, a, "RAM")
      BY <1>1, <1>4, <3>1, RamHas
    <3>. QED  BY <1>1, <3>1, <3>2 DEF Stage0Inv, TableInv, Accepted
  <2>3. /\ IsMap(e820)' <=> IsMap(e820)
        /\ \A a, y : Has(e820, a, y)' <=> Has(e820, a, y)
        /\ e820 \in Seq(Within(Known)) => e820' \in Seq(Within(Known))'
    BY <1>4 DEF Has, Holds, IsMap, Ordered, Known, Within
  <2>4. TableInv'
    BY <1>1, <1>4, <2>3 DEF Stage0Inv, TableInv, Early, Accepted, Plain
  <2>5. loaded' = [kernel |-> range, acpi |-> loaded.acpi, initrd |-> loaded.initrd]
    BY <1>4 DEF Stage0Inv, LoadedInv
  <2>6. loaded.acpi \in Nat \X Nat /\ loaded.initrd \in Nat \X Nat
    BY DEF Stage0Inv, LoadedInv
  <2>7. /\ loaded'.kernel = range /\ loaded'.acpi = loaded.acpi
        /\ loaded'.initrd = loaded.initrd
        /\ DOMAIN loaded' = {"kernel", "acpi", "initrd"}
        /\ \A x \in {"kernel", "acpi", "initrd"} : loaded'[x] \in Nat \X Nat
    BY <2>1, <2>5, <2>6
  <2>8. Whole(loaded'.kernel) \subseteq validated' /\ Whole(loaded.kernel)' = Whole(loaded'.kernel)
    BY <1>4, <2>2, <2>7 DEF Whole, Span
  <2>9. LoadedInv'
    BY <1>1, <1>4, <2>3, <2>5, <2>7, <2>8 DEF Stage0Inv, LoadedInv, Whole, Span
  <2>. QED  BY <1>4, <2>4, <2>9 DEF Stage0Inv, MapStep
<1>. QED  BY <1>2, <1>3, <1>4

(* setup_low_allocator.                                                    *)
LEMMA LowKeeps == ASSUME Stage0Inv, SetupLowAllocator PROVE Stage0Inv' /\ MapStep
<1>. DEFINE entry == E820Entry(Ebda[1], Ebda[2], "ACPI")
<1>1. entry \in E820Entries /\ entry.type = "ACPI" /\ entry \in Within(Known)
  BY LayoutNumbers, EntryMade DEF E820Types, Within, Known
<1>2. boot = "low" /\ Claims(entry, "high")
  BY DEF SetupLowAllocator
<1>. HIDE DEF entry
<1>3. loaded.initrd = Nowhere
  BY <1>2 DEF Stage0Inv, LoadedInv
<1>. QED  BY <1>1, <1>2, <1>3, ClaimsKeeps DEF Early, Accepted, Plain, MapStep

(* RAM that has a page below the gap ends by the gap.                      *)
LEMMA BelowTheGap ==
    ASSUME Stage0Inv, boot \in Accepted, NEW e \in Ram
    PROVE  /\ e.addr \in Nat /\ e.end \in Nat /\ e.addr <= e.end
           /\ e.addr >= GapStart \/ e.end <= GapStart
<1>1. e820 \in Seq(E820Entries) /\ ~Has(e820, GapStart, "RAM") /\ GapStart \in Nat
  BY LayoutNumbers DEF Stage0Inv, TableInv
<1>2. e.addr \in Nat /\ e.end \in Nat /\ e.addr <= e.end /\ GapStart \notin Held(e)
  BY <1>1, RamHas
<1>. QED  BY <1>1, <1>2 DEF Held

(* setup_high_allocator: the ACPI tables take the end of RAM that is too   *)
(* large for low memory.                                                   *)
LEMMA HighKeeps == ASSUME Stage0Inv, SetupHighAllocator PROVE Stage0Inv' /\ MapStep
<1>. DEFINE ok(e) == /\ e.type = "RAM"
                     /\ e.addr < TopOfMemory - HighMemSize
                     /\ e.end - e.addr >= HighMemSize
            I == {j \in 1..Len(e820) : ok(e820[j])}
            i == IF I # {} THEN Max(I) ELSE 0
            limit == Min({TopOfMemory, e820[i].end})
            entry == E820Entry(limit - HighMemSize, limit, "ACPI")
<1>1. boot = "high" /\ loaded.initrd = Nowhere /\ e820 \in Seq(E820Entries) /\ IsMap(e820)
      /\ cause = "none" /\ boot \in Accepted /\ e820 \in Seq(Within(Known))
  BY DEF SetupHighAllocator, Stage0Inv, LoadedInv, TableInv, Accepted, Plain
<1>2. \/ \E why : Panics(why)
      \/ /\ i # 0
         /\ e820' = InsertE820Entry(e820, entry)
         /\ claim' = entry
         /\ loaded' = [loaded EXCEPT !.acpi = <<entry.addr, entry.end>>]
         /\ boot' = "initrd"
         /\ UNCHANGED <<cause, validated, ragged>>
  <2>1. SelectLastInSeq(e820, LAMBDA e : /\ e.type = "RAM"
                                         /\ e.addr < TopOfMemory - HighMemSize
                                         /\ e.end - e.addr >= HighMemSize) = i
    BY DEF SelectLastInSeq
  <2>. QED  BY <2>1 DEF SetupHighAllocator
<1>3. CASE \E why : Panics(why)
  <2>1. PICK why : Panics(why)
    BY <1>3
  <2>. QED  BY <1>1, <2>1, PanicsKeeps DEF Panics, MapStep
<1>4. CASE /\ i # 0
           /\ e820' = InsertE820Entry(e820, entry)
           /\ claim' = entry
           /\ loaded' = [loaded EXCEPT !.acpi = <<entry.addr, entry.end>>]
           /\ boot' = "initrd"
           /\ UNCHANGED <<cause, validated, ragged>>
  <2>1. i \in 1..Len(e820) /\ ok(e820[i])
    <3>1. I # {} /\ i = Max(I)
      BY <1>4
    <3>2. Len(e820) \in Nat /\ I \in SUBSET (0..Len(e820))
      BY <1>1
    <3>. HIDE DEF I, i
    <3>3. Max(I) \in I
      BY <3>1, <3>2, MaxIsGreatest
    <3>. QED  BY <3>1, <3>3 DEF I
  <2>. HIDE DEF i
  <2>. DEFINE e == e820[i]
  <2>2. e \in Ram /\ e.addr < TopOfMemory - HighMemSize /\ e.end - e.addr >= HighMemSize
    <3>1. i \in DOMAIN e820
      BY <1>1, <2>1
    <3>. QED  BY <2>1, <3>1 DEF Ram, ToSet
  <2>. HIDE DEF e
  <2>3. /\ e.addr \in Nat /\ e.end \in Nat /\ e.addr <= e.end
        /\ e.addr >= GapStart \/ e.end <= GapStart
    BY <1>1, <2>2, BelowTheGap
  <2>4. e.addr >= GapStart
    BY <2>2, <2>3, LayoutNumbers
  <2>5. limit = IF TopOfMemory <= e.end THEN TopOfMemory ELSE e.end
    BY <2>3, LayoutNumbers DEF Min, e
  <2>. DEFINE start == limit - HighMemSize
  <2>6. /\ limit \in Nat /\ start \in Nat /\ start <= limit
        /\ e.addr <= start /\ limit <= e.end
    <3>. HIDE DEF limit
    <3>. QED  BY <2>2, <2>3, <2>5, LayoutNumbers
  <2>7. entry \in E820Entries /\ entry.addr = start /\ entry.end = limit /\ entry.type = "ACPI"
    <3>1. "ACPI" \in E820Types
      BY DEF E820Types
    <3>. HIDE DEF limit
    <3>. QED  BY <2>6, <3>1, EntryMade
  <2>. HIDE DEF entry, limit, start
  <2>8. Inserted(e820, entry, e820')
    BY <1>1, <1>4, <2>7, InsertIsMap
  <2>9. "RAM" \in E820Types
    BY DEF E820Types
  <2>10. /\ IsMap(e820') /\ \A a \in Nat : Has(e820', a, "RAM") => Has(e820, a, "RAM")
         /\ \A a \in Nat : start <= a /\ a < limit => ~Has(e820', a, "RAM")
    BY <2>7, <2>8, <2>9 DEF Inserted
  <2>. DEFINE range == <<start, limit>>
  <2>11. ASSUME NEW a \in Span(range)
         PROVE  /\ a \in Nat /\ a >= GapStart /\ ~Has(e820', a, "RAM")
                /\ PageOf(a) \notin ragged => a \in validated
    <3>1. range \in Nat \X Nat /\ range[1] = start /\ range[2] = limit
      BY <2>6
    <3>. HIDE DEF range
    <3>2. a \in Nat /\ start <= a /\ a < limit
      BY <3>1, SpanIs
    <3>3. a \in Held(e) /\ a >= GapStart
      BY <2>3, <2>4, <2>6, <3>2, LayoutNumbers DEF Held
    <3>4. Has(e820, a, "RAM")
      BY <1>1, <2>2, <3>2, <3>3, RamHas
    <3>. QED  BY <1>1, <2>10, <3>2, <3>3, <3>4 DEF Stage0Inv, TableInv
  <2>12. /\ IsMap(e820)' <=> IsMap(e820')
         /\ \A a, y : Has(e820, a, y)' <=> Has(e820', a, y)
    BY DEF Has, Holds, IsMap, Ordered
  <2>13. ~Has(e820', GapStart, "RAM") /\ e820' \in Seq(E820Entries)
    BY <1>1, <2>10, LayoutNumbers DEF Stage0Inv, TableInv, IsMap
  <2>14. /\ boot' = "initrd" /\ cause' = cause /\ validated' = validated /\ claim' = entry
         /\ ragged' = ragged
    BY <1>4
  <2>21. ASSUME NEW x \in Nat, Has(e820', x, "RAM"), PageOf(x) \notin ragged,
                NEW b \in Nat, PageOf(x) <= b, b <= x
         PROVE  Has(e820', b, "RAM")
    <3>1. Has(e820, x, "RAM") /\ ~(start <= x /\ x < limit)
      BY <2>10, <2>21
    <3>2. PICK f \in Ram : x \in Held(f)
      BY <1>1, <3>1, RamHas
    <3>3. f \in Within(Known) /\ e \in Within(Known)
      BY <1>1, <2>2, <3>2 DEF Ram, ToSet
    <3>4. f.addr \in Nat /\ f.end \in Nat /\ f.addr <= x /\ x < f.end
      BY <1>1, <3>2, RamHas DEF Held
    <3>5. f.addr <= PageOf(x) /\ PageOf(x) \in Nat
      BY <2>21, <3>3, <3>4, WholePage, PageIs
    <3>6. b \in Held(f)
      BY <2>21, <3>4, <3>5 DEF Held
    <3>7. Has(e820, b, "RAM")
      BY <1>1, <3>6, RamHas
    <3>8. ~(start <= b /\ b < limit)
      <4>. SUFFICES ASSUME start <= b, b < limit PROVE FALSE
        OBVIOUS
      <4>1. limit <= x
        BY <2>6, <2>21, <3>1
      <4>2. CASE limit = TopOfMemory
        <5>. DEFINE p == PageOf(x)
        <5>1. p \in Nat /\ p <= x /\ x < p + Page /\ Aligned(p) /\ Aligned(limit) /\ Page \in Nat
          BY <4>2, LayoutNumbers, PageIs
        <5>. HIDE DEF p
        <5>2. limit <= p
          BY <2>6, <4>1, <5>1, AlignedApart
        <5>. QED  BY <2>6, <2>21, <5>1, <5>2 DEF p
      <4>3. CASE limit = e.end
        <5>1. e.end \in Known
          BY <3>3 DEF Within
        <5>2. PageOf(e.end) = PageOf(x)
          BY <2>3, <2>6, <2>21, <3>5, <4>1, <4>3, SamePage
        <5>3. Aligned(e.end)
          BY <2>21, <5>1, <5>2 DEF Known
        <5>. DEFINE p == PageOf(x)
        <5>4. p \in Nat /\ p <= x /\ x < p + Page /\ Aligned(p) /\ Page \in Nat
          BY PageIs
        <5>. HIDE DEF p
        <5>5. e.end <= p
          BY <2>3, <4>1, <4>3, <5>3, <5>4, AlignedApart
        <5>. QED  BY <2>3, <2>6, <2>21, <4>3, <5>4, <5>5 DEF p
      <4>. QED  BY <2>5, <4>2, <4>3
    <3>. QED  BY <2>7, <2>8, <2>9, <3>7, <3>8 DEF Inserted
  <2>22. RamFillsPages'
    BY <2>12, <2>14, <2>21 DEF RamFillsPages
  <2>15. TableInv'
    BY <1>1, <2>10, <2>12, <2>13, <2>14, <2>22 DEF Stage0Inv, TableInv, Early, Accepted, Plain
  <2>16. loaded' = [kernel |-> loaded.kernel, acpi |-> range, initrd |-> loaded.initrd]
    BY <1>4, <2>7 DEF Stage0Inv, LoadedInv
  <2>17. loaded.kernel \in Nat \X Nat /\ loaded.initrd \in Nat \X Nat /\ range \in Nat \X Nat
    BY <2>6 DEF Stage0Inv, LoadedInv
  <2>. HIDE DEF range
  <2>18. /\ loaded'.kernel = loaded.kernel /\ loaded'.acpi = range
         /\ loaded'.initrd = loaded.initrd
         /\ DOMAIN loaded' = {"kernel", "acpi", "initrd"}
         /\ \A x \in {"kernel", "acpi", "initrd"} : loaded'[x] \in Nat \X Nat
    BY <2>16, <2>17
  <2>19. /\ Whole(loaded.acpi)' \subseteq validated'
         /\ \A a \in Span(loaded'.acpi) : a >= GapStart /\ ~Has(e820', a, "RAM")
    BY <2>11, <2>14, <2>18 DEF Whole, Span
  <2>20. LoadedInv'
    BY <1>1, <2>12, <2>14, <2>16, <2>18, <2>19 DEF Stage0Inv, LoadedInv, Whole, Span
  <2>. QED  BY <2>7, <2>8, <2>14, <2>15, <2>20 DEF Stage0Inv, MapStep
<1>. QED  BY <1>2, <1>3, <1>4

(* find_suitable_dma_address finds a place that ends in RAM, and begins    *)
(* there or in the page where the RAM begins.                              *)
LEMMA DmaFound ==
    ASSUME e820 \in Seq(E820Entries), NEW size \in Nat, FindSuitableDmaAddress(size) # Nowhere
    PROVE  LET r == FindSuitableDmaAddress(size)
           IN  /\ r \in Nat \X Nat /\ r[1] + size = r[2]
               /\ \E e \in Ram, x \in Nat :
                     e.addr <= x /\ x + size <= e.end /\ r[1] = PageOf(x)
<1>. DEFINE end(e) == Min({TopOfMemory, e.end})
            padded == AlignUp(size, Page)
            fits == {e \in Ram : e.addr + padded <= end(e)}
            found == {PageOf(end(e) - padded) : e \in fits}
            m == Max(found)
            r == FindSuitableDmaAddress(size)
<1>1. found # {} /\ r = <<m, m + size>>
  BY DEF FindSuitableDmaAddress
<1>0. padded \in Nat /\ size <= padded
  BY PageIs
<1>. HIDE DEF padded
<1>2. \A e \in Ram : /\ e.addr \in Nat /\ e.end \in Nat
                     /\ end(e) \in Nat /\ end(e) <= TopOfMemory /\ end(e) <= e.end
  <2>1. \A e \in Ram : e.addr \in Nat /\ e.end \in Nat
    BY RamHas, LayoutNumbers
  <2>2. \A x \in Nat : /\ Min({TopOfMemory, x}) \in Nat
                       /\ Min({TopOfMemory, x}) <= TopOfMemory /\ Min({TopOfMemory, x}) <= x
    <3>. TAKE x \in Nat
    <3>1. {TopOfMemory, x} \in SUBSET Nat /\ {TopOfMemory, x} # {}
      BY LayoutNumbers
    <3>. QED  BY <3>1, MinIsLeast
  <2>. QED  BY <2>1, <2>2
<1>. HIDE DEF end
<1>3. \A e \in fits : /\ end(e) - padded \in Nat /\ end(e) - padded <= TopOfMemory
                      /\ e.addr <= end(e) - padded
  <2>1. ASSUME NEW e \in fits
        PROVE  /\ end(e) - padded \in Nat /\ end(e) - padded <= TopOfMemory
               /\ e.addr <= end(e) - padded
    <3>1. e \in Ram /\ e.addr + padded <= end(e)
      OBVIOUS
    <3>2. e.addr \in Nat /\ end(e) \in Nat /\ end(e) <= TopOfMemory
      BY <1>2, <3>1
    <3>. DEFINE b == end(e)
                c == e.addr
    <3>3. c \in Nat /\ b \in Nat /\ b <= TopOfMemory /\ c + padded <= b
      BY <3>1, <3>2
    <3>. HIDE DEF b, c
    <3>4. b - padded \in Nat /\ b - padded <= TopOfMemory /\ c <= b - padded
      BY <1>0, <3>3, LayoutNumbers
    <3>. QED  BY <3>4 DEF b, c
  <2>. QED  BY <2>1
<1>4. \A e \in fits : /\ PageOf(end(e) - padded) \in Nat
                      /\ PageOf(end(e) - padded) <= end(e) - padded
  BY <1>3, PageIs
<1>5. found \in SUBSET (0..TopOfMemory)
  <2>1. \A e \in fits : PageOf(end(e) - padded) \in 0..TopOfMemory
    BY <1>3, <1>4, LayoutNumbers
  <2>. QED  BY <2>1
<1>. HIDE DEF found
<1>6. m \in found /\ m \in Nat
  <2>1. TopOfMemory \in Nat /\ found # {}
    BY <1>1, LayoutNumbers
  <2>2. Max(found) \in found
    BY <1>5, <2>1, MaxIsGreatest
  <2>3. \A k \in found : k \in Nat
    BY <1>5, <2>1
  <2>. QED  BY <2>2, <2>3
<1>. HIDE DEF m
<1>7. PICK e \in fits : m = PageOf(end(e) - padded)
  BY <1>6 DEF found
<1>. DEFINE x == end(e) - padded
<1>8. x \in Nat /\ e.addr <= x /\ e \in Ram /\ x + size <= e.end
  BY <1>0, <1>2, <1>3, <1>7
<1>. HIDE DEF x
<1>9. m = PageOf(x)
  BY <1>7 DEF x
<1>10. r \in Nat \X Nat /\ r[1] = m /\ r[1] + size = r[2]
  BY <1>1, <1>6
<1>. HIDE DEF r
<1>. QED  BY <1>8, <1>9, <1>10 DEF r

(* try_load_initial_ram_disk.                                              *)
LEMMA RamDiskKeeps ==
    ASSUME Stage0Inv, NEW size \in InitrdSizes, TryLoadInitialRamDisk(size)
    PROVE  Stage0Inv' /\ MapStep
<1>. DEFINE range == FindSuitableDmaAddress(size)
<1>1. boot = "initrd" /\ e820 \in Seq(E820Entries) /\ cause = "none" /\ IsMap(e820)
      /\ size \in Nat
  <2>1. size \in Nat
    BY LayoutAssumption
  <2>. QED  BY <2>1 DEF TryLoadInitialRamDisk, Stage0Inv, TableInv, Accepted
<1>2. \/ \E why : Panics(why)
      \/ boot' = "data 1" /\ UNCHANGED <<cause, e820, claim, validated, loaded, ragged>>
      \/ /\ range # Nowhere
         /\ loaded' = [loaded EXCEPT !.initrd = range]
         /\ boot' = "data 1"
         /\ UNCHANGED <<cause, e820, claim, validated, ragged>>
  BY DEF TryLoadInitialRamDisk
<1>. HIDE DEF range
<1>3. CASE \E why : Panics(why)
  <2>1. PICK why : Panics(why)
    BY <1>3
  <2>. QED  BY <1>1, <2>1, PanicsKeeps DEF Panics, MapStep
<1>4. CASE boot' = "data 1" /\ UNCHANGED <<cause, e820, claim, validated, loaded, ragged>>
  <2>1. boot' \in Accepted /\ boot \in Accepted /\ boot' \notin Plain
    BY <1>1, <1>4 DEF Accepted, Plain
  <2>. QED  BY <1>4, <2>1, AdvanceKeeps
<1>5. CASE /\ range # Nowhere
           /\ loaded' = [loaded EXCEPT !.initrd = range]
           /\ boot' = "data 1"
           /\ UNCHANGED <<cause, e820, claim, validated, ragged>>
  <2>1. range \in Nat \X Nat
    BY <1>1, <1>5, DmaFound DEF range
  <2>2. /\ IsMap(e820)' <=> IsMap(e820)
        /\ \A a, y : Has(e820, a, y)' <=> Has(e820, a, y)
    BY <1>5 DEF Has, Holds, IsMap, Ordered
  <2>3. TableInv'
    BY <1>1, <1>5, <2>2 DEF Stage0Inv, TableInv, Early, Accepted, Plain
  <2>4. loaded' = [kernel |-> loaded.kernel, acpi |-> loaded.acpi, initrd |-> range]
    BY <1>5 DEF Stage0Inv, LoadedInv
  <2>5. loaded.kernel \in Nat \X Nat /\ loaded.acpi \in Nat \X Nat
    BY DEF Stage0Inv, LoadedInv
  <2>6. /\ loaded'.kernel = loaded.kernel /\ loaded'.acpi = loaded.acpi
        /\ loaded'.initrd = range
        /\ DOMAIN loaded' = {"kernel", "acpi", "initrd"}
        /\ \A x \in {"kernel", "acpi", "initrd"} : loaded'[x] \in Nat \X Nat
    BY <2>1, <2>4, <2>5
  <2>7. LoadedInv'
    BY <1>5, <2>2, <2>4, <2>6 DEF Stage0Inv, LoadedInv, Whole, Span
  <2>. QED  BY <1>5, <2>3, <2>7 DEF Stage0Inv, MapStep
<1>. QED  BY <1>2, <1>3, <1>4, <1>5

(* The data for the next stages, in low memory.                            *)
LEMMA BootDataKeeps ==
    ASSUME Stage0Inv, ReserveBootData
    PROVE  /\ Stage0Inv' /\ MapStep
           /\ loaded' = loaded /\ validated' = validated /\ ragged' = ragged
           /\ \/ UNCHANGED <<e820, claim>>
              \/ claim' \in E820Entries /\ claim'.end <= GapStart /\ Inserted(e820, claim', e820')
<1>1. PICK i \in DOMAIN BootData :
          /\ boot = DataSteps[i]
          /\ Claims(E820Entry(BootData[i][1], BootData[i][2], "RESERVED"), DataSteps[i + 1])
  BY DEF ReserveBootData
<1>. DEFINE entry == E820Entry(BootData[i][1], BootData[i][2], "RESERVED")
            next == DataSteps[i + 1]
<1>2. i \in 1..3
  BY LayoutNumbers
<1>3. boot \in {"data 1", "data 2", "data 3"} /\ next \in {"data 2", "data 3", "jump"}
  <2>1. i = 1 \/ i = 2 \/ i = 3
    BY <1>2
  <2>2. /\ DataSteps[1] = "data 1" /\ DataSteps[2] = "data 2"
        /\ DataSteps[3] = "data 3" /\ DataSteps[4] = "jump"
    BY DEF DataSteps
  <2>3. 1 + 1 = 2 /\ 2 + 1 = 3 /\ 3 + 1 = 4
    OBVIOUS
  <2>. QED  BY <1>1, <2>1, <2>2, <2>3
<1>4. entry \in E820Entries /\ entry.type = "RESERVED" /\ entry.end <= GapStart
  BY <1>2, LayoutNumbers, EntryMade DEF E820Types
<1>5. Claims(entry, next)
  BY <1>1
<1>. HIDE DEF entry, next
<1>6. /\ boot \in Early \cup Accepted /\ next \in Early \cup Accepted
      /\ boot \in Accepted <=> next \in Accepted
      /\ next \in {"data 1", "data 2", "data 3", "jump"} /\ entry.type # "RAM"
      /\ next \notin Plain /\ next # "initrd"
  BY <1>3, <1>4 DEF Early, Accepted, Plain
<1>7. /\ Stage0Inv' /\ loaded' = loaded /\ validated' = validated /\ ragged' = ragged
      /\ \/ UNCHANGED <<e820, claim>>
         \/ claim' = entry /\ Inserted(e820, entry, e820')
  BY <1>4, <1>5, <1>6, ClaimsKeeps
<1>. QED  BY <1>4, <1>7 DEF MapStep

(* In the beginning.                                                       *)
LEMMA Stage0Starts == Stage0Init => Stage0Inv
<1>. SUFFICES ASSUME Stage0Init PROVE Stage0Inv
  OBVIOUS
<1>1. /\ boot = "fill" /\ cause = "none" /\ e820 \in Seq(E820Entries)
      /\ validated = 0..(GapStart - 1)
      /\ loaded = [kernel |-> Nowhere, acpi |-> Nowhere, initrd |-> Nowhere]
      /\ ragged = {PageOf(b) : b \in {b \in Bounds(e820) : b % Page # 0}}
  BY TablesAssumption DEF Stage0Init
<1>2. ASSUME NEW i \in DOMAIN e820 PROVE e820[i].addr \in Known /\ e820[i].end \in Known
  <2>1. e820[i].addr \in Bounds(e820) /\ e820[i].end \in Bounds(e820)
    BY DEF Bounds, ToSet
  <2>2. e820[i].addr \in Nat /\ e820[i].end \in Nat
    BY <1>1, EntryOf
  <2>3. \A b \in Bounds(e820) : b % Page # 0 => PageOf(b) \in ragged
    BY <1>1
  <2>. QED  BY <2>1, <2>2, <2>3 DEF Known, Aligned
<1>3. e820 \in Seq(Within(Known))
  BY <1>1, <1>2, WithinSeq
<1>4. TableInv
  BY <1>1, <1>3 DEF TableInv, Early, Accepted
<1>5. Nowhere \in Nat \X Nat
  BY DEF Nowhere
<1>6. Span(Nowhere) = {}
  BY <1>5, SpanIs
<1>7. LoadedInv
  BY <1>1, <1>5, <1>6 DEF LoadedInv, Whole
<1>. QED  BY <1>4, <1>7 DEF Stage0Inv

(* Every step keeps the invariant and changes the table by one claim.      *)
LEMMA Stage0Keeps ==
    Stage0Inv /\ [Stage0Next]_stage0Vars => Stage0Inv' /\ MapStep
<1>. SUFFICES ASSUME Stage0Inv, [Stage0Next]_stage0Vars PROVE Stage0Inv' /\ MapStep
  OBVIOUS
<1>1. CASE UNCHANGED stage0Vars
  <2>1. /\ IsMap(e820)' <=> IsMap(e820)
        /\ \A a, y : Has(e820, a, y)' <=> Has(e820, a, y)
    BY <1>1 DEF Has, Holds, IsMap, Ordered, stage0Vars
  <2>2. e820 \in Seq(Within(Known)) => e820' \in Seq(Within(Known))'
    BY <1>1 DEF Within, Known, stage0Vars
  <2>3. RamFillsPages => RamFillsPages'
    BY <1>1, <2>1 DEF RamFillsPages, stage0Vars
  <2>4. TableInv'
    BY <1>1, <2>1, <2>2, <2>3 DEF Stage0Inv, TableInv, stage0Vars
  <2>5. LoadedInv'
    BY <1>1, <2>1 DEF Stage0Inv, LoadedInv, Whole, Span, stage0Vars
  <2>. QED  BY <1>1, <2>4, <2>5 DEF Stage0Inv, MapStep, stage0Vars
<1>2. CASE Stage0Next
  BY <1>2, FillKeeps, SmbiosKeeps, ValidateKeeps, HeapKeeps, KernelImageKeeps, LowKeeps,
     HighKeeps, RamDiskKeeps, BootDataKeeps DEF Stage0Next
<1>. QED  BY <1>1, <1>2

-----------------------------------------------------------------------------
(* The types of an address, as the abstract map has them.                  *)
TypesAt(t, a) == {e.type : e \in {e \in ToSet(t) : a \in Held(e)}}

(* They are the types that the table has for it.                           *)
LEMMA TypesAre ==
    ASSUME NEW t \in Seq(E820Entries), NEW a \in Nat
    PROVE  TypesAt(t, a) = {y \in E820Types : Has(t, a, y)}
<1>1. \A i \in DOMAIN t : /\ t[i].type \in E820Types
                          /\ a \in Held(t[i]) <=> t[i].addr <= a /\ a < t[i].end
  <2>1. \A i \in DOMAIN t : t[i].addr \in Nat /\ t[i].end \in Nat /\ t[i].type \in E820Types
    BY EntryOf
  <2>. QED  BY <2>1 DEF Held
<1>2. \A y : y \in TypesAt(t, a) <=> \E i \in DOMAIN t : a \in Held(t[i]) /\ y = t[i].type
  BY DEF TypesAt, ToSet
<1>. QED  BY <1>1, <1>2 DEF Has, Holds

(* insert_e820_entry and ensure_e820_gap change what they are asked to and *)
(* nothing else, for any table of the hypervisor and any ranges: every     *)
(* claim of stage 0 is a claim of the abstract map.                        *)
THEOREM MemoryMapKept == Stage0Spec => E820Spec
<1>. DEFINE types == [a \in Addresses |-> {e.type : e \in {e \in ToSet(e820) : a \in Held(e)}}]
<1>1. types = [a \in Addresses |-> TypesAt(e820, a)]
  BY DEF TypesAt
<1>2. Addresses \subseteq Nat
  BY LayoutAssumption
<1>3. Stage0Init => Stage0Inv /\ E820Map!Init
  <2>. SUFFICES ASSUME Stage0Init PROVE Stage0Inv /\ E820Map!Init
    OBVIOUS
  <2>1. Stage0Inv /\ e820 \in Seq(E820Entries)
    BY Stage0Starts DEF Stage0Inv, TableInv
  <2>2. \A a \in Addresses : TypesAt(e820, a) \in SUBSET E820Types
    BY <1>2, <2>1, TypesAre
  <2>3. types \in [Addresses -> SUBSET E820Types]
    BY <1>1, <2>2
  <2>. QED  BY <2>1, <2>3 DEF E820Map!Init
<1>4. Stage0Inv /\ [Stage0Next]_stage0Vars => Stage0Inv' /\ [E820Map!Claim]_<<types, claim>>
  <2>. SUFFICES ASSUME Stage0Inv, [Stage0Next]_stage0Vars
                PROVE  Stage0Inv' /\ [E820Map!Claim]_<<types, claim>>
    OBVIOUS
  <2>1. Stage0Inv' /\ MapStep
    BY Stage0Keeps
  <2>2. e820 \in Seq(E820Entries) /\ e820' \in Seq(E820Entries)
    BY <2>1 DEF Stage0Inv, TableInv
  <2>3. types' = [a \in Addresses |-> TypesAt(e820', a)]
    BY DEF TypesAt
  <2>4. \A a \in Addresses : /\ a \in Nat
                             /\ TypesAt(e820, a) = {y \in E820Types : Has(e820, a, y)}
                             /\ TypesAt(e820', a) = {y \in E820Types : Has(e820', a, y)}
    BY <1>2, <2>2, TypesAre
  <2>5. \A a \in Addresses : types[a] = TypesAt(e820, a)
    BY <1>1
  <2>6. CASE UNCHANGED <<e820, claim>>
    BY <2>1, <2>6
  <2>7. CASE claim' \in E820Entries /\ Inserted(e820, claim', e820')
    <3>1. claim' \in E820Map!Claims /\ claim'.type \in E820Types /\ claim'.type # "none"
      <4>1. claim' = E820Entry(claim'.addr, claim'.end, claim'.type)
            /\ claim'.addr \in Nat /\ claim'.end \in Nat /\ claim'.type \in E820Types
        BY <2>7, EntryFields
      <4>. QED  BY <4>1 DEF E820Map!Claims, E820Types, E820Entry
    <3>2. ASSUME NEW a \in Addresses
          PROVE  TypesAt(e820', a) = IF ~(claim'.addr <= a /\ a < claim'.end) THEN types[a]
                                     ELSE IF claim'.type = "none" THEN {} ELSE {claim'.type}
      <4>1. \A y \in E820Types :
                Has(e820', a, y) <=> IF claim'.addr <= a /\ a < claim'.end THEN y = claim'.type
                                     ELSE Has(e820, a, y)
        BY <2>4, <2>7 DEF Inserted
      <4>. HIDE DEF types
      <4>. QED  BY <2>4, <2>5, <3>1, <4>1
    <3>3. types' = E820Map!Claimed(claim')
      <4>. HIDE DEF types
      <4>1. types' = [a \in Addresses |->
                         IF ~(claim'.addr <= a /\ a < claim'.end) THEN types[a]
                         ELSE IF claim'.type = "none" THEN {} ELSE {claim'.type}]
        BY <2>3, <3>2
      <4>. QED  BY <4>1 DEF E820Map!Claimed, types
    <3>4. E820Map!Claim
      BY <3>1, <3>3 DEF E820Map!Claim
    <3>. QED  BY <2>1, <3>4
  <2>8. CASE \E s \in Nat, t \in Nat : claim' = E820Entry(s, t, "none") /\ HasGap(e820, s, t, e820')
    <3>1. PICK s \in Nat, t \in Nat : claim' = E820Entry(s, t, "none") /\ HasGap(e820, s, t, e820')
      BY <2>8
    <3>2. /\ claim' \in E820Map!Claims
          /\ claim'.addr = s /\ claim'.end = t /\ claim'.type = "none"
      BY <3>1 DEF E820Map!Claims, E820Entry
    <3>3. ASSUME NEW a \in Addresses
          PROVE  TypesAt(e820', a) = IF ~(claim'.addr <= a /\ a < claim'.end) THEN types[a]
                                     ELSE IF claim'.type = "none" THEN {} ELSE {claim'.type}
      <4>1. \A y \in E820Types : Has(e820', a, y) <=> ~(s <= a /\ a < t) /\ Has(e820, a, y)
        BY <2>4, <3>1 DEF HasGap
      <4>. HIDE DEF types
      <4>. QED  BY <2>4, <2>5, <3>2, <4>1
    <3>4. types' = E820Map!Claimed(claim')
      <4>. HIDE DEF types
      <4>1. types' = [a \in Addresses |->
                         IF ~(claim'.addr <= a /\ a < claim'.end) THEN types[a]
                         ELSE IF claim'.type = "none" THEN {} ELSE {claim'.type}]
        BY <2>3, <3>3
      <4>. QED  BY <4>1 DEF E820Map!Claimed, types
    <3>5. E820Map!Claim
      BY <3>2, <3>4 DEF E820Map!Claim
    <3>. QED  BY <2>1, <3>5
  <2>. QED  BY <2>1, <2>6, <2>7, <2>8 DEF MapStep
<1>. QED  BY <1>3, <1>4, PTL DEF Stage0Spec, E820Spec, E820Map!Spec

-----------------------------------------------------------------------------
(* What is added for the RAM disk: it lies in accepted memory, above the   *)
(* gap in RAM, and apart from the kernel.                                  *)
RamDiskInv ==
    /\ Whole(loaded.initrd) \subseteq validated
    /\ loaded.initrd[1] >= GapStart =>
          \A a \in Whole(loaded.initrd) : Has(e820, a, "RAM")
    /\ loaded.initrd[1] < GapStart => \A a \in Span(loaded.initrd) : a < GapStart
    /\ loaded.initrd[2] - loaded.initrd[1] > GapStart => loaded.initrd[1] >= GapStart
    /\ Span(loaded.initrd) \cap Span(loaded.kernel) = {}

(* Before it is loaded there is nothing to show.                           *)
LEMMA NoRamDisk == ASSUME loaded'.initrd = Nowhere PROVE RamDiskInv'
<1>1. Span(Nowhere) = {}
  <2>1. Nowhere \in Nat \X Nat
    BY DEF Nowhere
  <2>. QED  BY <2>1, SpanIs
<1>2. Span(loaded'.initrd) = {} /\ loaded'.initrd[1] = 0 /\ loaded'.initrd[2] = 0
  BY <1>1 DEF Nowhere
<1>3. ~(0 - 0 > GapStart)
  BY LayoutNumbers
<1>. QED  BY <1>2, <1>3 DEF RamDiskInv, Whole, Span

(* The room that is found is in one RAM, below the gap or above; and a RAM *)
(* disk that is larger than low memory is not put there.                   *)
LEMMA RamDiskLoaded ==
    ASSUME Stage0Inv, NEW size \in InitrdSizes, TryLoadInitialRamDisk(size)
    PROVE  RamDiskInv'
<1>. DEFINE range == FindSuitableDmaAddress(size)
<1>1. /\ boot = "initrd" /\ boot \in Accepted /\ e820 \in Seq(E820Entries)
      /\ size \in Nat /\ loaded.initrd = Nowhere /\ RamFillsPages
  <2>1. size \in Nat
    BY LayoutAssumption
  <2>. QED  BY <2>1 DEF TryLoadInitialRamDisk, Stage0Inv, TableInv, LoadedInv, Accepted
<1>2. \/ loaded' = loaded
      \/ /\ range # Nowhere /\ size # 0
         /\ Span(range) \cap Span(loaded.kernel) = {}
         /\ loaded' = [loaded EXCEPT !.initrd = range]
         /\ UNCHANGED <<e820, validated, ragged>>
  BY DEF TryLoadInitialRamDisk, Panics
<1>. HIDE DEF range
<1>3. CASE loaded' = loaded
  BY <1>1, <1>3, NoRamDisk
<1>4. CASE /\ range # Nowhere /\ size # 0
           /\ Span(range) \cap Span(loaded.kernel) = {}
           /\ loaded' = [loaded EXCEPT !.initrd = range]
           /\ UNCHANGED <<e820, validated, ragged>>
  <2>1. range \in Nat \X Nat /\ range[1] + size = range[2]
    BY <1>1, <1>4, DmaFound DEF range
  <2>2. PICK e \in Ram, x \in Nat : e.addr <= x /\ x + size <= e.end /\ range[1] = PageOf(x)
    BY <1>1, <1>4, DmaFound DEF range
  <2>. DEFINE p == range[1]
              q == range[2]
  <2>3. /\ e.addr \in Nat /\ e.end \in Nat
        /\ e.addr >= GapStart \/ e.end <= GapStart
    BY <1>1, BelowTheGap
  <2>4. /\ p \in Nat /\ q \in Nat /\ p + size = q /\ p <= x /\ x < p + Page /\ Aligned(p)
        /\ p = PageOf(x) /\ Page \in Nat \ {0} /\ size # 0
    BY <1>4, <2>1, <2>2, PageIs
  <2>. HIDE DEF p, q
  <2>5. e.addr >= GapStart => p >= GapStart
    <3>. SUFFICES ASSUME e.addr >= GapStart PROVE GapStart <= p
      BY <2>4, LayoutNumbers
    <3>1. GapStart < p + Page
      BY <2>2, <2>3, <2>4, LayoutNumbers
    <3>. QED  BY <2>4, <3>1, LayoutNumbers, AlignedApart
  <2>6. e.end <= GapStart => q <= GapStart /\ p < GapStart /\ size <= GapStart
    <3>1. /\ x \in Nat /\ size \in Nat /\ GapStart \in Nat
          /\ x + size <= e.end /\ e.end \in Nat
      BY <1>1, <2>2, <2>3, LayoutNumbers
    <3>. QED  BY <2>4, <3>1
  <2>7. ASSUME NEW a \in Whole(range)
        PROVE  a \in Nat /\ p <= a /\ a < q /\ Has(e820, a, "RAM") /\ a \in validated
    <3>1. a \in Nat /\ p <= a /\ a < q /\ PageOf(a) \notin ragged
      BY <2>1, SpanIs DEF Whole, p, q
    <3>2. Has(e820, a, "RAM")
      <4>1. CASE x <= a
        <5>1. a \in Held(e)
          BY <1>1, <2>2, <2>3, <2>4, <3>1, <4>1 DEF Held
        <5>. QED  BY <1>1, <3>1, <5>1, RamHas
      <4>2. CASE a < x
        <5>1. PageOf(a) = PageOf(x)
          BY <2>4, <3>1, <4>2, SamePage
        <5>2. x \in Held(e)
          BY <1>1, <2>2, <2>3, <2>4 DEF Held
        <5>3. Has(e820, x, "RAM")
          BY <1>1, <5>2, RamHas
        <5>4. PageOf(x) <= a /\ a <= x
          BY <2>4, <3>1, <4>2
        <5>. QED  BY <1>1, <3>1, <5>1, <5>3, <5>4 DEF RamFillsPages
      <4>. QED  BY <3>1, <4>1, <4>2
    <3>. QED  BY <1>1, <3>1, <3>2 DEF Stage0Inv, TableInv
  <2>8. loaded'.initrd = range /\ loaded'.kernel = loaded.kernel
    BY <1>4 DEF Stage0Inv, LoadedInv
  <2>9. /\ \A a, y : Has(e820, a, y)' <=> Has(e820, a, y)
        /\ Whole(loaded.initrd)' = Whole(range)
    BY <1>4, <2>8 DEF Has, Holds, Whole, Span
  <2>10. \A a \in Span(range) : a \in Nat /\ a < q
    BY <2>1, SpanIs DEF q
  <2>11. p < GapStart => \A a \in Span(range) : a < GapStart
    BY <2>3, <2>4, <2>5, <2>6, <2>10, LayoutNumbers
  <2>12. q - p > GapStart => p >= GapStart
    <3>1. GapStart \in Nat /\ size \in Nat /\ q - p = size
      BY <1>1, <2>4, LayoutNumbers
    <3>. SUFFICES ASSUME size > GapStart PROVE p >= GapStart
      BY <3>1
    <3>2. ~(e.end <= GapStart)
      BY <2>6, <3>1
    <3>. QED  BY <2>3, <2>5, <3>2
  <2>. QED  BY <1>4, <2>7, <2>8, <2>9, <2>11, <2>12 DEF RamDiskInv, Span, p, q
<1>. QED  BY <1>2, <1>3, <1>4

(* What is claimed in low memory afterwards does not touch what is above.  *)
LEMMA RamDiskStays == ASSUME Stage0Inv, RamDiskInv, ReserveBootData PROVE RamDiskInv'
<1>1. /\ loaded' = loaded /\ validated' = validated /\ ragged' = ragged
      /\ \/ UNCHANGED <<e820, claim>>
         \/ claim' \in E820Entries /\ claim'.end <= GapStart /\ Inserted(e820, claim', e820')
      /\ Stage0Inv'
  BY BootDataKeeps
<1>2. ASSUME loaded.initrd[1] >= GapStart, NEW a \in Whole(loaded.initrd)
      PROVE  Has(e820', a, "RAM")
  <2>1. a \in Nat /\ a >= GapStart /\ Has(e820, a, "RAM")
    <3>1. loaded.initrd \in Nat \X Nat /\ a \in Span(loaded.initrd)
      BY DEF Stage0Inv, LoadedInv, Whole
    <3>2. a \in Nat /\ loaded.initrd[1] <= a /\ loaded.initrd[1] \in Nat
      BY <3>1, SpanIs
    <3>. QED  BY <1>2, <3>2, LayoutNumbers DEF RamDiskInv
  <2>2. CASE UNCHANGED <<e820, claim>>
    BY <2>1, <2>2
  <2>3. CASE claim' \in E820Entries /\ claim'.end <= GapStart /\ Inserted(e820, claim', e820')
    <3>1. claim'.end \in Nat /\ "RAM" \in E820Types
      BY <2>3, EntryFields DEF E820Types
    <3>2. ~(claim'.addr <= a /\ a < claim'.end)
      BY <2>1, <2>3, <3>1, LayoutNumbers
    <3>. QED  BY <2>1, <2>3, <3>1, <3>2 DEF Inserted
  <2>. QED  BY <1>1, <2>2, <2>3
<1>3. /\ \A a, y : Has(e820, a, y)' <=> Has(e820', a, y)
      /\ Whole(loaded.initrd)' = Whole(loaded.initrd)
  BY <1>1 DEF Has, Holds, Whole, Span
<1>. QED  BY <1>1, <1>2, <1>3 DEF RamDiskInv, Span

(* The steps before it is loaded.                                          *)
LEMMA RamDiskUntouched ==
    ASSUME Stage0Inv,
           \/ FillE820Table \/ ReserveSmbios \/ ValidateMemory \/ InitGlobalAllocator
           \/ \E size \in KernelSizes : TryLoadKernelImage(size)
           \/ SetupLowAllocator \/ SetupHighAllocator
    PROVE  RamDiskInv'
<1>1. loaded.initrd = Nowhere
  BY DEF FillE820Table, ReserveSmbios, ValidateMemory, InitGlobalAllocator, TryLoadKernelImage,
         SetupLowAllocator, SetupHighAllocator, Stage0Inv, LoadedInv
<1>2. "initrd" \in DOMAIN loaded
  BY DEF Stage0Inv, LoadedInv
<1>3. \/ loaded' = loaded
      \/ \E r : loaded' = [loaded EXCEPT !.kernel = r] \/ loaded' = [loaded EXCEPT !.acpi = r]
  <2>1. CASE FillE820Table \/ ReserveSmbios \/ ValidateMemory \/ InitGlobalAllocator
             \/ SetupLowAllocator
    BY <2>1 DEF FillE820Table, ReserveSmbios, ValidateMemory, InitGlobalAllocator,
                SetupLowAllocator, Claims, Panics
  <2>2. CASE \E size \in KernelSizes : TryLoadKernelImage(size)
    BY <2>2 DEF TryLoadKernelImage, Panics
  <2>3. CASE SetupHighAllocator
    BY <2>3 DEF SetupHighAllocator, Panics
  <2>. QED  BY <2>1, <2>2, <2>3
<1>4. loaded'.initrd = Nowhere
  BY <1>1, <1>2, <1>3
<1>. QED  BY <1>4, NoRamDisk

(* The invariants are enough.                                              *)
LEMMA InvIsApart == Stage0Inv /\ RamDiskInv => LoadedApart
<1>. SUFFICES ASSUME Stage0Inv, RamDiskInv PROVE LoadedApart
  OBVIOUS
<1>. DEFINE disk == loaded.initrd
<1>1. e820 \in Seq(E820Entries)
  BY DEF Stage0Inv, TableInv
<1>2. boot # "fill" /\ cause # "not a memory map" => Sorted(e820)
  BY <1>1, SortedIsOrdered DEF Stage0Inv, TableInv, IsMap
<1>3. \A a \in Span(loaded.acpi) : a \in Nat /\ a >= GapStart /\ ~Has(e820, a, "RAM")
  BY SpanIs DEF Stage0Inv, LoadedInv
<1>4. /\ disk \in Nat \X Nat /\ disk[1] \in Nat
      /\ \A a \in Span(disk) : a \in Nat /\ disk[1] <= a
      /\ \A a \in Whole(disk) : a \in Span(disk)
  <2>1. disk \in Nat \X Nat
    BY DEF Stage0Inv, LoadedInv
  <2>. HIDE DEF disk
  <2>. QED  BY <2>1, SpanIs DEF Whole
<1>5. disk[1] >= GapStart => \A a \in Whole(disk) : \E e \in Ram : a \in Held(e)
  BY <1>1, <1>4, RamHas DEF RamDiskInv
<1>6. Whole(disk) \cap Span(loaded.acpi) = {}
  <2>1. CASE disk[1] >= GapStart
    BY <1>3, <2>1 DEF RamDiskInv
  <2>2. CASE disk[1] < GapStart
    <3>1. \A a \in Whole(disk) : a \in Nat /\ a < GapStart
      BY <1>4, <2>2 DEF RamDiskInv
    <3>. QED  BY <1>3, <3>1, LayoutNumbers
  <2>. QED  BY <1>4, <2>1, <2>2, LayoutNumbers
<1>7. ASSUME NEW r \in ToSet(BootData) \cup {Ebda}
      PROVE  /\ Span(r) \cap Span(loaded.acpi) = {}
             /\ disk[1] >= GapStart => Span(r) \cap Span(disk) = {}
  <2>1. r \in Nat \X Nat /\ r[2] \in Nat /\ r[2] <= GapStart
    <3>1. Ebda \in Nat \X Nat
      BY LayoutAssumption
    <3>. QED  BY <3>1, LayoutNumbers DEF ToSet
  <2>2. \A a \in Span(r) : a \in Nat /\ a < GapStart
    BY <2>1, SpanIs, LayoutNumbers
  <2>. HIDE DEF disk
  <2>. QED  BY <1>3, <1>4, <2>2, LayoutNumbers
<1>8. /\ Whole(loaded.kernel) \subseteq validated /\ Whole(loaded.acpi) \subseteq validated
      /\ Whole(disk) \subseteq validated
      /\ Span(disk) \cap Span(loaded.kernel) = {}
      /\ disk[2] - disk[1] > GapStart => disk[1] >= GapStart
  BY DEF Stage0Inv, LoadedInv, RamDiskInv
<1>. QED  BY <1>2, <1>5, <1>6, <1>7, <1>8 DEF LoadedApart, Whole

(* For any table, kernel and RAM disk: all but the pages that a bound of   *)
(* the hypervisor's table is inside of, what the kernel is handed lies in  *)
(* accepted memory, and the RAM disk apart from the ACPI tables and, above *)
(* the low 640 KiB, where the table has RAM and apart from the boot data;  *)
(* one that is larger than that is above; it never overlaps the kernel, and*)
(* the table is sorted.                                                    *)
THEOREM ImagesApart == Stage0Spec => []LoadedApart
<1>1. Stage0Init => Stage0Inv /\ RamDiskInv
  <2>. SUFFICES ASSUME Stage0Init PROVE Stage0Inv /\ RamDiskInv
    OBVIOUS
  <2>1. Nowhere \in Nat \X Nat
    BY DEF Nowhere
  <2>2. Span(loaded.initrd) = {} /\ loaded.initrd[1] = 0 /\ loaded.initrd[2] = 0
    BY <2>1, SpanIs DEF Stage0Init, Nowhere
  <2>3. ~(0 - 0 > GapStart)
    BY LayoutNumbers
  <2>. QED  BY <2>2, <2>3, Stage0Starts DEF RamDiskInv, Whole
<1>2. Stage0Inv /\ RamDiskInv /\ [Stage0Next]_stage0Vars => Stage0Inv' /\ RamDiskInv'
  <2>. SUFFICES ASSUME Stage0Inv, RamDiskInv, [Stage0Next]_stage0Vars
                PROVE  Stage0Inv' /\ RamDiskInv'
    OBVIOUS
  <2>1. Stage0Inv'
    BY Stage0Keeps
  <2>2. CASE UNCHANGED stage0Vars
    <3>1. \A a, y : Has(e820, a, y)' <=> Has(e820, a, y)
      BY <2>2 DEF Has, Holds, stage0Vars
    <3>2. RamDiskInv'
      BY <2>2, <3>1 DEF RamDiskInv, Whole, Span, stage0Vars
    <3>. QED  BY <2>1, <3>2
  <2>3. CASE Stage0Next
    BY <2>1, <2>3, RamDiskUntouched, RamDiskLoaded, RamDiskStays DEF Stage0Next
  <2>. QED  BY <2>2, <2>3
<1>3. Stage0Inv /\ RamDiskInv => LoadedApart
  BY InvIsApart
<1>. QED  BY <1>1, <1>2, <1>3, PTL DEF Stage0Spec
=============================================================================
