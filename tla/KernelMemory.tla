---------------------------- MODULE KernelMemory ----------------------------
(***************************************************************************)
(* Physical memory and processes of the restricted kernel                  *)
(* (oak_restricted_kernel/src): the boot sequence of start_kernel, the     *)
(* frame allocator with its two bitmaps, mmap, and the processes that      *)
(* create_process and switch_process run one at a time.                    *)
(*                                                                         *)
(* The kernel is single-threaded and a system call runs to its end, so an  *)
(* action is a boot stage or a system call.  Frames and pages are those of *)
(* 2 MiB; the firmware's memory map is given in halves of a frame, so that *)
(* regions may begin and end inside one.  How many 4 KiB frames a mapping  *)
(* needs for its page tables is arbitrary.                                 *)
(***************************************************************************)
EXTENDS Naturals, FiniteSets, FiniteSetsExt, SequencesExt

CONSTANTS BitmapLen,     \* frames the allocator can track
          PoolSize,      \* 4 KiB frames in one of 2 MiB; 512
          InitialTables, \* 4 KiB frames of the initial page tables
          TableCounts,   \* 4 KiB frames that the mappings of one call may need
          UserPages,     \* pages in the lower half of the address space
          HeapPages,     \* pages reserved for the kernel heap
          MAX_PROCESSES,
          MemoryMaps,    \* what the firmware may report, see MemoryMap
          Programs,      \* applications: their segments as <<page, count>>
          MmapCounts     \* pages asked for in one mmap

ASSUME KernelAssumption ==
    /\ {BitmapLen, PoolSize, UserPages, MAX_PROCESSES} \subseteq Nat \ {0}
    /\ {InitialTables, HeapPages} \subseteq Nat
    /\ TableCounts \subseteq Nat /\ MmapCounts \subseteq Nat \ {0}

VARIABLES memory,      \* the E820 table, program headers and ramdisk
          stage,       \* how far start_kernel got, or "panicked"
          valid, allocated,  \* the bitmaps of large_frames
          pool,        \* small_frames: the frame it took, and how many it gave
          shared,      \* frames of the heap that the host can access
          heap, stacks,      \* frames of the kernel heap and stacks, in order
          lost,        \* frames taken for a mapping that was not made
          processes,   \* user_pml4s by pid: page |-> frame
          current_pid,
          saved        \* pids with a saved user stack pointer

kernelVars == <<memory, stage, valid, allocated, pool, shared, heap, stacks, lost,
                processes, current_pid, saved>>

Frames == 0..(BitmapLen - 1)

(* Half frames of a region <<start, limit>>; the frames inside of it and   *)
(* the frames it touches.                                                  *)
Halves(r) == r[1]..(r[2] - 1)
Inside(r) == {f \in Frames : {2 * f, 2 * f + 1} \subseteq Halves(r)}
Touched(r) == {f \in Frames : {2 * f, 2 * f + 1} \cap Halves(r) # {}}

Available == valid \ allocated
Nth(S, i) == CHOOSE f \in S : Cardinality({g \in S : g < f}) = i - 1
Lowest(n) == [i \in 1..n |-> Nth(Available, i)]
PoolLeft == PoolSize - pool.used

Panicked == stage' = "panicked" /\ UNCHANGED <<memory, valid, allocated, pool, shared,
                heap, stacks, lost, processes, current_pid, saved>>

-----------------------------------------------------------------------------
(* mm::init: RAM is available, clipped to whole frames; frame 0 and the    *)
(* frames that the kernel image or the ramdisk touch are not.              *)
KernelInit ==
    /\ memory \in MemoryMaps
    /\ stage = "initial_pml4"
    /\ valid = (UNION {Inside(r) : r \in memory.ram})
                 \ ({0} \cup (UNION {Touched(r) : r \in memory.image})
                        \cup Touched(memory.ramdisk))
    /\ allocated = {}
    /\ pool = [frame |-> BitmapLen, used |-> 0]
    /\ shared = {} /\ heap = << >> /\ stacks = << >> /\ lost = {}
    /\ processes = << >> /\ current_pid = 0 /\ saved = {}

(* initial_pml4: the first request for a 4 KiB frame breaks up a large one.*)
InitialPml4 ==
    /\ stage = "initial_pml4"
    /\ IF Available = {} \/ InitialTables > PoolSize THEN Panicked
       ELSE /\ pool' = [frame |-> Min(Available), used |-> InitialTables]
            /\ allocated' = allocated \cup {Min(Available)}
            /\ stage' = "init_guest_host_heap"
            /\ UNCHANGED <<memory, valid, shared, heap, stacks, lost, processes,
                           current_pid, saved>>

(* init_guest_host_heap: allocate_contiguous(2) takes the first window of  *)
(* available frames, and panics on the window at the end of the bitmap.    *)
InitGuestHostHeap ==
    /\ stage = "init_guest_host_heap"
    /\ LET windows == {f \in Frames : {f, f + 1} \subseteq Available}
       IN  IF windows = {} \/ Min(windows) + 2 >= BitmapLen THEN Panicked
           ELSE /\ shared' = {Min(windows), Min(windows) + 1}
                /\ allocated' = allocated \cup shared'
                /\ stage' = "init_kernel_heap"
                /\ UNCHANGED <<memory, valid, pool, heap, stacks, lost, processes,
                               current_pid, saved>>

(* GrowableHeap::extend, by init or when an allocation does not fit, which *)
(* may be at any time after it; an allocation that fails is a panic.       *)
ExtendHeap ==
    /\ stage \in {"init_kernel_heap", "allocate_stack", "load_application", "enable_syscalls",
                  "start", "running"}
    /\ \E tables \in TableCounts :
          IF Available = {} \/ Len(heap) >= HeapPages \/ tables > PoolLeft THEN Panicked
          ELSE /\ heap' = Append(heap, Min(Available))
               /\ allocated' = allocated \cup {Min(Available)}
               /\ pool' = [pool EXCEPT !.used = @ + tables]
               /\ stage' = IF stage = "init_kernel_heap" THEN "allocate_stack" ELSE stage
               /\ UNCHANGED <<memory, valid, shared, stacks, lost, processes,
                              current_pid, saved>>

(* allocate_stack: for double faults, for interrupts and, in               *)
(* enable_syscalls, for system calls; load_application comes between.      *)
AllocateStack ==
    /\ stage \in {"allocate_stack", "enable_syscalls"}
    /\ \E tables \in TableCounts :
          IF Available = {} \/ tables > PoolLeft THEN Panicked
          ELSE /\ stacks' = Append(stacks, Min(Available))
               /\ allocated' = allocated \cup {Min(Available)}
               /\ pool' = [pool EXCEPT !.used = @ + tables]
               /\ stage' = IF stage = "enable_syscalls" THEN "start"
                           ELSE IF Len(stacks) = 0 THEN stage ELSE "load_application"
               /\ UNCHANGED <<memory, valid, shared, heap, lost, processes,
                              current_pid, saved>>

(* The heap has room for the ramdisk beside what it holds already.         *)
HeapHoldsCopy == 2 * Len(heap) > Cardinality(Halves(memory.ramdisk))

(* A variant used to test the properties: the ramdisk's frames become      *)
(* available before it is copied.                                          *)
MutReleasesFirst ==
    /\ stage = "load_application"
    /\ valid' = valid \cup Touched(memory.ramdisk)
    /\ stage' = IF HeapHoldsCopy THEN "enable_syscalls" ELSE stage
    /\ UNCHANGED <<memory, allocated, pool, shared, heap, stacks, lost, processes,
                   current_pid, saved>>

(* load_application copies the ramdisk, to which end the heap must have    *)
(* grown beyond its size (ExtendHeap), and its frames become available.    *)
LoadApplication ==
    /\ stage = "load_application"
    /\ HeapHoldsCopy
    /\ valid' = valid \cup Touched(memory.ramdisk)
    /\ stage' = "enable_syscalls"
    /\ UNCHANGED <<memory, allocated, pool, shared, heap, stacks, lost, processes,
                   current_pid, saved>>

-----------------------------------------------------------------------------
(* map_into_memory maps the segments of a program and its stack one by one *)
(* and expects each mmap to succeed.                                       *)
StackPage == UserPages - 2
Layout(program) ==
    FlattenSeq([i \in 1..Len(program) |-> [j \in 1..program[i][2] |-> program[i][1] + j - 1]])
        \o <<StackPage>>

ASSUME ProgramsAssumption == \A program \in Programs : Layout(program) \in Seq(Nat)

Loads(program, tables) ==
    LET pages == Layout(program)
    IN  /\ IsInjective(pages)
        /\ ToSet(pages) \subseteq 1..StackPage
        /\ Len(pages) <= Cardinality(Available)
        /\ tables <= PoolLeft

(* Process::from_elf_executeable and execute, at boot or for create_process*)
(* of the current process; without a free pid the call is refused, but the *)
(* frames are gone.                                                        *)
CreateProcess(program) ==
    /\ stage \in {"start", "running"}
    /\ \E tables \in TableCounts :
          IF ~Loads(program, tables) THEN Panicked
          ELSE LET pages == Layout(program)
                   frames == Lowest(Len(pages))
               IN  /\ allocated' = allocated \cup ToSet(frames)
                   /\ pool' = [pool EXCEPT !.used = @ + tables]
                   /\ saved' = IF stage = "running" THEN saved \cup {current_pid} ELSE saved
                   /\ IF Len(processes) < MAX_PROCESSES
                      THEN /\ processes' = Append(processes, [p \in ToSet(pages) |->
                                frames[CHOOSE i \in DOMAIN pages : pages[i] = p]])
                           /\ current_pid' = Len(processes) + 1
                           /\ stage' = "running"
                           /\ UNCHANGED lost
                      ELSE /\ lost' = lost \cup ToSet(frames)
                           /\ UNCHANGED <<processes, current_pid, stage>>
                   /\ UNCHANGED <<memory, valid, shared, heap, stacks>>

(* switch_process: to a registered pid, which resumes from the stack       *)
(* pointer saved for it.                                                   *)
SwitchProcess(pid) ==
    /\ stage = "running"
    /\ saved' = saved \cup {current_pid}
    /\ current_pid' = IF pid \in DOMAIN processes THEN pid ELSE current_pid
    /\ UNCHANGED <<memory, stage, valid, allocated, pool, shared, heap, stacks, lost, processes>>

-----------------------------------------------------------------------------
Mapped == DOMAIN processes[current_pid]
Unallocated(page, count) == page..(page + count - 1) \cap Mapped = {}

(* find_unallocated_pages: where its loop ends.  It moves on to the page   *)
(* after a mapped one; the limit is the last page of the lower half.       *)
FirstGap(page, count) ==
    Min({s \in {page} \cup {q + 1 : q \in {m \in Mapped : m >= page}} :
            s + count >= UserPages \/ Unallocated(s, count)})

MutMapsIntoFirst(page, count) ==
    /\ count <= Cardinality(Available)
    /\ page..(page + count - 1) \cap DOMAIN processes[1] = {}
    /\ processes' = [processes EXCEPT ![1] =
          [p \in DOMAIN @ \cup (page..(page + count - 1)) |->
              IF p \in DOMAIN @ THEN @[p] ELSE Lowest(count)[p - page + 1]]]
    /\ allocated' = allocated \cup ToSet(Lowest(count))
    /\ UNCHANGED <<lost, pool>>

(* The loop over pages and frames: it ends when all pages are mapped, when *)
(* no frame is left, or when the pool has too few frames for the page      *)
(* tables, which uses it up and loses the frame of the page it was at.     *)
(* What was mapped before stays.                                           *)
MapPages(page, count) ==
    \E tables \in TableCounts, n \in 0..Min({count, Cardinality(Available)}) :
        LET all == Min({count, Cardinality(Available)})
            failed == tables > PoolLeft
            frames == Lowest(IF failed THEN n + 1 ELSE n)
        IN  /\ IF failed THEN n < all ELSE n = all
            /\ processes' = [processes EXCEPT ![current_pid] =
                  [p \in Mapped \cup (page..(page + n - 1)) |->
                     IF p \in Mapped THEN @[p] ELSE frames[p - page + 1]]]
            /\ allocated' = allocated \cup ToSet(frames)
            /\ lost' = IF failed THEN lost \cup {frames[n + 1]} ELSE lost
            /\ pool' = [pool EXCEPT !.used = IF failed THEN PoolSize ELSE @ + tables]

(* mmap of the current process, at a fixed page or at the first gap from a *)
(* page; page 0 is refused or avoided.  Page arithmetic past the lower half*)
(* panics.                                                                 *)
Mmap(fixed, page, count) ==
    LET start == IF fixed THEN page ELSE FirstGap(Max({page, 1}), count)
        refused == IF fixed THEN page = 0 ELSE start >= UserPages - 1
    IN  /\ stage = "running"
        /\ IF ~refused /\ start + count >= UserPages THEN Panicked
           ELSE /\ IF refused \/ ~Unallocated(start, count)
                   THEN UNCHANGED <<processes, allocated, lost, pool>>
                   ELSE MapPages(start, count)
                /\ saved' = saved \cup {current_pid}
                /\ UNCHANGED <<memory, stage, valid, shared, heap, stacks, current_pid>>

-----------------------------------------------------------------------------
KernelNext ==
    \/ InitialPml4 \/ InitGuestHostHeap \/ ExtendHeap \/ AllocateStack \/ LoadApplication
    \/ \E program \in Programs : CreateProcess(program)
    \/ \E pid \in 1..MAX_PROCESSES : SwitchProcess(pid)
    \/ \E fixed \in BOOLEAN, page \in 0..(UserPages - 1), count \in MmapCounts :
          Mmap(fixed, page, count)

KernelSpec == KernelInit /\ [][KernelNext]_kernelVars

-----------------------------------------------------------------------------
(* Everything a frame is used for.                                         *)
Uses ==
    {<<"pool", 0, f>> : f \in {pool.frame} \cap Frames}
      \cup {<<"shared", 0, f>> : f \in shared} \cup {<<"lost", 0, f>> : f \in lost}
      \cup {<<"heap", i, heap[i]>> : i \in DOMAIN heap}
      \cup {<<"stack", i, stacks[i]>> : i \in DOMAIN stacks}
      \cup UNION {{<<"user", <<pid, p>>, processes[pid][p]>> : p \in DOMAIN processes[pid]}
                     : pid \in DOMAIN processes}

(* No frame has two uses: page tables, kernel heap and stacks, the memory  *)
(* the host may read, and the pages of all processes are apart, also after *)
(* an mmap ran out of frames half way and after a refused process.         *)
FramesApart ==
    /\ \A u, v \in Uses : u[3] = v[3] => u = v
    /\ {u[3] : u \in Uses} = allocated

(* Only RAM is handed out, none of the kernel image and none of a ramdisk  *)
(* still in use, although the heap grows while it is copied.  The frames   *)
(* that the ramdisk touches are released whole, with what else lies in     *)
(* them: these frames, and only after the release, are as they are.        *)
OnlyFreeRam ==
    LET released == stage \in {"enable_syscalls", "start", "running", "panicked"}
        ram == UNION {Halves(r) : r \in memory.ram}
        image == UNION {Halves(r) : r \in memory.image}
    IN  \A f \in allocated :
           \/ {2 * f, 2 * f + 1} \subseteq ram \ (image \cup Halves(memory.ramdisk))
           \/ released /\ f \in Touched(memory.ramdisk)

(* A process that may be switched to has a stack pointer to resume from:   *)
(* processes leave the processor only by system calls.                     *)
SwitchTargetsSaved ==
    \A pid \in DOMAIN processes : pid # current_pid => pid \in saved

(* What the kernel owes those who run on it: memory that is theirs alone,  *)
(* and a stack to resume from.                                             *)
KernelSound == FramesApart /\ OnlyFreeRam /\ SwitchTargetsSaved

(* A page that a process has mapped keeps its frame, whatever this or      *)
(* another process does, and a process maps pages only for itself.         *)
MappingsStay ==
    [][\A pid \in DOMAIN processes :
           /\ \A p \in DOMAIN processes[pid] :
                 p \in DOMAIN processes'[pid] /\ processes'[pid][p] = processes[pid][p]
           /\ pid # current_pid => processes'[pid] = processes[pid]]_kernelVars
=============================================================================
