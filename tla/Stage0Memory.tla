---------------------------- MODULE Stage0Memory ----------------------------
(* How stage 0 lays out the memory of an SEV-SNP guest: it takes the E820  *)
(* table of the hypervisor, keeps it sorted while it claims ranges, accepts*)
(* (validates) the RAM, and places kernel, ACPI tables and initial RAM disk*)
(* (zero_page.rs, accept_memory.rs, kernel.rs, acpi/mod.rs, initramfs.rs). *)
(* An address counts units of which a 4 KiB page has several, so that the  *)
(* bounds of an entry may lie inside of a page.                            *)
EXTENDS Integers, SequencesExt, FiniteSetsExt

CONSTANTS E820Tables,     \* tables of the hypervisor, as read
          Page,           \* 4 KiB
          MaxE820,        \* entries a table has room for, 128 in the code
          GapStart,       \* 0xA0000
          SmbiosStart,    \* 0xF0000
          OneMiB,         \* 0x100000
          Heap,           \* the short-term heap, 0x103000 to 0x200000
          HugePage,       \* 2 MiB
          KernelStart,    \* DEFAULT_BZIMAGE_START
          TopOfMemory,    \* TOP_OF_VIRTUAL_MEMORY, 1 GiB
          HighMemSize,    \* HIGH_MEM_SIZE, for ACPI tables
          Rom,            \* the firmware's own window below 4 GiB
          Ebda,           \* EBDA, for ACPI tables
          BootData,       \* DICE data, event log and DICE proto, in BOOT_ALLOC
          KernelSizes, InitrdSizes,
          Addresses       \* the addresses at which the table is compared

VARIABLES boot,        \* the step of rust64_start that comes next, or "panic"
          cause,       \* why it panicked
          e820,        \* the E820 table
          claim,       \* history: the range claimed last
          validated,   \* memory accepted with PVALIDATE
          loaded,      \* where kernel, ACPI tables and RAM disk are
          ragged       \* history: pages that a bound of the table read is inside of

stage0Vars == <<boot, cause, e820, claim, validated, loaded, ragged>>

E820Types == {"RAM", "RESERVED", "ACPI"}
E820Entries == {e \in [addr : Nat, end : Nat, type : E820Types] : e.addr <= e.end}
E820Entry(addr, end, type) == [addr |-> addr, end |-> end, type |-> type]

(* layout.ld keeps BOOT_ALLOC and EBDA in the low 640 KiB (0xA0000), which *)
(* is less than HIGH_MEM_SIZE, 1 MiB.  BOOT_ALLOC does not align to pages. *)
ASSUME TablesAssumption == E820Tables \subseteq Seq(E820Entries)
ASSUME LayoutAssumption ==
    /\ {GapStart, SmbiosStart, OneMiB, KernelStart, TopOfMemory, HighMemSize} \subseteq Nat
    /\ Page \in Nat \ {0} /\ HugePage \in Nat \ {0}
    /\ \A a \in {GapStart, SmbiosStart, OneMiB, TopOfMemory, Ebda[1], Ebda[2]} : a % Page = 0
    /\ GapStart < SmbiosStart /\ SmbiosStart <= OneMiB /\ OneMiB <= KernelStart
    /\ GapStart < HighMemSize
    /\ Ebda \in Nat \X Nat /\ Ebda[1] <= Ebda[2] /\ Ebda[2] <= GapStart
    /\ BootData \in Seq(Nat \X Nat) /\ Len(BootData) = 3
    /\ \A i \in 1..3 : BootData[i][1] <= BootData[i][2] /\ BootData[i][2] <= GapStart
    /\ KernelSizes \subseteq Nat /\ InitrdSizes \subseteq Nat /\ Addresses \subseteq Nat

Nowhere == <<0, 0>>
Span(r) == r[1]..(r[2] - 1)
Held(e) == e.addr..(e.end - 1)
AlignDown(a, unit) == a - (a % unit)
AlignUp(a, unit) == AlignDown(a + unit - 1, unit)
PageOf(a) == AlignDown(a, Page)
Ram == {e \in ToSet(e820) : e.type = "RAM"}

-----------------------------------------------------------------------------
(*                             The E820 table                              *)

(* The entry takes its place after front; of the entries behind it, which  *)
(* are sorted, it swallows what it covers, joins those of its type that it *)
(* reaches and pushes back the start of another.                           *)
AbsorbNext(acc, next) ==
    IF acc.entry.end < next.addr
    THEN [acc EXCEPT !.kept = Append(@, next)]
    ELSE IF acc.entry.end >= next.end THEN acc
    ELSE IF acc.entry.type = next.type
    THEN [acc EXCEPT !.entry.end = next.end]
    ELSE [acc EXCEPT !.kept = Append(@, [next EXCEPT !.addr = acc.entry.end])]
Absorb(front, entry, back) ==
    LET after[i \in 0..Len(back)] ==
            IF i = 0 THEN [entry |-> entry, kept |-> << >>]
            ELSE AbsorbNext(after[i - 1], back[i])
        done == after[Len(back)]
    IN  front \o <<done.entry>> \o done.kept

(* Where insert_e820_entry puts an entry, and the entry before that which  *)
(* it touches.                                                             *)
PlaceOf(table, entry) ==
    LET i == SelectInSeq(table, LAMBDA e : entry.addr <= e.addr)
    IN  IF i = 0 THEN Len(table) + 1 ELSE i
TouchesPrevious(table, entry) ==
    LET i == PlaceOf(table, entry) IN i > 1 /\ table[i - 1].end >= entry.addr

(* A variant used to test the properties: an entry inside of another one   *)
(* cuts off the rest of it.                                                *)
MutInsertCutsOff(table, entry) ==
    LET i == PlaceOf(table, entry)
        front == SubSeq(table, 1, i - 1)
        back == SubSeq(table, i, Len(table))
    IN  IF ~TouchesPrevious(table, entry) THEN Absorb(front, entry, back)
        ELSE IF Last(front).type = entry.type
        THEN Absorb(Front(front), [Last(front) EXCEPT !.end = Max({@, entry.end})], back)
        ELSE Absorb(Append(Front(front), [Last(front) EXCEPT !.end = entry.addr]), entry, back)

(* ZeroPage::insert_e820_entry.                                            *)
InsertE820Entry(table, entry) ==
    LET i == PlaceOf(table, entry)
        front == SubSeq(table, 1, i - 1)
        back == SubSeq(table, i, Len(table))
        previous == Last(front)
        rest == IF previous.end > entry.end
                THEN <<E820Entry(entry.end, previous.end, previous.type)>> ELSE << >>
    IN  IF ~TouchesPrevious(table, entry) THEN Absorb(front, entry, back)
        ELSE IF previous.type = entry.type
        THEN Absorb(Front(front), [previous EXCEPT !.end = Max({@, entry.end})], back)
        ELSE Absorb(Append(Front(front), [previous EXCEPT !.end = entry.addr]),
                    entry, rest \o back)

(* The array has no room for the entries that are inserted on the way.     *)
Overflows(table, entry) ==
    LET previous == table[PlaceOf(table, entry) - 1]
        added == IF ~TouchesPrevious(table, entry) THEN 1
                 ELSE IF previous.type = entry.type THEN 0
                 ELSE IF previous.end > entry.end THEN 2 ELSE 1
    IN  Len(table) + added > MaxE820

(* ZeroPage::ensure_e820_gap: an entry that the gap is inside of is split, *)
(* the others are trimmed or deleted.                                      *)
SplitBy(table, start, end) ==
    SelectInSeq(table, LAMBDA e : e.addr < start /\ e.end > end)
Trimmed(e, start, end) ==
    IF end <= e.addr \/ e.end <= start THEN <<e>>
    ELSE IF e.addr >= start /\ e.end <= end THEN << >>
    ELSE IF e.addr < start THEN <<[e EXCEPT !.end = start]>>
    ELSE <<[e EXCEPT !.addr = end]>>
EnsureE820Gap(table, start, end) ==
    LET split == SplitBy(table, start, end)
        kept[i \in 0..Len(table)] ==
            IF i = 0 THEN << >> ELSE kept[i - 1] \o Trimmed(table[i], start, end)
    IN  IF split # 0
        THEN InsertE820Entry(ReplaceAt(table, split, [table[split] EXCEPT !.end = start]),
                             E820Entry(end, table[split].end, table[split].type))
        ELSE kept[Len(table)]

(* ZeroPage::validate_e820_table.                                          *)
Sorted(table) ==
    \A i \in 1..(Len(table) - 1) : table[i].end <= table[i + 1].addr

(* fw_cfg.rs: the highest page in RAM below 1 GiB with room for size.      *)
FindSuitableDmaAddress(size) ==
    LET padded == AlignUp(size, Page)
        end(e) == Min({TopOfMemory, e.end})
        found == {PageOf(end(e) - padded) : e \in {e \in Ram : e.addr + padded <= end(e)}}
    IN  IF found = {} THEN Nowhere ELSE <<Max(found), Max(found) + size>>

-----------------------------------------------------------------------------
(*                     The steps of rust64_start, in order                 *)

Panics(why) ==
    /\ boot' = "panic"
    /\ cause' = why
    /\ UNCHANGED <<e820, claim, validated, loaded, ragged>>

Claims(entry, next) ==
    IF Overflows(e820, entry) THEN Panics("out of bounds")
    ELSE /\ e820' = InsertE820Entry(e820, entry)
         /\ claim' = entry
         /\ boot' = next
         /\ UNCHANGED <<cause, validated, loaded, ragged>>

Bounds(table) == UNION {{e.addr, e.end} : e \in ToSet(table)}

(* boot.s has accepted the low 640 KiB.                                    *)
Stage0Init ==
    /\ boot = "fill"
    /\ cause = "none"
    /\ e820 \in E820Tables
    /\ claim = E820Entry(0, 0, "none")
    /\ validated = 0..(GapStart - 1)
    /\ loaded = [kernel |-> Nowhere, acpi |-> Nowhere, initrd |-> Nowhere]
    /\ ragged = {PageOf(b) : b \in {b \in Bounds(e820) : b % Page # 0}}

(* fill_e820_table has read and sorted the table.                          *)
FillE820Table ==
    /\ boot = "fill"
    /\ IF e820 = << >> \/ ~Sorted(e820) THEN Panics("not a memory map")
       ELSE IF SplitBy(e820, GapStart, SmbiosStart) # 0 /\ Len(e820) = MaxE820
       THEN Panics("out of bounds")
       ELSE /\ e820' = EnsureE820Gap(e820, GapStart, SmbiosStart)
            /\ claim' = E820Entry(GapStart, SmbiosStart, "none")
            /\ boot' = "smbios"
            /\ UNCHANGED <<cause, validated, loaded, ragged>>

ReserveSmbios ==
    /\ boot = "smbios"
    /\ Claims(E820Entry(SmbiosStart, OneMiB, "RESERVED"), "validate")

(* The whole pages of an entry, which validate_memory accepts one by one   *)
(* before the first huge page, as huge pages, and one by one after the     *)
(* last.                                                                   *)
First(e) == AlignUp(e.addr, Page)
Limit(e) == PageOf(e.end)
Leading(e) == First(e)..(Min({AlignUp(First(e), HugePage), Limit(e)}) - 1)
Huge(e) == AlignUp(First(e), HugePage)..(AlignDown(Limit(e), HugePage) - 1)
Trailing(e) == Max({First(e), AlignDown(Limit(e), HugePage)})..(Limit(e) - 1)

(* validate_memory.  PVALIDATE of a page that is valid already is fatal;   *)
(* to make a private page private again changes nothing.                   *)
ValidateMemory ==
    /\ boot = "validate"
    /\ LET above == {e \in Ram : e.addr >= GapStart}
           accept == {e \in above : First(e) <= Limit(e)}
           inRom(e) == Held(e) \cap Span(Rom) # {}
           twice(e) == \/ Leading(e) \cap Trailing(e) # {}
                       \/ Huge(e) \cap (Leading(e) \cup Trailing(e)) # {}
           bad == SelectInSeq(e820, LAMBDA e : \/ e \in above /\ inRom(e)
                                               \/ e \in accept /\ twice(e))
       IN  IF bad # 0
           THEN Panics(IF inRom(e820[bad]) THEN "firmware window" ELSE "double validation")
           ELSE IF E820Entry(SmbiosStart, OneMiB, "RESERVED") \notin ToSet(e820)
           THEN Panics("no SMBIOS range")
           ELSE /\ validated' = validated \cup SmbiosStart..(OneMiB - 1) \cup
                       UNION {Leading(e) \cup Huge(e) \cup Trailing(e) : e \in accept}
                /\ boot' = "heap"
                /\ UNCHANGED <<cause, e820, claim, loaded, ragged>>

(* init_global_allocator.                                                  *)
InitGlobalAllocator ==
    /\ boot = "heap"
    /\ IF \E e \in Ram : Span(Heap) \subseteq Held(e)
       THEN boot' = "kernel" /\ UNCHANGED <<cause, e820, claim, validated, loaded, ragged>>
       ELSE Panics("heap is not backed by physical memory")

(* try_load_kernel_image, with kernel_fits_in_memory.                      *)
TryLoadKernelImage(size) ==
    /\ boot = "kernel"
    /\ LET range == <<KernelStart, KernelStart + size>>
       IN  IF range[2] > TopOfMemory \/ ~\E e \in Ram : Span(range) \subseteq Held(e)
           THEN Panics("kernel does not fit")
           ELSE /\ loaded' = [loaded EXCEPT !.kernel = range]
                /\ boot' = "low"
                /\ UNCHANGED <<cause, e820, claim, validated, ragged>>

SetupLowAllocator ==
    /\ boot = "low"
    /\ Claims(E820Entry(Ebda[1], Ebda[2], "ACPI"), "high")

(* setup_high_allocator takes the end of the last RAM that begins low      *)
(* enough.                                                                 *)
SetupHighAllocator ==
    /\ boot = "high"
    /\ LET i == SelectLastInSeq(e820, LAMBDA e : /\ e.type = "RAM"
                                                 /\ e.addr < TopOfMemory - HighMemSize
                                                 /\ e.end - e.addr >= HighMemSize)
           limit == Min({TopOfMemory, e820[i].end})
           entry == E820Entry(limit - HighMemSize, limit, "ACPI")
       IN  IF i = 0 THEN Panics("no memory for ACPI tables")
           ELSE IF Overflows(e820, entry) THEN Panics("out of bounds")
           ELSE /\ e820' = InsertE820Entry(e820, entry)
                /\ claim' = entry
                /\ loaded' = [loaded EXCEPT !.acpi = <<entry.addr, entry.end>>]
                /\ boot' = "initrd"
                /\ UNCHANGED <<cause, validated, ragged>>

(* A variant used to test the properties: without check_non_overlapping.   *)
MutLoadsAnywhere(size) ==
    /\ boot = "initrd"
    /\ LET range == FindSuitableDmaAddress(size)
       IN  IF range = Nowhere THEN Panics("no suitable DMA address")
           ELSE /\ loaded' = [loaded EXCEPT !.initrd = range]
                /\ boot' = "data 1"
                /\ UNCHANGED <<cause, e820, claim, validated, ragged>>

(* try_load_initial_ram_disk; there may be none.                           *)
TryLoadInitialRamDisk(size) ==
    /\ boot = "initrd"
    /\ LET range == FindSuitableDmaAddress(size)
       IN  IF size = 0
           THEN boot' = "data 1" /\ UNCHANGED <<cause, e820, claim, validated, loaded, ragged>>
           ELSE IF range = Nowhere THEN Panics("no suitable DMA address")
           ELSE IF Span(range) \cap Span(loaded.kernel) # {}
           THEN Panics("overlaps with the kernel")
           ELSE /\ loaded' = [loaded EXCEPT !.initrd = range]
                /\ boot' = "data 1"
                /\ UNCHANGED <<cause, e820, claim, validated, ragged>>

(* The data for the next stages is reserved, one range after the other.    *)
DataSteps == <<"data 1", "data 2", "data 3", "jump">>
ReserveBootData ==
    \E i \in DOMAIN BootData :
        /\ boot = DataSteps[i]
        /\ Claims(E820Entry(BootData[i][1], BootData[i][2], "RESERVED"), DataSteps[i + 1])

Stage0Next ==
    \/ FillE820Table \/ ReserveSmbios \/ ValidateMemory \/ InitGlobalAllocator
    \/ \E size \in KernelSizes : TryLoadKernelImage(size)
    \/ SetupLowAllocator \/ SetupHighAllocator
    \/ \E size \in InitrdSizes : TryLoadInitialRamDisk(size)
    \/ ReserveBootData

Stage0Spec == Stage0Init /\ [][Stage0Next]_stage0Vars

-----------------------------------------------------------------------------
(* insert_e820_entry and ensure_e820_gap change what they are asked to and *)
(* nothing else, whatever the entries overlap, split and join.             *)
E820Map == INSTANCE AddressMap WITH
               Types <- E820Types,
               types <- [a \in Addresses |-> {e.type : e \in {e \in ToSet(e820) : a \in Held(e)}}]
E820Spec == E820Map!Spec

(* What the kernel is handed is where the table says and apart: kernel,    *)
(* ACPI tables and RAM disk lie in accepted memory, the RAM disk in RAM and*)
(* away from the kernel, the ACPI tables and the data in low memory, and   *)
(* the table is sorted.  A page that a bound of the hypervisor's table is  *)
(* inside of is not accepted, although kernel and ACPI tables may take what*)
(* it has of RAM, and a RAM disk that is aligned down may begin before the *)
(* RAM there: all but such pages is as said.  A RAM disk of at most 640 KiB*)
(* is put into low memory, over what is there, where the RAM above 1 MiB   *)
(* has no room left: the search has no lower bound.  Two overlaps are not  *)
(* looked for: a kernel that ends less than HIGH_MEM_SIZE below the end of *)
(* its RAM, and a RAM disk so large that it reaches down to the heap.      *)
LoadedApart ==
    LET apart(r, s) == Span(r) \cap Span(s) = {}
        whole(r) == {a \in Span(r) : PageOf(a) \notin ragged}
        disk == loaded.initrd
    IN  /\ boot # "fill" /\ cause # "not a memory map" => Sorted(e820)
        /\ whole(loaded.kernel) \cup whole(disk) \cup whole(loaded.acpi) \subseteq validated
        /\ apart(disk, loaded.kernel)
        /\ whole(disk) \cap Span(loaded.acpi) = {}
        /\ disk[1] >= GapStart => \A a \in whole(disk) : \E e \in Ram : a \in Held(e)
        /\ disk[2] - disk[1] > GapStart => disk[1] >= GapStart
        /\ \A r \in ToSet(BootData) \cup {Ebda} :
              /\ apart(r, loaded.acpi)
              /\ disk[1] >= GapStart => apart(r, disk)
=============================================================================
