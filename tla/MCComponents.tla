---------------------------- MODULE MCComponents ----------------------------
(* Instances of small components in one run: the ordered crypter, the      *)
(* attestation decision, the tables of Oak Functions, the restricted       *)
(* kernel's memory and descriptors, stage 0's memory, and a pair of        *)
(* proxies.  They share nothing; a behaviour is one of them, and the       *)
(* variables of the others stay as they are.                               *)
EXTENDS OrderedCrypter, AttestationVerdict, LookupHtbl, KernelMemory, KernelDescriptors,
        Stage0Memory, OakProxy

CONSTANTS hello, bye, huge, k1, k2
VARIABLE scenario

(* Two pieces of RAM that meet inside of a frame, up to a limit.  One      *)
(* ramdisk shares a frame with the image, one reaches beyond the RAM.      *)
MCMemoryMap(limit, image, ramdisk) ==
    [ram |-> {<<0, 1>>, <<1, limit>>}, image |-> {image}, ramdisk |-> ramdisk]
MCMemoryMaps == {MCMemoryMap(32, <<3, 4>>, <<24, 27>>), MCMemoryMap(36, <<2, 5>>, <<7, 12>>),
                 MCMemoryMap(33, <<2, 5>>, <<5, 8>>), MCMemoryMap(35, <<2, 5>>, <<32, 36>>),
                 MCMemoryMap(25, <<2, 5>>, <<7, 10>>)}

(* The last of the programs overlaps itself.                               *)
MCPrograms == {<< <<1, 1>> >>, << <<1, 1>>, <<2, 1>> >>, << <<1, 1>>, <<1, 1>> >>}

(* Tables of up to three entries with bounds before, at and after what     *)
(* stage 0 claims, some of them inside of a page; one table is empty, one  *)
(* overlaps itself, and in one the room for a small RAM disk begins inside *)
(* of a page.                                                              *)
MCBounds == {0, 10, 17, 23, 32, 44, 61, 88, 120}
MCProper ==
    {e \in {E820Entry(a, b, t) : a \in MCBounds, b \in MCBounds, t \in {"RAM", "RESERVED"}} :
        e.addr < e.end}
MCPairs == UNION {{<<e, f>> : f \in {f \in MCProper : e.end <= f.addr}} : e \in MCProper}
MCE820Tables ==
    {<< >>, <<E820Entry(0, 88, "RAM"), E820Entry(61, 120, "RAM")>>,
     <<E820Entry(0, 60, "RAM"), E820Entry(60, 61, "RESERVED"), E820Entry(61, 77, "RAM")>>}
        \cup {<<e>> : e \in MCProper} \cup MCPairs
        \cup UNION {{Append(p, f) : f \in {f \in MCProper : p[2].end <= f.addr}} : p \in MCPairs}
(* The first and the last address of every range there can be.             *)
MCAddresses == 0..17 \cup {22, 23, 31, 32, 33, 34, 43, 44, 50, 51, 59, 60, 61, 66, 67, 69, 70,
                          76, 77, 79, 80, 87, 88, 119, 120}
MCHeap == <<14, 16>>
MCRom == <<104, 112>>
MCEbda == <<6, 8>>
MCBootData == << <<0, 2>>, <<2, 3>>, <<3, 6>> >>

(* One application writes enough to fill the connection.                   *)
MCChunkPlans == {[p \in Ends |-> IF p = "Client" THEN 2 ELSE 0]}

MCInit ==
    /\ scenario \in {"ordered", "verdict", "htbl", "kernel", "descriptors", "stage0", "proxy"}
    /\ scenario = "verdict" \/ (verifiers = {} /\ assertion_verifiers = {})
    /\ scenario = "kernel" \/ memory = MCMemoryMap(32, <<3, 4>>, <<24, 27>>)
    /\ scenario = "stage0" \/ e820 = << >>
    /\ Init /\ VerdictInit /\ HtblInit /\ KernelInit /\ DescriptorsInit /\ Stage0Init /\ ProxyInit

Others(vs) == UNCHANGED <<vs, scenario>>
MCNext ==
    \/ /\ scenario = "ordered" /\ Next
       /\ Others(<<verdictVars, htblVars, kernelVars, descriptorVars, stage0Vars, proxyVars>>)
    \/ /\ scenario = "verdict" /\ VerdictNext
       /\ Others(<<vars, htblVars, kernelVars, descriptorVars, stage0Vars, proxyVars>>)
    \/ /\ scenario = "htbl" /\ HtblNext
       /\ Others(<<vars, verdictVars, kernelVars, descriptorVars, stage0Vars, proxyVars>>)
    \/ /\ scenario = "kernel" /\ KernelNext
       /\ Others(<<vars, verdictVars, htblVars, descriptorVars, stage0Vars, proxyVars>>)
    \/ /\ scenario = "descriptors" /\ DescriptorsNext
       /\ Others(<<vars, verdictVars, htblVars, kernelVars, stage0Vars, proxyVars>>)
    \/ /\ scenario = "stage0" /\ Stage0Next
       /\ Others(<<vars, verdictVars, htblVars, kernelVars, descriptorVars, proxyVars>>)
    \/ /\ scenario = "proxy" /\ ProxyNext
       /\ Others(<<vars, verdictVars, htblVars, kernelVars, descriptorVars, stage0Vars>>)

MCSpec ==
    /\ MCInit
    /\ [][MCNext]_<<vars, verdictVars, htblVars, kernelVars, descriptorVars, stage0Vars, proxyVars,
                   scenario>>
=============================================================================
