-------------------------- MODULE KernelDescriptors --------------------------
(***************************************************************************)
(* The file descriptors through which the restricted kernel hands          *)
(* attestation data from one application to the next                       *)
(* (oak_restricted_kernel/src/syscall): DICE data, the derived key and the *)
(* event log.  The orchestrator reads what stage 0 left, writes its own    *)
(* layer, and the application it starts reads that; all of them use the    *)
(* same descriptors, with buffers of any size.                             *)
(*                                                                         *)
(* Bytes of layer 0 are numbered; bytes that applications write come from  *)
(* a small set.  A zeroed byte is 0.  The event log that stage 0 left is   *)
(* one byte.                                                               *)
(***************************************************************************)
EXTENDS Integers, Sequences

CONSTANTS Layer0Len,   \* size of Stage0DiceData
          Layer1Len,   \* size of RestrictedKernelDiceData
          KeyBytes,    \* size of DerivedKey
          MAX_EVENT_LOG_SIZE,
          Bytes,       \* bytes that applications write
          MaxBuf,      \* bound: the largest buffer of a call
          MaxDescriptorCalls  \* bound: on the calls of a run

ASSUME DescriptorsAssumption ==
    /\ {Layer0Len, Layer1Len, KeyBytes, MAX_EVENT_LOG_SIZE, MaxBuf,
        MaxDescriptorCalls} \subseteq Nat \ {0}
    /\ Bytes \subseteq Nat
    /\ \A b \in Bytes : b > Layer0Len

VARIABLES dice,     \* DiceDataDescriptor: kind, layer, data, index
          key,      \* DerivedKeyDescriptor: kind, data, index
          log,      \* EventLogDescriptor: state, data, index
          leaked,   \* history: the bytes of layer 0 that reads returned, in order
          accepted, \* history: bytes that writes left with the descriptor, per descriptor
          returned, \* history: bytes returned from what applications wrote
          dcalls    \* how many calls were made

descriptorVars == <<dice, key, log, leaked, accepted, returned, dcalls>>

Bufs == UNION {[1..n -> Bytes] : n \in 1..MaxBuf}
Zeroed(n) == [i \in 1..n |-> 0]
Least(a, b) == IF a <= b THEN a ELSE b

(* copy_max_slice out of data from index on; into data at index.           *)
Slice(d, n) == SubSeq(d.data, d.index + 1, Least(d.index + n, Len(d.data)))
Filled(data, index, buf) ==
    [i \in 1..Len(data) |-> IF i \in (index + 1)..(index + Len(buf)) THEN buf[i - index]
                            ELSE data[i]]

Call == dcalls < MaxDescriptorCalls /\ dcalls' = dcalls + 1

-----------------------------------------------------------------------------
DescriptorsInit ==
    /\ dice = [kind |-> "Readable", layer |-> 0, data |-> [i \in 1..Layer0Len |-> i],
               index |-> 0]
    /\ key = [kind |-> "Writeable", data |-> Zeroed(KeyBytes), index |-> 0]
    /\ log = [state |-> "Reading", data |-> <<1>>, index |-> 0]
    /\ leaked = << >>
    /\ accepted = [dice |-> << >>, key |-> << >>, log |-> <<1>>]
    /\ returned = [dice |-> << >>, key |-> << >>, log |-> << >>]
    /\ dcalls = 0

MutReadKeepsBytes(n) ==
    /\ Call
    /\ dice.kind = "Readable"
    /\ LET read == Slice(dice, n)
       IN  /\ dice' = [dice EXCEPT !.index = @ + Len(read)]
           /\ IF dice.layer = 0 THEN leaked' = leaked \o read /\ UNCHANGED returned
              ELSE returned' = [returned EXCEPT !.dice = @ \o read] /\ UNCHANGED leaked
    /\ UNCHANGED <<key, log, accepted>>

(* DiceDataDescriptor::read: what is read is zeroed.                       *)
ReadDice(n) ==
    /\ Call
    /\ dice.kind = "Readable"
    /\ LET read == Slice(dice, n)
       IN  /\ dice' = [dice EXCEPT !.index = @ + Len(read),
                                   !.data = Filled(@, dice.index, Zeroed(Len(read)))]
           /\ IF dice.layer = 0 THEN leaked' = leaked \o read /\ UNCHANGED returned
              ELSE returned' = [returned EXCEPT !.dice = @ \o read] /\ UNCHANGED leaked
    /\ UNCHANGED <<key, log, accepted>>

(* DiceDataDescriptor::write: the first write destroys layer 0, and layer 1*)
(* becomes readable once it is complete; a write that does not fit and any *)
(* write after that is refused.                                            *)
Writeable == [kind |-> "Writeable", layer |-> 1, data |-> Zeroed(Layer1Len), index |-> 0]
DiceForWrite == IF dice.kind = "Readable" /\ dice.layer = 0 THEN Writeable ELSE dice
WriteDice(buf) ==
    /\ Call
    /\ LET d == DiceForWrite
           end == d.index + Len(buf)
           data == Filled(d.data, d.index, buf)
       IN  IF d.kind = "Readable" \/ end > Layer1Len
           THEN dice' = d /\ UNCHANGED accepted
           ELSE /\ dice' = IF end = Layer1Len
                           THEN [kind |-> "Readable", layer |-> 1, data |-> data, index |-> 0]
                           ELSE [d EXCEPT !.data = data, !.index = end]
                /\ accepted' = [accepted EXCEPT !.dice = @ \o buf]
    /\ UNCHANGED <<key, log, leaked, returned>>

(* DerivedKeyDescriptor::read and write.                                   *)
ReadKey(n) ==
    /\ Call
    /\ key.kind = "Readable"
    /\ key' = [key EXCEPT !.index = @ + Len(Slice(key, n))]
    /\ returned' = [returned EXCEPT !.key = @ \o Slice(key, n)]
    /\ UNCHANGED <<dice, log, leaked, accepted>>

WriteKey(buf) ==
    /\ Call
    /\ key.kind = "Writeable"
    /\ key.index + Len(buf) <= KeyBytes
    /\ LET data == Filled(key.data, key.index, buf)
           end == key.index + Len(buf)
       IN  key' = IF end = KeyBytes THEN [kind |-> "Readable", data |-> data, index |-> 0]
                  ELSE [key EXCEPT !.data = data, !.index = end]
    /\ accepted' = [accepted EXCEPT !.key = @ \o buf]
    /\ UNCHANGED <<dice, log, leaked, returned>>

-----------------------------------------------------------------------------
(* EventLogDescriptor::read: the first read after writes starts over.      *)
ReadLog(n) ==
    /\ Call
    /\ LET l == IF log.state = "Writing" THEN [log EXCEPT !.state = "Reading", !.index = 0]
                ELSE log
       IN  /\ log' = [l EXCEPT !.index = @ + Len(Slice(l, n))]
           /\ returned' = [returned EXCEPT !.log =
                  (IF log.state = "Writing" THEN << >> ELSE @) \o Slice(l, n)]
    /\ UNCHANGED <<dice, key, leaked, accepted>>

(* EventLogDescriptor::write: the first write after reads empties the log, *)
(* read or not; what exceeds it is cut off, and the call fails, although   *)
(* what did fit stays.                                                     *)
WriteLog(buf) ==
    /\ Call
    /\ LET before == IF log.state = "Reading" THEN << >> ELSE log.data
           written == SubSeq(buf, 1, Least(Len(buf), MAX_EVENT_LOG_SIZE - Len(before)))
       IN  /\ log' = [state |-> "Writing", data |-> before \o written,
                      index |-> IF log.state = "Reading" THEN 0 ELSE log.index]
           /\ accepted' = [accepted EXCEPT !.log =
                  (IF log.state = "Reading" THEN << >> ELSE @) \o written]
    /\ UNCHANGED <<dice, key, leaked, returned>>

DescriptorsNext ==
    \/ \E n \in 1..MaxBuf : ReadDice(n) \/ ReadKey(n) \/ ReadLog(n)
    \/ \E buf \in Bufs : WriteDice(buf) \/ WriteKey(buf) \/ WriteLog(buf)

DescriptorsSpec == DescriptorsInit /\ [][DescriptorsNext]_descriptorVars

-----------------------------------------------------------------------------
(* The secrets of stage 0 are handed out once: no byte is returned twice,  *)
(* what was returned is no longer in the kernel, and nothing of layer 0 is *)
(* left when an application has begun to write its own layer.              *)
SecretsOnce ==
    /\ \A i, j \in 1..Len(leaked) : leaked[i] = leaked[j] => i = j
    /\ \A i \in 1..Len(dice.data) : \A j \in 1..Len(leaked) : dice.data[i] # leaked[j]
    /\ accepted.dice # << >> => \A i \in 1..Len(dice.data) : dice.data[i] \notin 1..Layer0Len

(* The next application reads exactly what the previous one wrote, in      *)
(* order, each byte once, and nothing before the layer or the key is       *)
(* complete; a refused write of these leaves no bytes behind.  Between two *)
(* phases of writing, reads return the event log from its start and without*)
(* gaps, as far as it was kept: of a write that exceeds the reservation,   *)
(* and is reported as an error, the log keeps the part that fits.          *)
HandedOver ==
    /\ returned.dice # << >> => Len(accepted.dice) = Layer1Len
    /\ returned.dice = SubSeq(accepted.dice, 1, Len(returned.dice))
    /\ returned.key # << >> => Len(accepted.key) = KeyBytes
    /\ returned.key = SubSeq(accepted.key, 1, Len(returned.key))
    /\ Len(log.data) <= MAX_EVENT_LOG_SIZE
    /\ log.state = "Reading" => returned.log = SubSeq(accepted.log, 1, Len(returned.log))

(* Between processes, and from stage 0 to the first of them, the           *)
(* descriptors hand over each secret to one reader and the rest unchanged. *)
DescriptorsSound == SecretsOnce /\ HandedOver

(* The tests of event_log.rs expect that a write before everything was read*)
(* fails, so that a log is replaced by its reader only; the log of stage 0 *)
(* is one byte, and later ones are not empty.                              *)
LogReadFirst == log.state = "Writing" => returned.log # << >>
=============================================================================
