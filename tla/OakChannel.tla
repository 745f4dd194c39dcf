----------------------------- MODULE OakChannel -----------------------------
(***************************************************************************)
(* The channel between a launcher and its enclave: the connector task that *)
(* takes the calls of all other tasks in turn (oak_launcher_utils/src/     *)
(* channel.rs), the messages with their invocation ids and the frames they *)
(* are cut into (oak_channel), and the enclave's blocking server           *)
(* (oak_restricted_kernel_sdk/src/channel.rs).                             *)
(*                                                                         *)
(* Calls are numbered in the order they are made.  The number stands for   *)
(* the body of the request and of its response; a message has one frame or *)
(* several.  The byte stream is reliable, but a read or a write of the     *)
(* launcher may time out (connect_with_timeouts): between two frames, or   *)
(* inside one, since the padding, the length, the flags and the body of a  *)
(* frame are read and written one by one.  Then the stream goes on with    *)
(* bytes that do not begin at a frame, and that the reader takes for one.  *)
(***************************************************************************)
EXTENDS Naturals, Sequences

CONSTANTS IdModulus,       \* invocation ids are counted modulo this; 2^32
          FrameCounts,     \* how many frames a message may take
          SocketTimeouts,  \* the launcher's socket has timeouts
          TornPieces,      \* bound: what remains of a torn frame is read as this many
          CallersLeave,    \* callers may drop their calls
          MaxCalls         \* bound: this many calls are made

ASSUME ChannelAssumption ==
    /\ IdModulus \in Nat \ {0}
    /\ FrameCounts \subseteq Nat \ {0}
    /\ {SocketTimeouts, CallersLeave} \subseteq BOOLEAN
    /\ {TornPieces, MaxCalls} \subseteq Nat

VARIABLES calls,      \* the connector's mpsc channel: calls that wait
          outcome,    \* per call: what its caller has got
          connector,  \* the connector task
          to_guest, to_host,  \* frames on the way
          guest,      \* the enclave's server loop
          torn        \* history: the first call that timed out inside a frame, 0 if none

streamVars == <<to_guest, to_host, guest, torn>>
channelVars == <<calls, outcome, connector, streamVars>>

InvocationId(n) == n % IdModulus

(* bytes_into_frames: the first fragment has START, the last one END.      *)
IntoFrames(n, k) ==
    [i \in 1..k |-> [start |-> i = 1, end |-> i = k, message |-> n, part |-> i]]

(* read_message on the frames read so far: what the next one leads to.     *)
Refused(read, frame) == frame.start # (read = << >>)
Complete(read) == read # << >> /\ read[Len(read)].end

(* Bytes that do not begin at a frame.  Whatever they hold is taken for the*)
(* padding, which nobody looks at, the length, the flags and the body of a *)
(* frame, and the bytes of later frames go with them.                      *)
Torn == [start |-> FALSE, end |-> FALSE, message |-> 0, part |-> 0]
Garbled == [start : BOOLEAN, end : BOOLEAN, message : 1..MaxCalls, part : {0}]
Whole(stream) == stream # << >> /\ Head(stream) # Torn
Remains == {[i \in 1..k |-> Torn] : k \in 1..TornPieces}
AfterGarbled(stream) ==
    {SubSeq(stream, k, Len(stream)) : k \in 2..(Len(stream) + 1)}
    \cup {<<Torn>> \o SubSeq(stream, k, Len(stream)) : k \in 3..(Len(stream) + 1)}

Waiting == [state |-> "waiting"]
Left == [state |-> "left"]
Error == [state |-> "error"]
Answered(frames) == [state |-> "answered", frames |-> frames]

Free == [pc |-> "idle"]
Dead == [pc |-> "dead"]

-----------------------------------------------------------------------------
ChannelInit ==
    /\ calls = << >>
    /\ outcome = << >>
    /\ connector = Free
    /\ to_guest = << >> /\ to_host = << >>
    /\ guest = [pc |-> "read", read |-> << >>]
    /\ torn = 0

(* ConnectorHandle::invoke: the call is queued; a connector that is gone   *)
(* has closed its channel.                                                 *)
Invoke ==
    /\ Len(outcome) < MaxCalls
    /\ IF connector = Dead
       THEN outcome' = Append(outcome, Error) /\ UNCHANGED calls
       ELSE /\ outcome' = Append(outcome, Waiting)
            /\ calls' = Append(calls, Len(outcome) + 1)
    /\ UNCHANGED <<connector, streamVars>>

(* The caller's future is dropped, and with it the receiver of the answer. *)
Leave(n) ==
    /\ CallersLeave
    /\ outcome[n] = Waiting
    /\ outcome' = [outcome EXCEPT ![n] = Left]
    /\ UNCHANGED <<calls, connector, streamVars>>

(* A panic of the task drops its queue and the senders in it, which the    *)
(* callers that still wait see as an error.                                *)
Panic ==
    /\ connector' = Dead
    /\ calls' = << >>
    /\ outcome' = [n \in DOMAIN outcome |->
                      IF outcome[n] = Waiting THEN Error ELSE outcome[n]]

MutAnswerKeepsWaiting(n, result) ==
    /\ connector' = Free
    /\ outcome' = IF outcome[n] = Left THEN outcome
                  ELSE [outcome EXCEPT ![n] = IF result = Error THEN Waiting ELSE result]
    /\ UNCHANGED calls

(* The connector sends a result to the caller; a caller that has left has  *)
(* no receiver, and the send is unwrapped.                                 *)
Answer(n, result) ==
    IF outcome[n] = Left THEN Panic
    ELSE /\ outcome' = [outcome EXCEPT ![n] = result]
         /\ connector' = Free
         /\ UNCHANGED calls

-----------------------------------------------------------------------------
(* The next call, encoded with the next invocation id.                     *)
TakeRequest ==
    /\ connector = Free
    /\ calls # << >>
    /\ \E k \in FrameCounts :
          connector' = [pc |-> "write", call |-> Head(calls),
                        id |-> InvocationId(Head(calls)),
                        frames |-> IntoFrames(Head(calls), k)]
    /\ calls' = Tail(calls)
    /\ UNCHANGED <<outcome, streamVars>>

WriteFrame ==
    /\ connector.pc = "write"
    /\ to_guest' = Append(to_guest, Head(connector.frames))
    /\ connector' = IF Len(connector.frames) > 1
                    THEN [connector EXCEPT !.frames = Tail(@)]
                    ELSE [pc |-> "read", call |-> connector.call, id |-> connector.id,
                          read |-> << >>]
    /\ UNCHANGED <<calls, outcome, to_host, guest, torn>>

(* The checks of read_message; an error goes to the caller.                *)
TakeFrame(frame) ==
    IF Refused(connector.read, frame)
    THEN Answer(connector.call, Error)
    ELSE /\ connector' = [connector EXCEPT !.read = Append(@, frame)]
         /\ UNCHANGED <<calls, outcome>>

ReadFrame ==
    /\ connector.pc = "read"
    /\ ~Complete(connector.read)
    /\ Whole(to_host)
    /\ to_host' = Tail(to_host)
    /\ TakeFrame(Head(to_host))
    /\ UNCHANGED <<to_guest, guest, torn>>

(* What is left of a torn frame is an error (too small, too large, shorter *)
(* than a header), a panic (lack of capacity), or taken for a frame.       *)
ReadGarbled ==
    /\ connector.pc = "read"
    /\ ~Complete(connector.read)
    /\ to_host # << >> /\ ~Whole(to_host)
    /\ to_host' \in AfterGarbled(to_host)
    /\ \/ Answer(connector.call, Error)
       \/ Panic
       \/ \E frame \in Garbled : TakeFrame(frame)
    /\ UNCHANGED <<to_guest, guest, torn>>

MutAnyResponse ==
    /\ connector.pc = "read"
    /\ Complete(connector.read)
    /\ Answer(connector.call, Answered(connector.read))
    /\ UNCHANGED streamVars

(* The response's invocation id has to be the request's.                   *)
TakeResponse ==
    /\ connector.pc = "read"
    /\ Complete(connector.read)
    /\ IF InvocationId(connector.read[1].message) = connector.id
       THEN Answer(connector.call, Answered(connector.read))
       ELSE Panic
    /\ UNCHANGED streamVars

UsesSocket ==
    connector.pc = "write" \/ (connector.pc = "read" /\ ~Complete(connector.read))

(* A read or a write fails between two frames: by a timeout, or since the  *)
(* enclave has ended.                                                      *)
SocketFails ==
    /\ UsesSocket
    /\ \/ SocketTimeouts
       \/ guest = Dead /\ (connector.pc = "read" => to_host = << >>)
    /\ Answer(connector.call, Error)
    /\ UNCHANGED streamVars

(* It times out inside a frame: the part that was not sent is not sent any *)
(* more, the part that was not read is read by the next call.              *)
FrameTorn ==
    /\ SocketTimeouts /\ UsesSocket
    /\ \E rest \in Remains :
          \/ /\ connector.pc = "write"
             /\ to_guest' = to_guest \o rest /\ UNCHANGED to_host
          \/ /\ connector.pc = "read" /\ Whole(to_host)
             /\ to_host' = rest \o Tail(to_host) /\ UNCHANGED to_guest
    /\ torn' = IF torn = 0 THEN connector.call ELSE torn
    /\ Answer(connector.call, Error)
    /\ UNCHANGED guest

-----------------------------------------------------------------------------
(* start_blocking_server: an error of read_request ends the application.   *)
GuestTakesFrame(frame) ==
    IF Refused(guest.read, frame) THEN guest' = Dead
    ELSE IF ~frame.end THEN guest' = [guest EXCEPT !.read = Append(@, frame)]
    ELSE \E k \in FrameCounts :
            guest' = [pc |-> "write",
                      frames |-> IntoFrames(Append(guest.read, frame)[1].message, k)]

GuestReadFrame ==
    /\ guest.pc = "read"
    /\ Whole(to_guest)
    /\ to_guest' = Tail(to_guest)
    /\ GuestTakesFrame(Head(to_guest))
    /\ UNCHANGED <<calls, outcome, connector, to_host, torn>>

(* An error, a panic, or what is taken for a frame.                        *)
GuestReadGarbled ==
    /\ guest.pc = "read"
    /\ to_guest # << >> /\ ~Whole(to_guest)
    /\ to_guest' \in AfterGarbled(to_guest)
    /\ guest' = Dead \/ \E frame \in Garbled : GuestTakesFrame(frame)
    /\ UNCHANGED <<calls, outcome, connector, to_host, torn>>

GuestWriteFrame ==
    /\ guest.pc = "write"
    /\ to_host' = Append(to_host, Head(guest.frames))
    /\ guest' = IF Len(guest.frames) > 1 THEN [guest EXCEPT !.frames = Tail(@)]
                ELSE [pc |-> "read", read |-> << >>]
    /\ UNCHANGED <<calls, outcome, connector, to_guest, torn>>

-----------------------------------------------------------------------------
ConnectorStep == TakeRequest \/ WriteFrame \/ ReadFrame \/ TakeResponse
GuestStep == GuestReadFrame \/ GuestWriteFrame

ChannelNext ==
    \/ Invoke \/ ConnectorStep \/ SocketFails \/ GuestStep
    \/ FrameTorn \/ ReadGarbled \/ GuestReadGarbled
    \/ \E n \in DOMAIN outcome : Leave(n)

(* Both loops run as long as they can; only a reader inside a torn frame   *)
(* may wait for bytes that nobody sends.  Without a timeout, the read from *)
(* an enclave that has ended fails; with one, as every torn frame has, a   *)
(* read does not last for ever.                                            *)
ChannelFairness ==
    /\ WF_channelVars(ConnectorStep)
    /\ WF_channelVars(GuestStep)
    /\ WF_channelVars(SocketFails /\ (guest = Dead \/ torn # 0))

ChannelSpec == ChannelInit /\ [][ChannelNext]_channelVars /\ ChannelFairness

-----------------------------------------------------------------------------
(* A caller gets the whole answer to its own request or none, also when an *)
(* earlier call timed out and its answer arrives late: SPEC.md, "The       *)
(* invocation ID of a response message MUST match the invocation ID of its *)
(* related request message".  Only the calls after one that timed out      *)
(* inside a frame may be answered with what is left of it, whose bytes are *)
(* read as a frame with any flags and any id.                              *)
AnswerIsOwn ==
    \A n \in DOMAIN outcome :
        outcome[n].state = "answered" =>
            \/ outcome[n].frames = IntoFrames(n, Len(outcome[n].frames))
            \/ torn \in 1..(n - 1)

(* Every call that is not dropped ends, with an answer or an error: again  *)
(* and again, no call is waiting.                                          *)
CallsEnd == []<>(\A n \in DOMAIN outcome : outcome[n] # Waiting)
=============================================================================
