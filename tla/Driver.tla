------------------------------- MODULE Driver -------------------------------
(***************************************************************************)
(* ds10_driver's node (ds10_node.cpp, serial_port.cpp): the reader thread  *)
(* that opens, reads and reopens the serial port, the tx callback that     *)
(* writes to it, the mutex between them, and the destructor that joins the *)
(* reader.  The device may be unplugged and plugged again at any time, and  *)
(* the line may stop taking bytes.                                         *)
(*                                                                         *)
(* A critical section that cannot block is one step; the two that hold the *)
(* mutex for a while, the pause after a failed open and the write loop,    *)
(* are told apart by the mutex's owner.  Bytes are told apart by the       *)
(* connection they came over.                                              *)
(***************************************************************************)
EXTENDS Naturals

CONSTANTS FrameLen,   \* write calls a frame may take, at most
          HungReads   \* what read() says of a descriptor whose device is gone

ASSUME DriverParameters ==
    FrameLen \in Nat \ {0} /\ HungReads \subseteq {"error", "nothing"}

VARIABLES running_, connected_,
          fd_,       \* serial_'s descriptor: "closed", "live", or "dead" (device gone)
          mutex,     \* owner of serial_mutex_: "free", "reader" or "tx"
          at,        \* program point of the reader, the tx callback and the node
          buffered,  \* codec_'s buffer: "empty", or bytes of the "current"
                     \* connection, or some of an earlier one ("stale")
          written,   \* of the frame being written
          failed,    \* auxiliary: a write has failed on this connection
          device,    \* the adapter is "present" or "absent"
          line       \* the tty "drains" or is "stalled": ::write says EAGAIN

vars == <<running_, connected_, fd_, mutex, at, buffered, written, failed, device, line>>

port == <<running_, connected_, fd_>>
bytes == <<buffered, written, failed>>
world == <<device, line>>

Points == [reader : {"loop", "connect", "sleep", "read", "feed", "quiet", "lost", "done"},
           tx : {"idle", "lock", "writing"},
           node : {"up", "join", "down"}]

TypeOK ==
    /\ running_ \in BOOLEAN /\ connected_ \in BOOLEAN
    /\ fd_ \in {"closed", "live", "dead"}
    /\ mutex \in {"free", "reader", "tx"}
    /\ at \in Points
    /\ buffered \in {"empty", "current", "stale"}
    /\ written \in 0..FrameLen
    /\ failed \in BOOLEAN
    /\ device \in {"present", "absent"}
    /\ line \in {"drains", "stalled"}

\* The constructor starts the reader thread last.
Init ==
    /\ running_ = TRUE /\ connected_ = FALSE
    /\ fd_ = "closed" /\ mutex = "free"
    /\ at = [reader |-> "loop", tx |-> "idle", node |-> "up"]
    /\ buffered = "empty" /\ written = 0 /\ failed = FALSE
    /\ device \in {"present", "absent"} /\ line = "drains"

Go(who, point) == at' = [at EXCEPT ![who] = point]

\* Mutants of Locks and Unlock: lock_guard forgotten, or never released.
LocksNothing == TRUE
LocksForEver == UNCHANGED mutex

\* lock_guard on serial_mutex_.
Locks == mutex = "free"
Unlock == mutex' = "free"

\* Mutant of flush_partial: nothing is flushed.
flush_nothing == buffered

flush_partial == "empty"

\* What is buffered belongs to the connection that has just ended.
Outdated == IF buffered = "empty" THEN "empty" ELSE "stale"

-----------------------------------------------------------------------------
(* reader_loop *)

\* Mutant of NextRound: running_ is not tested.
NextRoundForever == IF connected_ THEN "read" ELSE "connect"

NextRound == IF ~running_ THEN "done" ELSE IF connected_ THEN "read" ELSE "connect"

Loop ==
    /\ at.reader = "loop" /\ Go("reader", NextRound)
    /\ UNCHANGED <<port, mutex, bytes, world>>

OpenSucceeds ==
    /\ at.reader = "connect" /\ Locks /\ device = "present"
    /\ fd_' = "live" /\ connected_' = TRUE
    /\ buffered' = flush_partial
    /\ failed' = FALSE
    /\ Go("reader", "read")
    /\ UNCHANGED <<running_, mutex, written, world>>

\* The lock_guard lives to the end of the block, behind the pause of 500 ms.
OpenFails ==
    /\ at.reader = "connect" /\ Locks
    /\ fd_' = "closed"
    /\ mutex' = "reader" /\ Go("reader", "sleep")
    /\ UNCHANGED <<running_, connected_, bytes, world>>

SleepEnds ==
    /\ at.reader = "sleep" /\ Unlock /\ Go("reader", "loop")
    /\ UNCHANGED <<port, bytes, world>>

\* serial_.read() under the mutex: bytes, none (r = 0 included), or an error.
ReadTo(point) ==
    /\ at.reader = "read" /\ Locks /\ Go("reader", point)
    /\ UNCHANGED <<port, mutex, bytes, world>>

ReadBytes == fd_ = "live" /\ ReadTo("feed")
ReadNothing == (fd_ = "live" \/ (fd_ = "dead" /\ "nothing" \in HungReads)) /\ ReadTo("quiet")
\* Mutant of ReadFails: every error is taken for "no data yet".
ReadShrugs == (fd_ = "closed" \/ (fd_ = "dead" /\ "error" \in HungReads)) /\ ReadTo("quiet")

ReadFails ==
    (fd_ = "live" \/ fd_ = "closed" \/ (fd_ = "dead" /\ "error" \in HungReads)) /\ ReadTo("lost")

\* Mutant of ClosePort: connected_ is left set.
CloseQuietly ==
    /\ at.reader = "lost" /\ Locks
    /\ fd_' = "closed" /\ buffered' = Outdated
    /\ Go("reader", "loop")
    /\ UNCHANGED <<running_, connected_, mutex, written, failed, world>>

\* The mutex was released in between.
ClosePort ==
    /\ at.reader = "lost" /\ Locks
    /\ fd_' = "closed" /\ connected_' = FALSE /\ buffered' = Outdated
    /\ Go("reader", "loop")
    /\ UNCHANGED <<running_, mutex, written, failed, world>>

\* codec_.feed and publish_frame: all bytes end in frames, or some are left.
Feed ==
    /\ at.reader = "feed" /\ Go("reader", "loop")
    /\ buffered' \in {"empty", IF buffered = "stale" THEN "stale" ELSE "current"}
    /\ UNCHANGED <<port, mutex, written, failed, world>>

\* Silence: what is left is flushed once it has lasted frame_timeout_ms_.
Quiet ==
    /\ at.reader = "quiet" /\ Go("reader", "loop")
    /\ buffered' \in {buffered, flush_partial}
    /\ UNCHANGED <<port, mutex, written, failed, world>>

-----------------------------------------------------------------------------
(* on_tx; a frame that encode refuses changes nothing but a counter (Link!on_tx) *)

TakeTx ==
    /\ at.tx = "idle" /\ at.node = "up" /\ Go("tx", "lock")
    /\ UNCHANGED <<port, mutex, bytes, world>>

TxDropped ==
    /\ at.tx = "lock" /\ Locks /\ ~connected_ /\ Go("tx", "idle")
    /\ UNCHANGED <<port, mutex, bytes, world>>

WriteStarts ==
    /\ at.tx = "lock" /\ Locks /\ connected_
    /\ mutex' = "tx" /\ written' = 0 /\ Go("tx", "writing")
    /\ UNCHANGED <<port, buffered, failed, world>>

\* Mutant of WriteTakes: len in place of len - written.
WriteTakesAll == written + 1..written + FrameLen

\* ::write takes some of what is left.
WriteTakes == written + 1..FrameLen

\* The last piece ends the callback.  On a stalled line EAGAIN, and the loop spins.
WriteSome ==
    /\ at.tx = "writing" /\ fd_ = "live" /\ line = "drains"
    /\ written' \in WriteTakes
    /\ IF written' >= FrameLen
         THEN Unlock /\ Go("tx", "idle")
         ELSE UNCHANGED <<mutex, at>>
    /\ UNCHANGED <<port, buffered, failed, world>>

\* An error that is not transient: on_tx logs "link down" and returns.
WriteFails ==
    /\ at.tx = "writing"
    /\ failed' = TRUE
    /\ Unlock /\ Go("tx", "idle")
    /\ UNCHANGED <<port, buffered, written, world>>

-----------------------------------------------------------------------------
(* The end of the node, once spin() has returned; the adapter and its line *)

Stop ==
    /\ at.node = "up" /\ at.tx = "idle"
    /\ running_' = FALSE /\ Go("node", "join")
    /\ UNCHANGED <<connected_, fd_, mutex, bytes, world>>

CloseNode ==
    /\ at.node = "join" /\ at.reader = "done" /\ Locks
    /\ fd_' = "closed" /\ Go("node", "down")
    /\ UNCHANGED <<running_, connected_, mutex, bytes, world>>

Unplug ==
    /\ device = "present" /\ device' = "absent"
    /\ fd_' = IF fd_ = "live" THEN "dead" ELSE fd_
    /\ UNCHANGED <<running_, connected_, mutex, at, bytes, line>>

Plug ==
    /\ device = "absent" /\ device' = "present"
    /\ UNCHANGED <<port, mutex, at, bytes, line>>

\* The adapter takes no more bytes (its radio is busy, or hangs), or takes them again.
StallOrDrain ==
    /\ line' = IF line = "drains" THEN "stalled" ELSE "drains"
    /\ UNCHANGED <<port, mutex, at, bytes, device>>

-----------------------------------------------------------------------------
Read == ReadBytes \/ ReadNothing \/ ReadFails
ReaderRuns == Loop \/ SleepEnds \/ Feed \/ Quiet
ReaderLocks == OpenFails \/ Read \/ ClosePort
TxRuns == TxDropped \/ WriteStarts \/ WriteSome \/ WriteFails

Next ==
    \/ ReaderRuns \/ ReaderLocks \/ OpenSucceeds
    \/ TakeTx \/ TxRuns
    \/ Stop \/ CloseNode
    \/ Unplug \/ Plug \/ StallOrDrain

Spec == Init /\ [][Next]_vars

\* The threads run; the reader gets the mutex in the end, because a tx callback
\* leaves it for a whole round of the executor; a device that is there lets itself be
\* opened in the end; a line that drains again and again takes the next piece in the
\* end, and a write to a descriptor whose device is gone fails.  Nothing is assumed
\* of the tx callback's lock while its rival locks again at once, nor of the line.
Fairness ==
    /\ WF_vars(ReaderRuns) /\ SF_vars(ReaderLocks) /\ SF_vars(OpenSucceeds)
    /\ WF_vars(TxDropped \/ WriteStarts) /\ SF_vars(WriteSome)
    /\ WF_vars(fd_ = "dead" /\ WriteFails)
    /\ WF_vars(CloseNode)

FairSpec == Spec /\ Fairness

-----------------------------------------------------------------------------
(* Properties *)

\* connected_ is read without the mutex; it says the port is open, in every state
\* in which the node exists.
ConnectedIffOpen == at.node # "down" => (connected_ <=> fd_ # "closed")

\* From its first byte to its last a frame is written to one open descriptor, which
\* the reader neither closes nor replaces meanwhile.
WriteKeepsPort == at.tx = "writing" => mutex = "tx" /\ connected_ /\ fd_ # "closed"

\* The bytes that are decoded together come over one connection: a partial frame
\* from before a reconnection is never completed by what comes after it.
NoSplice == at.reader = "feed" => buffered # "stale"

LineDrains == []<>(line = "drains")

\* While the node runs, the device is there and its line does not hang, the link
\* comes back for good or again and again ("Reconnects automatically on link loss",
\* ds10_node.hpp:38-39).
Reconnects ==
    ([]running_ /\ <>[](device = "present") /\ LineDrains) => []<>(connected_ /\ fd_ = "live")

\* If the line does not hang, a tx callback returns unless the link is lost meanwhile.
\* (Before a port that is not connected it may wait for ever: see Fairness.)
TxReturns == LineDrains => ((at.tx = "lock" /\ connected_) ~> (at.tx = "idle" \/ ~connected_))

\* A lost adapter is noticed and its descriptor given up, whatever the reader and the tx
\* callback were doing: even if a write was stuck in front of a hung line, with the mutex
\* in hand (serial_port.cpp:146, ds10_node.cpp:154-160).
LossNoticed == fd_ = "dead" ~> fd_ # "dead"

\* The destructor ends, with the port closed, whatever the reader was doing and even
\* if the line hangs.
ShutdownEnds == ~running_ ~> (at.node = "down" /\ fd_ = "closed")

\* A write error is treated as link loss (serial_port.hpp:60).
WriteErrorIsLinkLoss == failed /\ mutex = "free" => ~connected_
=============================================================================
