---------------------------- MODULE DriverProofs ----------------------------
(***************************************************************************)
(* The driver node, proved for every frame length and whatever the kernel  *)
(* says of a descriptor whose device is gone.                              *)
(***************************************************************************)
EXTENDS Driver, TLAPS

\* Who holds the mutex, and what each thread may assume of the port at its point.
OwnerWhere ==
    /\ mutex = "reader" <=> at.reader = "sleep"
    /\ mutex = "tx" <=> at.tx = "writing"

PortWhere ==
    /\ at.reader \in {"read", "feed", "quiet", "lost"} => connected_
    /\ at.reader \in {"connect", "sleep"} => ~connected_
    /\ at.tx = "writing" => connected_
    /\ buffered = "stale" => ~connected_

NodeWhere ==
    /\ at.node # "up" => at.tx = "idle"
    /\ at.node = "down" => at.reader = "done"

DriverInv == TypeOK /\ OwnerWhere /\ PortWhere /\ NodeWhere /\ ConnectedIffOpen

LEMMA InitDriverInv == Init => DriverInv
<1> SUFFICES ASSUME Init PROVE DriverInv
  OBVIOUS
<1>1. TypeOK
  <2>1. 0 \in 0..FrameLen
    BY DriverParameters
  <2>2. at \in Points
    BY DEF Init, Points
  <2>3. QED BY <2>1, <2>2 DEF Init, TypeOK
<1>2. QED BY <1>1 DEF Init, DriverInv, OwnerWhere, PortWhere, NodeWhere, ConnectedIffOpen

LEMMA ReaderKeeps ==
    ASSUME DriverInv, ReaderRuns \/ ReaderLocks \/ OpenSucceeds
    PROVE  DriverInv'
<1> USE DEF DriverInv, TypeOK, Points, OwnerWhere, PortWhere, NodeWhere, ConnectedIffOpen, Go,
        port, bytes, world, Locks, Unlock, flush_partial, Outdated, NextRound
<1>1. CASE Loop
  BY <1>1 DEF Loop
<1>2. CASE OpenSucceeds
  BY <1>2 DEF OpenSucceeds
<1>3. CASE OpenFails
  BY <1>3 DEF OpenFails
<1>4. CASE SleepEnds
  BY <1>4 DEF SleepEnds
<1>5. CASE Read
  BY <1>5 DEF Read, ReadBytes, ReadNothing, ReadFails, ReadTo
<1>6. CASE ClosePort
  BY <1>6 DEF ClosePort
<1>7. CASE Feed
  BY <1>7 DEF Feed
<1>8. CASE Quiet
  BY <1>8 DEF Quiet
<1>9. QED
  BY <1>1, <1>2, <1>3, <1>4, <1>5, <1>6, <1>7, <1>8 DEF ReaderRuns, ReaderLocks

LEMMA TxKeeps ==
    ASSUME DriverInv, TakeTx \/ TxRuns
    PROVE  DriverInv'
<1> USE DEF DriverInv, TypeOK, Points, OwnerWhere, PortWhere, NodeWhere, ConnectedIffOpen, Go,
        port, bytes, world, Locks, Unlock
<1>1. CASE TakeTx
  BY <1>1 DEF TakeTx
<1>2. CASE TxDropped
  BY <1>2 DEF TxDropped
<1>3. CASE WriteStarts
  BY <1>3, DriverParameters DEF WriteStarts
<1>4. CASE WriteSome
  BY <1>4, DriverParameters DEF WriteSome, WriteTakes
<1>5. CASE WriteFails
  BY <1>5 DEF WriteFails
<1>6. QED BY <1>1, <1>2, <1>3, <1>4, <1>5 DEF TxRuns

LEMMA EnvironmentKeeps ==
    ASSUME DriverInv, Stop \/ CloseNode \/ Unplug \/ Plug \/ StallOrDrain
    PROVE  DriverInv'
<1> USE DEF DriverInv, TypeOK, Points, OwnerWhere, PortWhere, NodeWhere, ConnectedIffOpen, Go,
        port, bytes, world, Locks
<1>1. CASE Stop
  BY <1>1 DEF Stop
<1>2. CASE CloseNode
  BY <1>2 DEF CloseNode
<1>3. CASE Unplug \/ Plug \/ StallOrDrain
  BY <1>3 DEF Unplug, Plug, StallOrDrain
<1>4. QED BY <1>1, <1>2, <1>3

\* The inductive invariant holds in every state of the driver.
THEOREM DriverInvariantHolds == Spec => []DriverInv
<1>1. DriverInv /\ UNCHANGED vars => DriverInv'
  BY DEF vars, DriverInv, TypeOK, OwnerWhere, PortWhere, NodeWhere, ConnectedIffOpen
<1>2. DriverInv /\ [Next]_vars => DriverInv'
  BY <1>1, ReaderKeeps, TxKeeps, EnvironmentKeeps DEF Next
<1>3. QED BY InitDriverInv, <1>2, PTL DEF Spec

\* Every thread stays at its points, and a frame is never written past its end
\* (serial_port.cpp:138-144).
THEOREM DriverTypes == Spec => []TypeOK
<1>1. DriverInv => TypeOK
  BY DEF DriverInv
<1>2. QED BY <1>1, DriverInvariantHolds, PTL

\* connected_, which on_tx and diagnostics trust, always tells whether the port is
\* open (ds10_node.cpp:113, 133, 157-158).
THEOREM ConnectedTellsOpen == Spec => []ConnectedIffOpen
<1>1. DriverInv => ConnectedIffOpen
  BY DEF DriverInv
<1>2. QED BY <1>1, DriverInvariantHolds, PTL

\* The reader never closes or reopens the port under a frame being written
\* (ds10_node.cpp:112-118 against 131-158).
THEOREM WritesKeepPort == Spec => []WriteKeepsPort
<1>1. DriverInv => WriteKeepsPort
  BY DEF DriverInv, OwnerWhere, PortWhere, NodeWhere, ConnectedIffOpen, WriteKeepsPort
<1>2. QED BY <1>1, DriverInvariantHolds, PTL

\* No frame is put together from bytes of two connections (ds10_node.cpp:134).
THEOREM NeverSpliced == Spec => []NoSplice
<1>1. DriverInv => NoSplice
  BY DEF DriverInv, PortWhere, NoSplice
<1>2. QED BY <1>1, DriverInvariantHolds, PTL
=============================================================================
