----------------------------- MODULE BattleDeltas -----------------------------
(***************************************************************************)
(* What a receiver can rebuild from a snapshot and the deltas flushed      *)
(* afterwards (Room.Snapshot, Room.FlushDeltas, the append*Delta calls of  *)
(* every operation and the adapter in sync/proto_adapter.go).  mirror is   *)
(* the state of a receiver that took a snapshot of the new room and then   *)
(* applied every flushed batch in order.                                   *)
(***************************************************************************)
EXTENDS BattleRoom

VARIABLE mirror

deltaSpecVars == <<roomVars, mirror>>

DeltaInit == Init /\ mirror = SnapshotView

Flush == FlushDeltas /\ mirror' = ApplyDeltas(mirror, deltas)

RoomStep ==
    /\ AdvanceTick \/ Start \/ Abort \/ MarkSettled \/ PlayerOp
    /\ UNCHANGED mirror

DeltaNext == Flush \/ RoomStep

(* The room's ticker runs until the room is closed.                         *)
DeltaSpec == DeltaInit /\ [][DeltaNext]_deltaSpecVars
                 /\ WF_deltaSpecVars(AdvanceTick /\ UNCHANGED mirror)

----------------------------------------------------------------------------
(* Snapshot plus deltas is the authoritative state: whatever was flushed   *)
(* when, the pending deltas complete the receiver's mirror to exactly the  *)
(* players, miners, towers and monsters of the room.  An operation or a    *)
(* tick that changed one of them without appending its delta would leave   *)
(* every client wrong for good (comment of broadcastRoomDelta).            *)
MirrorComplete == ApplyDeltas(mirror, deltas) = SnapshotView

(* A receiver that takes its snapshot while deltas are pending, as a join  *)
(* does, is not set back by the batch that follows: the batch holds only   *)
(* current values.                                                         *)
PendingIsCurrent == ApplyDeltas(SnapshotView, deltas) = SnapshotView
==============================================================================
