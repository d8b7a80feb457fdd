----------------------------- MODULE BattleService -----------------------------
(***************************************************************************)
(* One battle room inside the battle service                               *)
(* (src/src/service/battle/battleapp): the client handlers of join and op, *)
(* the room's tick goroutine, the settlement goroutine it starts, and the  *)
(* connections the deltas are sent on.  All of them share battleRoom and   *)
(* take battleRoom.mu separately for each access, so each access is one    *)
(* step here and everything between two of them may interleave.            *)
(*                                                                         *)
(* The room itself is BattleRoom's: the actions of the room are conjoined  *)
(* with the step that calls them.                                          *)
(*                                                                         *)
(* A session is one client connection of one player; the dispatcher runs   *)
(* one request of a session at a time, requests of different sessions      *)
(* concurrently, and sends the response the handler returns.  A connection *)
(* is FIFO, so sending and receiving are one step: view[s] is what the     *)
(* client at s has after the messages sent to it so far.                   *)
(*                                                                         *)
(* Any message to a client may be lost: NetMgr drops it when its task      *)
(* channel or the connection's write channel is full or the session is     *)
(* gone, tells nobody and sends nothing again.  What a client has is then  *)
(* no longer the room, and stays so until it joins again; its view is      *)
(* NoView, as before its first join.                                       *)
(*                                                                         *)
(* AddresseesWithSnapshot, SettleDueWithoutLoop and RetrySend are faulty   *)
(* variants of the definition that follows each of them; the specification *)
(* does not use them (README, "Mutants").                                  *)
(***************************************************************************)
EXTENDS BattleRoom

CONSTANTS
    Sessions,       \* client connections
    PlayerOf,       \* [Sessions -> Players]
    MaxRequests     \* bound: requests a session makes

TickLoop     == "tickLoop"
Broadcasters == Sessions \union {TickLoop}

ASSUME SessionAssumption ==
    PlayerOf \in [Sessions -> Players] /\ MaxRequests \in Nat /\ TickLoop \notin Sessions

VARIABLES
    joinedSess,     \* partial function, player -> session
    pc,             \* next step of each session's handler and of the tick loop
    requests,       \* [Sessions -> requests started so far]
    reply,          \* [Sessions -> snapshot a join is about to return]
    view,           \* [Sessions -> what the client knows, or NoView if it knows
                    \* nothing or has lost a message since its snapshot]
    loop,           \* room.loop # nil
    sawClosed,      \* snapshot.State of the tick just made was CLOSED
    stopRequested,  \* loop.stopCh closed
    settleOnce,     \* loop.settleOnce has run
    settlePc,       \* next step of the settlement goroutine, "none" before it starts
    settlement,     \* lastSettlement, or NoSettlement
    reports,        \* settlements handed to the sender, oldest first
    settleAck,      \* "none", "accepted", "rejected" or "failed"
    batch,          \* [Broadcasters -> batch flushed and not yet sent]
    targets,        \* [Broadcasters -> sessions the batch goes to]
    overtaken,      \* history: a batch is addressed or sent after a later one,
                    \* or on a session that has come back meanwhile
    flushes         \* number of non-empty flushes so far, names the batches

handlerVars == <<joinedSess, requests, reply>>
clientVars  == <<view>>
loopVars    == <<loop, sawClosed, stopRequested, settleOnce>>
settleVars  == <<settlePc, settlement, reports, settleAck>>
castVars    == <<batch, targets, overtaken, flushes>>
serviceVars == <<roomVars, pc, handlerVars, clientVars, loopVars, settleVars, castVars>>

NoView       == [known |-> FALSE]
NoSettlement == [reason |-> "NONE"]
NoBatch      == [number |-> 0, deltas |-> NoDeltas]

Goto(b, label) == pc' = [pc EXCEPT ![b] = label]
Bound(s) == PlayerOf[s] \in DOMAIN joinedSess /\ joinedSess[PlayerOf[s]] = s

(* rpcCreateBattleRoom: createRoom, then startRoomLoop. *)
ServiceInit ==
    /\ Init
    /\ joinedSess = EmptyFcn
    /\ pc = [b \in Broadcasters |-> IF b = TickLoop THEN "select" ELSE "idle"]
    /\ requests = [s \in Sessions |-> 0]
    /\ reply = [s \in Sessions |-> NoView]
    /\ view = [s \in Sessions |-> NoView]
    /\ loop = TRUE /\ sawClosed = FALSE
    /\ stopRequested = FALSE /\ settleOnce = FALSE
    /\ settlePc = "none" /\ settlement = NoSettlement
    /\ reports = <<>> /\ settleAck = "none"
    /\ batch = [b \in Broadcasters |-> NoBatch]
    /\ targets = [b \in Broadcasters |-> {}]
    /\ flushes = 0 /\ overtaken = FALSE

----------------------------------------------------------------------------
(* reqBattleJoin: bind the session, take a snapshot, return it.  A request *)
(* that fails verifyBattleToken changes nothing and is not modelled.       *)

StartRequest(s) ==
    /\ pc[s] = "idle"
    /\ requests[s] < MaxRequests
    /\ requests' = [requests EXCEPT ![s] = @ + 1]

(* A session whose player another one had taken over joins again, with a   *)
(* batch for it still under way that is older than its snapshot will be.   *)
Returns(s) == ~Bound(s) /\ \E b \in Broadcasters : s \in targets[b]

JoinBind(s) ==
    /\ StartRequest(s)
    /\ overtaken' = (overtaken \/ Returns(s))
    /\ joinedSess' = Put(joinedSess, PlayerOf[s], s)
    /\ Goto(s, "snapshot")
    /\ UNCHANGED <<roomVars, reply, clientVars, loopVars, settleVars, batch, targets, flushes>>

JoinSnapshot(s) ==
    /\ pc[s] = "snapshot"
    /\ reply' = [reply EXCEPT ![s] = SnapshotView]
    /\ Goto(s, "joinReply")
    /\ UNCHANGED <<roomVars, joinedSess, requests, clientVars, loopVars, settleVars, castVars>>

JoinReply(s) ==
    /\ pc[s] = "joinReply"
    /\ \E received \in {reply[s], NoView} : view' = [view EXCEPT ![s] = received]
    /\ reply' = [reply EXCEPT ![s] = NoView]
    /\ Goto(s, "idle")
    /\ UNCHANGED <<roomVars, joinedSess, requests, loopVars, settleVars, castVars>>

----------------------------------------------------------------------------
(* reqBattleOp and applyBattleOp: match the session, look at the room's    *)
(* state, and only then take the lock again to apply the operation.  The   *)
(* locked read of the server tick for the response changes nothing and is  *)
(* left out.                                                               *)

OpMatch(s) ==
    /\ StartRequest(s)
    /\ Bound(s)
    /\ Goto(s, "checkState")
    /\ UNCHANGED <<roomVars, joinedSess, reply, clientVars, loopVars, settleVars, castVars>>

OpCheckState(s) ==
    /\ pc[s] = "checkState"
    /\ Goto(s, IF state = "CLOSED" THEN "idle" ELSE "apply")
    /\ UNCHANGED <<roomVars, handlerVars, clientVars, loopVars, settleVars, castVars>>

OpApply(s) ==
    /\ pc[s] = "apply"
    /\ OpOf(PlayerOf[s])
    /\ Goto(s, "flush")
    /\ UNCHANGED <<handlerVars, clientVars, loopVars, settleVars, castVars>>

(* The room refuses the operation, or its type is not supported. *)
OpRefused(s) ==
    /\ pc[s] = "apply"
    /\ Goto(s, "idle")
    /\ UNCHANGED <<roomVars, handlerVars, clientVars, loopVars, settleVars, castVars>>

(* The handler returns its response, after the broadcast. *)
OpReply(s) ==
    /\ pc[s] = "sent"
    /\ Goto(s, "idle")
    /\ UNCHANGED <<roomVars, handlerVars, clientVars, loopVars, settleVars, castVars>>

----------------------------------------------------------------------------
(* broadcastRoomDelta, called by a handler and by the tick loop: flush     *)
(* under the lock, snapshot the joined sessions under the lock, send       *)
(* without it, with no failFunc.  Sessions are independent, so the sends   *)
(* are one step, of which any may fail.  A client that gets a batch while  *)
(* the reply to its join is on the way keeps it and applies it to the      *)
(* snapshot when that arrives.                                             *)

CastFlush(b) ==
    /\ pc[b] = "flush"
    /\ FlushDeltas
    /\ IF deltas = NoDeltas
       THEN Goto(b, "sent") /\ UNCHANGED <<batch, flushes>>
       ELSE /\ flushes' = flushes + 1
            /\ batch' = [batch EXCEPT ![b] = [number |-> flushes + 1, deltas |-> deltas]]
            /\ Goto(b, "address")
    /\ UNCHANGED <<handlerVars, view, loopVars, settleVars, targets, overtaken>>

AddresseesWithSnapshot == {joinedSess[p] : p \in {q \in DOMAIN joinedSess : view[joinedSess[q]] # NoView}}
Addressees == {joinedSess[p] : p \in DOMAIN joinedSess}

Earlier(c, b) == batch[c] # NoBatch /\ batch[c].number < batch[b].number

CastAddress(b) ==
    /\ pc[b] = "address"
    /\ overtaken' = (overtaken \/ \E c \in Broadcasters : Earlier(c, b) /\ pc[c] = "address")
    /\ targets' = [targets EXCEPT ![b] = Addressees]
    /\ Goto(b, "send")
    /\ UNCHANGED <<roomVars, handlerVars, clientVars, loopVars, settleVars, batch, flushes>>

Received(views, b, lost) ==
    [s \in Sessions |-> IF s \in lost THEN NoView
                       ELSE IF s \in targets[b] /\ views[s] # NoView
                       THEN ApplyDeltas(views[s], batch[b].deltas)
                       ELSE views[s]]

CastSend(b) ==
    /\ pc[b] = "send"
    /\ overtaken' = (overtaken \/ \E c \in Broadcasters : Earlier(c, b))
    /\ \E lost \in SUBSET targets[b] :
           view' = Received(view, b, lost) /\ reply' = Received(reply, b, lost)
    /\ batch' = [batch EXCEPT ![b] = NoBatch]
    /\ targets' = [targets EXCEPT ![b] = {}]
    /\ Goto(b, "sent")
    /\ UNCHANGED <<roomVars, joinedSess, requests, loopVars, settleVars, flushes>>

----------------------------------------------------------------------------
(* The goroutine of startRoomLoop.  A closed room is ticked in vain until  *)
(* the settlement goroutine stops the loop.                                *)

RunRoomTick ==
    /\ pc[TickLoop] = "select"
    /\ AdvanceTick \/ (state = "CLOSED" /\ UNCHANGED roomVars)
    /\ sawClosed' = (state' = "CLOSED")
    /\ Goto(TickLoop, "flush")
    /\ UNCHANGED <<handlerVars, clientVars, loop, stopRequested, settleOnce, settleVars, castVars>>

LoopExit ==
    /\ pc[TickLoop] = "select"
    /\ stopRequested
    /\ Goto(TickLoop, "exited")
    /\ UNCHANGED <<roomVars, handlerVars, clientVars, loopVars, settleVars, castVars>>

(* finishBattleRoom is called only if the tick's snapshot was CLOSED; it *)
(* starts the settlement goroutine once.                                 *)
SettleDueWithoutLoop == sawClosed /\ ~loop /\ ~settleOnce
SettleDue == sawClosed /\ loop /\ ~settleOnce

FinishBattleRoom ==
    /\ pc[TickLoop] = "sent"
    /\ Goto(TickLoop, "select")
    /\ IF SettleDue
       THEN settleOnce' = TRUE /\ settlePc' = "mark"
       ELSE UNCHANGED <<settleOnce, settlePc>>
    /\ UNCHANGED <<roomVars, handlerVars, clientVars, loop, sawClosed, stopRequested,
                   settlement, reports, settleAck, castVars>>

----------------------------------------------------------------------------
(* The settlement goroutine. *)

SettleMark ==
    /\ settlePc = "mark"
    /\ \/ settled /\ settlePc' = "stop" /\ UNCHANGED roomVars
       \/ MarkSettled /\ settlePc' = "build"
    /\ UNCHANGED <<pc, handlerVars, clientVars, loopVars, settlement, reports, settleAck, castVars>>

SettleBuild ==
    /\ settlePc = "build"
    /\ settlement' = [reason |-> finishReason, startTick |-> startTick,
                      endTick |-> endTick, players |-> players]
    /\ settlePc' = "send"
    /\ UNCHANGED <<roomVars, pc, handlerVars, clientVars, loopVars, reports, settleAck, castVars>>

(* One blocking call: no logic server, a lost call or a timeout is an      *)
(* error; there is no retry.                                               *)
RetrySend(ack) == IF ack = "failed" THEN "send" ELSE "stop"
AfterSend(ack) == "stop"

SettleSend ==
    /\ settlePc = "send"
    /\ reports' = Append(reports, settlement)
    /\ \E ack \in {"accepted", "rejected", "failed"} :
           settleAck' = ack /\ settlePc' = AfterSend(ack)
    /\ UNCHANGED <<roomVars, pc, handlerVars, clientVars, loopVars, settlement, castVars>>

AfterStop == IF loop THEN "wait" ELSE "done"

StopRoomLoop ==
    /\ settlePc = "stop"
    /\ loop' = FALSE
    /\ settlePc' = AfterStop
    /\ stopRequested' = (stopRequested \/ loop)
    /\ UNCHANGED <<roomVars, pc, handlerVars, clientVars, sawClosed, settleOnce,
                   settlement, reports, settleAck, castVars>>

AwaitLoop ==
    /\ settlePc = "wait"
    /\ pc[TickLoop] = "exited"
    /\ settlePc' = "done"
    /\ UNCHANGED <<roomVars, pc, handlerVars, clientVars, loopVars,
                   settlement, reports, settleAck, castVars>>

----------------------------------------------------------------------------
Broadcast(b) == CastFlush(b) \/ CastAddress(b) \/ CastSend(b)

(* What a started handler still has to do. *)
HandlerStep(s) ==
    \/ JoinSnapshot(s) \/ JoinReply(s)
    \/ OpCheckState(s) \/ OpApply(s) \/ OpRefused(s) \/ OpReply(s)
    \/ Broadcast(s)

LoopStep == RunRoomTick \/ LoopExit \/ FinishBattleRoom \/ Broadcast(TickLoop)

SettleStep == SettleMark \/ SettleBuild \/ SettleSend \/ StopRoomLoop \/ AwaitLoop

ServiceNext ==
    \/ \E s \in Sessions : JoinBind(s) \/ OpMatch(s) \/ HandlerStep(s)
    \/ LoopStep
    \/ SettleStep

(* Goroutines are scheduled, locks are handed on, and the blocking call    *)
(* returns (it has a timeout).  select picks among its ready cases at      *)
(* random, so a stop request is not passed over for ever.                  *)
ServiceFairness ==
    /\ WF_serviceVars(LoopStep)
    /\ SF_serviceVars(LoopExit)
    /\ WF_serviceVars(SettleStep)
    /\ \A s \in Sessions : WF_serviceVars(HandlerStep(s))

ServiceSpec == ServiceInit /\ [][ServiceNext]_serviceVars /\ ServiceFairness

----------------------------------------------------------------------------
(* Properties. *)


(* The settlement that is sent says what the room says, and it is sent at  *)
(* most once (settleOnce, MarkSettled): the service implements             *)
(* BattleSettlement, and the one report is eventually made.                *)
Verdict == IF finishReason = "NONE" THEN <<>> ELSE <<finishReason, startTick, endTick>>
Settlements ==
    INSTANCE BattleSettlement
    WITH Outcomes <- {"WIN", "LOSE", "TIMEOUT"} \X {0} \X (1 .. Timeout),
         Undecided <- <<>>,
         outcome <- Verdict,
         reports <- [i \in DOMAIN reports |->
                        <<reports[i].reason, reports[i].startTick, reports[i].endTick>>]
ReportsOneOutcome == Settlements!OutcomeSpec

(* Every battle is settled and its goroutines end, whatever the clients do *)
(* and whether or not the call to logic succeeds.                          *)
BattleEnds == <>[](settlePc = "done" /\ settleAck # "none")

(* broadcastRoomDelta's comment: snapshot and deltas together give the      *)
(* client the state.  Joins, operations and ticks flush, address and send   *)
(* in every order, yet when nothing is under way and nothing is pending     *)
(* every client that lost no message since the snapshot of its join sees    *)
(* the room, unless a batch was addressed or sent after a later one, or to  *)
(* a client that left its player to another one and is back, which the      *)
(* sends outside the lock allow.                                            *)
Quiet ==
    /\ \A s \in Sessions : pc[s] = "idle"
    /\ pc[TickLoop] \in {"select", "exited"}
    /\ deltas = NoDeltas
ClientsConverge ==
    Quiet /\ ~overtaken => \A s \in Sessions :
                 Bound(s) /\ view[s] # NoView => view[s] = SnapshotView
==============================================================================
