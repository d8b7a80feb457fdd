-------------------------------- MODULE RpcMgr --------------------------------
(***************************************************************************)
(* Requests between servers, src/deps/rpc_mgr/rpc_mgr.go: the table of     *)
(* calls in progress and everyone who takes a call out of it - the         *)
(* response, a failed send, the caller's own timeout, the sweep of expired *)
(* calls, and Stop.  Each takes the call under RpcMgr.mutex and runs its   *)
(* callbacks after the lock is released, so taking and running are two     *)
(* steps.                                                                  *)
(*                                                                         *)
(* A call is either blocking (SendRequestWithBlock, answered through a     *)
(* channel of one) or not (SendRequestWithHandler, answered by calling     *)
(* handler); both have a failed callback.  Time is a counter shared by     *)
(* client and server; nothing is punctual, time may pass between any two   *)
(* steps.  The network may refuse or lose a message but neither duplicates *)
(* nor alters it, and the server of the call is RpcMessageHandler on       *)
(* another machine.                                                        *)
(*                                                                         *)
(* MayRegisterUnchecked, TakenKept, ExpiredBlockingOnly and NeverTooLate   *)
(* are faulty variants of the definition that follows each of them; the    *)
(* specification does not use them (README, "Mutants").                    *)
(***************************************************************************)
EXTENDS Integers, FiniteSets

CONSTANTS
    Calls,        \* calls ever made, each with its own rpc id
    Blocking,     \* those made by SendRequestWithBlock
    ClientWait,   \* RPC_CLIENT_WAIT_TIMEOUT
    ServerWait,   \* RPC_SERVER_HANDLE_TIMEOUT
    MaxTime       \* bound: the last moment of the clock

(* The caller waits longer than the server will start to work (40s, 30s). *)
ASSUME RpcAssumption ==
    /\ Blocking \subseteq Calls
    /\ ClientWait \in Nat /\ ServerWait \in Nat /\ ServerWait < ClientWait
    /\ MaxTime \in Nat

VARIABLES
    now,
    stopped,      \* RpcMgr.stopped
    rpcm,         \* calls in the table
    caller,       \* what the goroutine that makes the call does
    sentAt,       \* time of the rpc id; expireAt is ClientWait later
    waitUntil,    \* when the caller's time.After fires
    taken,        \* who removed the call and has yet to run its callbacks
    handled,      \* runs of handler
    failed,       \* runs of failed
    channel,      \* contents of receiveCh
    result,       \* what SendRequestWithBlock returned
    request,      \* the request message
    response,     \* the response message
    stopPc,       \* progress of Stop
    sweeper       \* the goroutine of Start

clientVars == <<caller, sentAt, waitUntil>>
tableVars  == <<rpcm, taken>>
answerVars == <<handled, failed, channel, result>>
netVars    == <<request, response>>
mgrVars    == <<stopped, stopPc, sweeper>>
rpcVars    == <<now, clientVars, tableVars, answerVars, netVars, mgrVars>>

ExpireAt(c) == sentAt[c] + ClientWait

RpcInit ==
    /\ now = 0 /\ stopped = FALSE /\ rpcm = {}
    /\ caller = [c \in Calls |-> "idle"]
    /\ sentAt = [c \in Calls |-> 0] /\ waitUntil = [c \in Calls |-> 0]
    /\ taken = [c \in Calls |-> "no"]
    /\ handled = [c \in Calls |-> 0] /\ failed = [c \in Calls |-> 0]
    /\ channel = [c \in Calls |-> "empty"] /\ result = [c \in Calls |-> "none"]
    /\ request = [c \in Calls |-> "none"] /\ response = [c \in Calls |-> "none"]
    /\ stopPc = "running" /\ sweeper = "running"

(* Bound: no call starts, and none is held up before it starts to wait, so *)
(* late that its timeout would lie beyond the end of the clock.            *)
RoomToWait == now + ClientWait < MaxTime

Tick ==
    /\ now < MaxTime
    /\ RoomToWait \/ \A c \in Calls : caller[c] \notin {"admitted", "sending"}
    /\ now' = now + 1
    /\ UNCHANGED <<clientVars, tableVars, answerVars, netVars, mgrVars>>

----------------------------------------------------------------------------
(* Making a call.  stopped is looked at twice, before the rpc id is drawn  *)
(* and again under the lock; Stop sets it before it takes the lock.        *)

GiveUp(c) ==
    /\ caller' = [caller EXCEPT ![c] = "returned"]
    /\ result' = [result EXCEPT ![c] = "stopped"]

Begin(c) ==
    /\ caller[c] = "idle"
    /\ RoomToWait
    /\ IF stopped
       THEN GiveUp(c) /\ UNCHANGED sentAt
       ELSE /\ caller' = [caller EXCEPT ![c] = "admitted"]
            /\ sentAt' = [sentAt EXCEPT ![c] = now]
            /\ UNCHANGED result
    /\ UNCHANGED <<now, waitUntil, tableVars, handled, failed, channel, netVars, mgrVars>>

MayRegisterUnchecked == TRUE
MayRegister == ~stopped

Register(c) ==
    /\ caller[c] = "admitted"
    /\ IF MayRegister
       THEN /\ rpcm' = rpcm \union {c}
            /\ caller' = [caller EXCEPT ![c] = "sending"]
            /\ UNCHANGED result
       ELSE GiveUp(c) /\ UNCHANGED rpcm
    /\ UNCHANGED <<now, sentAt, waitUntil, taken, handled, failed, channel, netVars, mgrVars>>

(* The message goes to the network goroutine; a blocking caller waits. *)
Transmit(c) ==
    /\ caller[c] = "sending"
    /\ request' = [request EXCEPT ![c] = "queued"]
    /\ caller' = [caller EXCEPT ![c] = IF c \in Blocking THEN "waiting" ELSE "returned"]
    /\ waitUntil' = [waitUntil EXCEPT ![c] = now + ClientWait]
    /\ UNCHANGED <<now, sentAt, tableVars, answerVars, response, mgrVars>>

----------------------------------------------------------------------------
(* Taking calls out of the table (removeRpcCall and the like). *)

TakenKept(S) == rpcm
Without(S) == rpcm \ S

Take(S, who) ==
    /\ rpcm' = Without(S)
    /\ taken' = [c \in Calls |-> IF c \in S \intersect rpcm THEN who ELSE taken[c]]

Notify(c, answer) ==
    channel' = IF c \in Blocking /\ channel[c] = "empty"
               THEN [channel EXCEPT ![c] = answer] ELSE channel

(* failed() of a call that was taken for failing; sendFail and Stop then   *)
(* wake the caller up.                                                     *)
RunFailed(c) ==
    /\ taken[c] \in {"sendFail", "stop", "sweep", "timeout"}
    /\ failed' = [failed EXCEPT ![c] = @ + 1]
    /\ taken' = [taken EXCEPT ![c] = "done"]
    /\ IF taken[c] \in {"sendFail", "stop"}
       THEN Notify(c, "sendFailed") ELSE UNCHANGED channel
    /\ UNCHANGED <<now, clientVars, rpcm, handled, result, netVars, mgrVars>>

(* The two cases of the select of SendRequestWithBlock. *)
Receive(c) ==
    /\ caller[c] = "waiting"
    /\ channel[c] # "empty"
    /\ result' = [result EXCEPT ![c] = channel[c]]
    /\ channel' = [channel EXCEPT ![c] = "empty"]
    /\ caller' = [caller EXCEPT ![c] = "returned"]
    /\ UNCHANGED <<now, sentAt, waitUntil, tableVars, handled, failed, netVars, mgrVars>>

WaitTimeout(c) ==
    /\ caller[c] = "waiting"
    /\ now >= waitUntil[c]
    /\ Take({c}, "timeout")
    /\ caller' = [caller EXCEPT ![c] = "timedOut"]
    /\ UNCHANGED <<now, sentAt, waitUntil, answerVars, netVars, mgrVars>>

ReturnTimeout(c) ==
    /\ caller[c] = "timedOut"
    /\ taken[c] # "timeout"
    /\ result' = [result EXCEPT ![c] = "timeout"]
    /\ caller' = [caller EXCEPT ![c] = "returned"]
    /\ UNCHANGED <<now, sentAt, waitUntil, tableVars, handled, failed, channel, netVars, mgrVars>>

(* RpcResponseHandler.  A response that comes late but before the sweep is *)
(* dropped without a word: neither handler nor failed is called.           *)
ResponseTake(c) ==
    /\ response[c] \in {"ok", "error"} /\ taken[c] # "response"
    /\ Take({c}, "response")
    /\ response' = IF c \in rpcm THEN response ELSE [response EXCEPT ![c] = "gone"]
    /\ UNCHANGED <<now, clientVars, answerVars, request, mgrVars>>

ResponseRun(c) ==
    /\ taken[c] = "response"
    /\ taken' = [taken EXCEPT ![c] = "done"]
    /\ response' = [response EXCEPT ![c] = "gone"]
    /\ IF ExpireAt(c) < now THEN UNCHANGED <<handled, channel>>
       ELSE IF c \in Blocking THEN Notify(c, response[c]) /\ UNCHANGED handled
       ELSE handled' = [handled EXCEPT ![c] = @ + 1] /\ UNCHANGED channel
    /\ UNCHANGED <<now, clientVars, rpcm, failed, result, request, mgrVars>>

(* The goroutine of Start, at a tick of its ticker. *)
ExpiredBlockingOnly == {c \in rpcm \intersect Blocking : ExpireAt(c) < now}
Expired == {c \in rpcm : ExpireAt(c) < now}

Sweep ==
    /\ sweeper = "running"
    /\ \A c \in Calls : taken[c] # "sweep"
    /\ Expired # {}
    /\ Take(Expired, "sweep")
    /\ UNCHANGED <<now, clientVars, answerVars, netVars, mgrVars>>

SweeperExit ==
    /\ sweeper = "running" /\ stopPc = "waiting"
    /\ \A c \in Calls : taken[c] # "sweep"
    /\ sweeper' = "exited"
    /\ UNCHANGED <<now, clientVars, tableVars, answerVars, netVars, stopped, stopPc>>

----------------------------------------------------------------------------
(* Stop: close the door, take everything, fail it, end the sweeper. *)

StopSwap ==
    /\ stopPc = "running"
    /\ stopped' = TRUE /\ stopPc' = "swapped"
    /\ UNCHANGED <<now, clientVars, tableVars, answerVars, netVars, sweeper>>

StopTake ==
    /\ stopPc = "swapped"
    /\ Take(rpcm, "stop")
    /\ stopPc' = "failing"
    /\ UNCHANGED <<now, clientVars, answerVars, netVars, stopped, sweeper>>

StopCancel ==
    /\ stopPc = "failing"
    /\ \A c \in Calls : taken[c] # "stop"
    /\ stopPc' = "waiting"
    /\ UNCHANGED <<now, clientVars, tableVars, answerVars, netVars, stopped, sweeper>>

SweeperEnded == sweeper = "exited"

StopReturn ==
    /\ stopPc = "waiting"
    /\ SweeperEnded
    /\ stopPc' = "returned"
    /\ UNCHANGED <<now, clientVars, tableVars, answerVars, netVars, stopped, sweeper>>

----------------------------------------------------------------------------
(* The network and the server. *)

NetSend(c) ==
    /\ request[c] = "queued"
    /\ request' = [request EXCEPT ![c] = "inflight"]
    /\ UNCHANGED <<now, clientVars, tableVars, answerVars, response, mgrVars>>

(* No connection, a full queue: sendFail. *)
NetFail(c) ==
    /\ request[c] = "queued"
    /\ request' = [request EXCEPT ![c] = "refused"]
    /\ Take({c}, "sendFail")
    /\ UNCHANGED <<now, clientVars, answerVars, response, mgrVars>>

Lose(c) ==
    /\ \/ request[c] \in {"inflight", "running"}
          /\ request' = [request EXCEPT ![c] = "lost"] /\ UNCHANGED response
       \/ response[c] \in {"ok", "error"} /\ taken[c] # "response"
          /\ response' = [response EXCEPT ![c] = "gone"] /\ UNCHANGED request
    /\ UNCHANGED <<now, clientVars, tableVars, answerVars, mgrVars>>

Answer(c, answer) ==
    /\ request' = [request EXCEPT ![c] = "answered"]
    /\ response' = [response EXCEPT ![c] = answer]

NeverTooLate(c) == FALSE
TooLate(c) == sentAt[c] + ServerWait < now

(* RpcMessageHandler for a request: refused when it is too old or has no   *)
(* handler, else fn runs and its result, or the lack of one, is answered.  *)
ServeRefuse(c) ==
    /\ request[c] = "inflight"
    /\ Answer(c, "error")
    /\ UNCHANGED <<now, clientVars, tableVars, answerVars, mgrVars>>

ServeStart(c) ==
    /\ request[c] = "inflight"
    /\ ~TooLate(c)
    /\ request' = [request EXCEPT ![c] = "running"]
    /\ UNCHANGED <<now, clientVars, tableVars, answerVars, response, mgrVars>>

ServeEnd(c) ==
    /\ request[c] = "running"
    /\ \E answer \in {"ok", "error"} : Answer(c, answer)
    /\ UNCHANGED <<now, clientVars, tableVars, answerVars, mgrVars>>

----------------------------------------------------------------------------
CallerStep(c) ==
    Register(c) \/ Transmit(c) \/ Receive(c) \/ WaitTimeout(c) \/ ReturnTimeout(c)

NetStep(c) ==
    NetSend(c) \/ NetFail(c) \/ Lose(c) \/ ServeRefuse(c) \/ ServeStart(c) \/ ServeEnd(c)

SweeperStep == Sweep \/ SweeperExit
StopStep == StopTake \/ StopCancel \/ StopReturn

RpcNext ==
    \/ Tick \/ SweeperStep \/ StopSwap \/ StopStep
    \/ \E c \in Calls :
           \/ Begin(c) \/ CallerStep(c) \/ NetStep(c)
           \/ RunFailed(c) \/ ResponseTake(c) \/ ResponseRun(c)

(* Time passes, every goroutine of the client is scheduled and callbacks   *)
(* return.  Nothing is asked of the network or the server, and nobody has  *)
(* to make a call or to stop the manager.                                  *)
RpcFairness ==
    /\ WF_rpcVars(Tick) /\ WF_rpcVars(SweeperStep) /\ WF_rpcVars(StopStep)
    /\ \A c \in Calls :
           /\ WF_rpcVars(CallerStep(c))
           /\ WF_rpcVars(RunFailed(c)) /\ WF_rpcVars(ResponseRun(c))

RpcSpec == RpcInit /\ [][RpcNext]_rpcVars /\ RpcFairness

----------------------------------------------------------------------------
(* Properties. *)

RpcTypes ==
    /\ now \in Nat /\ stopped \in BOOLEAN /\ rpcm \subseteq Calls
    /\ caller \in [Calls -> {"idle", "admitted", "sending", "waiting", "timedOut", "returned"}]
    /\ sentAt \in [Calls -> Nat] /\ waitUntil \in [Calls -> Nat]
    /\ taken \in [Calls -> {"no", "response", "sendFail", "stop", "sweep", "timeout", "done"}]
    /\ handled \in [Calls -> Nat] /\ failed \in [Calls -> Nat]
    /\ channel \in [Calls -> {"empty", "ok", "error", "sendFailed"}]
    /\ result \in [Calls -> {"none", "ok", "error", "sendFailed", "timeout", "stopped"}]
    /\ request \in [Calls -> {"none", "queued", "inflight", "refused", "running",
                              "answered", "lost"}]
    /\ response \in [Calls -> {"none", "ok", "error", "gone"}]
    /\ stopPc \in {"running", "swapped", "failing", "waiting", "returned"}
    /\ sweeper \in {"running", "exited"}

(* Every variable has its type, and a call in the table has not been taken *)
(* by anyone (map and lock of RpcMgr).                                     *)
RpcTypeOK == RpcTypes /\ \A c \in rpcm : taken[c] = "no"

(* A call has at most one verdict: handler and failed are called at most   *)
(* once between them, and a blocking caller whose failed was called does   *)
(* not get an answer as well - however response, failed send, timeout,     *)
(* sweep and Stop race for it (removeRpcCall).                             *)
OneVerdict ==
    \A c \in Calls :
        /\ handled[c] + failed[c] <= 1
        /\ failed[c] > 0 => "ok" \notin {channel[c], result[c]}

(* Stop leaves nothing behind: once it has returned the table is empty for *)
(* good, no callback of the sweep or of Stop is still to run, and the      *)
(* sweeper has ended (second check of stopped, wg.Wait).                   *)
StopIsFinal ==
    stopPc = "returned" =>
        /\ rpcm = {} /\ sweeper = "exited"
        /\ \A c \in Calls : taken[c] \notin {"sweep", "stop"}

(* The server does not start on a request whose caller has already given   *)
(* up waiting: it refuses what is older than its own, shorter timeout.     *)
NoStartAfterTimeout ==
    [][\A c \in Calls : result[c] = "timeout" =>
           ~(request[c] # "running" /\ request'[c] = "running")]_rpcVars

(* Whatever the network and the server do, a call that is registered is    *)
(* taken from the table once and for all, whoever took it is done with it, *)
(* and a blocking caller returns.  It is not said that a callback has run: *)
(* a response that is late but comes before the sweep takes the call and   *)
(* runs neither (ResponseRun), so a caller that does not block may never   *)
(* hear of its call.                                                       *)
EveryCallEnds ==
    \A c \in Calls : caller[c] = "sending" ~>
        caller[c] = "returned" /\ taken[c] = "done"
==============================================================================
