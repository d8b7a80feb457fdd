---------------------------- MODULE ServerKernel ----------------------------
(***************************************************************************)
(* A server's goroutines around its pools (deps/server/service.go and      *)
(* src/msghandler/server_handler.go): the readers of the connections to    *)
(* other servers post requests, responses and s2s messages to a pool each, *)
(* tasks may block in a call to another server until its response has been *)
(* handled by the pool of responses or until it times out, and stop ends   *)
(* the pools one after the other, the connections last.                    *)
(*                                                                         *)
(* The table of calls is RpcMgr's; here a call only waits, is answered or  *)
(* times out.                                                              *)
(***************************************************************************)
EXTENDS AsyncPool

CONSTANTS Calls,      \* blocking calls, each made at most once
          MaxPosts    \* bound: tasks accepted by each pool and key

ASSUME KernelParameters ==
    /\ Pools = {"req", "resp", "main"}
    /\ Calls \subseteq Payloads

VARIABLES readers,    \* the connections to other servers are read
          stopPc,     \* how far stop is
          call,       \* "none", "waiting", "answered" or "expired"
          caller,     \* the worker that made the call
          responded   \* calls whose response has arrived

kernelOther == <<readers, stopPc, call, caller, responded>>
kernelVars == <<poolVars, kernelOther>>

Init ==
    /\ PoolInit
    /\ readers = TRUE /\ stopPc = "up"
    /\ call = [c \in Calls |-> "none"]
    /\ caller = [c \in Calls |-> CHOOSE w \in Workers : TRUE]
    /\ responded = {}

Room(p, k) == accepted[<<p, k>>] < MaxPosts[p][k]

-----------------------------------------------------------------------------
(* OnProcessMsg: a request goes to its pool, an s2s message to that of the  *)
(* server; a request that finds its channel full is answered with an error. *)
ReadMessage(p, k) ==
    /\ readers /\ p \in {"req", "main"} /\ Room(p, k)
    /\ PostFixedOrRand(p, k, Nothing)
    /\ UNCHANGED kernelOther

Waits(w) == \E c \in Calls : call[c] = "waiting" /\ caller[c] = w

(* A task calls another server and blocks.                                  *)
MakeCall(w, c) ==
    /\ call[c] = "none" /\ w[1] # "resp" /\ ~Idle(w) /\ ~Waits(w)
    /\ call' = [call EXCEPT ![c] = "waiting"]
    /\ caller' = [caller EXCEPT ![c] = w]
    /\ UNCHANGED <<poolVars, readers, stopPc, responded>>

Answered(c) == IF call[c] = "waiting" THEN [call EXCEPT ![c] = "answered"] ELSE call

(* A response goes to its pool with the key of its request; when the        *)
(* channel is full a goroutine handles it at once.                          *)
ReadResponse(c, k) ==
    /\ readers /\ call[c] # "none" /\ c \notin responded /\ Room("resp", k)
    /\ responded' = responded \cup {c}
    /\ PostFixedOrRand("resp", k, c)
    /\ call' = IF Fits(Target("resp", k)) THEN call ELSE Answered(c)
    /\ UNCHANGED <<readers, stopPc, caller>>

(* A task ends when it waits for no call; one of the pool of responses      *)
(* wakes the caller.                                                        *)
Finish(w) ==
    /\ ~Waits(w) /\ FinishTask(w)
    /\ LET c == current[w].carries
       IN  call' = IF c \in Calls THEN Answered(c) ELSE call
    /\ UNCHANGED <<readers, stopPc, caller, responded>>

Expire(c) ==
    /\ call[c] = "waiting"
    /\ call' = [call EXCEPT ![c] = "expired"]
    /\ UNCHANGED <<poolVars, readers, stopPc, caller, responded>>

WorkerStep(w) ==
    \/ Finish(w)
    \/ (WorkerTake(w) \/ DrainTake(w) \/ SeeQuit(w) \/ WorkerEnds(w)) /\ UNCHANGED kernelOther

-----------------------------------------------------------------------------
(* stop: OnStop ends the pool of requests and then that of responses, the   *)
(* server's own pool follows, and NetMgr.Stop comes last.  BeforeStop,      *)
(* TimerMgr and StopFront come before it.                                   *)
StopOrderResponsesFirst == <<"resp", "req", "main">>
StopOrder == <<"req", "resp", "main">>
StopAt(i) == IF i <= Len(StopOrder) THEN StopOrder[i] ELSE "net"
StopPcs == {"up", "req", "resp", "main", "net", "down"}
PcAfter(pc) == StopAt(CHOOSE j \in 2..4 : StopOrder[j - 1] = pc)

Stop ==
    /\ stopPc = "up" /\ stopPc' = StopAt(1)
    /\ UNCHANGED <<poolVars, readers, call, caller, responded>>

StopPool(p) ==
    /\ stopPc = p
    /\ \/ CloseQuit(p) /\ UNCHANGED stopPc
       \/ StopReturns(p) /\ stopPc' = PcAfter(p)
    /\ UNCHANGED <<readers, call, caller, responded>>

NetStop ==
    /\ stopPc = "net" /\ stopPc' = "down" /\ readers' = FALSE
    /\ UNCHANGED <<poolVars, call, caller, responded>>

StopStep == (\E p \in Pools : StopPool(p)) \/ NetStop

Readers ==
    \E k \in AllKeys : \/ \E p \in Pools : ReadMessage(p, k)
                       \/ \E c \in Calls : ReadResponse(c, k)

Next ==
    \/ Readers
    \/ \E w \in Workers : WorkerStep(w) \/ \E c \in Calls : MakeCall(w, c)
    \/ \E c \in Calls : Expire(c)
    \/ Stop \/ StopStep

(* Every goroutine gets its turn and every call ends by its timeout.  That  *)
(* select does not pick the channel for ever is not needed here: the posts  *)
(* are bounded.                                                             *)
Fairness ==
    /\ WF_kernelVars(StopStep)
    /\ \A w \in Workers : WF_kernelVars(WorkerStep(w))
    /\ \A c \in Calls : WF_kernelVars(Expire(c))

Spec == Init /\ [][Next]_kernelVars /\ Fairness

-----------------------------------------------------------------------------
(* Requests that are being handled when the server stops still get the      *)
(* responses that arrive for them: none is left in a channel whose worker   *)
(* has ended.  The pool of responses must outlive that of requests.         *)
ResponsesHandled ==
    \A w \in Workers : worker[w] = "ended" =>
        \A i \in DOMAIN ch[w] :
            LET c == ch[w][i].carries
            IN  c \in Calls => ~(call[c] = "waiting" /\ caller[c][1] = "req")

(* stop ends, whatever is posted meanwhile and whoever is still blocked.    *)
ServerStops == stopPc # "up" ~> stopPc = "down"
=============================================================================
