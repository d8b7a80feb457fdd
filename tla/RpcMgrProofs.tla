----------------------------- MODULE RpcMgrProofs -----------------------------
(***************************************************************************)
(* Proofs about RpcMgr for any set of calls, any timeouts with             *)
(* ServerWait < ClientWait, and any clock.                                 *)
(*                                                                         *)
(* The argument is exclusiveness: a call is in the table or taken, and the *)
(* one who took it is the only one to run its callbacks.  RpcInv says so   *)
(* (TableInv, VerdictInv), adds what each stage of Stop has already        *)
(* achieved (StopInv) and what a caller that timed out knows of the clock  *)
(* (TimeInv).                                                              *)
(***************************************************************************)
EXTENDS RpcMgr, TLAPS

(* A call in the table is nobody's yet; before it is registered nobody     *)
(* knows of it; a response being handled is a response.                    *)
TableInv ==
    /\ \A c \in rpcm : taken[c] = "no"
    /\ \A c \in Calls : caller[c] \in {"idle", "admitted"} =>
           c \notin rpcm /\ taken[c] = "no"
    /\ \A c \in Calls : taken[c] = "response" => response[c] \in {"ok", "error"}

(* Until its callbacks have run a call has no verdict at all. *)
VerdictInv ==
    /\ \A c \in Calls : taken[c] # "done" =>
           /\ handled[c] = 0 /\ failed[c] = 0
           /\ channel[c] = "empty" /\ result[c] # "ok"
    /\ OneVerdict

(* What Stop has achieved when it has come to a stage. *)
StopInv ==
    /\ stopPc # "running" => stopped
    /\ stopPc \in {"failing", "waiting", "returned"} => rpcm = {}
    /\ stopPc \in {"waiting", "returned"} => \A c \in Calls : taken[c] # "stop"
    /\ stopPc = "returned" => sweeper = "exited"
    /\ sweeper = "exited" => \A c \in Calls : taken[c] # "sweep"

(* A caller that timed out did so no earlier than its call expired. *)
TimeInv ==
    \A c \in Calls :
        /\ sentAt[c] <= now
        /\ caller[c] # "returned" => result[c] = "none"
        /\ caller[c] = "waiting" => waitUntil[c] >= ExpireAt(c)
        /\ caller[c] = "timedOut" \/ result[c] = "timeout" => now >= ExpireAt(c)

RpcInv == RpcTypes /\ TableInv /\ VerdictInv /\ StopInv /\ TimeInv

----------------------------------------------------------------------------
(* Nothing exists before the first call. *)
LEMMA RpcInvInit == RpcInit => RpcInv
<1> SUFFICES ASSUME RpcInit PROVE RpcInv
  OBVIOUS
<1> USE RpcAssumption DEF RpcAssumption, RpcInit
<1>1. RpcTypes
  BY DEF RpcTypes
<1>2. TableInv /\ StopInv
  BY DEF TableInv, StopInv
<1>3. VerdictInv
  BY DEF VerdictInv, OneVerdict
<1>4. TimeInv
  BY DEF TimeInv, ExpireAt
<1>5. QED
  BY <1>1, <1>2, <1>3, <1>4 DEF RpcInv

(* Time passing, and everything the network and the server do except a     *)
(* refused send, disturbs at most the clock and the messages.              *)
LEMMA QuietStep ==
    ASSUME RpcInv, RpcTypes', now' >= now,
           UNCHANGED <<clientVars, tableVars, answerVars, mgrVars>>,
           \A c \in Calls : taken[c] = "response" => response'[c] \in {"ok", "error"}
    PROVE  RpcInv'
<1> USE DEF RpcInv, clientVars, tableVars, answerVars, mgrVars
<1>1. TableInv'
  BY DEF TableInv
<1>2. VerdictInv'
  BY DEF VerdictInv, OneVerdict
<1>3. StopInv'
  BY DEF StopInv
<1>4. TimeInv'
  BY RpcAssumption DEF RpcAssumption, TimeInv, ExpireAt, RpcTypes
<1>5. QED
  BY <1>1, <1>2, <1>3, <1>4

(* Whoever takes calls out of the table becomes the one to run their       *)
(* callbacks; nobody else had taken them.                                  *)
LEMMA TakeStep ==
    ASSUME RpcInv, NEW S, NEW who \in {"response", "sendFail", "stop", "sweep", "timeout"},
           Take(S, who)
    PROVE  /\ rpcm' \subseteq rpcm
           /\ taken' \in [Calls -> {"no", "response", "sendFail", "stop", "sweep",
                                    "timeout", "done"}]
           /\ \A c \in rpcm' : taken'[c] = "no"
           /\ \A c \in Calls : c \notin rpcm => taken'[c] = taken[c]
           /\ \A c \in Calls : taken'[c] = "done" <=> taken[c] = "done"
           /\ \A c \in Calls : taken'[c] \in {who, taken[c]}
BY DEF Take, Without, RpcInv, RpcTypes, TableInv

(* Types, one step per action. *)
LEMMA RpcTypeStep ==
    ASSUME RpcInv, [RpcNext]_rpcVars
    PROVE  RpcTypes'
<1> USE RpcAssumption
    DEF RpcAssumption, RpcTypes, RpcInv, clientVars, tableVars, answerVars, netVars, mgrVars
<1>1. CASE Tick
  BY <1>1 DEF Tick
<1>2. ASSUME NEW c \in Calls, Begin(c) \/ CallerStep(c) PROVE RpcTypes'
  <2>1. CASE Begin(c)
    BY <2>1 DEF Begin, GiveUp
  <2>2. CASE Register(c)
    BY <2>2 DEF Register, GiveUp
  <2>3. CASE Transmit(c)
    BY <2>3 DEF Transmit
  <2>4. CASE Receive(c)
    BY <2>4 DEF Receive
  <2>5. CASE WaitTimeout(c)
    <3>1. Take({c}, "timeout")
      BY <2>5 DEF WaitTimeout
    <3>2. QED
      BY <2>5, <3>1, TakeStep DEF WaitTimeout
  <2>6. CASE ReturnTimeout(c)
    BY <2>6 DEF ReturnTimeout
  <2>7. QED
    BY <1>2, <2>1, <2>2, <2>3, <2>4, <2>5, <2>6 DEF CallerStep
<1>3. ASSUME NEW c \in Calls, NetStep(c) PROVE RpcTypes'
  <2>1. CASE NetFail(c)
    <3>1. Take({c}, "sendFail")
      BY <2>1 DEF NetFail
    <3>2. QED
      BY <2>1, <3>1, TakeStep DEF NetFail
  <2>2. CASE NetSend(c) \/ Lose(c)
    BY <2>2 DEF NetSend, Lose
  <2>3. CASE ServeRefuse(c) \/ ServeStart(c) \/ ServeEnd(c)
    BY <2>3 DEF ServeRefuse, ServeStart, ServeEnd, Answer
  <2>4. QED
    BY <1>3, <2>1, <2>2, <2>3 DEF NetStep
<1>4. ASSUME NEW c \in Calls, RunFailed(c) PROVE RpcTypes'
  BY <1>4 DEF RunFailed, Notify
<1>5. ASSUME NEW c \in Calls, ResponseTake(c) PROVE RpcTypes'
  <2>1. Take({c}, "response")
    BY <1>5 DEF ResponseTake
  <2>2. QED
    BY <1>5, <2>1, TakeStep DEF ResponseTake
<1>6. ASSUME NEW c \in Calls, ResponseRun(c) PROVE RpcTypes'
  <2>1. channel' \in [Calls -> {"empty", "ok", "error", "sendFailed"}]
    BY <1>6 DEF ResponseRun, Notify, TableInv
  <2>2. handled' \in [Calls -> Nat]
    BY <1>6 DEF ResponseRun
  <2>3. QED
    BY <1>6, <2>1, <2>2 DEF ResponseRun
<1>7. CASE Sweep
  <2>1. Take(Expired, "sweep")
    BY <1>7 DEF Sweep
  <2>2. QED
    BY <1>7, <2>1, TakeStep DEF Sweep
<1>8. CASE StopTake
  <2>1. Take(rpcm, "stop")
    BY <1>8 DEF StopTake
  <2>2. QED
    BY <1>8, <2>1, TakeStep DEF StopTake
<1>9. CASE SweeperExit \/ StopSwap \/ StopCancel \/ StopReturn
  BY <1>9 DEF SweeperExit, StopSwap, StopCancel, StopReturn
<1>10. CASE UNCHANGED rpcVars
  BY <1>10 DEF rpcVars
<1>11. QED
  BY <1>1, <1>2, <1>3, <1>4, <1>5, <1>6, <1>7, <1>8, <1>9, <1>10
     DEF RpcNext, SweeperStep, StopStep

(* The caller's own steps. *)
LEMMA CallerInvStep ==
    ASSUME RpcInv, RpcTypes', NEW c \in Calls, Begin(c) \/ CallerStep(c)
    PROVE  RpcInv'
<1> USE RpcAssumption
    DEF RpcAssumption, RpcTypes, RpcInv, clientVars, tableVars, answerVars, netVars, mgrVars
<1>1. CASE Begin(c)
  <2>1. TableInv' /\ StopInv'
    BY <1>1 DEF Begin, GiveUp, TableInv, StopInv
  <2>2. VerdictInv'
    BY <1>1 DEF Begin, GiveUp, VerdictInv, OneVerdict
  <2>3. TimeInv'
    BY <1>1 DEF Begin, GiveUp, TimeInv, ExpireAt
  <2>4. QED
    BY <2>1, <2>2, <2>3
<1>2. CASE Register(c)
  <2>1. TableInv'
    BY <1>2 DEF Register, GiveUp, TableInv
  <2>2. StopInv'
    BY <1>2 DEF Register, MayRegister, StopInv
  <2>3. VerdictInv'
    BY <1>2 DEF Register, GiveUp, VerdictInv, OneVerdict
  <2>4. TimeInv'
    BY <1>2 DEF Register, GiveUp, TimeInv, ExpireAt
  <2>5. QED
    BY <2>1, <2>2, <2>3, <2>4
<1>3. CASE Transmit(c)
  <2>1. TableInv' /\ StopInv'
    BY <1>3 DEF Transmit, TableInv, StopInv
  <2>2. VerdictInv'
    BY <1>3 DEF Transmit, VerdictInv, OneVerdict
  <2>3. TimeInv'
    BY <1>3 DEF Transmit, TimeInv, ExpireAt
  <2>4. QED
    BY <2>1, <2>2, <2>3
<1>4. CASE Receive(c)
  <2>1. TableInv' /\ StopInv'
    BY <1>4 DEF Receive, TableInv, StopInv
  <2>2. VerdictInv'
    BY <1>4 DEF Receive, VerdictInv, OneVerdict
  <2>3. TimeInv'
    BY <1>4 DEF Receive, TimeInv, ExpireAt
  <2>4. QED
    BY <2>1, <2>2, <2>3
<1>5. CASE WaitTimeout(c)
  <2>1. Take({c}, "timeout")
    BY <1>5 DEF WaitTimeout
  <2>2. TableInv'
    BY <1>5, <2>1, TakeStep DEF WaitTimeout, TableInv
  <2>3. StopInv'
    BY <1>5, <2>1, TakeStep DEF WaitTimeout, StopInv
  <2>4. VerdictInv'
    BY <1>5, <2>1, TakeStep DEF WaitTimeout, VerdictInv, OneVerdict
  <2>5. TimeInv'
    BY <1>5 DEF WaitTimeout, TimeInv, ExpireAt
  <2>6. QED
    BY <2>2, <2>3, <2>4, <2>5
<1>6. CASE ReturnTimeout(c)
  <2>1. TableInv' /\ StopInv'
    BY <1>6 DEF ReturnTimeout, TableInv, StopInv
  <2>2. VerdictInv'
    BY <1>6 DEF ReturnTimeout, VerdictInv, OneVerdict
  <2>3. TimeInv'
    BY <1>6 DEF ReturnTimeout, TimeInv, ExpireAt
  <2>4. QED
    BY <2>1, <2>2, <2>3
<1>7. QED
  BY <1>1, <1>2, <1>3, <1>4, <1>5, <1>6 DEF CallerStep

(* Taking calls away, by anyone but the caller. *)
LEMMA TakeInvStep ==
    ASSUME RpcInv, RpcTypes', NEW S, NEW who \in {"response", "sendFail", "stop", "sweep"},
           Take(S, who), UNCHANGED <<now, clientVars, answerVars, stopped, sweeper>>,
           who = "stop" => S = rpcm /\ stopPc = "swapped" /\ stopPc' = "failing",
           who = "sweep" => sweeper = "running",
           who # "stop" => UNCHANGED stopPc,
           \A c \in Calls : taken'[c] = "response" => response'[c] \in {"ok", "error"}
    PROVE  RpcInv'
<1> USE RpcAssumption
    DEF RpcAssumption, RpcTypes, RpcInv, clientVars, answerVars
<1>1. TableInv'
  BY TakeStep DEF TableInv
<1>2. StopInv'
  <2>1. CASE who = "stop"
    <3>1. rpcm' = {}
      BY <2>1 DEF Take, Without
    <3>2. QED
      BY <2>1, <3>1, TakeStep DEF StopInv
  <2>2. CASE who # "stop"
    BY <2>2, TakeStep DEF StopInv
  <2>3. QED
    BY <2>1, <2>2
<1>3. VerdictInv'
  BY TakeStep DEF VerdictInv, OneVerdict
<1>4. TimeInv'
  BY DEF TimeInv, ExpireAt
<1>5. QED
  BY <1>1, <1>2, <1>3, <1>4

(* Running the callbacks of a taken call gives it its one verdict. *)
LEMMA VerdictStep ==
    ASSUME RpcInv, RpcTypes', NEW c \in Calls, RunFailed(c) \/ ResponseRun(c)
    PROVE  RpcInv'
<1> USE RpcAssumption
    DEF RpcAssumption, RpcTypes, RpcInv, clientVars, tableVars, answerVars, netVars, mgrVars
<1>1. CASE RunFailed(c)
  <2>1. TableInv' /\ StopInv'
    BY <1>1 DEF RunFailed, TableInv, StopInv
  <2>2. VerdictInv'
    BY <1>1 DEF RunFailed, Notify, VerdictInv, OneVerdict
  <2>3. TimeInv'
    BY <1>1 DEF RunFailed, TimeInv, ExpireAt
  <2>4. QED
    BY <2>1, <2>2, <2>3
<1>2. CASE ResponseRun(c)
  <2>1. TableInv' /\ StopInv'
    BY <1>2 DEF ResponseRun, TableInv, StopInv
  <2>2. VerdictInv'
    <3>1. /\ taken' = [taken EXCEPT ![c] = "done"] /\ UNCHANGED <<failed, result>>
          /\ handled[c] = 0 /\ failed[c] = 0
      BY <1>2 DEF ResponseRun, VerdictInv
    <3>2. /\ \A d \in Calls \ {c} : handled'[d] = handled[d] /\ channel'[d] = channel[d]
          /\ handled'[c] \in {0, 1}
      BY <1>2, <3>1 DEF ResponseRun, Notify
    <3>3. \A d \in Calls \ {c} : taken'[d] = taken[d]
      BY <3>1
    <3>4. taken'[c] = "done"
      BY <3>1
    <3>5. VerdictInv
      OBVIOUS
    <3>6. \A d \in Calls : taken'[d] # "done" =>
              handled'[d] = 0 /\ failed'[d] = 0 /\ channel'[d] = "empty" /\ result'[d] # "ok"
      BY ONLY <3>1, <3>2, <3>3, <3>4, <3>5 DEF VerdictInv
    <3>7. OneVerdict'
      BY ONLY <3>1, <3>2, <3>5 DEF VerdictInv, OneVerdict
    <3>8. QED
      BY ONLY <3>6, <3>7 DEF VerdictInv
  <2>3. TimeInv'
    BY <1>2 DEF ResponseRun, TimeInv, ExpireAt
  <2>4. QED
    BY <2>1, <2>2, <2>3
<1>3. QED
  BY <1>1, <1>2

(* RpcInv is inductive. *)
LEMMA RpcInvStep ==
    ASSUME RpcInv, [RpcNext]_rpcVars
    PROVE  RpcInv'
<1> USE DEF netVars, mgrVars
<1>1. RpcTypes'
  BY RpcTypeStep
<1>2. CASE Tick
  <2>1. now' >= now
    BY <1>2 DEF Tick, RpcInv, RpcTypes
  <2>2. QED
    BY <1>1, <1>2, <2>1, QuietStep DEF Tick, RpcInv, TableInv
<1>3. ASSUME NEW c \in Calls, Begin(c) \/ CallerStep(c) PROVE RpcInv'
  BY <1>1, <1>3, CallerInvStep
<1>4. ASSUME NEW c \in Calls, NetStep(c) PROVE RpcInv'
  <2>1. CASE NetFail(c)
    <3>1. Take({c}, "sendFail") /\ UNCHANGED <<now, clientVars, answerVars, response, mgrVars>>
      BY <2>1 DEF NetFail
    <3>2. \A d \in Calls : taken'[d] = "response" => response'[d] \in {"ok", "error"}
      BY <3>1, TakeStep DEF RpcInv, TableInv
    <3>3. QED
      BY <1>1, <3>1, <3>2, TakeInvStep
  <2>2. CASE NetSend(c) \/ Lose(c) \/ ServeRefuse(c) \/ ServeStart(c) \/ ServeEnd(c)
    <3>1. \A d \in Calls : taken[d] = "response" => response'[d] \in {"ok", "error"}
      BY <2>2 DEF NetSend, Lose, ServeRefuse, ServeStart, ServeEnd, Answer, RpcInv,
                  RpcTypes, TableInv
    <3>2. now' = now /\ UNCHANGED <<clientVars, tableVars, answerVars, mgrVars>>
      BY <2>2 DEF NetSend, Lose, ServeRefuse, ServeStart, ServeEnd
    <3>3. now' >= now
      BY <3>2 DEF RpcInv, RpcTypes
    <3>4. QED
      BY <1>1, <3>1, <3>2, <3>3, QuietStep
  <2>3. QED
    BY <1>4, <2>1, <2>2 DEF NetStep
<1>5. ASSUME NEW c \in Calls, RunFailed(c) \/ ResponseRun(c) PROVE RpcInv'
  BY <1>1, <1>5, VerdictStep
<1>6. ASSUME NEW c \in Calls, ResponseTake(c) PROVE RpcInv'
  <2>1. /\ Take({c}, "response") /\ response[c] \in {"ok", "error"}
        /\ response' = IF c \in rpcm THEN response ELSE [response EXCEPT ![c] = "gone"]
        /\ taken[c] # "response"
        /\ UNCHANGED <<now, clientVars, answerVars, request, mgrVars>>
    BY <1>6 DEF ResponseTake
  <2>2. \A d \in Calls : taken'[d] = "response" => response'[d] \in {"ok", "error"}
    BY <2>1 DEF Take, RpcInv, RpcTypes, TableInv
  <2>3. QED
    BY <1>1, <2>1, <2>2, TakeInvStep
<1>7. CASE Sweep
  <2>1. /\ Take(Expired, "sweep") /\ sweeper = "running"
        /\ UNCHANGED <<now, clientVars, answerVars, netVars, mgrVars>>
    BY <1>7 DEF Sweep
  <2>2. \A d \in Calls : taken'[d] = "response" => response'[d] \in {"ok", "error"}
    BY <2>1, TakeStep DEF RpcInv, TableInv
  <2>3. QED
    BY <1>1, <2>1, <2>2, TakeInvStep
<1>8. CASE StopTake
  <2>1. /\ Take(rpcm, "stop") /\ stopPc = "swapped" /\ stopPc' = "failing"
        /\ UNCHANGED <<now, clientVars, answerVars, netVars, stopped, sweeper>>
    BY <1>8 DEF StopTake
  <2>2. \A d \in Calls : taken'[d] = "response" => response'[d] \in {"ok", "error"}
    BY <2>1, TakeStep DEF RpcInv, TableInv
  <2>3. QED
    BY <1>1, <2>1, <2>2, TakeInvStep
<1>9. CASE SweeperExit \/ StopSwap \/ StopCancel \/ StopReturn
  <2>1. UNCHANGED <<now, clientVars, tableVars, answerVars, netVars>>
    BY <1>9 DEF SweeperExit, StopSwap, StopCancel, StopReturn
  <2>2. StopInv'
    BY <1>9 DEF SweeperExit, StopSwap, StopCancel, StopReturn, SweeperEnded, StopInv,
                tableVars, RpcInv
  <2>3. TableInv' /\ VerdictInv' /\ TimeInv'
    BY <2>1 DEF RpcInv, TableInv, VerdictInv, OneVerdict, TimeInv, ExpireAt, clientVars,
                tableVars, answerVars
  <2>4. QED
    BY <1>1, <2>2, <2>3 DEF RpcInv
<1>10. CASE UNCHANGED rpcVars
  <2>1. now' = now /\ UNCHANGED <<clientVars, tableVars, answerVars, netVars, mgrVars>>
    BY <1>10 DEF rpcVars
  <2>2. now' >= now
    BY <2>1 DEF RpcInv, RpcTypes
  <2>3. QED
    BY <1>1, <2>1, <2>2, QuietStep DEF RpcInv, TableInv
<1>11. QED
  BY <1>2, <1>3, <1>4, <1>5, <1>6, <1>7, <1>8, <1>9, <1>10
     DEF RpcNext, SweeperStep, StopStep

LEMMA RpcInvariant == RpcSpec => []RpcInv
<1>1. RpcInit => RpcInv
  BY RpcInvInit
<1>2. RpcInv /\ [RpcNext]_rpcVars => RpcInv'
  BY RpcInvStep
<1>3. QED
  BY <1>1, <1>2, PTL DEF RpcSpec

----------------------------------------------------------------------------
(* Types, and a call in the table is still nobody's: for any set of calls.  *)
THEOREM RpcTypeCorrect == RpcSpec => []RpcTypeOK
<1>1. RpcInv => RpcTypeOK
  BY DEF RpcInv, TableInv, RpcTypeOK
<1>2. QED
  BY <1>1, RpcInvariant, PTL

(* However response, failed send, timeout, sweep and Stop race for a call,  *)
(* handler and failed run at most once between them, and no blocking caller *)
(* is answered after its failed has run.                                    *)
THEOREM OneVerdictPerCall == RpcSpec => []OneVerdict
<1>1. RpcInv => OneVerdict
  BY DEF RpcInv, VerdictInv
<1>2. QED
  BY <1>1, RpcInvariant, PTL

(* When Stop returns no call is registered, none can be any more, and its   *)
(* own and the sweep's callbacks are over.                                  *)
THEOREM StopLeavesNothing == RpcSpec => []StopIsFinal
<1>1. RpcInv => StopIsFinal
  BY DEF RpcInv, StopInv, StopIsFinal
<1>2. QED
  BY <1>1, RpcInvariant, PTL

(* With the server's timeout below the client's, no handler starts for a    *)
(* caller that has been told RPC_TIMEOUT.                                   *)
THEOREM LateRequestsRefused == RpcSpec => NoStartAfterTimeout
<1>1. RpcInv /\ [RpcNext]_rpcVars =>
          [\A c \in Calls : result[c] = "timeout" =>
               ~(request[c] # "running" /\ request'[c] = "running")]_rpcVars
  <2> SUFFICES ASSUME RpcInv, RpcNext, NEW c \in Calls, result[c] = "timeout",
                      request[c] # "running", request'[c] = "running"
               PROVE  FALSE
    OBVIOUS
  <2>1. now >= sentAt[c] + ClientWait
    BY DEF RpcInv, TimeInv, ExpireAt
  <2>2. caller[c] = "returned"
    BY DEF RpcInv, TimeInv, RpcTypes
  <2>3. ~ServeStart(c)
    BY <2>1, RpcAssumption DEF RpcAssumption, ServeStart, TooLate, RpcInv, RpcTypes
  <2>4. \A d \in Calls : NetStep(d) => ServeStart(c)
    BY DEF NetStep, NetSend, NetFail, Lose, ServeRefuse, ServeStart, ServeEnd, Answer,
           RpcInv, RpcTypes
  <2>5. \A d \in Calls : ~CallerStep(d) \/ request'[c] = request[c]
    BY <2>2 DEF CallerStep, Register, Transmit, Receive, WaitTimeout, ReturnTimeout, netVars,
                RpcInv, RpcTypes
  <2>6. ASSUME ~\E d \in Calls : NetStep(d) \/ CallerStep(d)
        PROVE  UNCHANGED request
    BY <2>6 DEF RpcNext, Tick, SweeperStep, Sweep, SweeperExit, StopSwap, StopStep, StopTake,
                StopCancel, StopReturn, Begin, RunFailed, ResponseTake, ResponseRun, netVars
  <2>7. QED
    BY <2>3, <2>4, <2>5, <2>6
<1>2. QED
  BY <1>1, RpcInvariant, PTL DEF RpcSpec, NoStartAfterTimeout
==============================================================================
