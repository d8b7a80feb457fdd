-------------------------------- MODULE SeqAck --------------------------------
(***************************************************************************)
(* Sequence numbers between the gate and one client, over the sessions the *)
(* client reconnects with: src/service/gate/gateuser/gate_user.go, the two *)
(* route handlers of gatesvr.go, and the task queue of netmgr.             *)
(*                                                                         *)
(* The gate numbers what it routes to the client (Seq, 16 bits), keeps it  *)
(* in SendQueue until it is acknowledged or too old, and sends what is     *)
(* left again when the client reconnects.  A message is known here by n,   *)
(* its place in the order of routing; on the wire it carries n % SeqMod.   *)
(* Routing adds to SendQueue under the user's lock and hands the message   *)
(* to the goroutine of NetMgr afterwards, while a resend goes to the       *)
(* connection directly, so new messages and resends mix on the wire.       *)
(*                                                                         *)
(* The client is not part of the repository (the robot neither orders nor  *)
(* acknowledges).  It is taken to be one that keeps the order by number:   *)
(* it takes the message after the last one it has and ignores the rest.    *)
(* It may have many requests on their way and repeat the latest of them.   *)
(*                                                                         *)
(* One user object is modelled, until the gate_log_out timer of a          *)
(* disconnect removes it; a login starts a new one (GateSession).  Why a   *)
(* reconnect fails is GateSession's: here it may fail at any time.         *)
(*                                                                         *)
(* NarrowNumber, GreaterUnwrapped, ReplayAccepted and SwappedAck are       *)
(* faulty variants of the definition that follows each of them; the        *)
(* specification does not use them (README, "Mutants").                    *)
(***************************************************************************)
EXTENDS Integers, Sequences, FiniteSets

CONSTANTS
    SeqMod,       \* 2^16
    CacheTime,    \* GATE_CACHE_USER_TIME, the age at which SendQueue drops
    WriteChan,    \* capacity of cwrite
    Window,       \* bound: messages in SendQueue, and numbers in flight
    Repeats,      \* bound: how far back the client repeats its requests
    MaxSess,      \* bound: sessions of the client
    Loads         \* bounds of one behaviour, see load

Half == SeqMod \div 2

(* Fewer than half of the numbers are in SendQueue at a time, a client that *)
(* is connected is less than that behind, and it repeats no request older  *)
(* than that; in the code that is 32768 messages to one player within a    *)
(* minute, or before it reads the first.                                   *)
ASSUME SeqAckAssumption ==
    /\ SeqMod \in Nat /\ SeqMod % 2 = 0 /\ Window \in Nat /\ Window < Half
    /\ Repeats \in Nat /\ Repeats < Half
    /\ {CacheTime, WriteChan} \subseteq Nat /\ MaxSess \in Nat \ {0}
    /\ Loads \subseteq [sent : Nat, requests : Nat, uplink : Nat, sess : 1..MaxSess, time : Nat]

Sessions == 1..MaxSess

VARIABLES
    load,       \* bounds: messages routed, requests made, requests on their way on
                \* one session, sessions, and the clock; one of Loads, never changed
    now,
    there,      \* the user object is in the table
    sess,       \* GateUser.SessId, 0 while the client is away
    sent,       \* messages numbered so far; GateUser.Seq is sent % SeqMod
    sendQueue,  \* GateUser.SendQueue
    ack,        \* GateUser.Ack
    routing,    \* numbered by ServerRouteHandler, not yet given to NetMgr
    tasks,      \* NetMgr.taskChan: messages to be sent, with their session
    linked,     \* sessions in NetMgr.sessMap
    ending,     \* sessions taken out of it, OnMsgQueStop still to be called
    timers,     \* gate_log_out timers: the session that armed it, and when it is due
    wire,       \* what was written to each session and not read yet
    reconnect,  \* the reconnect in progress: its step, session, and what the client has
    csess,      \* the session the client uses
    got,        \* the last message the client took
    requested,  \* the last request the client made
    uplink,     \* requests on their way on each session
    handled,    \* the last request accepted by the gate
    replayed,   \* history: a request was accepted that is not later than the last one
    sentAt,     \* when each message was routed
    refused,    \* history: sessions whose full channel refused a message
    denied      \* history: sessions whose reconnect failed

queueVars  == <<sent, sendQueue, ack, sentAt>>
userVars   == <<there, sess, timers, queueVars>>
linkVars   == <<linked, ending, denied>>
netVars    == <<routing, tasks, wire, refused>>
clientVars == <<csess, got, requested, uplink>>
acceptVars == <<handled, replayed>>
seqVars    == <<load, now, userVars, linkVars, netVars, reconnect, clientVars, acceptVars>>

Nothing == [n |-> 0, sess |-> 0]
NoReconnect == [pc |-> "idle", sess |-> 0, got |-> 0]

SeqInit ==
    /\ load \in Loads /\ now = 0 /\ there = TRUE /\ sess = 1 /\ timers = {}
    /\ sent = 0 /\ sendQueue = << >> /\ ack = 0
    /\ routing = Nothing /\ tasks = << >>
    /\ linked = {1} /\ ending = {} /\ denied = {}
    /\ wire = [s \in Sessions |-> << >>]
    /\ reconnect = NoReconnect
    /\ csess = 1 /\ got = 0 /\ requested = 0
    /\ uplink = [s \in Sessions |-> << >>]
    /\ handled = 0 /\ replayed = FALSE /\ sentAt = << >> /\ refused = {}

(* The number message n carries. *)
NarrowNumber(n) == n % (Half \div 2)
Number(n) == n % SeqMod

GreaterUnwrapped(s1, s2) == s1 > s2
IsSeqGreater(s1, s2) == \/ s1 > s2 /\ s1 - s2 < Half
                        \/ s1 < s2 /\ s2 - s1 > Half

TooOld(m) == m.at + CacheTime < now

(* Both trims of the queue stop at the first message they keep. *)
DropWhile(q, goes) ==
    SubSeq(q, 1 + Cardinality({i \in 1..Len(q) : 1..i \subseteq goes}), Len(q))

Expire(q) == DropWhile(q, {i \in 1..Len(q) : TooOld(q[i])})

Acknowledged(q, cack) ==
    DropWhile(q, {i \in 1..Len(q) : IsSeqGreater(cack, Number(q[i].n)) \/ TooOld(q[i])})

(* The messages of q after reqAck, in their order. *)
Resent(q, reqAck) ==
    LET later  == {i \in DOMAIN q : IsSeqGreater(Number(q[i].n), reqAck)}
        nth(k) == CHOOSE i \in later : Cardinality({j \in later : j <= i}) = k
    IN  [k \in 1..Cardinality(later) |-> q[nth(k)]]

ReplayAccepted(cseq) == cseq = ack \/ IsSeqGreater(cseq, ack)
Fresh(cseq) == IsSeqGreater(cseq, ack)

-----------------------------------------------------------------------------
(* What the client has, or has said in a request or a reconnect that is    *)
(* still on its way.                                                       *)
Said(s) == {uplink[s][i].got : i \in DOMAIN uplink[s]}
Reconnecting == IF reconnect.pc = "idle" THEN {} ELSE {reconnect.got}
Acks == {got} \cup Reconnecting \cup UNION {Said(s) : s \in Sessions}

(* A message from the logic server for the current session: numbered and   *)
(* queued under the lock, unless the player is away or gone; then it is    *)
(* dropped.                                                                *)
Route ==
    /\ routing = Nothing /\ there /\ sess # 0
    /\ sent < load.sent /\ Len(sendQueue) < Window
    /\ \A g \in Acks : sent - g < Window
    /\ sent' = sent + 1 /\ sentAt' = Append(sentAt, now)
    /\ sendQueue' = Expire(Append(sendQueue, [n |-> sent', at |-> now]))
    /\ routing' = [n |-> sent', sess |-> sess]
    /\ UNCHANGED <<load, now, there, sess, timers, ack, linkVars, tasks, wire, refused,
                   reconnect, clientVars, acceptVars>>

(* SendMsg2Sess: the task, and then the task run by NetMgr.  A session that *)
(* is gone, or whose channel is full, loses the message.                    *)
Post ==
    /\ routing # Nothing
    /\ tasks' = Append(tasks, routing) /\ routing' = Nothing
    /\ UNCHANGED <<load, now, userVars, linkVars, wire, refused, reconnect, clientVars, acceptVars>>

Fitting(q) == SubSeq(q, 1, IF Len(q) < WriteChan THEN Len(q) ELSE WriteChan)
Write(s, ns) ==
    IF s \in linked
    THEN /\ wire' = [wire EXCEPT ![s] = Fitting(@ \o ns)]
         /\ refused' = IF Len(wire[s]) + Len(ns) > WriteChan THEN refused \cup {s} ELSE refused
    ELSE UNCHANGED <<wire, refused>>

NetSend ==
    /\ tasks # << >>
    /\ Write(Head(tasks).sess, <<Head(tasks).n>>) /\ tasks' = Tail(tasks)
    /\ UNCHANGED <<load, now, userVars, linkVars, routing, reconnect, clientVars, acceptVars>>

-----------------------------------------------------------------------------
(* A connection breaks, or is kicked.  The last session of the bound does  *)
(* not break.                                                              *)
Drop(s) ==
    /\ s \in linked /\ s < load.sess
    /\ linked' = linked \ {s} /\ ending' = ending \cup {s}
    /\ UNCHANGED <<load, now, userVars, denied, netVars, reconnect, clientVars, acceptVars>>

(* ClientDisconnectHandler: the user loses this session, and only this one; *)
(* then a timer is armed, which nothing cancels.  A session that ends       *)
(* before the user has it is never cleared.                                 *)
ClearSess(s) ==
    /\ s \in ending /\ ending' = ending \ {s}
    /\ IF there /\ sess = s
       THEN sess' = 0 /\ timers' = timers \cup {[sess |-> s, due |-> now + CacheTime]}
       ELSE UNCHANGED <<sess, timers>>
    /\ UNCHANGED <<load, now, there, queueVars, linked, denied, netVars, reconnect, clientVars, acceptVars>>

(* The timer: DelOffline removes the user, with all it has queued, if the   *)
(* client is away at that moment, be it for a later reason.                 *)
DelOffline(t) ==
    /\ t.due <= now
    /\ timers' = timers \ {t} /\ there' = (there /\ sess # 0)
    /\ sendQueue' = IF there' THEN sendQueue ELSE << >>
    /\ UNCHANGED <<load, now, sess, sent, ack, sentAt, linkVars, netVars, reconnect, clientVars, acceptVars>>

-----------------------------------------------------------------------------
(* The reconnect handler, one at a time under the account lock: the session *)
(* is replaced, then what the client does not have is sent to it directly.  *)
(* No other session can have come meanwhile, so only a user that is gone    *)
(* stops ReplaceSess.                                                       *)
ReplaceSess ==
    /\ reconnect.pc = "replace" /\ there
    /\ sess' = reconnect.sess
    /\ reconnect' = [reconnect EXCEPT !.pc = "resend"]
    /\ UNCHANGED <<load, now, there, timers, queueVars, linkVars, netVars, clientVars, acceptVars>>

(* Or it fails before that: no lock, a wrong token, no user, too many       *)
(* reconnects, no answer from logic or its rejection.  The session is       *)
(* kicked; the user never had it, so its end clears nothing.                *)
RefuseReconnect ==
    /\ reconnect.pc = "replace"
    /\ linked' = linked \ {reconnect.sess} /\ denied' = denied \cup {reconnect.sess}
    /\ reconnect' = NoReconnect
    /\ UNCHANGED <<load, now, userVars, ending, netVars, clientVars, acceptVars>>

ResendUnAckMessages ==
    /\ reconnect.pc = "resend"
    /\ LET r == Resent(sendQueue, Number(reconnect.got))
       IN  Write(reconnect.sess, [i \in DOMAIN r |-> r[i].n])
    /\ reconnect' = NoReconnect
    /\ UNCHANGED <<load, now, userVars, linkVars, routing, tasks, clientVars, acceptVars>>

SwappedAck(r) == Number(r.cseq)
AckOf(r) == Number(r.got)

(* A request is read from its connection, whose reader is not in the       *)
(* reconnect handler: accepted on the current session if its number is     *)
(* new, with the client's acknowledgement; dropped otherwise.  That the    *)
(* rate limit or a missing route stops an accepted one is left out.        *)
ClientRoute(s) ==
    /\ uplink[s] # << >> /\ ~(reconnect.pc # "idle" /\ reconnect.sess = s)
    /\ uplink' = [uplink EXCEPT ![s] = Tail(@)]
    /\ LET r == Head(uplink[s]) IN
       IF there /\ s = sess /\ Fresh(Number(r.cseq))
       THEN /\ ack' = Number(r.cseq)
            /\ sendQueue' = Acknowledged(sendQueue, AckOf(r))
            /\ handled' = r.cseq /\ replayed' = (replayed \/ r.cseq <= handled)
       ELSE UNCHANGED <<ack, sendQueue, acceptVars>>
    /\ UNCHANGED <<load, now, there, sess, timers, sent, sentAt, linkVars, netVars,
                   reconnect, csess, got, requested>>

-----------------------------------------------------------------------------
(* The client. *)
Receive ==
    /\ wire[csess] # << >>
    /\ LET n == Head(wire[csess])
       IN  got' = IF Number(n) = Number(got + 1) THEN n ELSE got
    /\ wire' = [wire EXCEPT ![csess] = Tail(@)]
    /\ UNCHANGED <<load, now, userVars, linkVars, routing, tasks, refused, reconnect,
                   csess, requested, uplink, acceptVars>>

(* A new request, or one of the latest once more; it does not wait for     *)
(* those before it, nor for the end of its reconnect.                      *)
Request ==
    /\ csess \in linked /\ Len(uplink[csess]) < load.uplink
    /\ \E cseq \in 1..load.requests :
         /\ cseq <= requested + 1 /\ requested <= cseq + Repeats
         /\ requested' = IF cseq > requested THEN cseq ELSE requested
         /\ uplink' = [uplink EXCEPT ![csess] = Append(@, [cseq |-> cseq, got |-> got])]
    /\ UNCHANGED <<load, now, userVars, linkVars, netVars, reconnect, csess, got, acceptVars>>

(* The client comes back on a new connection, whether or not the old one is *)
(* known to have ended.                                                     *)
Reconnect ==
    /\ csess < load.sess /\ reconnect.pc = "idle"
    /\ csess' = csess + 1 /\ linked' = linked \cup {csess'}
    /\ reconnect' = [pc |-> "replace", sess |-> csess', got |-> got]
    /\ UNCHANGED <<load, now, userVars, ending, denied, netVars, got, requested, uplink, acceptVars>>

Tick ==
    /\ now < load.time
    /\ now' = now + 1
    /\ UNCHANGED <<load, userVars, linkVars, netVars, reconnect, clientVars, acceptVars>>

ReconnectHandler == ReplaceSess \/ RefuseReconnect \/ ResendUnAckMessages

SeqNext ==
    \/ Route \/ Post \/ NetSend
    \/ \E s \in Sessions : Drop(s) \/ ClearSess(s) \/ ClientRoute(s)
    \/ (\E t \in timers : DelOffline(t)) \/ ReconnectHandler
    \/ Receive \/ Request \/ Reconnect \/ Tick

(* The goroutines of the gate run; a client reads what arrives and comes   *)
(* back when its connection breaks.                                        *)
SeqSpec ==
    /\ SeqInit /\ [][SeqNext]_seqVars
    /\ WF_seqVars(Post) /\ WF_seqVars(NetSend) /\ WF_seqVars(ReconnectHandler)
    /\ WF_seqVars(Receive) /\ WF_seqVars(csess \notin linked /\ Reconnect)

-----------------------------------------------------------------------------
Queued == {sendQueue[i].n : i \in DOMAIN sendQueue}
Expired(n) == n <= sent /\ sentAt[n] + CacheTime < now

(* gate_user.go keeps a message until the client has it: whatever breaks,  *)
(* is full or overtakes, a message the client still misses can be sent     *)
(* again, unless it has outlived the cache, and as long as the user object *)
(* is there.  Once the gate_log_out timer has removed that, a reconnect is *)
(* refused, so a client that is let back in has lost nothing but what      *)
(* expired.                                                                *)
NothingLost == there => \A n \in (got + 1)..sent : n \in Queued \/ Expired(n)

(* ClientRouteHandler accepts no request twice and none out of order, over *)
(* all sessions, however many are on their way and however the client      *)
(* repeats itself.                                                         *)
RequestsOnce == ~replayed

(* The numbers of 16 bits do not mix messages up: the client never takes   *)
(* an old message for the one it is waiting for.                           *)
NoMixUp == [][got' # got => got' = got + 1]_seqVars

(* A reconnect resends what was lost with the connection: every routed     *)
(* message reaches the client, unless it, or one before it, has expired.   *)
(* Excepted is a client whose last reconnect was refused, one whose user   *)
(* was removed while it was away, and what a full channel refuses: it      *)
(* waits for the next reconnect, and nothing brings that about.            *)
EventuallyDelivered ==
    []<>(\/ ~there \/ csess \in denied \/ csess \in refused
         \/ \A n \in (got + 1)..sent : \E m \in (got + 1)..n : Expired(m))
===============================================================================
