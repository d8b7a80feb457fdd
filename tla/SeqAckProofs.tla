----------------------------- MODULE SeqAckProofs -----------------------------
(***************************************************************************)
(* Proofs about SeqAck, for any number of sessions, messages and requests, *)
(* any width of the numbers and any capacities.                            *)
(*                                                                         *)
(* QueueInv says that SendQueue holds the last messages routed, AcksInv    *)
(* that everything the client says is less than half of the numbers old,   *)
(* so that comparing numbers of 16 bits compares messages.  RequestInv is  *)
(* the same for the requests, of which many may be on their way on every   *)
(* session; LinkInv says how far what is on its way to the client can be   *)
(* behind what the client has.                                             *)
(***************************************************************************)
EXTENDS SeqAck, TLAPS, FiniteSetTheorems, WellFoundedInduction

Message == [n : Nat, at : Nat]
Routed == [n : Nat, sess : Nat]
ClientRequest == [cseq : Nat, got : Nat]

SeqTypeOK ==
    /\ load \in Loads /\ now \in Nat /\ sess \in Nat /\ sent \in Nat /\ ack \in Nat
    /\ sendQueue \in Seq(Message)
    /\ sentAt \in Seq(Nat) /\ Len(sentAt) = sent
    /\ routing \in Routed /\ tasks \in Seq(Routed)
    /\ linked \subseteq Sessions /\ wire \in [Sessions -> Seq(Nat)]
    /\ reconnect \in [pc : {"idle", "replace", "resend"}, sess : Nat, got : Nat]
    /\ csess \in Sessions /\ got \in Nat /\ requested \in Nat
    /\ uplink \in [Sessions -> Seq(ClientRequest)] /\ handled \in Nat

(* q holds the last messages of s, which were routed at a.                  *)
Queue(q, s, a) ==
    /\ q \in Seq(Message) /\ Len(q) <= s
    /\ \A i \in DOMAIN q : q[i].n = s - Len(q) + i /\ q[i].at = a[q[i].n]

QueueInv == Queue(sendQueue, sent, sentAt) /\ Len(sendQueue) <= Window

(* What the client has or has said is at most Window messages behind.       *)
AcksInv ==
    /\ got <= sent
    /\ \A g \in Acks : g \in Nat /\ g <= got /\ sent <= g + Window

(* A request on its way is at most Repeats before any other that was sent   *)
(* before it, on its session or an earlier one, and, where it may still be  *)
(* accepted, before the last one accepted.                                  *)
Sent(s) == \A i \in DOMAIN uplink[s] : uplink[s][i].cseq <= requested
InOrder(s) ==
    \A i, j \in DOMAIN uplink[s] : i < j => uplink[s][i].cseq <= uplink[s][j].cseq + Repeats
Before(s, t) ==
    \A i \in DOMAIN uplink[s], j \in DOMAIN uplink[t] : uplink[s][i].cseq <= uplink[t][j].cseq + Repeats
Ahead(s) == \A i \in DOMAIN uplink[s] : handled <= uplink[s][i].cseq + Repeats
RequestInv ==
    /\ \A s \in Sessions : Sent(s) /\ InOrder(s) /\ (s > csess => uplink[s] = << >>)
    /\ \A s, t \in Sessions : s < t => Before(s, t)
    /\ Ahead(csess) /\ (sess \in Sessions => Ahead(sess))
    /\ handled <= requested /\ ack = Number(handled)
    /\ RequestsOnce

(* Where messages for the client stand: in the order of routing with NetMgr *)
(* and, on its session, at most Window before what is ahead of them.        *)
OrderInv ==
    /\ \A i, j \in DOMAIN tasks : i < j => tasks[i].n < tasks[j].n
    /\ \A i \in DOMAIN tasks :
           tasks[i].n \in 1..sent /\ (routing # Nothing => tasks[i].n < routing.n)
    /\ routing # Nothing => routing.n \in 1..sent
    /\ \A s \in Sessions : \A i \in DOMAIN wire[s] : wire[s][i] \in 1..sent

(* Nothing is sent on a session before the user object has it.              *)
Earlier(s) == s <= csess /\ (reconnect.pc = "replace" => s < csess)
SessionInv ==
    /\ reconnect.pc # "idle" => reconnect.sess = csess
    /\ Earlier(sess) /\ Earlier(routing.sess)
    /\ \A i \in DOMAIN tasks : Earlier(tasks[i].sess)
    /\ \A s \in Sessions : s > csess => wire[s] = << >>

InReach(n) ==
    /\ got <= n + Window
    /\ \A i \in DOMAIN wire[csess] : wire[csess][i] <= n + Window
    /\ reconnect.pc = "resend" => reconnect.got < n
ReachInv ==
    /\ \A i, j \in DOMAIN wire[csess] : i < j => wire[csess][i] <= wire[csess][j] + Window
    /\ \A i \in DOMAIN wire[csess] : got <= wire[csess][i] + Window
    /\ \A i \in DOMAIN tasks : tasks[i].sess = csess => InReach(tasks[i].n)
    /\ routing.sess = csess => InReach(routing.n)

LinkInv == OrderInv /\ SessionInv /\ ReachInv
SeqInv == SeqTypeOK /\ QueueInv /\ AcksInv /\ NothingLost /\ RequestInv /\ LinkInv

-----------------------------------------------------------------------------
(* Numbers of 16 bits. *)

LEMMA Division ==
    ASSUME NEW a \in Nat, NEW m \in Nat \ {0}
    PROVE  a = (a \div m) * m + (a % m) /\ a \div m \in Nat /\ a % m \in 0..(m - 1)
OBVIOUS

LEMMA Sizes == /\ SeqMod \in Nat \ {0} /\ Half \in Nat \ {0} /\ SeqMod = 2 * Half
               /\ Window \in Nat /\ Window < Half /\ Repeats \in Nat /\ Repeats < Half
               /\ MaxSess \in Nat \ {0} /\ CacheTime \in Nat /\ WriteChan \in Nat
<1>1. SeqMod \in Nat /\ SeqMod % 2 = 0 /\ Window \in Nat /\ Window < SeqMod \div 2
  BY SeqAckAssumption DEF SeqAckAssumption, Half
<1>2. SeqMod = (SeqMod \div 2) * 2 + (SeqMod % 2)
  <2>1. 2 \in Nat \ {0}
    OBVIOUS
  <2>2. QED
    BY ONLY <1>1, <2>1, Division
<1>3. SeqMod \div 2 \in Nat
  BY <1>1
<1>4. QED
  BY <1>1, <1>2, <1>3, SeqAckAssumption DEF SeqAckAssumption, Half

(* The remainder is unique. *)
LEMMA RemainderOf ==
    ASSUME NEW x \in Nat, NEW q \in Nat, NEW m \in Nat \ {0}, NEW r \in 0..(m - 1), x = q * m + r
    PROVE  x % m = r
OBVIOUS

LEMMA RemainderStep ==
    ASSUME NEW a \in Nat, NEW d \in Nat, NEW m \in Nat \ {0}, d < m
    PROVE  (a + d) % m = IF (a % m) + d < m THEN (a % m) + d ELSE (a % m) + d - m
<1>1. PICK q \in Nat, r \in 0..(m - 1) : a = q * m + r /\ r = a % m
  BY Division
<1>2. CASE r + d < m
  <2>1. a + d = q * m + (r + d) /\ r + d \in 0..(m - 1)
    <3>1. q * m \in Nat
      OBVIOUS
    <3>2. QED
      BY <1>1, <1>2, <3>1
  <2>2. a + d \in Nat
    OBVIOUS
  <2>3. (a + d) % m = r + d
    BY ONLY <2>1, <2>2, RemainderOf, q \in Nat, m \in Nat \ {0}
  <2>4. QED
    BY <1>1, <1>2, <2>3
<1>3. CASE ~(r + d < m)
  <2>1. a + d = (q + 1) * m + (r + d - m) /\ r + d - m \in 0..(m - 1)
    <3>1. q * m \in Nat /\ (q + 1) * m = q * m + m
      OBVIOUS
    <3>2. QED
      BY <1>1, <1>3, <3>1
  <2>2. a + d \in Nat /\ q + 1 \in Nat
    OBVIOUS
  <2>3. (a + d) % m = r + d - m
    BY ONLY <2>1, <2>2, RemainderOf, m \in Nat \ {0}
  <2>4. QED
    BY <1>1, <1>3, <2>3
<1>4. QED
  BY <1>2, <1>3

LEMMA NumberType == \A n \in Nat : Number(n) \in Nat /\ Number(n) < SeqMod
BY Sizes DEF Number

(* IsSeqGreater: of two messages less than half of the numbers apart, the   *)
(* earlier one is not the greater one.                                      *)
LEMMA EarlierIsNotGreater ==
    ASSUME NEW g \in Nat, NEW n \in Nat, g <= n, n < g + Half
    PROVE  ~IsSeqGreater(Number(g), Number(n))
<1>1. PICK d \in Nat : n = g + d /\ d < Half
  BY Sizes
<1>2. PICK a \in Nat, b \in Nat : a = Number(g) /\ b = Number(n) /\ a < SeqMod /\ b < SeqMod
  BY NumberType
<1>3. b = IF a + d < SeqMod THEN a + d ELSE a + d - SeqMod
  <2>1. SeqMod \in Nat \ {0} /\ d < SeqMod
    BY <1>1, Sizes
  <2>2. (g + d) % SeqMod = IF (g % SeqMod) + d < SeqMod THEN (g % SeqMod) + d ELSE (g % SeqMod) + d - SeqMod
    BY ONLY <2>1, RemainderStep, g \in Nat, d \in Nat
  <2>3. QED
    BY ONLY <1>1, <1>2, <2>2 DEF Number
<1>4. ~IsSeqGreater(a, b)
  BY <1>1, <1>2, <1>3, Sizes DEF IsSeqGreater
<1>5. QED
  BY <1>2, <1>4

(* Messages less than half of the numbers apart that carry the same number  *)
(* are the same.                                                            *)
LEMMA SameNumber ==
    ASSUME NEW g \in Nat, NEW n \in Nat, g <= n, n <= g + Window + 1, Number(g) = Number(n)
    PROVE  g = n
<1>1. PICK d \in Nat : n = g + d /\ d <= Window + 1 /\ d < SeqMod
  BY Sizes
<1>2. PICK a \in Nat, b \in Nat : a = Number(g) /\ b = Number(n) /\ a < SeqMod /\ b < SeqMod
  BY NumberType
<1>3. b = IF a + d < SeqMod THEN a + d ELSE a + d - SeqMod
  <2>1. SeqMod \in Nat \ {0} /\ d < SeqMod
    BY <1>1, Sizes
  <2>2. (g + d) % SeqMod = IF (g % SeqMod) + d < SeqMod THEN (g % SeqMod) + d ELSE (g % SeqMod) + d - SeqMod
    BY ONLY <2>1, RemainderStep, g \in Nat, d \in Nat
  <2>3. QED
    BY ONLY <1>1, <1>2, <2>2 DEF Number
<1>4. QED
  BY <1>1, <1>2, <1>3, Sizes

(* The next session of a client that is not at its last.                    *)
LEMMA NextSession ==
    ASSUME SeqTypeOK, csess < load.sess
    PROVE  csess \in Nat /\ csess + 1 \in Nat /\ csess + 1 \in Sessions
<1>1. load \in [sent : Nat, requests : Nat, uplink : Nat, sess : 1..MaxSess, time : Nat]
  BY SeqAckAssumption DEF SeqAckAssumption, SeqTypeOK
<1>2. PICK n \in 1..MaxSess : n = load.sess
  BY <1>1
<1>3. csess \in Nat /\ csess >= 1 /\ csess < n
  BY <1>2, Sizes DEF SeqTypeOK, Sessions
<1>4. QED
  BY <1>3, Sizes DEF Sessions

(* What the client has said: in requests, and in a reconnect.                *)
LEMMA SaidAcks ==
    /\ \A s \in Sessions : Said(s) \subseteq Acks
    /\ reconnect.pc # "idle" => reconnect.got \in Acks
    /\ got \in Acks
<1>1. \A g : g \in Acks <=> g = got \/ g \in Reconnecting \/ \E s \in Sessions : g \in Said(s)
  BY DEF Acks
<1>2. reconnect.pc # "idle" => reconnect.got \in Reconnecting
  BY DEF Reconnecting
<1>3. QED
  BY <1>1, <1>2

LEMMA SaidOnly == \A g \in Acks : g = got \/ g \in Reconnecting \/ \E s \in Sessions : g \in Said(s)
BY DEF Acks

-----------------------------------------------------------------------------
(* Sequences and their parts. *)

(* A set of positions that holds every earlier one as well. *)
LEMMA Prefix ==
    ASSUME NEW n \in Nat, NEW goes
    PROVE  \E k \in 0..n : /\ {i \in 1..n : 1..i \subseteq goes} = 1..k
                           /\ Cardinality({i \in 1..n : 1..i \subseteq goes}) = k
<1> DEFINE D == {i \in 1..n : 1..i \subseteq goes}
<1> DEFINE T == {i \in 1..(n + 1) : i \notin D}
<1> DEFINE R == OpToRel(<, Nat)
<1>1. T \subseteq Nat /\ T # {}
  <2>1. n + 1 \in T /\ \A k \in 1..(n + 1) : k \in Nat
    OBVIOUS
  <2>2. QED
    BY <2>1
<1>2. IsWellFoundedOn(R, Nat)
  BY NatLessThanWellFounded
<1>3. PICK s \in T : \A j \in T : <<j, s>> \notin R
  <2> HIDE DEF T, R
  <2>1. QED
    BY <1>1, <1>2, WFMin
<1>4. \A j \in T : ~(j < s)
  BY <1>1, <1>3 DEF OpToRel
<1>5. s \in 1..(n + 1) /\ s \notin D
  OBVIOUS
<1>6. ASSUME NEW i \in 1..(s - 1) PROVE i \in D
  <2>1. i \in 1..(n + 1) /\ i < s
    BY <1>5
  <2>2. QED
    BY <1>4, <2>1
<1>7. ASSUME NEW i \in D PROVE i \in 1..(s - 1)
  <2>1. i \in 1..n /\ 1..i \subseteq goes
    OBVIOUS
  <2>2. ASSUME s <= i PROVE FALSE
    <3>1. s \in 1..n /\ 1..s \subseteq goes
      BY <1>5, <2>1, <2>2
    <3>2. QED
      BY <1>5, <3>1
  <2>3. QED
    BY <1>5, <2>1, <2>2
<1>8. D = 1..(s - 1)
  BY <1>6, <1>7
<1>9. Cardinality(1..(s - 1)) = s - 1
  <2>1. s - 1 \in Nat
    BY <1>5
  <2>2. Cardinality(1..(s - 1)) = IF 1 > s - 1 THEN 0 ELSE (s - 1) - 1 + 1
    BY <2>1, FS_Interval
  <2>3. QED
    BY <2>1, <2>2
<1>10. s - 1 \in 0..n
  BY <1>5
<1>11. QED
  BY <1>8, <1>9, <1>10

(* What a trim of the queue keeps, and why the others went. *)
LEMMA Trimmed ==
    ASSUME NEW q \in Seq(Message), NEW goes
    PROVE  \E k \in 0..Len(q) :
             /\ DropWhile(q, goes) \in Seq(Message)
             /\ Len(DropWhile(q, goes)) = Len(q) - k
             /\ \A i \in 1..(Len(q) - k) : DropWhile(q, goes)[i] = q[i + k]
             /\ \A i \in 1..k : i \in goes
<1>1. PICK k \in 0..Len(q) : /\ {i \in 1..Len(q) : 1..i \subseteq goes} = 1..k
                             /\ Cardinality({i \in 1..Len(q) : 1..i \subseteq goes}) = k
  <2>1. Len(q) \in Nat
    OBVIOUS
  <2>2. QED
    BY <2>1, Prefix
<1>2. DropWhile(q, goes) = SubSeq(q, 1 + k, Len(q))
  BY <1>1 DEF DropWhile
<1>3. \A i \in 1..k : i \in goes
  BY <1>1
<1>4. /\ SubSeq(q, 1 + k, Len(q)) \in Seq(Message)
      /\ Len(SubSeq(q, 1 + k, Len(q))) = Len(q) - k
      /\ \A i \in 1..(Len(q) - k) : SubSeq(q, 1 + k, Len(q))[i] = q[i + k]
  OBVIOUS
<1>5. QED
  BY <1>2, <1>3, <1>4

LEMMA Fits ==
    ASSUME NEW q \in Seq(Nat)
    PROVE  /\ Fitting(q) \in Seq(Nat) /\ Len(Fitting(q)) <= Len(q)
           /\ \A i \in 1..Len(Fitting(q)) : Fitting(q)[i] = q[i]
<1>1. PICK k \in Nat : k <= Len(q) /\ Fitting(q) = SubSeq(q, 1, k)
  BY Sizes DEF Fitting
<1>2. SubSeq(q, 1, k) \in Seq(Nat) /\ Len(SubSeq(q, 1, k)) = k
      /\ \A i \in 1..k : SubSeq(q, 1, k)[i] = q[i]
  BY <1>1
<1>3. QED
  BY <1>1, <1>2

(* What a session has to read after numbers were sent on it: part of both,  *)
(* in their order.                                                          *)
LEMMA Written ==
    ASSUME SeqTypeOK, NEW s, NEW ns \in Seq(Nat), Write(s, ns)
    PROVE  /\ wire' \in [Sessions -> Seq(Nat)]
           /\ \A t \in Sessions : t # s => wire'[t] = wire[t]
           /\ s \in Sessions =>
                 /\ Len(wire'[s]) <= Len(wire[s]) + Len(ns)
                 /\ \A i \in 1..Len(wire'[s]) :
                       wire'[s][i] = IF i <= Len(wire[s]) THEN wire[s][i] ELSE ns[i - Len(wire[s])]
<1>1. wire \in [Sessions -> Seq(Nat)] /\ linked \subseteq Sessions
  BY DEF SeqTypeOK
<1>2. CASE s \in linked
  <2>1. PICK w \in Seq(Nat) : w = wire[s]
    BY <1>1, <1>2
  <2>2. wire' = [wire EXCEPT ![s] = Fitting(w \o ns)]
    BY <1>2, <2>1 DEF Write
  <2>3. /\ w \o ns \in Seq(Nat) /\ Len(w \o ns) = Len(w) + Len(ns)
        /\ \A i \in 1..(Len(w) + Len(ns)) : (w \o ns)[i] = IF i <= Len(w) THEN w[i] ELSE ns[i - Len(w)]
    OBVIOUS
  <2>4. PICK f \in Seq(Nat) : /\ f = Fitting(w \o ns) /\ Len(f) <= Len(w) + Len(ns)
                              /\ \A i \in 1..Len(f) : f[i] = (w \o ns)[i]
    BY <2>3, Fits
  <2>5. \A i \in 1..Len(f) : f[i] = IF i <= Len(w) THEN w[i] ELSE ns[i - Len(w)]
    <3>1. Len(w) \in Nat /\ Len(ns) \in Nat /\ Len(f) \in Nat
      OBVIOUS
    <3>2. \A i \in 1..Len(f) : i \in 1..(Len(w) + Len(ns))
      BY <2>4, <3>1
    <3>3. QED
      BY <2>3, <2>4, <3>2
  <2>6. wire' \in [Sessions -> Seq(Nat)] /\ wire'[s] = f /\ \A t \in Sessions : t # s => wire'[t] = wire[t]
    BY <1>1, <1>2, <2>2, <2>4
  <2>7. QED
    BY <2>1, <2>4, <2>5, <2>6
<1>3. CASE s \notin linked
  <2>1. wire' = wire
    BY <1>3 DEF Write
  <2>2. ASSUME s \in Sessions
        PROVE  /\ Len(wire[s]) <= Len(wire[s]) + Len(ns)
               /\ \A i \in 1..Len(wire[s]) :
                       wire[s][i] = IF i <= Len(wire[s]) THEN wire[s][i] ELSE ns[i - Len(wire[s])]
    <3>1. Len(wire[s]) \in Nat /\ Len(ns) \in Nat
      BY <1>1, <2>2
    <3>2. QED
      BY <3>1
  <2>3. QED
    BY <1>1, <2>1, <2>2
<1>4. QED
  BY <1>2, <1>3

(* The k-th smallest of a set of numbers. *)
LEMMA Ranked ==
    ASSUME NEW n \in Nat, NEW S \in SUBSET (1..n), NEW k \in 1..Cardinality(S)
    PROVE  \E i \in S : Cardinality({j \in S : j <= i}) = k
<1> DEFINE B(i) == {j \in S : j <= i}
<1> DEFINE C(i) == Cardinality(B(i))
<1> DEFINE T == {i \in 0..n : k <= C(i)}
<1> DEFINE R == OpToRel(<, Nat)
<1>0. \A j \in S : j \in 1..n
  OBVIOUS
<1>1. IsFiniteSet(S) /\ Cardinality(S) \in Nat
  <2>1. IsFiniteSet(1..n)
    BY FS_Interval
  <2>2. QED
    BY <2>1, FS_Subset, FS_CardinalityType
<1>2. \A i \in 0..n : IsFiniteSet(B(i)) /\ C(i) \in Nat
  BY <1>1, FS_Subset, FS_CardinalityType
<1>3. T \subseteq Nat /\ T # {}
  <2>1. B(n) = S
    <3>1. \A j \in S : j <= n
      BY <1>0
    <3>2. QED
      BY <3>1
  <2>2. n \in T
    BY <2>1
  <2>3. QED
    BY <2>2
<1>4. IsWellFoundedOn(R, Nat)
  BY NatLessThanWellFounded
<1>5. PICK s \in T : \A j \in T : <<j, s>> \notin R
  <2> HIDE DEF T, R
  <2>1. QED
    BY <1>3, <1>4, WFMin
<1>6. \A j \in T : ~(j < s)
  BY <1>3, <1>5 DEF OpToRel
<1>7. s \in 0..n /\ k <= C(s)
  OBVIOUS
<1>8. s # 0
  <2>1. B(0) = {}
    <3>1. \A j \in S : ~(j <= 0)
      BY <1>0
    <3>2. QED
      BY <3>1
  <2>2. Cardinality({}) = 0
    BY FS_EmptySet
  <2>3. C(0) = 0
    BY <2>1, <2>2
  <2>4. QED
    BY <1>7, <2>3
<1>9. s - 1 \in 0..n /\ ~(k <= C(s - 1))
  <2>1. s - 1 \in 0..n /\ s - 1 < s
    BY <1>7, <1>8
  <2>2. s - 1 \notin T
    BY <1>6, <2>1
  <2>3. QED
    BY <2>1, <2>2
<1>10. CASE s \in S
  <2>1. B(s) = B(s - 1) \cup {s} /\ s \notin B(s - 1)
    <3>1. \A j \in S : (j <= s <=> j <= s - 1 \/ j = s) /\ ~(s <= s - 1)
      BY <1>0, <1>7
    <3>2. QED
      BY <1>10, <3>1
  <2>2. C(s) = C(s - 1) + 1
    BY <1>2, <1>9, <2>1, FS_AddElement
  <2>3. C(s) = k
    <3>1. PICK x \in Nat, y \in Nat : x = C(s - 1) /\ y = C(s)
      BY <1>2, <1>7, <1>9
    <3>2. y = x + 1 /\ k <= y /\ ~(k <= x)
      BY <1>7, <1>9, <2>2, <3>1
    <3>3. k \in Nat
      BY <1>1
    <3>4. y = k
      BY ONLY <3>2, <3>3, x \in Nat, y \in Nat
    <3>5. QED
      BY <3>1, <3>4
  <2>4. QED
    BY <1>10, <2>3
<1>11. CASE s \notin S
  <2>1. B(s) = B(s - 1)
    <3>1. \A j \in S : j # s /\ (j <= s <=> j <= s - 1 \/ j = s)
      BY <1>0, <1>7, <1>11
    <3>2. QED
      BY <3>1
  <2>2. QED
    BY <1>7, <1>9, <2>1
<1>12. QED
  BY <1>10, <1>11

(* What is sent again are messages of SendQueue. *)
LEMMA ResentParts ==
    ASSUME NEW q \in Seq(Message), NEW a
    PROVE  /\ Resent(q, a) \in Seq(Message)
           /\ \A k \in DOMAIN Resent(q, a) : \E i \in DOMAIN q : Resent(q, a)[k] = q[i]
<1> DEFINE S == {i \in DOMAIN q : IsSeqGreater(Number(q[i].n), a)}
<1> DEFINE nth(k) == CHOOSE i \in S : Cardinality({j \in S : j <= i}) = k
<1>1. S \in SUBSET (1..Len(q)) /\ Len(q) \in Nat
  OBVIOUS
<1>2. Cardinality(S) \in Nat
  <2>1. IsFiniteSet(1..Len(q))
    BY <1>1, FS_Interval
  <2>2. QED
    BY <1>1, <2>1, FS_Subset, FS_CardinalityType
<1>3. Resent(q, a) = [k \in 1..Cardinality(S) |-> q[nth(k)]]
  BY DEF Resent
<1> HIDE DEF S
<1>4. \A k \in 1..Cardinality(S) : nth(k) \in S
  <2> SUFFICES ASSUME NEW k \in 1..Cardinality(S) PROVE nth(k) \in S
    OBVIOUS
  <2>1. \E i \in S : Cardinality({j \in S : j <= i}) = k
    BY ONLY <1>1, Ranked, k \in 1..Cardinality(S)
  <2>2. QED
    BY <2>1
<1> HIDE DEF nth
<1>5. \A k \in 1..Cardinality(S) : q[nth(k)] \in Message /\ nth(k) \in DOMAIN q
  <2>1. \A i \in S : i \in DOMAIN q /\ q[i] \in Message
    BY <1>1
  <2>2. QED
    BY <1>4, <2>1
<1>6. QED
  BY <1>2, <1>3, <1>5

(* The two trims of SendQueue. *)
LEMMA ExpireParts ==
    ASSUME NEW q \in Seq(Message)
    PROVE  \E k \in 0..Len(q) :
             /\ Expire(q) \in Seq(Message) /\ Len(Expire(q)) = Len(q) - k
             /\ \A i \in 1..(Len(q) - k) : Expire(q)[i] = q[i + k]
             /\ \A i \in 1..k : TooOld(q[i])
<1> DEFINE goes == {i \in 1..Len(q) : TooOld(q[i])}
<1>1. Expire(q) = DropWhile(q, goes)
  BY DEF Expire
<1>2. \A i \in goes : TooOld(q[i])
  OBVIOUS
<1> HIDE DEF goes
<1>3. PICK k \in 0..Len(q) :
             /\ DropWhile(q, goes) \in Seq(Message)
             /\ Len(DropWhile(q, goes)) = Len(q) - k
             /\ \A i \in 1..(Len(q) - k) : DropWhile(q, goes)[i] = q[i + k]
             /\ \A i \in 1..k : i \in goes
  BY ONLY q \in Seq(Message), Trimmed
<1>4. QED
  BY <1>1, <1>2, <1>3

LEMMA AcknowledgedParts ==
    ASSUME NEW q \in Seq(Message), NEW a
    PROVE  \E k \in 0..Len(q) :
             /\ Acknowledged(q, a) \in Seq(Message) /\ Len(Acknowledged(q, a)) = Len(q) - k
             /\ \A i \in 1..(Len(q) - k) : Acknowledged(q, a)[i] = q[i + k]
             /\ \A i \in 1..k : IsSeqGreater(a, Number(q[i].n)) \/ TooOld(q[i])
<1> DEFINE goes == {i \in 1..Len(q) : IsSeqGreater(a, Number(q[i].n)) \/ TooOld(q[i])}
<1>1. Acknowledged(q, a) = DropWhile(q, goes)
  BY DEF Acknowledged
<1>2. \A i \in goes : IsSeqGreater(a, Number(q[i].n)) \/ TooOld(q[i])
  OBVIOUS
<1> HIDE DEF goes
<1>3. PICK k \in 0..Len(q) :
             /\ DropWhile(q, goes) \in Seq(Message)
             /\ Len(DropWhile(q, goes)) = Len(q) - k
             /\ \A i \in 1..(Len(q) - k) : DropWhile(q, goes)[i] = q[i + k]
             /\ \A i \in 1..k : i \in goes
  BY ONLY q \in Seq(Message), Trimmed
<1>4. QED
  BY <1>1, <1>2, <1>3

-----------------------------------------------------------------------------
(* The user object. *)

LEMMA InQueue ==
    ASSUME NEW s \in Nat, NEW a, NEW q, Queue(q, s, a)
    PROVE  /\ \A i \in DOMAIN q : q[i].n \in (s - Len(q) + 1)..s
           /\ \A n \in (s - Len(q) + 1)..s : \E i \in DOMAIN q : q[i].n = n
<1>1. Len(q) \in Nat /\ DOMAIN q = 1..Len(q)
  BY DEF Queue
<1>2. \A i \in DOMAIN q : q[i].n \in (s - Len(q) + 1)..s
  BY <1>1 DEF Queue
<1>3. ASSUME NEW n \in (s - Len(q) + 1)..s PROVE \E i \in DOMAIN q : q[i].n = n
  <2>1. n - (s - Len(q)) \in DOMAIN q
    BY <1>1
  <2>2. q[n - (s - Len(q))].n = s - Len(q) + (n - (s - Len(q)))
    BY <2>1 DEF Queue
  <2>3. s - Len(q) + (n - (s - Len(q))) = n
    BY <1>1
  <2>4. QED
    BY <2>1, <2>2, <2>3
<1>4. QED
  BY <1>2, <1>3

(* A trim leaves the last messages, in order. *)
LEMMA QueueTrimmed ==
    ASSUME NEW s \in Nat, NEW a, NEW q, Queue(q, s, a), NEW k \in 0..Len(q),
           NEW r \in Seq(Message), Len(r) = Len(q) - k,
           \A i \in 1..(Len(q) - k) : r[i] = q[i + k]
    PROVE  Queue(r, s, a)
<1>1. Len(q) \in Nat /\ DOMAIN q = 1..Len(q) /\ DOMAIN r = 1..Len(r) /\ Len(r) \in Nat /\ k \in Nat
  BY DEF Queue
<1>2. ASSUME NEW i \in DOMAIN r PROVE r[i].n = s - Len(r) + i /\ r[i].at = a[r[i].n]
  <2>1. i + k \in DOMAIN q /\ r[i] = q[i + k]
    BY <1>1
  <2>2. q[i + k].n = s - Len(q) + (i + k) /\ q[i + k].at = a[q[i + k].n]
    BY <2>1 DEF Queue
  <2>3. s - Len(q) + (i + k) = s - Len(r) + i
    BY <1>1
  <2>4. QED
    BY <2>1, <2>2, <2>3
<1>3. Len(r) <= s
  BY <1>1 DEF Queue
<1>4. QED
  BY <1>2, <1>3 DEF Queue

LEMMA QueueAppended ==
    ASSUME NEW s \in Nat, NEW a \in Seq(Nat), Len(a) = s, NEW q, Queue(q, s, a), NEW t \in Nat
    PROVE  Queue(Append(q, [n |-> s + 1, at |-> t]), s + 1, Append(a, t))
<1>1. q \in Seq(Message) /\ Len(q) \in Nat /\ DOMAIN q = 1..Len(q) /\ Len(q) <= s
  BY DEF Queue
<1>2. PICK m \in Message : m = [n |-> s + 1, at |-> t]
  <2>1. s + 1 \in Nat
    OBVIOUS
  <2>2. [n |-> s + 1, at |-> t] \in Message
    BY <2>1 DEF Message
  <2>3. QED
    BY <2>2
<1>3. PICK r \in Seq(Message) : r = Append(q, m) /\ Len(r) = Len(q) + 1 /\ r[Len(q) + 1] = m
                                /\ \A i \in 1..Len(q) : r[i] = q[i]
  <2>1. /\ Append(q, m) \in Seq(Message) /\ Len(Append(q, m)) = Len(q) + 1
        /\ Append(q, m)[Len(q) + 1] = m /\ \A i \in 1..Len(q) : Append(q, m)[i] = q[i]
    BY <1>1
  <2>2. QED
    BY <2>1
<1>4. PICK b \in Seq(Nat) : b = Append(a, t) /\ b[s + 1] = t /\ \A i \in 1..s : b[i] = a[i]
  <2>1. Append(a, t) \in Seq(Nat) /\ Append(a, t)[s + 1] = t /\ \A i \in 1..s : Append(a, t)[i] = a[i]
    OBVIOUS
  <2>2. QED
    BY <2>1
<1>5. ASSUME NEW i \in DOMAIN r PROVE r[i].n = (s + 1) - Len(r) + i /\ r[i].at = b[r[i].n]
  <2>1. CASE i \in 1..Len(q)
    <3>1. q[i].n = s - Len(q) + i /\ q[i].at = a[q[i].n] /\ r[i] = q[i]
      BY <1>1, <1>3, <2>1 DEF Queue
    <3>2. s - Len(q) + i \in 1..s /\ s - Len(q) + i = (s + 1) - Len(r) + i
      BY <1>1, <1>3, <2>1
    <3>3. QED
      BY <1>4, <3>1, <3>2
  <2>2. CASE i = Len(q) + 1
    <3>1. r[i].n = s + 1 /\ r[i].at = t
      BY <1>2, <1>3, <2>2
    <3>2. (s + 1) - Len(r) + i = s + 1
      BY <1>1, <1>3, <2>2
    <3>3. QED
      BY <1>4, <3>1, <3>2
  <2>3. i \in 1..Len(q) \/ i = Len(q) + 1
    BY <1>1, <1>3
  <2>4. QED
    BY <2>1, <2>2, <2>3
<1>6. Queue(r, s + 1, b)
  BY <1>1, <1>3, <1>5 DEF Queue
<1>7. QED
  BY <1>2, <1>3, <1>4, <1>6

(* A message of a queue that was trimmed is left, or was among those that went. *)
LEMMA StaysOrGoes ==
    ASSUME NEW q \in Seq(Message), NEW k \in 0..Len(q),
           NEW r \in Seq(Message), Len(r) = Len(q) - k,
           \A i \in 1..(Len(q) - k) : r[i] = q[i + k]
    PROVE  \A j \in DOMAIN q : j \in 1..k \/ \E i \in DOMAIN r : r[i] = q[j]
<1> SUFFICES ASSUME NEW j \in DOMAIN q, j \notin 1..k PROVE \E i \in DOMAIN r : r[i] = q[j]
  OBVIOUS
<1>1. j - k \in 1..(Len(q) - k) /\ (j - k) + k = j
  OBVIOUS
<1>2. j - k \in DOMAIN r
  BY <1>1
<1>3. QED
  BY <1>1, <1>2

LEMMA QueueFacts ==
    ASSUME SeqTypeOK, QueueInv
    PROVE  /\ Queue(sendQueue, sent, sentAt) /\ sendQueue \in Seq(Message)
           /\ \A n \in 1..sent : n \in Queued <=> \E i \in DOMAIN sendQueue : sendQueue[i].n = n
BY DEF SeqTypeOK, QueueInv, Queued

LEMMA RouteUser ==
    ASSUME SeqTypeOK, QueueInv, NothingLost, Route
    PROVE  /\ sendQueue' \in Seq(Message) /\ sentAt' \in Seq(Nat) /\ Len(sentAt') = sent'
           /\ QueueInv' /\ NothingLost'
<1>1. /\ now \in Nat /\ sent \in Nat /\ got \in Nat /\ sentAt \in Seq(Nat) /\ Len(sentAt) = sent
      /\ sendQueue \in Seq(Message) /\ Window \in Nat /\ CacheTime \in Nat
  BY Sizes DEF SeqTypeOK
<1>2. sent' = sent + 1 /\ sentAt' = Append(sentAt, now) /\ now' = now /\ got' = got
      /\ Len(sendQueue) < Window /\ there
  BY DEF Route, clientVars
<1>3. sendQueue' = Expire(Append(sendQueue, [n |-> sent + 1, at |-> now]))
  BY <1>2 DEF Route
<1>4. PICK q : q = Append(sendQueue, [n |-> sent + 1, at |-> now])
  OBVIOUS
<1>5. Queue(q, sent', sentAt')
  BY <1>1, <1>2, <1>4, QueueAppended DEF QueueInv
<1>6. q \in Seq(Message) /\ Len(q) = Len(sendQueue) + 1 /\ \A i \in DOMAIN sendQueue : q[i] = sendQueue[i]
  <2>1. q \in Seq(Message)
    BY <1>5 DEF Queue
  <2>2. QED
    BY <1>1, <1>4, <2>1
<1>7. PICK k \in 0..Len(q) :
             /\ Expire(q) \in Seq(Message) /\ Len(Expire(q)) = Len(q) - k
             /\ \A i \in 1..(Len(q) - k) : Expire(q)[i] = q[i + k]
             /\ \A i \in 1..k : TooOld(q[i])
  BY <1>6, ExpireParts
<1>8. PICK r \in Seq(Message) : /\ r = sendQueue' /\ Len(r) = Len(q) - k
                                /\ \A i \in 1..(Len(q) - k) : r[i] = q[i + k]
  BY <1>3, <1>4, <1>7
<1>9. sent' \in Nat /\ sentAt' \in Seq(Nat) /\ Len(sentAt') = sent' /\ sentAt'[sent + 1] = now
      /\ \A n \in 1..sent : sentAt'[n] = sentAt[n]
  BY <1>1, <1>2
<1>10. Queue(r, sent', sentAt')
  BY ONLY <1>5, <1>8, <1>9, QueueTrimmed, k \in 0..Len(q)
<1>11. QueueInv'
  <2>1. Len(r) <= Window
    BY <1>1, <1>2, <1>6, <1>8
  <2>2. QED
    BY <1>8, <1>10, <2>1 DEF QueueInv
<1>12. ASSUME NEW n \in (got + 1)..(sent + 1) PROVE n \in Queued' \/ Expired(n)'
  <2>1. n \in 1..(sent + 1) /\ sent' = sent + 1
    BY <1>1, <1>2
  <2>2. CASE \E j \in DOMAIN q : q[j].n = n
    <3>1. PICK j \in DOMAIN q : q[j].n = n
      BY <2>2
    <3>2. CASE \E i \in DOMAIN r : r[i] = q[j]
      BY <1>8, <3>1, <3>2 DEF Queued
    <3>3. CASE j \in 1..k
      <4>1. q[j].at + CacheTime < now /\ q[j].at = sentAt'[n]
        BY <1>5, <1>7, <3>1, <3>3 DEF TooOld, Queue
      <4>2. QED
        BY <1>1, <1>2, <2>1, <4>1 DEF Expired
    <3>4. QED
      <4>1. j \in 1..k \/ \E i \in DOMAIN r : r[i] = q[j]
        <5>1. q \in Seq(Message) /\ k \in 0..Len(q) /\ r \in Seq(Message) /\ Len(r) = Len(q) - k
          BY <1>6, <1>8
        <5>2. \A i \in 1..(Len(q) - k) : r[i] = q[i + k]
          BY <1>8
        <5>3. \A i \in DOMAIN q : i \in 1..k \/ \E x \in DOMAIN r : r[x] = q[i]
          BY ONLY <5>1, <5>2, StaysOrGoes
        <5>4. QED
          BY <5>3
      <4>2. QED
        BY <3>2, <3>3, <4>1
  <2>3. CASE n = sent + 1
    <3>1. Len(q) \in 1..sent' /\ n \in (sent' - Len(q) + 1)..sent'
      BY <1>1, <1>2, <1>5, <1>6, <2>3 DEF Queue
    <3>2. \E j \in DOMAIN q : q[j].n = n
      <4>1. PICK x, a : x = sent' /\ a = sentAt'
        OBVIOUS
      <4>2. x \in Nat /\ Queue(q, x, a) /\ n \in (x - Len(q) + 1)..x
        BY <1>5, <1>9, <3>1, <4>1
      <4>3. \A m \in (x - Len(q) + 1)..x : \E i \in DOMAIN q : q[i].n = m
        BY ONLY <4>2, InQueue
      <4>4. QED
        BY <4>2, <4>3
    <3>3. QED
      BY <2>2, <3>2
  <2>4. CASE n \in (got + 1)..sent
    <3>1. n \in Queued \/ Expired(n)
      BY <1>2, <2>4 DEF NothingLost
    <3>2. CASE n \in Queued
      <4>1. PICK i \in DOMAIN sendQueue : sendQueue[i].n = n
        BY <3>2 DEF Queued
      <4>2. i \in DOMAIN q /\ q[i].n = n
        BY <1>1, <1>6, <4>1
      <4>3. QED
        BY <2>2, <4>2
    <3>3. CASE Expired(n)
      <4>1. n \in 1..sent
        BY <1>1, <2>4
      <4>2. sentAt'[n] = sentAt[n] /\ n <= sent'
        BY <1>9, <2>1, <4>1
      <4>3. QED
        BY <1>2, <3>3, <4>2 DEF Expired
    <3>4. QED
      BY <3>1, <3>2, <3>3
  <2>5. QED
    BY <1>1, <2>3, <2>4
<1>13. NothingLost'
  BY <1>2, <1>12 DEF NothingLost
<1>14. QED
  BY <1>8, <1>9, <1>11, <1>13

(* An acknowledgement that is not too old takes only what the client has.   *)
LEMMA ClientRouteUser ==
    ASSUME SeqTypeOK, QueueInv, AcksInv, NothingLost, NEW s \in Sessions, ClientRoute(s)
    PROVE  sendQueue' \in Seq(Message) /\ QueueInv' /\ NothingLost'
<1>1. /\ now \in Nat /\ sent \in Nat /\ got \in Nat /\ sentAt \in Seq(Nat)
      /\ sendQueue \in Seq(Message) /\ Window \in Nat /\ CacheTime \in Nat
      /\ uplink \in [Sessions -> Seq(ClientRequest)] /\ uplink[s] \in Seq(ClientRequest) /\ uplink[s] # << >>
  BY Sizes DEF SeqTypeOK, ClientRoute
<1>2. now' = now /\ got' = got /\ sent' = sent /\ sentAt' = sentAt /\ there' = there
  BY DEF ClientRoute
<1>3. CASE sendQueue' = sendQueue
  BY <1>1, <1>2, <1>3 DEF QueueInv, NothingLost, Queued, Expired
<1>4. CASE sendQueue' = Acknowledged(sendQueue, AckOf(Head(uplink[s])))
  <2>1. PICK g : g = Head(uplink[s]).got
    OBVIOUS
  <2>2. 1 \in DOMAIN uplink[s] /\ Head(uplink[s]) = uplink[s][1]
    BY <1>1
  <2>3. g \in Acks
    <3>1. g \in Said(s)
      BY <2>1, <2>2 DEF Said
    <3>2. QED
      BY <3>1, SaidAcks
  <2>4. g \in Nat /\ g <= got /\ sent <= g + Window
    BY <2>3 DEF AcksInv
  <2>5. PICK k \in 0..Len(sendQueue) :
           /\ Acknowledged(sendQueue, Number(g)) \in Seq(Message)
           /\ Len(Acknowledged(sendQueue, Number(g))) = Len(sendQueue) - k
           /\ \A i \in 1..(Len(sendQueue) - k) :
                  Acknowledged(sendQueue, Number(g))[i] = sendQueue[i + k]
           /\ \A i \in 1..k : IsSeqGreater(Number(g), Number(sendQueue[i].n)) \/ TooOld(sendQueue[i])
    BY <1>1, AcknowledgedParts
  <2>6. PICK r \in Seq(Message) : /\ r = sendQueue' /\ Len(r) = Len(sendQueue) - k
                                  /\ \A i \in 1..(Len(sendQueue) - k) : r[i] = sendQueue[i + k]
    BY <1>4, <2>1, <2>5 DEF AckOf
  <2>7. Queue(sendQueue, sent, sentAt) /\ Len(sendQueue) <= Window
    BY DEF QueueInv
  <2>8. Queue(r, sent, sentAt)
    BY ONLY <1>1, <2>6, <2>7, QueueTrimmed, k \in 0..Len(sendQueue)
  <2>9. QueueInv'
    <3>1. Len(r) <= Window
      BY <1>1, <2>6, <2>7
    <3>2. QED
      BY <1>2, <2>6, <2>8, <3>1 DEF QueueInv
  <2>10. ASSUME there, NEW n \in (got + 1)..sent PROVE n \in Queued' \/ Expired(n)'
    <3>1. n \in Queued \/ Expired(n)
      BY <2>10 DEF NothingLost
    <3>2. CASE Expired(n)
      BY <1>2, <3>2 DEF Expired
    <3>3. CASE n \in Queued
      <4>1. PICK j \in DOMAIN sendQueue : sendQueue[j].n = n
        BY <3>3 DEF Queued
      <4>2. CASE \E i \in DOMAIN r : r[i] = sendQueue[j]
        BY <2>6, <4>1, <4>2 DEF Queued
      <4>3. CASE j \in 1..k
        <5>1. n \in Nat /\ g <= n /\ n < g + Half
          BY <1>1, <2>4, Sizes
        <5>2. ~IsSeqGreater(Number(g), Number(n))
          BY ONLY <2>4, <5>1, EarlierIsNotGreater
        <5>3. TooOld(sendQueue[j])
          BY <2>5, <4>1, <4>3, <5>2
        <5>4. sendQueue[j].at = sentAt[n] /\ sendQueue[j].at + CacheTime < now
          BY <2>7, <4>1, <5>3 DEF Queue, TooOld
        <5>5. QED
          BY <1>1, <1>2, <5>4 DEF Expired
      <4>4. j \in 1..k \/ \E i \in DOMAIN r : r[i] = sendQueue[j]
        <5>1. sendQueue \in Seq(Message) /\ Len(r) = Len(sendQueue) - k
          BY <1>1, <2>6
        <5>2. \A i \in 1..(Len(sendQueue) - k) : r[i] = sendQueue[i + k]
          BY <2>6
        <5>3. \A i \in DOMAIN sendQueue : i \in 1..k \/ \E x \in DOMAIN r : r[x] = sendQueue[i]
          BY ONLY <5>1, <5>2, k \in 0..Len(sendQueue), r \in Seq(Message), StaysOrGoes
        <5>4. QED
          BY <5>3
      <4>5. QED
        BY <4>2, <4>3, <4>4
    <3>4. QED
      BY <3>1, <3>2, <3>3
  <2>11. NothingLost'
    BY <1>2, <2>10 DEF NothingLost
  <2>12. QED
    BY <2>6, <2>9, <2>11
<1>5. QED
  BY <1>3, <1>4 DEF ClientRoute

(* A step that leaves SendQueue alone, and a user that is gone is gone.     *)
LEMMA UserKept ==
    ASSUME SeqTypeOK, QueueInv, NothingLost, UNCHANGED <<sent, sendQueue, sentAt>>, there' => there,
           now' \in Nat, now <= now', got' \in Nat, got <= got'
    PROVE  QueueInv' /\ NothingLost'
<1>1. QueueInv'
  BY DEF QueueInv, Queue
<1>2. /\ now \in Nat /\ sent \in Nat /\ got \in Nat /\ sentAt \in Seq(Nat) /\ Len(sentAt) = sent
      /\ CacheTime \in Nat
  BY Sizes DEF SeqTypeOK
<1>0. PICK g \in Nat : g = got' /\ got <= g
  OBVIOUS
<1>3. ASSUME there, NEW n \in (g + 1)..sent PROVE n \in Queued' \/ Expired(n)'
  <2>1. n \in (got + 1)..sent /\ n \in 1..sent
    <3>1. got \in Nat /\ sent \in Nat /\ got <= g
      BY <1>0, <1>2
    <3>2. QED
      BY ONLY <3>1, g \in Nat, n \in (g + 1)..sent
  <2>2. n \in Queued \/ Expired(n)
    BY <1>3, <2>1 DEF NothingLost
  <2>3. sentAt[n] \in Nat
    BY <1>2, <2>1
  <2>4. Expired(n) => Expired(n)'
    BY <1>2, <2>3 DEF Expired
  <2>5. QED
    BY <2>2, <2>4 DEF Queued
<1>4. NothingLost'
  BY <1>0, <1>3 DEF NothingLost
<1>5. QED
  BY <1>1, <1>4

(* The user goes with its queue, or both stay.                              *)
LEMMA DelOfflineUser ==
    ASSUME SeqTypeOK, QueueInv, NothingLost, NEW t, DelOffline(t)
    PROVE  sendQueue' \in Seq(Message) /\ QueueInv' /\ NothingLost'
<1>1. /\ there' = (there /\ sess # 0) /\ sendQueue' = IF there' THEN sendQueue ELSE << >>
      /\ UNCHANGED <<now, sent, sentAt, got>>
  BY DEF DelOffline, clientVars
<1>2. /\ sendQueue \in Seq(Message) /\ sent \in Nat /\ now \in Nat /\ got \in Nat
      /\ Window \in Nat
  BY Sizes DEF SeqTypeOK
<1>3. CASE there /\ sess # 0
  <2>1. there' /\ there
    BY <1>1, <1>3
  <2>2. sendQueue' = sendQueue /\ sent' = sent /\ sentAt' = sentAt
    BY <1>1, <2>1
  <2>3. now' \in Nat /\ now <= now' /\ got' \in Nat /\ got <= got'
    BY <1>1, <1>2
  <2>4. QED
    BY <1>2, <2>1, <2>2, <2>3, UserKept
<1>4. CASE ~(there /\ sess # 0)
  <2>1. PICK q \in Seq(Message) : q = << >> /\ Len(q) = 0 /\ DOMAIN q = {}
    <3>1. << >> \in Seq(Message) /\ Len(<< >>) = 0 /\ DOMAIN << >> = {}
      OBVIOUS
    <3>2. QED
      BY <3>1
  <2>2. sendQueue' = q /\ ~there'
    BY <1>1, <1>4, <2>1
  <2>3. QueueInv'
    BY <1>1, <1>2, <2>1, <2>2 DEF QueueInv, Queue
  <2>4. QED
    BY <2>2, <2>3 DEF NothingLost
<1>5. QED
  BY <1>3, <1>4

(* The client takes a message that has the number it waits for; within the  *)
(* reach of the numbers that is the message it waits for.                   *)
LEMMA ReceivesNext ==
    ASSUME SeqTypeOK, AcksInv, LinkInv, Receive
    PROVE  LET n == Head(wire[csess])
           IN  /\ n = wire[csess][1] /\ 1 \in DOMAIN wire[csess]
               /\ n \in 1..sent /\ got <= n + Window
               /\ got' = got \/ (got' = got + 1 /\ got' = n)
<1> DEFINE w == wire[csess]
<1>1. w \in Seq(Nat) /\ w # << >>
  BY DEF SeqTypeOK, Receive
<1>2. PICK n : n = Head(w)
  OBVIOUS
<1>3. n = w[1] /\ 1 \in DOMAIN w
  BY <1>1, <1>2
<1>4. n \in 1..sent /\ got <= n + Window
  BY <1>3 DEF LinkInv, OrderInv, ReachInv, SeqTypeOK
<1>5. got \in Nat /\ sent \in Nat /\ Window \in Nat /\ sent <= got + Window
  BY Sizes DEF SeqTypeOK, AcksInv, Acks
<1>6. got' = IF Number(n) = Number(got + 1) THEN n ELSE got
  BY <1>2 DEF Receive
<1>7. ASSUME Number(n) = Number(got + 1) PROVE n = got + 1
  <2>1. n \in Nat /\ got + 1 \in Nat
    BY <1>4, <1>5
  <2>2. CASE n <= got
    <3>1. n <= got + 1 /\ got + 1 <= n + Window + 1
      BY <1>4, <1>5, <2>1, <2>2
    <3>2. QED
      BY ONLY <1>7, <2>1, <3>1, SameNumber
  <2>3. CASE got + 1 <= n
    <3>1. n <= got + 1 + Window + 1
      BY <1>4, <1>5
    <3>2. QED
      BY ONLY <1>7, <2>1, <2>3, <3>1, SameNumber
  <2>4. QED
    BY <1>5, <2>1, <2>2, <2>3
<1>8. QED
  BY <1>2, <1>3, <1>4, <1>6, <1>7

(* The numbers that are sent again, as they are written. *)
Numbers(r) == [i \in DOMAIN r |-> r[i].n]

LEMMA ResentNumbers ==
    ASSUME NEW q \in Seq(Message), NEW a
    PROVE  \E ns \in Seq(Nat) : /\ ns = Numbers(Resent(q, a))
                                /\ \A k \in DOMAIN ns : \E i \in DOMAIN q : ns[k] = q[i].n
<1>1. PICK r \in Seq(Message) : /\ r = Resent(q, a)
                                /\ \A k \in DOMAIN r : \E i \in DOMAIN q : r[k] = q[i]
  BY ResentParts
<1>2. DOMAIN r = 1..Len(r) /\ Len(r) \in Nat /\ \A i \in DOMAIN r : r[i] \in Message
  OBVIOUS
<1>3. \A i \in DOMAIN r : r[i].n \in Nat
  BY <1>2 DEF Message
<1>4. Numbers(r) \in Seq(Nat)
  BY <1>2, <1>3 DEF Numbers
<1>5. \A k \in DOMAIN Numbers(r) : \E i \in DOMAIN q : Numbers(r)[k] = q[i].n
  BY <1>1 DEF Numbers
<1>6. QED
  BY <1>1, <1>4, <1>5

LEMMA OneNumber ==
    ASSUME NEW n \in Nat
    PROVE  \E ns \in Seq(Nat) : ns = <<n>> /\ Len(ns) = 1 /\ ns[1] = n
<1>1. <<n>> \in Seq(Nat) /\ Len(<<n>>) = 1 /\ <<n>>[1] = n
  OBVIOUS
<1>2. QED
  BY <1>1

(* Nothing but what was written stands in a session's channel.              *)
LEMMA WrittenOnly ==
    ASSUME SeqTypeOK, NEW s, NEW ns \in Seq(Nat), Write(s, ns), NEW S,
           \A t \in Sessions : \A i \in DOMAIN wire[t] : wire[t][i] \in S,
           \A i \in DOMAIN ns : ns[i] \in S
    PROVE  \A t \in Sessions : \A i \in DOMAIN wire'[t] : wire'[t][i] \in S
<1>1. /\ wire' \in [Sessions -> Seq(Nat)]
      /\ \A t \in Sessions : t # s => wire'[t] = wire[t]
      /\ s \in Sessions =>
            /\ Len(wire'[s]) <= Len(wire[s]) + Len(ns)
            /\ \A i \in 1..Len(wire'[s]) :
                  wire'[s][i] = IF i <= Len(wire[s]) THEN wire[s][i] ELSE ns[i - Len(wire[s])]
  BY Written
<1>2. CASE s \in Sessions
  <2>1. PICK v \in Seq(Nat), w \in Seq(Nat) : v = wire'[s] /\ w = wire[s]
    BY <1>1, <1>2 DEF SeqTypeOK
  <2>2. Len(v) \in Nat /\ Len(w) \in Nat /\ Len(ns) \in Nat /\ DOMAIN v = 1..Len(v)
        /\ DOMAIN w = 1..Len(w) /\ DOMAIN ns = 1..Len(ns)
    OBVIOUS
  <2>3. \A i \in DOMAIN v : (i <= Len(w) => i \in DOMAIN w) /\ (~(i <= Len(w)) => i - Len(w) \in DOMAIN ns)
    BY <1>1, <1>2, <2>1, <2>2
  <2>4. \A i \in DOMAIN v : v[i] = IF i <= Len(w) THEN w[i] ELSE ns[i - Len(w)]
    BY <1>1, <1>2, <2>1, <2>2
  <2>5. \A i \in DOMAIN w : w[i] \in S
    BY <1>2, <2>1
  <2>6. \A i \in DOMAIN v : v[i] \in S
    BY <2>3, <2>4, <2>5
  <2>7. QED
    BY <1>1, <2>1, <2>6
<1>3. CASE s \notin Sessions
  BY <1>1, <1>3
<1>4. QED
  BY <1>2, <1>3

-----------------------------------------------------------------------------
(* The steps, for each part of the invariant. *)

LEMMA TypeStep ==
    ASSUME SeqTypeOK, QueueInv, AcksInv, NothingLost, LinkInv, [SeqNext]_seqVars
    PROVE  SeqTypeOK'
<1> USE DEF queueVars, userVars, linkVars, netVars, clientVars, acceptVars
<1>1. CASE Route
  <2>1. sendQueue' \in Seq(Message) /\ sentAt' \in Seq(Nat) /\ Len(sentAt') = sent'
    BY <1>1, RouteUser
  <2>2. sent' = sent + 1 /\ routing' = [n |-> sent + 1, sess |-> sess]
    BY <1>1 DEF Route
  <2>3. sent' \in Nat /\ routing' \in Routed
    BY <2>2 DEF SeqTypeOK, Routed
  <2>4. QED
    BY <1>1, <2>1, <2>3 DEF Route, SeqTypeOK
<1>2. CASE Post
  <2>1. tasks' \in Seq(Routed) /\ routing' \in Routed
    BY <1>2 DEF Post, SeqTypeOK, Routed, Nothing
  <2>2. QED
    BY <1>2, <2>1 DEF Post, SeqTypeOK
<1>3. CASE NetSend
  <2>1. Head(tasks) \in Routed /\ tasks' \in Seq(Routed)
    BY <1>3 DEF NetSend, SeqTypeOK
  <2>2. <<Head(tasks).n>> \in Seq(Nat)
    BY <2>1 DEF Routed
  <2>3. wire' \in [Sessions -> Seq(Nat)]
    BY <1>3, <2>2, Written DEF NetSend
  <2>4. QED
    BY <1>3, <2>1, <2>3 DEF NetSend, SeqTypeOK
<1>4. CASE \E s \in Sessions : Drop(s)
  BY <1>4 DEF Drop, SeqTypeOK
<1>5. CASE \E s \in Sessions : ClearSess(s)
  BY <1>5 DEF ClearSess, SeqTypeOK
<1>6. CASE ReplaceSess \/ RefuseReconnect
  BY <1>6 DEF ReplaceSess, RefuseReconnect, NoReconnect, SeqTypeOK
<1>7. CASE ResendUnAckMessages
  <2>1. PICK ns \in Seq(Nat) : ns = Numbers(Resent(sendQueue, Number(reconnect.got)))
    BY ResentNumbers DEF SeqTypeOK
  <2>2. Write(reconnect.sess, ns)
    BY <1>7, <2>1 DEF ResendUnAckMessages, Numbers
  <2>4. wire' \in [Sessions -> Seq(Nat)]
    BY <2>2, Written
  <2>5. reconnect' \in [pc : {"idle", "replace", "resend"}, sess : Nat, got : Nat]
    BY <1>7 DEF ResendUnAckMessages, NoReconnect
  <2>6. QED
    BY <1>7, <2>4, <2>5 DEF ResendUnAckMessages, SeqTypeOK
<1>8. CASE \E s \in Sessions : ClientRoute(s)
  <2>1. PICK s \in Sessions : ClientRoute(s)
    BY <1>8
  <2>2. sendQueue' \in Seq(Message)
    BY <2>1, ClientRouteUser
  <2>3. uplink[s] \in Seq(ClientRequest) /\ uplink[s] # << >> /\ uplink \in [Sessions -> Seq(ClientRequest)]
    BY <2>1 DEF ClientRoute, SeqTypeOK
  <2>4. Head(uplink[s]) \in ClientRequest /\ Tail(uplink[s]) \in Seq(ClientRequest)
    BY <2>3
  <2>5. uplink' \in [Sessions -> Seq(ClientRequest)]
    BY <2>1, <2>3, <2>4 DEF ClientRoute
  <2>6. PICK c \in Nat : c = Head(uplink[s]).cseq
    BY <2>4 DEF ClientRequest
  <2>7. ack' \in Nat /\ handled' \in Nat
    <3>1. (ack' = ack /\ handled' = handled) \/ (ack' = Number(c) /\ handled' = c)
      BY <2>1, <2>6 DEF ClientRoute
    <3>2. QED
      BY <3>1, NumberType DEF SeqTypeOK
  <2>8. QED
    BY <2>1, <2>2, <2>5, <2>7 DEF ClientRoute, SeqTypeOK
<1>9. CASE Receive
  <2>1. wire[csess] \in Seq(Nat) /\ wire[csess] # << >>
    BY <1>9 DEF Receive, SeqTypeOK
  <2>2. wire' \in [Sessions -> Seq(Nat)]
    BY <1>9, <2>1 DEF Receive, SeqTypeOK
  <2>3. got' \in Nat
    BY <1>9, <2>1 DEF Receive, SeqTypeOK
  <2>4. QED
    BY <1>9, <2>2, <2>3 DEF Receive, SeqTypeOK
<1>10. CASE Request
  <2>1. PICK c \in 1..load.requests :
           /\ requested' = IF c > requested THEN c ELSE requested
           /\ uplink' = [uplink EXCEPT ![csess] = Append(@, [cseq |-> c, got |-> got])]
    BY <1>10 DEF Request
  <2>2. c \in Nat /\ got \in Nat /\ requested \in Nat /\ csess \in Sessions
        /\ uplink \in [Sessions -> Seq(ClientRequest)]
    BY <2>1, Sizes DEF SeqTypeOK
  <2>3. [cseq |-> c, got |-> got] \in ClientRequest
    BY <2>2 DEF ClientRequest
  <2>4. requested' \in Nat /\ uplink' \in [Sessions -> Seq(ClientRequest)]
    <3>1. uplink[csess] \in Seq(ClientRequest)
      BY <2>2
    <3>2. Append(uplink[csess], [cseq |-> c, got |-> got]) \in Seq(ClientRequest)
      BY <2>3, <3>1
    <3>3. QED
      BY <2>1, <2>2, <3>2
  <2>5. QED
    BY <1>10, <2>4 DEF Request, SeqTypeOK
<1>11. CASE Reconnect
  <2>1. csess' = csess + 1 /\ linked' = linked \cup {csess + 1}
        /\ reconnect' = [pc |-> "replace", sess |-> csess + 1, got |-> got]
    BY <1>11 DEF Reconnect
  <2>2. csess + 1 \in Sessions /\ csess + 1 \in Nat
    BY <1>11, NextSession DEF Reconnect
  <2>3. csess' \in Sessions /\ linked' \subseteq Sessions
        /\ reconnect' \in [pc : {"idle", "replace", "resend"}, sess : Nat, got : Nat]
    BY <2>1, <2>2 DEF SeqTypeOK
  <2>4. QED
    BY <1>11, <2>3 DEF Reconnect, SeqTypeOK
<1>12. CASE Tick
  BY <1>12 DEF Tick, SeqTypeOK
<1>13. CASE \E t \in timers : DelOffline(t)
  <2>1. sendQueue' \in Seq(Message)
    BY <1>13, DelOfflineUser
  <2>2. QED
    BY <1>13, <2>1 DEF DelOffline, SeqTypeOK
<1>14. CASE UNCHANGED seqVars
  BY <1>14 DEF seqVars, SeqTypeOK
<1>15. QED
  BY <1>1, <1>2, <1>3, <1>4, <1>5, <1>6, <1>7, <1>8, <1>9, <1>10, <1>11, <1>12, <1>13, <1>14
     DEF SeqNext, ReconnectHandler

LEMMA UserStep ==
    ASSUME SeqTypeOK, QueueInv, AcksInv, NothingLost, LinkInv, [SeqNext]_seqVars
    PROVE  QueueInv' /\ NothingLost'
<1> USE DEF queueVars, userVars, linkVars, netVars, clientVars, acceptVars
<1>1. CASE Route
  BY <1>1, RouteUser
<1>2. CASE \E s \in Sessions : ClientRoute(s)
  BY <1>2, ClientRouteUser
<1>3. CASE Receive
  <2>1. got' \in Nat /\ got <= got'
    <3>1. got' = got \/ got' = got + 1
      BY <1>3, ReceivesNext
    <3>2. QED
      BY <3>1 DEF SeqTypeOK
  <2>2. UNCHANGED <<sent, sendQueue, sentAt, there>> /\ now' \in Nat /\ now <= now'
    BY <1>3 DEF Receive, SeqTypeOK
  <2>3. QED
    BY <2>1, <2>2, UserKept
<1>4. CASE Tick
  <2>1. now' \in Nat /\ now <= now' /\ got' \in Nat /\ got <= got'
        /\ UNCHANGED <<sent, sendQueue, sentAt, there>>
    BY <1>4 DEF Tick, SeqTypeOK
  <2>2. QED
    BY <2>1, UserKept
<1>5. ASSUME UNCHANGED <<now, there, sent, sendQueue, sentAt, got>> PROVE QueueInv' /\ NothingLost'
  <2>1. now' \in Nat /\ now <= now' /\ got' \in Nat /\ got <= got'
    BY <1>5 DEF SeqTypeOK
  <2>2. QED
    BY <1>5, <2>1, UserKept
<1>6. CASE Post \/ NetSend \/ (\E s \in Sessions : Drop(s) \/ ClearSess(s)) \/ ReconnectHandler
           \/ Request \/ Reconnect \/ UNCHANGED seqVars
  <2>1. UNCHANGED <<now, there, sent, sendQueue, sentAt, got>>
    BY <1>6 DEF Post, NetSend, ClearSess, Drop, ReconnectHandler, ReplaceSess, RefuseReconnect,
                ResendUnAckMessages, Request, Reconnect, seqVars
  <2>2. QED
    BY <1>5, <2>1
<1>7. CASE \E t \in timers : DelOffline(t)
  BY <1>7, DelOfflineUser
<1>8. QED
  BY <1>1, <1>2, <1>3, <1>4, <1>6, <1>7 DEF SeqNext

(* Nothing new is said but what the client has.                             *)
LEMMA AcksKept ==
    ASSUME SeqTypeOK, AcksInv, sent' = sent, got' = got, \A g \in Acks' : g \in Acks
    PROVE  AcksInv'
BY DEF AcksInv

LEMMA AcksStep ==
    ASSUME SeqTypeOK, AcksInv, LinkInv, [SeqNext]_seqVars
    PROVE  AcksInv'
<1> USE DEF queueVars, userVars, linkVars, netVars, clientVars, acceptVars
<1>0. got \in Nat /\ sent \in Nat /\ Window \in Nat /\ got <= sent /\ got \in Acks
      /\ uplink \in [Sessions -> Seq(ClientRequest)] /\ csess \in Sessions
  BY Sizes DEF SeqTypeOK, AcksInv, Acks
<1>1. CASE Route
  <2>1. sent' = sent + 1 /\ got' = got /\ Acks' = Acks /\ \A g \in Acks : sent - g < Window
    BY <1>1 DEF Route, Acks, Said, Reconnecting
  <2>2. \A g \in Acks : sent + 1 <= g + Window
    BY <1>0, <2>1 DEF AcksInv
  <2>3. QED
    BY <1>0, <2>1, <2>2 DEF AcksInv
<1>2. CASE Receive
  <2>1. PICK n : n \in 1..sent /\ (got' = got \/ (got' = got + 1 /\ got' = n))
    BY <1>2, ReceivesNext
  <2>2. sent' = sent /\ uplink' = uplink /\ reconnect' = reconnect
    BY <1>2 DEF Receive
  <2>3. \A g \in Acks' : g \in Acks \/ g = got'
    BY <2>2 DEF Acks, Said, Reconnecting
  <2>4. got' \in Nat /\ got <= got' /\ got' <= sent
    BY <1>0, <2>1
  <2>5. sent <= got' + Window
    <3>1. sent <= got + Window
      BY <1>0 DEF AcksInv
    <3>2. PICK g \in Nat : g = got' /\ got <= g
      BY <2>4
    <3>3. sent \in Nat /\ got \in Nat /\ Window \in Nat /\ got <= g
      BY <1>0, <3>2
    <3>4. sent <= g + Window
      BY ONLY <3>1, <3>3, g \in Nat
    <3>5. QED
      BY <3>2, <3>4
  <2>6. ASSUME NEW g \in Acks' PROVE g \in Nat /\ g <= got' /\ sent <= g + Window
    <3>1. CASE g = got'
      BY <2>4, <2>5, <3>1
    <3>2. CASE g \in Acks
      <4>1. g \in Nat /\ g <= got /\ sent <= g + Window
        BY <3>2 DEF AcksInv
      <4>2. QED
        BY <1>0, <2>4, <4>1
    <3>3. QED
      BY <2>3, <3>1, <3>2
  <2>7. QED
    BY <2>2, <2>4, <2>6 DEF AcksInv
<1>3. CASE \E s \in Sessions : ClientRoute(s)
  <2>1. PICK s \in Sessions : ClientRoute(s)
    BY <1>3
  <2>2. sent' = sent /\ got' = got /\ reconnect' = reconnect
        /\ uplink[s] # << >> /\ uplink' = [uplink EXCEPT ![s] = Tail(uplink[s])]
    BY <2>1 DEF ClientRoute
  <2>3. PICK q \in Seq(ClientRequest) : q = uplink[s]
    BY <1>0
  <2>4. \A i \in DOMAIN Tail(q) : i + 1 \in DOMAIN q /\ Tail(q)[i] = q[i + 1]
    BY <2>2, <2>3
  <2>5. \A x \in Sessions : Said(x)' \subseteq Said(x)
    BY <1>0, <2>2, <2>3, <2>4 DEF Said
  <2>6. \A g \in Acks' : g \in Acks
    BY <2>2, <2>5 DEF Acks, Reconnecting
  <2>7. QED
    BY <2>2, <2>6, AcksKept
<1>4. CASE Request
  <2>1. PICK c : uplink' = [uplink EXCEPT ![csess] = Append(uplink[csess], [cseq |-> c, got |-> got])]
    BY <1>4 DEF Request
  <2>2. sent' = sent /\ got' = got /\ reconnect' = reconnect
    BY <1>4 DEF Request
  <2>3. PICK q \in Seq(ClientRequest) : q = uplink[csess]
    BY <1>0
  <2>4. \A e : \A i \in DOMAIN Append(q, e) : (i \in DOMAIN q /\ Append(q, e)[i] = q[i]) \/ Append(q, e)[i] = e
    OBVIOUS
  <2>5. \A x \in Sessions : \A g \in Said(x)' : g \in Said(x) \/ g = got
    <3>1. \A x \in Sessions : x # csess => uplink'[x] = uplink[x]
      BY <1>0, <2>1
    <3>2. uplink'[csess] = Append(q, [cseq |-> c, got |-> got])
      BY <1>0, <2>1, <2>3
    <3>3. \A i \in DOMAIN uplink'[csess] :
             (i \in DOMAIN q /\ uplink'[csess][i] = q[i]) \/ uplink'[csess][i].got = got
      BY <2>4, <3>2
    <3>4. QED
      BY <2>3, <3>1, <3>3 DEF Said
  <2>6. \A g \in Acks' : g \in Acks
    BY <2>2, <2>5 DEF Acks, Reconnecting
  <2>7. QED
    BY <2>2, <2>6, AcksKept
<1>5. CASE Reconnect
  <2>1. sent' = sent /\ got' = got /\ uplink' = uplink /\ reconnect'.got = got
    BY <1>5 DEF Reconnect
  <2>2. \A g \in Acks' : g \in Acks
    <3>1. \A s \in Sessions : Said(s)' = Said(s)
      BY <2>1 DEF Said
    <3>2. (\A g \in Acks : g = got \/ g \in Reconnecting \/ \E s \in Sessions : g \in Said(s))'
      BY SaidOnly, PTL
    <3>4. Reconnecting' \subseteq {got}
      BY <2>1 DEF Reconnecting
    <3>3. QED
      BY <2>1, <3>1, <3>2, <3>4, SaidAcks
  <2>3. QED
    BY <2>1, <2>2, AcksKept
<1>6. CASE ReconnectHandler
  <2>1. sent' = sent /\ got' = got /\ uplink' = uplink
        /\ (reconnect'.pc # "idle" => reconnect'.got = reconnect.got /\ reconnect.pc # "idle")
    BY <1>6 DEF ReconnectHandler, ReplaceSess, RefuseReconnect, ResendUnAckMessages, NoReconnect, SeqTypeOK
  <2>2. \A g \in Acks' : g \in Acks
    <3>1. \A s \in Sessions : Said(s)' = Said(s)
      BY <2>1 DEF Said
    <3>2. (\A g \in Acks : g = got \/ g \in Reconnecting \/ \E s \in Sessions : g \in Said(s))'
      BY SaidOnly, PTL
    <3>4. \A g \in Reconnecting' : g = reconnect.got /\ reconnect.pc # "idle"
      BY <2>1 DEF Reconnecting
    <3>3. QED
      BY <2>1, <3>1, <3>2, <3>4, SaidAcks
  <2>3. QED
    BY <2>1, <2>2, AcksKept
<1>7. CASE Post \/ NetSend \/ (\E s \in Sessions : Drop(s) \/ ClearSess(s))
           \/ (\E x \in timers : DelOffline(x)) \/ Tick \/ UNCHANGED seqVars
  <2>1. sent' = sent /\ got' = got /\ uplink' = uplink /\ reconnect' = reconnect
    BY <1>7 DEF Post, NetSend, ClearSess, Drop, DelOffline, Tick, seqVars
  <2>2. \A g \in Acks' : g \in Acks
    BY <2>1 DEF Acks, Said, Reconnecting
  <2>3. QED
    BY <2>1, <2>2, AcksKept
<1>8. QED
  BY <1>1, <1>2, <1>3, <1>4, <1>5, <1>6, <1>7 DEF SeqNext

(* Requests on their way, and their numbers. *)
LEMMA OnTheWay ==
    ASSUME SeqTypeOK
    PROVE  /\ uplink \in [Sessions -> Seq(ClientRequest)]
           /\ \A s \in Sessions : \A i \in DOMAIN uplink[s] : i \in Nat /\ uplink[s][i].cseq \in Nat
<1>1. \A s \in Sessions : uplink[s] \in Seq(ClientRequest)
  BY DEF SeqTypeOK
<1>2. \A s \in Sessions : \A i \in DOMAIN uplink[s] : i \in Nat /\ uplink[s][i] \in ClientRequest
  BY <1>1
<1>3. QED
  BY <1>2 DEF SeqTypeOK, ClientRequest

(* The request that is read is not the last one accepted, nor before it,    *)
(* when its number says so.                                                 *)
LEMMA ClientRouteRequests ==
    ASSUME SeqTypeOK, RequestInv, NEW s \in Sessions, ClientRoute(s)
    PROVE  RequestInv'
<1>1. /\ uplink \in [Sessions -> Seq(ClientRequest)] /\ handled \in Nat /\ requested \in Nat
      /\ csess \in Sessions /\ Repeats \in Nat /\ Repeats < Half /\ Half \in Nat
      /\ \A x \in Sessions : \A i \in DOMAIN uplink[x] : i \in Nat /\ uplink[x][i].cseq \in Nat
  BY OnTheWay, Sizes DEF SeqTypeOK
<1>2. PICK q \in Seq(ClientRequest) : q = uplink[s] /\ q # << >>
  BY <1>1 DEF ClientRoute
<1>3. 1 \in DOMAIN q /\ Head(q) = q[1] /\ \A i \in DOMAIN Tail(q) : i + 1 \in DOMAIN q /\ Tail(q)[i] = q[i + 1]
      /\ 1 < i + 1
  BY <1>2
<1>4. PICK v \in [Sessions -> Seq(ClientRequest)] :
           /\ v = uplink' /\ v[s] = Tail(q) /\ \A x \in Sessions : x # s => v[x] = uplink[x]
  <2>1. uplink' = [uplink EXCEPT ![s] = Tail(q)] /\ Tail(q) \in Seq(ClientRequest)
    BY <1>2 DEF ClientRoute
  <2>2. QED
    BY <1>1, <2>1
<1>5. csess' = csess /\ sess' = sess /\ requested' = requested
  BY DEF ClientRoute
(* What is left was on its way before, in the same order. *)
<1>6. \A x \in Sessions : x # s => v[x] = uplink[x]
  BY <1>4
<1>7. \A i \in DOMAIN v[s] : i + 1 \in DOMAIN uplink[s] /\ v[s][i] = uplink[s][i + 1] /\ 1 < i + 1
  BY <1>2, <1>3, <1>4
<1>8. \A x \in Sessions : \A i \in DOMAIN v[x] : \E j \in DOMAIN uplink[x] : v[x][i] = uplink[x][j]
  BY <1>6, <1>7
<1>9. \A x \in Sessions : Sent(x)'
  BY <1>4, <1>5, <1>8 DEF RequestInv, Sent
<1>10. \A x \in Sessions : InOrder(x)'
  <2>1. InOrder(s)'
    <3>1. \A i, j \in DOMAIN v[s] : i < j => i + 1 < j + 1
      BY <1>1, <1>2, <1>4
    <3>2. QED
      BY <1>4, <1>7, <3>1 DEF RequestInv, InOrder
  <2>2. \A x \in Sessions : x # s => InOrder(x)'
    BY <1>4, <1>6 DEF RequestInv, InOrder
  <2>3. QED
    BY <2>1, <2>2
<1>11. \A x \in Sessions : x > csess' => uplink'[x] = << >>
  <2>1. ~(s > csess)
    BY <1>2 DEF RequestInv
  <2>2. QED
    BY <1>4, <1>5, <2>1 DEF RequestInv
<1>12. \A x, y \in Sessions : x < y => Before(x, y)'
  BY <1>4, <1>8 DEF RequestInv, Before
<1>13. CASE handled' = handled /\ ack' = ack /\ replayed' = replayed
  <2>1. \A x \in Sessions : Ahead(x) => Ahead(x)'
    BY <1>4, <1>8, <1>13 DEF Ahead
  <2>2. Ahead(csess)' /\ (sess' \in Sessions => Ahead(sess)')
    BY <1>1, <1>5, <2>1 DEF RequestInv
  <2>3. QED
    BY <1>5, <1>9, <1>10, <1>11, <1>12, <1>13, <2>2 DEF RequestInv, RequestsOnce
<1>14. PICK c \in Nat : c = q[1].cseq
  BY <1>1, <1>2, <1>3
<1>15. CASE /\ s = sess /\ Fresh(Number(c)) /\ ack' = Number(c) /\ handled' = c
            /\ replayed' = (replayed \/ c <= handled)
  <2>1. handled <= c + Repeats /\ c <= requested
    BY <1>2, <1>3, <1>14, <1>15 DEF RequestInv, Ahead, Sent
  <2>2. ~(c <= handled)
    <3>1. ASSUME c <= handled PROVE FALSE
      <4>1. handled < c + Half
        BY <1>1, <2>1
      <4>2. ~IsSeqGreater(Number(c), Number(handled))
        BY ONLY <1>1, <3>1, <4>1, EarlierIsNotGreater, c \in Nat
      <4>3. QED
        BY <1>15, <4>2 DEF Fresh, RequestInv
    <3>2. QED
      BY <3>1
  <2>3. Ahead(s)'
    <3>1. \A i \in DOMAIN v[s] : c <= v[s][i].cseq + Repeats
      BY <1>2, <1>3, <1>7, <1>14 DEF RequestInv, InOrder
    <3>2. QED
      BY <1>4, <1>15, <3>1 DEF Ahead
  <2>4. Ahead(csess)'
    <3>1. CASE csess = s
      BY <1>5, <2>3, <3>1 DEF Ahead
    <3>2. CASE csess # s
      <4>1. s < csess
        <5>1. ~(s > csess)
          BY <1>2 DEF RequestInv
        <5>2. s \in Nat /\ csess \in Nat
          BY <1>1 DEF Sessions
        <5>3. QED
          BY <3>2, <5>1, <5>2
      <4>2. \A i \in DOMAIN uplink[csess] : c <= uplink[csess][i].cseq + Repeats
        BY <1>1, <1>2, <1>3, <1>14, <4>1 DEF RequestInv, Before
      <4>3. QED
        BY <1>1, <1>4, <1>5, <1>15, <3>2, <4>2 DEF Ahead
    <3>3. QED
      BY <3>1, <3>2
  <2>5. sess' \in Sessions => Ahead(sess)'
    BY <1>5, <1>15, <2>3 DEF Ahead
  <2>6. handled' <= requested' /\ ack' = Number(handled)' /\ RequestsOnce'
    BY <1>5, <1>15, <2>1, <2>2 DEF RequestInv, RequestsOnce, Number
  <2>7. QED
    BY <1>9, <1>10, <1>11, <1>12, <2>4, <2>5, <2>6 DEF RequestInv
<1>16. QED
  BY <1>2, <1>3, <1>13, <1>14, <1>15 DEF ClientRoute, acceptVars

(* A request that is made is at most Repeats behind all of the earlier ones. *)
LEMMA RequestRequests ==
    ASSUME SeqTypeOK, RequestInv, Request
    PROVE  RequestInv'
<1>1. /\ uplink \in [Sessions -> Seq(ClientRequest)] /\ handled \in Nat /\ requested \in Nat /\ got \in Nat
      /\ csess \in Sessions /\ Repeats \in Nat
      /\ \A x \in Sessions : \A i \in DOMAIN uplink[x] : i \in Nat /\ uplink[x][i].cseq \in Nat
  BY OnTheWay, Sizes DEF SeqTypeOK
<1>2. PICK c \in 1..load.requests :
           /\ requested <= c + Repeats
           /\ requested' = IF c > requested THEN c ELSE requested
           /\ uplink' = [uplink EXCEPT ![csess] = Append(uplink[csess], [cseq |-> c, got |-> got])]
  BY DEF Request
<1>3. c \in Nat
  OBVIOUS
<1>4. UNCHANGED <<csess, sess, handled, replayed, ack>>
  BY DEF Request, acceptVars, userVars, queueVars
<1>5. PICK e \in ClientRequest : e = [cseq |-> c, got |-> got] /\ e.cseq = c
  <2>1. [cseq |-> c, got |-> got] \in ClientRequest
    BY <1>1, <1>3 DEF ClientRequest
  <2>2. QED
    BY <2>1
<1>6. PICK q \in Seq(ClientRequest) : q = uplink[csess]
  BY <1>1
<1>7. PICK w \in Seq(ClientRequest) : /\ w = Append(q, e) /\ DOMAIN w = 1..(Len(q) + 1) /\ Len(q) \in Nat
                                      /\ DOMAIN q = 1..Len(q) /\ w[Len(q) + 1] = e
                                      /\ \A i \in DOMAIN q : w[i] = q[i]
  <2>1. /\ Append(q, e) \in Seq(ClientRequest) /\ DOMAIN Append(q, e) = 1..(Len(q) + 1) /\ Len(q) \in Nat
        /\ DOMAIN q = 1..Len(q) /\ Append(q, e)[Len(q) + 1] = e /\ \A i \in DOMAIN q : Append(q, e)[i] = q[i]
    OBVIOUS
  <2>2. QED
    BY <2>1
<1>8. PICK v \in [Sessions -> Seq(ClientRequest)] :
           v = uplink' /\ v[csess] = w /\ \A x \in Sessions : x # csess => v[x] = uplink[x]
  <2>1. uplink' = [uplink EXCEPT ![csess] = w]
    BY <1>2, <1>5, <1>6, <1>7
  <2>2. QED
    BY <1>1, <2>1
<1>9. PICK r \in Nat : r = requested' /\ requested <= r /\ c <= r
  BY <1>1, <1>2, <1>3
<1>10. \A i \in DOMAIN w : \/ i \in DOMAIN q /\ w[i] = q[i]
                           \/ i = Len(q) + 1 /\ w[i].cseq = c
  BY <1>5, <1>7
<1>11. \A x \in Sessions : \A i \in DOMAIN uplink[x] :
           uplink[x][i].cseq <= requested /\ uplink[x][i].cseq <= c + Repeats
  <2>1. \A x \in Sessions : \A i \in DOMAIN uplink[x] : uplink[x][i].cseq <= requested
    BY DEF RequestInv, Sent
  <2>2. QED
    BY <1>1, <1>2, <1>3, <2>1
<1>12. \A x \in Sessions : Sent(x)'
  <2>1. \A x \in Sessions : \A i \in DOMAIN uplink[x] : uplink[x][i].cseq <= r
    BY <1>1, <1>9, <1>11
  <2>2. \A i \in DOMAIN w : w[i].cseq <= r
    <3>1. \A i \in DOMAIN q : q[i].cseq <= r
      BY <1>1, <1>6, <2>1
    <3>2. QED
      BY <1>9, <1>10, <3>1
  <2>3. QED
    BY <1>8, <1>9, <2>1, <2>2 DEF Sent
<1>13. \A x \in Sessions : InOrder(x)'
  <2>1. ASSUME NEW i \in DOMAIN w, NEW j \in DOMAIN w, i < j PROVE w[i].cseq <= w[j].cseq + Repeats
    <3>1. i \in DOMAIN q /\ w[i] = q[i]
      BY <1>7, <2>1
    <3>2. CASE j \in DOMAIN q
      BY <1>1, <1>6, <1>7, <2>1, <3>1, <3>2 DEF RequestInv, InOrder
    <3>3. CASE w[j].cseq = c
      BY <1>1, <1>6, <1>11, <3>1, <3>3
    <3>4. QED
      BY <1>10, <3>2, <3>3
  <2>2. InOrder(csess)'
    BY <1>4, <1>8, <2>1 DEF InOrder
  <2>3. \A x \in Sessions : x # csess => InOrder(x)'
    BY <1>8 DEF RequestInv, InOrder
  <2>4. ASSUME NEW x \in Sessions PROVE InOrder(x)'
    <3>1. CASE x = csess
      BY <1>8, <2>1, <3>1 DEF InOrder
    <3>2. QED
      BY <2>3, <3>1
  <2>5. QED
    BY <2>4
<1>14. \A x \in Sessions : x > csess' => uplink'[x] = << >>
  <2>1. ~(csess > csess)
    BY <1>1 DEF Sessions
  <2>2. QED
    BY <1>4, <1>8, <2>1 DEF RequestInv
<1>15. ASSUME NEW x \in Sessions, NEW y \in Sessions, x < y PROVE Before(x, y)'
  <2>1. CASE x = csess
    <3>1. y > csess /\ y # csess
      BY <1>15, <2>1 DEF Sessions
    <3>2. v[y] = << >>
      BY <1>8, <3>1 DEF RequestInv
    <3>3. QED
      BY <1>8, <3>2 DEF Before
  <2>2. CASE x # csess /\ y # csess
    BY <1>8, <1>15, <2>2 DEF RequestInv, Before
  <2>3. CASE x # csess /\ y = csess
    <3>1. \A i \in DOMAIN uplink[x], j \in DOMAIN w : uplink[x][i].cseq <= w[j].cseq + Repeats
      BY <1>6, <1>10, <1>11, <1>15, <2>3 DEF RequestInv, Before
    <3>2. QED
      BY <1>8, <2>3, <3>1 DEF Before
  <2>4. QED
    BY <2>1, <2>2, <2>3
<1>16. handled <= c + Repeats /\ handled <= r
  BY <1>1, <1>2, <1>3, <1>9 DEF RequestInv
<1>17. ASSUME NEW x \in Sessions, Ahead(x) PROVE \A i \in DOMAIN v[x] : handled <= v[x][i].cseq + Repeats
  <2>1. CASE x = csess
    BY <1>6, <1>8, <1>10, <1>16, <1>17, <2>1 DEF Ahead
  <2>2. CASE x # csess
    BY <1>8, <1>17, <2>2 DEF Ahead
  <2>3. QED
    BY <2>1, <2>2
<1>18. Ahead(csess)' /\ (sess' \in Sessions => Ahead(sess)')
  BY <1>1, <1>4, <1>8, <1>17 DEF RequestInv, Ahead
<1>19. QED
  BY <1>4, <1>9, <1>12, <1>13, <1>14, <1>15, <1>16, <1>18 DEF RequestInv, RequestsOnce, Number

LEMMA RequestStep ==
    ASSUME SeqTypeOK, RequestInv, LinkInv, [SeqNext]_seqVars
    PROVE  RequestInv'
<1> USE DEF queueVars, userVars, linkVars, netVars, clientVars, acceptVars
<1>1. ASSUME UNCHANGED <<uplink, requested, handled, replayed, ack>>,
             Ahead(csess)', sess' \in Sessions => Ahead(sess)',
             \A x \in Sessions : x > csess' => x > csess
      PROVE  RequestInv'
  BY <1>1 DEF RequestInv, RequestsOnce, Sent, InOrder, Before, Number
<1>2. CASE Reconnect
  <2>1. UNCHANGED <<uplink, requested, handled, replayed, ack, sess>> /\ csess' = csess + 1
    BY <1>2 DEF Reconnect
  <2>2. csess \in Nat /\ csess + 1 \in Sessions
    BY <1>2, NextSession DEF Reconnect
  <2>3. uplink[csess + 1] = << >>
    <3>1. csess + 1 > csess
      BY <2>2
    <3>2. QED
      BY <2>2, <3>1 DEF RequestInv
  <2>4. Ahead(csess)' /\ (sess' \in Sessions => Ahead(sess)')
    BY <2>1, <2>3 DEF RequestInv, Ahead
  <2>5. \A x \in Sessions : x > csess' => x > csess
    BY <2>1, <2>2 DEF Sessions
  <2>6. QED
    BY <1>1, <2>1, <2>4, <2>5
<1>3. CASE ReplaceSess
  <2>1. UNCHANGED <<uplink, requested, handled, replayed, ack, csess>> /\ sess' = csess
    BY <1>3 DEF ReplaceSess, LinkInv, SessionInv
  <2>2. Ahead(csess)' /\ (sess' \in Sessions => Ahead(sess)')
    BY <2>1 DEF RequestInv, Ahead
  <2>3. QED
    BY <1>1, <2>1, <2>2
<1>4. CASE \E s \in Sessions : ClearSess(s)
  <2>1. UNCHANGED <<uplink, requested, handled, replayed, ack, csess>> /\ (sess' = 0 \/ sess' = sess)
    BY <1>4 DEF ClearSess
  <2>2. 0 \notin Sessions
    BY DEF Sessions
  <2>3. Ahead(csess)' /\ (sess' \in Sessions => Ahead(sess)')
    BY <2>1, <2>2 DEF RequestInv, Ahead
  <2>4. QED
    BY <1>1, <2>1, <2>3
<1>5. CASE Route \/ Post \/ NetSend \/ (\E s \in Sessions : Drop(s)) \/ (\E x \in timers : DelOffline(x))
           \/ RefuseReconnect \/ ResendUnAckMessages \/ Receive \/ Tick \/ UNCHANGED seqVars
  <2>1. UNCHANGED <<uplink, requested, handled, replayed, ack, csess, sess>>
    BY <1>5 DEF Route, Post, NetSend, Drop, DelOffline, RefuseReconnect, ResendUnAckMessages, Receive, Tick,
                seqVars
  <2>2. Ahead(csess)' /\ (sess' \in Sessions => Ahead(sess)')
    BY <2>1 DEF RequestInv, Ahead
  <2>3. QED
    BY <1>1, <2>1, <2>2
<1>6. QED
  BY <1>2, <1>3, <1>4, <1>5, ClientRouteRequests, RequestRequests DEF SeqNext, ReconnectHandler

LEMMA OrderStep ==
    ASSUME SeqTypeOK, QueueInv, LinkInv, [SeqNext]_seqVars
    PROVE  OrderInv'
<1> USE DEF queueVars, userVars, linkVars, netVars, clientVars, acceptVars
<1>0. /\ sent \in Nat /\ routing \in Routed /\ tasks \in Seq(Routed) /\ wire \in [Sessions -> Seq(Nat)]
      /\ OrderInv
  BY DEF SeqTypeOK, LinkInv
<1>1. CASE Route
  <2>1. sent' = sent + 1 /\ routing' = [n |-> sent + 1, sess |-> sess] /\ tasks' = tasks /\ wire' = wire
    BY <1>1 DEF Route
  <2>2. \A n \in 1..sent : n \in 1..(sent + 1) /\ n < sent + 1
    BY <1>0
  <2>3. routing'.n = sent + 1 /\ sent + 1 \in 1..(sent + 1)
    BY <1>0, <2>1
  <2>4. QED
    BY <1>0, <2>1, <2>2, <2>3 DEF OrderInv
<1>2. CASE Post
  <2>1. routing # Nothing /\ tasks' = Append(tasks, routing) /\ routing' = Nothing /\ sent' = sent /\ wire' = wire
    BY <1>2 DEF Post
  <2>2. PICK q \in Seq(Routed) : /\ q = tasks' /\ DOMAIN q = DOMAIN tasks \cup {Len(tasks) + 1}
                                 /\ q[Len(tasks) + 1] = routing /\ \A i \in DOMAIN tasks : q[i] = tasks[i]
    <3>1. /\ Append(tasks, routing) \in Seq(Routed)
          /\ DOMAIN Append(tasks, routing) = DOMAIN tasks \cup {Len(tasks) + 1}
          /\ Append(tasks, routing)[Len(tasks) + 1] = routing
          /\ \A i \in DOMAIN tasks : Append(tasks, routing)[i] = tasks[i]
      BY <1>0
    <3>2. QED
      BY <2>1, <3>1
  <2>3. DOMAIN tasks = 1..Len(tasks) /\ Len(tasks) \in Nat
    BY <1>0
  <2>4. \A i, j \in DOMAIN q : i < j => q[i].n < q[j].n
    <3> SUFFICES ASSUME NEW i \in DOMAIN q, NEW j \in DOMAIN q, i < j PROVE q[i].n < q[j].n
      OBVIOUS
    <3>1. i \in DOMAIN tasks
      BY <2>2, <2>3
    <3>2. CASE j \in DOMAIN tasks
      BY <1>0, <2>2, <3>1, <3>2 DEF OrderInv
    <3>3. CASE j = Len(tasks) + 1
      BY <1>0, <2>1, <2>2, <3>1, <3>3 DEF OrderInv
    <3>4. QED
      BY <2>2, <3>2, <3>3
  <2>5. \A i \in DOMAIN q : q[i].n \in 1..sent
    BY <1>0, <2>1, <2>2 DEF OrderInv
  <2>6. QED
    BY <1>0, <2>1, <2>2, <2>4, <2>5 DEF OrderInv
<1>3. CASE NetSend
  <2>1. tasks # << >> /\ tasks' = Tail(tasks) /\ routing' = routing /\ sent' = sent
        /\ Write(Head(tasks).sess, <<Head(tasks).n>>)
    BY <1>3 DEF NetSend
  <2>2. 1 \in DOMAIN tasks /\ Head(tasks) = tasks[1]
        /\ \A i \in DOMAIN tasks' : i + 1 \in DOMAIN tasks /\ tasks'[i] = tasks[i + 1] /\ i \in Nat
    BY <1>0, <2>1
  <2>3. PICK s, n : s = tasks[1].sess /\ n = tasks[1].n
    OBVIOUS
  <2>4. n \in 1..sent /\ n \in Nat
    BY <1>0, <2>2, <2>3 DEF OrderInv
  <2>5. <<n>> \in Seq(Nat) /\ Len(<<n>>) = 1 /\ <<n>>[1] = n
    BY <2>4
  <2>6. PICK ns \in Seq(Nat) : ns = <<n>> /\ Len(ns) = 1 /\ ns[1] = n
    BY <2>5
  <2>7. Write(s, ns)
    BY <2>1, <2>2, <2>3, <2>6
  <2>9. \A t \in Sessions : \A i \in DOMAIN wire'[t] : wire'[t][i] \in 1..sent
    <3>1. \A i \in DOMAIN ns : ns[i] \in 1..sent
      BY <2>4, <2>6
    <3>2. \A t \in Sessions : \A i \in DOMAIN wire[t] : wire[t][i] \in 1..sent
      BY <1>0 DEF OrderInv
    <3>3. QED
      BY <2>7, <3>1, <3>2, WrittenOnly
  <2>10. \A i, j \in DOMAIN tasks' : i < j => tasks'[i].n < tasks'[j].n
    BY <1>0, <2>2 DEF OrderInv
  <2>11. QED
    BY <1>0, <2>1, <2>2, <2>9, <2>10 DEF OrderInv
<1>4. CASE ResendUnAckMessages
  <2>1. PICK ns \in Seq(Nat) :
           /\ ns = Numbers(Resent(sendQueue, Number(reconnect.got)))
           /\ \A k \in DOMAIN ns : \E i \in DOMAIN sendQueue : ns[k] = sendQueue[i].n
    <3>1. sendQueue \in Seq(Message)
      BY DEF SeqTypeOK
    <3>2. QED
      BY ONLY <3>1, ResentNumbers
  <2>2. tasks' = tasks /\ routing' = routing /\ sent' = sent /\ Write(reconnect.sess, ns)
    BY <1>4, <2>1 DEF ResendUnAckMessages, Numbers
  <2>3. \A k \in DOMAIN ns : ns[k] \in 1..sent
    <3>1. Queue(sendQueue, sent, sentAt) /\ Len(sendQueue) \in Nat /\ Len(sendQueue) <= sent
      BY DEF QueueInv, Queue
    <3>2. \A i \in DOMAIN sendQueue : sendQueue[i].n \in (sent - Len(sendQueue) + 1)..sent
      BY <1>0, <3>1, InQueue
    <3>3. \A i \in DOMAIN sendQueue : sendQueue[i].n \in 1..sent
      BY <1>0, <3>1, <3>2
    <3>4. QED
      BY <2>1, <3>3
  <2>4. \A t \in Sessions : \A i \in DOMAIN wire'[t] : wire'[t][i] \in 1..sent
    <3>1. \A t \in Sessions : \A i \in DOMAIN wire[t] : wire[t][i] \in 1..sent
      BY <1>0 DEF OrderInv
    <3>2. QED
      BY <2>2, <2>3, <3>1, WrittenOnly
  <2>5. QED
    BY <1>0, <2>2, <2>4 DEF OrderInv
<1>5. CASE Receive
  <2>1. sent' = sent /\ routing' = routing /\ tasks' = tasks /\ wire[csess] # << >>
        /\ wire' = [wire EXCEPT ![csess] = Tail(wire[csess])]
    BY <1>5 DEF Receive
  <2>2. \A s \in Sessions : s # csess => wire'[s] = wire[s]
    BY <1>0, <2>1
  <2>3. csess \in Sessions /\ wire'[csess] = Tail(wire[csess]) /\ wire[csess] \in Seq(Nat)
    BY <1>0, <2>1 DEF SeqTypeOK
  <2>4. \A i \in DOMAIN wire'[csess] : i + 1 \in DOMAIN wire[csess] /\ wire'[csess][i] = wire[csess][i + 1]
    <3>1. PICK w \in Seq(Nat) : w = wire[csess] /\ w # << >>
      BY <2>1, <2>3
    <3>2. \A i \in DOMAIN Tail(w) : i + 1 \in DOMAIN w /\ Tail(w)[i] = w[i + 1]
      BY <3>1
    <3>3. QED
      BY <2>3, <3>1, <3>2
  <2>5. QED
    BY <1>0, <2>1, <2>2, <2>3, <2>4 DEF OrderInv
<1>6. CASE (\E s \in Sessions : Drop(s) \/ ClearSess(s) \/ ClientRoute(s)) \/ (\E x \in timers : DelOffline(x))
           \/ ReplaceSess \/ RefuseReconnect \/ Request \/ Reconnect \/ Tick \/ UNCHANGED seqVars
  <2>1. sent' = sent /\ routing' = routing /\ tasks' = tasks /\ wire' = wire
    BY <1>6 DEF ClearSess, Drop, DelOffline, ReplaceSess, RefuseReconnect, ClientRoute, Request, Reconnect,
                Tick, seqVars
  <2>2. QED
    BY <1>0, <2>1 DEF OrderInv
<1>7. QED
  BY <1>1, <1>2, <1>3, <1>4, <1>5, <1>6 DEF SeqNext, ReconnectHandler

LEMMA SessionStep ==
    ASSUME SeqTypeOK, LinkInv, [SeqNext]_seqVars
    PROVE  SessionInv'
<1> USE DEF queueVars, userVars, linkVars, netVars, clientVars, acceptVars
<1>0. /\ routing \in Routed /\ tasks \in Seq(Routed) /\ wire \in [Sessions -> Seq(Nat)]
      /\ csess \in Sessions /\ sess \in Nat /\ MaxSess \in Nat /\ SessionInv
      /\ reconnect \in [pc : {"idle", "replace", "resend"}, sess : Nat, got : Nat]
  BY Sizes DEF SeqTypeOK, LinkInv
<1>1. csess \in Nat /\ csess >= 1 /\ routing.sess \in Nat /\ \A i \in DOMAIN tasks : tasks[i].sess \in Nat
  <2>1. \A i \in DOMAIN tasks : tasks[i] \in Routed
    BY <1>0
  <2>2. QED
    BY <1>0, <2>1 DEF Sessions, Routed
<1>2. CASE Route
  <2>1. routing'.sess = sess /\ UNCHANGED <<sess, tasks, wire, reconnect, csess>>
    BY <1>2 DEF Route
  <2>2. QED
    BY <1>0, <2>1 DEF SessionInv, Earlier
<1>3. CASE Post
  <2>1. tasks' = Append(tasks, routing) /\ routing' = Nothing /\ UNCHANGED <<sess, wire, reconnect, csess>>
    BY <1>3 DEF Post
  <2>2. \A i \in DOMAIN tasks' : (i \in DOMAIN tasks /\ tasks'[i] = tasks[i]) \/ tasks'[i] = routing
    BY <1>0, <2>1
  <2>3. Earlier(0)
    BY <1>1 DEF Earlier
  <2>4. QED
    BY <1>0, <2>1, <2>2, <2>3 DEF SessionInv, Earlier, Nothing
<1>4. CASE NetSend
  <2>1. tasks # << >> /\ tasks' = Tail(tasks) /\ UNCHANGED <<sess, routing, reconnect, csess>>
        /\ Write(Head(tasks).sess, <<Head(tasks).n>>)
    BY <1>4 DEF NetSend
  <2>2. 1 \in DOMAIN tasks /\ Head(tasks) = tasks[1] /\ tasks[1] \in Routed
        /\ \A i \in DOMAIN tasks' : i + 1 \in DOMAIN tasks /\ tasks'[i] = tasks[i + 1]
    BY <1>0, <2>1
  <2>3. tasks[1].sess <= csess
    BY <1>0, <2>2 DEF SessionInv, Earlier
  <2>4. \A s \in Sessions : s > csess => wire'[s] = wire[s]
    <3>0. tasks[1].n \in Nat
      BY <2>2 DEF Routed
    <3>1. PICK ns \in Seq(Nat) : ns = <<tasks[1].n>>
      BY <3>0, OneNumber
    <3>2. PICK r : r = tasks[1].sess /\ Write(r, ns)
      BY <2>1, <2>2, <3>1
    <3>3. \A s \in Sessions : s # r => wire'[s] = wire[s]
      BY <3>2, Written
    <3>4. \A s \in Sessions : s > csess => s # r
      BY <1>1, <2>2, <2>3, <3>2 DEF Sessions
    <3>5. QED
      BY <3>3, <3>4
  <2>5. QED
    BY <1>0, <2>1, <2>2, <2>4 DEF SessionInv, Earlier
<1>5. CASE \E s \in Sessions : ClearSess(s)
  <2>1. (sess' = 0 \/ sess' = sess) /\ UNCHANGED <<tasks, routing, wire, reconnect, csess>>
    BY <1>5 DEF ClearSess
  <2>2. QED
    BY <1>0, <1>1, <2>1 DEF SessionInv, Earlier
<1>6. CASE ReplaceSess
  <2>1. sess' = csess /\ reconnect'.pc = "resend" /\ reconnect'.sess = reconnect.sess /\ reconnect.pc = "replace"
        /\ UNCHANGED <<tasks, routing, wire, csess>>
    BY <1>0, <1>6 DEF ReplaceSess, SessionInv
  <2>2. QED
    BY <1>0, <1>1, <2>1 DEF SessionInv, Earlier
<1>7. CASE ResendUnAckMessages
  <2>1. PICK ns \in Seq(Nat) : Write(reconnect.sess, ns)
    <3>1. sendQueue \in Seq(Message)
      BY DEF SeqTypeOK
    <3>2. \E ns \in Seq(Nat) : ns = Numbers(Resent(sendQueue, Number(reconnect.got)))
      BY <3>1, ResentNumbers
    <3>3. QED
      BY <1>7, <3>2 DEF ResendUnAckMessages, Numbers
  <2>2. reconnect.pc = "resend" /\ reconnect'.pc = "idle" /\ UNCHANGED <<sess, tasks, routing, csess>>
    BY <1>7 DEF ResendUnAckMessages, NoReconnect
  <2>3. reconnect.sess = csess
    BY <1>0, <2>2 DEF SessionInv
  <2>4. \A s \in Sessions : s > csess => wire'[s] = wire[s]
    <3>1. \A s \in Sessions : s # csess => wire'[s] = wire[s]
      BY <2>1, <2>3, Written
    <3>2. \A s \in Sessions : s > csess => s # csess
      BY <1>1 DEF Sessions
    <3>3. QED
      BY <3>1, <3>2
  <2>5. QED
    BY <1>0, <2>2, <2>4 DEF SessionInv, Earlier
<1>8. CASE Receive
  <2>1. wire' = [wire EXCEPT ![csess] = Tail(wire[csess])] /\ UNCHANGED <<sess, tasks, routing, reconnect, csess>>
    BY <1>8 DEF Receive
  <2>2. \A s \in Sessions : s > csess => wire'[s] = wire[s]
    BY <1>0, <1>1, <2>1 DEF Sessions
  <2>3. QED
    BY <1>0, <2>1, <2>2 DEF SessionInv, Earlier
<1>9. CASE Reconnect
  <2>1. csess' = csess + 1 /\ reconnect'.pc = "replace" /\ reconnect'.sess = csess + 1
        /\ UNCHANGED <<sess, tasks, routing, wire>>
    BY <1>9 DEF Reconnect
  <2>2. \A s \in Nat : s <= csess => s <= csess + 1 /\ s < csess + 1
    BY <1>1
  <2>3. sess < csess' /\ routing.sess < csess' /\ \A i \in DOMAIN tasks : tasks[i].sess < csess'
    BY <1>0, <1>1, <2>1, <2>2 DEF SessionInv, Earlier
  <2>4. \A s \in Nat : s < csess + 1 => s <= csess + 1
    BY <1>1
  <2>5. \A s \in Sessions : s > csess' => wire'[s] = << >>
    BY <1>0, <1>1, <2>1 DEF SessionInv, Sessions
  <2>6. QED
    BY <1>0, <1>1, <2>1, <2>3, <2>4, <2>5 DEF SessionInv, Earlier
<1>10. CASE (\E s \in Sessions : Drop(s) \/ ClientRoute(s)) \/ (\E x \in timers : DelOffline(x)) \/ Request
            \/ Tick \/ UNCHANGED seqVars
  <2>1. UNCHANGED <<sess, tasks, routing, wire, reconnect, csess>>
    BY <1>10 DEF Drop, ClientRoute, DelOffline, Request, Tick, seqVars
  <2>2. QED
    BY <1>0, <2>1 DEF SessionInv, Earlier
<1>11. CASE RefuseReconnect
  <2>1. UNCHANGED <<sess, tasks, routing, wire, csess>> /\ reconnect'.pc = "idle" /\ reconnect.pc = "replace"
    BY <1>11 DEF RefuseReconnect, NoReconnect
  <2>2. QED
    BY <1>0, <2>1 DEF SessionInv, Earlier
<1>12. QED
  BY <1>2, <1>3, <1>4, <1>5, <1>6, <1>7, <1>8, <1>9, <1>10, <1>11 DEF SeqNext, ReconnectHandler

(* What is on its way to the client is in reach of what the client has: for *)
(* each of the steps that change one or the other.                          *)
LEMMA RouteReach ==
    ASSUME SeqTypeOK, AcksInv, LinkInv, Route
    PROVE  ReachInv'
<1>1. /\ sent \in Nat /\ got \in Nat /\ Window \in Nat /\ got <= sent /\ wire \in [Sessions -> Seq(Nat)]
      /\ csess \in Sessions /\ reconnect.got \in Nat
      /\ reconnect \in [pc : {"idle", "replace", "resend"}, sess : Nat, got : Nat]
  BY Sizes DEF SeqTypeOK, AcksInv
<1>2. routing' = [n |-> sent + 1, sess |-> sess] /\ UNCHANGED <<wire, tasks, got, csess, reconnect>>
  BY DEF Route, clientVars
<1>3. \A i \in DOMAIN wire[csess] : wire[csess][i] \in 1..sent
  BY <1>1 DEF LinkInv, OrderInv
<1>4. reconnect.pc = "resend" => reconnect.got < sent + 1
  <2>1. reconnect.pc = "resend" => reconnect.got \in Acks
    BY SaidAcks
  <2>2. reconnect.pc = "resend" => reconnect.got <= got
    BY <2>1 DEF AcksInv
  <2>3. QED
    BY <1>1, <2>2
<1>5. got <= sent + 1 + Window /\ \A n \in 1..sent : n <= sent + 1 + Window
  BY <1>1
<1>6. InReach(sent + 1)
  BY <1>3, <1>4, <1>5 DEF InReach
<1>7. QED
  BY <1>2, <1>6 DEF LinkInv, ReachInv, InReach

LEMMA PostReach ==
    ASSUME SeqTypeOK, LinkInv, Post
    PROVE  ReachInv'
<1>1. tasks' = Append(tasks, routing) /\ routing' = Nothing /\ UNCHANGED <<wire, got, csess, reconnect>>
  BY DEF Post, clientVars
<1>2. tasks \in Seq(Routed) /\ routing \in Routed
  BY DEF SeqTypeOK
<1>3. \A i \in DOMAIN tasks' : (i \in DOMAIN tasks /\ tasks'[i] = tasks[i]) \/ tasks'[i] = routing
  BY <1>1, <1>2
<1>4. routing'.sess # csess
  BY <1>1 DEF Nothing, SeqTypeOK, Sessions
<1>5. QED
  BY <1>1, <1>3, <1>4 DEF LinkInv, ReachInv, InReach

LEMMA NetSendReach ==
    ASSUME SeqTypeOK, LinkInv, NetSend
    PROVE  ReachInv'
<1>1. tasks # << >> /\ tasks' = Tail(tasks) /\ UNCHANGED <<routing, got, csess, reconnect>>
      /\ Write(Head(tasks).sess, <<Head(tasks).n>>)
  BY DEF NetSend, clientVars
<1>2. /\ tasks \in Seq(Routed) /\ csess \in Sessions /\ wire \in [Sessions -> Seq(Nat)]
      /\ Window \in Nat /\ got \in Nat /\ sent \in Nat /\ ReachInv /\ OrderInv
  BY Sizes DEF SeqTypeOK, LinkInv
<1>3. /\ 1 \in DOMAIN tasks /\ Head(tasks) = tasks[1] /\ tasks[1] \in Routed
      /\ \A i \in DOMAIN tasks' :
             i + 1 \in DOMAIN tasks /\ tasks'[i] = tasks[i + 1] /\ 1 < i + 1 /\ tasks[i + 1].n \in Nat
  <2>1. \A i \in DOMAIN tasks : tasks[i] \in Routed
    BY <1>2
  <2>2. \A i \in DOMAIN tasks : tasks[i].n \in Nat
    BY <2>1 DEF Routed
  <2>3. QED
    BY <1>1, <1>2, <2>1, <2>2
<1>4. PICK s, n : s = tasks[1].sess /\ n = tasks[1].n
  OBVIOUS
<1>5. n \in Nat
  BY <1>3, <1>4 DEF Routed
<1>6. PICK ns \in Seq(Nat) : ns = <<n>> /\ Len(ns) = 1 /\ ns[1] = n
  BY <1>5, OneNumber
<1>7. Write(s, ns)
  BY <1>1, <1>3, <1>4, <1>6
<1>8. /\ wire' \in [Sessions -> Seq(Nat)]
      /\ \A t \in Sessions : t # s => wire'[t] = wire[t]
      /\ s \in Sessions =>
            /\ Len(wire'[s]) <= Len(wire[s]) + Len(ns)
            /\ \A i \in 1..Len(wire'[s]) :
                  wire'[s][i] = IF i <= Len(wire[s]) THEN wire[s][i] ELSE ns[i - Len(wire[s])]
  BY <1>7, Written
<1>9. CASE s # csess
  <2>1. wire'[csess] = wire[csess]
    BY <1>2, <1>8, <1>9
  <2>2. QED
    BY <1>1, <1>2, <1>3, <2>1 DEF ReachInv, InReach
<1>10. CASE s = csess
  <2>1. PICK v \in Seq(Nat), w \in Seq(Nat) : v = wire'[csess] /\ w = wire[csess]
    BY <1>2, <1>8
  <2>2. /\ Len(v) \in Nat /\ Len(w) \in Nat /\ DOMAIN v = 1..Len(v) /\ DOMAIN w = 1..Len(w)
        /\ Len(v) <= Len(w) + 1
    BY <1>2, <1>6, <1>8, <1>10, <2>1
  <2>3. \A i \in DOMAIN v : \/ i \in DOMAIN w /\ v[i] = w[i]
                            \/ i = Len(w) + 1 /\ v[i] = n
    <3> SUFFICES ASSUME NEW i \in DOMAIN v
                 PROVE  \/ i \in DOMAIN w /\ v[i] = w[i]
                        \/ i = Len(w) + 1 /\ v[i] = n
      OBVIOUS
    <3>1. v[i] = IF i <= Len(w) THEN w[i] ELSE ns[i - Len(w)]
      BY <1>2, <1>8, <1>10, <2>1, <2>2
    <3>2. CASE i <= Len(w)
      BY <2>2, <3>1, <3>2
    <3>3. CASE ~(i <= Len(w))
      <4>1. i = Len(w) + 1 /\ i - Len(w) = 1
        BY <2>2, <3>3
      <4>2. QED
        BY <1>6, <3>1, <3>3, <4>1
    <3>4. QED
      BY <3>2, <3>3
  <2>4. InReach(n)
    BY <1>2, <1>3, <1>4, <1>10 DEF ReachInv
  <2>5. /\ got <= n + Window /\ \A i \in DOMAIN w : w[i] <= n + Window
        /\ \A i \in DOMAIN w : got <= w[i] + Window
        /\ \A i, j \in DOMAIN w : i < j => w[i] <= w[j] + Window
    BY <1>2, <2>1, <2>4 DEF InReach, ReachInv
  <2>6. \A i \in DOMAIN v : got <= v[i] + Window
    BY <2>3, <2>5
  <2>7. \A i, j \in DOMAIN v : i < j => v[i] <= v[j] + Window
    <3> SUFFICES ASSUME NEW i \in DOMAIN v, NEW j \in DOMAIN v, i < j PROVE v[i] <= v[j] + Window
      OBVIOUS
    <3>1. i \in DOMAIN w /\ v[i] = w[i]
      <4>1. i # Len(w) + 1
        BY <2>2
      <4>2. QED
        BY <2>3, <4>1
    <3>2. QED
      BY <2>3, <2>5, <3>1
  <2>8. ASSUME NEW m \in Nat, n < m, InReach(m) PROVE \A i \in DOMAIN v : v[i] <= m + Window
    <3>1. n <= m + Window
      BY <1>2, <1>5, <2>8
    <3>2. \A i \in DOMAIN w : w[i] <= m + Window
      BY <2>1, <2>8 DEF InReach
    <3>3. QED
      BY <2>3, <3>1, <3>2
  <2>9. ASSUME NEW m \in Nat, n < m, InReach(m) PROVE InReach(m)'
    BY <1>1, <2>1, <2>8, <2>9 DEF InReach
  <2>10. ASSUME NEW i \in DOMAIN tasks', tasks'[i].sess = csess, NEW m, m = tasks'[i].n
        PROVE  InReach(m)'
    <3>1. m = tasks[i + 1].n /\ i + 1 \in DOMAIN tasks /\ tasks[i + 1].sess = csess
      BY <1>3, <2>10
    <3>2. m \in Nat /\ n < m
      BY <1>2, <1>3, <1>4, <3>1 DEF OrderInv
    <3>3. InReach(m)
      BY <1>2, <3>1 DEF ReachInv
    <3>4. QED
      BY <2>9, <3>2, <3>3
  <2>11. ASSUME routing.sess = csess, NEW m, m = routing.n
        PROVE  InReach(m)'
    <3>1. routing # Nothing /\ m \in Nat
      BY <1>2, <2>11 DEF Nothing, Sessions, Routed, SeqTypeOK
    <3>2. n < m /\ InReach(m)
      BY <1>2, <1>3, <1>4, <2>11, <3>1 DEF OrderInv, ReachInv
    <3>3. QED
      BY <2>9, <3>1, <3>2
  <2>12. csess' = csess /\ routing' = routing /\ wire'[csess] = v
    BY <1>1, <2>1
  <2>13. QED
    BY <2>6, <2>7, <2>10, <2>11, <2>12, <1>1 DEF ReachInv, InReach
<1>11. QED
  BY <1>9, <1>10

LEMMA ResendReach ==
    ASSUME SeqTypeOK, QueueInv, AcksInv, LinkInv, ResendUnAckMessages
    PROVE  ReachInv'
<1>1. /\ tasks \in Seq(Routed) /\ routing \in Routed /\ csess \in Sessions /\ wire \in [Sessions -> Seq(Nat)]
      /\ Window \in Nat /\ got \in Nat /\ sent \in Nat /\ reconnect.got \in Nat
      /\ sendQueue \in Seq(Message) /\ Len(sendQueue) \in Nat /\ ReachInv /\ OrderInv
      /\ \A i \in DOMAIN tasks : tasks[i].n \in Nat
  <2>1. \A i \in DOMAIN tasks : tasks[i] \in Routed
    BY DEF SeqTypeOK
  <2>2. \A i \in DOMAIN tasks : tasks[i].n \in Nat
    BY <2>1 DEF Routed
  <2>3. QED
    BY <2>2, Sizes DEF SeqTypeOK, LinkInv
<1>2. reconnect.pc = "resend" /\ reconnect'.pc = "idle" /\ UNCHANGED <<tasks, routing, csess, got, sent>>
  BY DEF ResendUnAckMessages, NoReconnect, clientVars, userVars, queueVars
<1>3. reconnect.sess = csess /\ got <= sent /\ sent <= reconnect.got + Window
  <2>1. reconnect.got \in Acks
    BY <1>2, SaidAcks
  <2>2. QED
    BY <1>2, <2>1 DEF LinkInv, SessionInv, AcksInv
<1>4. PICK ns \in Seq(Nat) :
           /\ ns = Numbers(Resent(sendQueue, Number(reconnect.got)))
           /\ \A k \in DOMAIN ns : \E i \in DOMAIN sendQueue : ns[k] = sendQueue[i].n
  BY <1>1, ResentNumbers
<1>5. Write(csess, ns)
  BY <1>3, <1>4 DEF ResendUnAckMessages, Numbers
<1>6. \A k \in DOMAIN ns : ns[k] \in 1..sent /\ sent <= ns[k] + Window
  <2>1. Queue(sendQueue, sent, sentAt) /\ Len(sendQueue) <= sent /\ Len(sendQueue) <= Window
    BY DEF QueueInv, Queue
  <2>2. \A i \in DOMAIN sendQueue : sendQueue[i].n \in (sent - Len(sendQueue) + 1)..sent
    BY <1>1, <2>1, InQueue
  <2>3. \A n \in (sent - Len(sendQueue) + 1)..sent : n \in 1..sent /\ sent <= n + Window
    BY <1>1, <2>1
  <2>4. QED
    BY <1>4, <2>2, <2>3
<1>7. /\ wire' \in [Sessions -> Seq(Nat)]
      /\ Len(wire'[csess]) <= Len(wire[csess]) + Len(ns)
      /\ \A i \in 1..Len(wire'[csess]) :
            wire'[csess][i] = IF i <= Len(wire[csess]) THEN wire[csess][i] ELSE ns[i - Len(wire[csess])]
  BY <1>1, <1>5, Written
<1>8. PICK v \in Seq(Nat), w \in Seq(Nat) : v = wire'[csess] /\ w = wire[csess]
  BY <1>1, <1>7
<1>9. /\ Len(v) \in Nat /\ Len(w) \in Nat /\ DOMAIN v = 1..Len(v) /\ DOMAIN w = 1..Len(w)
      /\ Len(ns) \in Nat /\ DOMAIN ns = 1..Len(ns)
      /\ \A i \in DOMAIN v : i \in DOMAIN w \/ i - Len(w) \in DOMAIN ns
  BY <1>7, <1>8
<1>10. \A i \in DOMAIN v : \/ i \in DOMAIN w /\ v[i] = w[i]
                           \/ i \notin DOMAIN w /\ v[i] \in 1..sent /\ sent <= v[i] + Window
  <2> SUFFICES ASSUME NEW i \in DOMAIN v
               PROVE  \/ i \in DOMAIN w /\ v[i] = w[i]
                      \/ i \notin DOMAIN w /\ v[i] \in 1..sent /\ sent <= v[i] + Window
    OBVIOUS
  <2>1. v[i] = IF i <= Len(w) THEN w[i] ELSE ns[i - Len(w)]
    BY <1>7, <1>8, <1>9
  <2>2. CASE i <= Len(w)
    BY <1>9, <2>1, <2>2
  <2>3. CASE ~(i <= Len(w))
    <3>1. i \notin DOMAIN w /\ i - Len(w) \in DOMAIN ns /\ v[i] = ns[i - Len(w)]
      BY <1>9, <2>1, <2>3
    <3>2. QED
      BY <1>6, <3>1
  <2>4. QED
    BY <2>2, <2>3
<1>11. \A i \in DOMAIN w : w[i] \in 1..sent
  BY <1>1, <1>8 DEF OrderInv
<1>12. \A i \in DOMAIN v : got <= v[i] + Window
  <2>1. \A i \in DOMAIN w : got <= w[i] + Window
    BY <1>1, <1>8 DEF ReachInv
  <2>2. \A x \in 1..sent : sent <= x + Window => got <= x + Window
    BY <1>1, <1>3
  <2>3. QED
    BY <1>10, <2>1, <2>2
<1>13. \A i, j \in DOMAIN v : i < j => v[i] <= v[j] + Window
  <2> SUFFICES ASSUME NEW i \in DOMAIN v, NEW j \in DOMAIN v, i < j PROVE v[i] <= v[j] + Window
    OBVIOUS
  <2>1. v[i] \in 1..sent
    BY <1>10, <1>11
  <2>2. CASE j \in DOMAIN w
    <3>1. i \in DOMAIN w
      BY <1>9, <2>2
    <3>2. w[i] <= w[j] + Window
      BY <1>1, <1>8, <2>2, <3>1 DEF ReachInv
    <3>3. QED
      BY <1>10, <2>2, <3>1, <3>2
  <2>3. CASE j \notin DOMAIN w
    <3>1. v[j] \in 1..sent /\ sent <= v[j] + Window
      BY <1>10, <2>3
    <3>2. QED
      BY <1>1, <2>1, <3>1
  <2>4. QED
    BY <2>2, <2>3
<1>14. ASSUME NEW m \in Nat, InReach(m) PROVE InReach(m)'
  <2>1. reconnect.got < m /\ got <= m + Window /\ \A i \in DOMAIN w : w[i] <= m + Window
    BY <1>2, <1>8, <1>14 DEF InReach
  <2>2. \A x \in 1..sent : x <= m + Window
    BY <1>1, <1>3, <2>1
  <2>3. \A i \in DOMAIN v : v[i] <= m + Window
    BY <1>10, <2>1, <2>2
  <2>4. QED
    BY <1>2, <1>8, <2>1, <2>3 DEF InReach
<1>15. ASSUME NEW i \in DOMAIN tasks, tasks[i].sess = csess, NEW m, m = tasks[i].n PROVE InReach(m)'
  BY <1>1, <1>14, <1>15 DEF ReachInv
<1>16. ASSUME routing.sess = csess, NEW m, m = routing.n PROVE InReach(m)'
  <2>1. m \in Nat /\ InReach(m)
    BY <1>1, <1>16 DEF ReachInv, Routed
  <2>2. QED
    BY <1>14, <2>1
<1>17. QED
  BY <1>2, <1>8, <1>12, <1>13, <1>15, <1>16 DEF ReachInv, InReach

LEMMA ReceiveReach ==
    ASSUME SeqTypeOK, AcksInv, LinkInv, Receive
    PROVE  ReachInv'
<1>1. /\ csess \in Sessions /\ wire \in [Sessions -> Seq(Nat)] /\ wire[csess] # << >>
      /\ wire' = [wire EXCEPT ![csess] = Tail(wire[csess])]
      /\ UNCHANGED <<tasks, routing, reconnect, csess>> /\ ReachInv
  BY DEF SeqTypeOK, LinkInv, Receive
<1>2. PICK v \in Seq(Nat), w \in Seq(Nat) : /\ v = wire'[csess] /\ w = wire[csess] /\ w # << >> /\ v = Tail(w)
  <2>1. wire[csess] \in Seq(Nat) /\ wire'[csess] = Tail(wire[csess])
    BY <1>1
  <2>2. Tail(wire[csess]) \in Seq(Nat)
    BY <1>1, <2>1
  <2>3. QED
    BY <1>1, <2>1, <2>2
<1>3. /\ 1 \in DOMAIN w /\ DOMAIN w = 1..Len(w) /\ Len(w) \in Nat
      /\ \A i \in DOMAIN v : i \in Nat /\ i + 1 \in DOMAIN w /\ v[i] = w[i + 1] /\ 1 < i + 1
  BY <1>2
<1>4. /\ \A i, j \in DOMAIN w : i < j => w[i] <= w[j] + Window
      /\ \A i \in DOMAIN w : got <= w[i] + Window
  BY <1>1, <1>2 DEF ReachInv
<1>5. got' = got \/ got' = w[1]
  BY <1>2, ReceivesNext
<1>6. \A i, j \in DOMAIN v : i < j => v[i] <= v[j] + Window
  <2> SUFFICES ASSUME NEW i \in DOMAIN v, NEW j \in DOMAIN v, i < j PROVE v[i] <= v[j] + Window
    OBVIOUS
  <2>1. i + 1 < j + 1
    BY <1>3
  <2>2. QED
    BY <1>3, <1>4, <2>1
<1>7. \A i \in DOMAIN v : got' <= v[i] + Window
  BY <1>3, <1>4, <1>5
<1>8. ASSUME NEW m, InReach(m) PROVE InReach(m)'
  <2>1. got <= m + Window /\ \A i \in DOMAIN w : w[i] <= m + Window
    BY <1>2, <1>8 DEF InReach
  <2>2. got' <= m + Window /\ \A i \in DOMAIN v : v[i] <= m + Window
    BY <1>3, <1>5, <2>1
  <2>3. QED
    BY <1>1, <1>2, <1>8, <2>2 DEF InReach
<1>9. ASSUME NEW i \in DOMAIN tasks, tasks[i].sess = csess, NEW m, m = tasks[i].n PROVE InReach(m)'
  BY <1>1, <1>8, <1>9 DEF ReachInv
<1>10. ASSUME routing.sess = csess, NEW m, m = routing.n PROVE InReach(m)'
  BY <1>1, <1>8, <1>10 DEF ReachInv
<1>11. QED
  BY <1>1, <1>2, <1>6, <1>7, <1>9, <1>10 DEF ReachInv, InReach

(* A new session has nothing on its way, and gets nothing before the user   *)
(* object has it.                                                           *)
LEMMA ReconnectReach ==
    ASSUME SeqTypeOK, LinkInv, Reconnect
    PROVE  ReachInv'
<1>1. csess' = csess + 1 /\ UNCHANGED <<wire, tasks, routing, got>> /\ csess + 1 \in Sessions /\ csess \in Nat
  <2>1. csess \in Nat /\ csess + 1 \in Sessions
    BY NextSession DEF Reconnect
  <2>2. UNCHANGED <<wire, tasks, routing, got>> /\ csess' = csess + 1
    BY DEF Reconnect, netVars
  <2>3. QED
    BY <2>1, <2>2
<1>2. wire[csess + 1] = << >>
  BY <1>1 DEF LinkInv, SessionInv
<1>3. \A x \in Nat : x <= csess => x # csess + 1
  BY <1>1
<1>4. \A i \in DOMAIN tasks : tasks[i].sess \in Nat /\ tasks[i].sess <= csess
  <2>1. \A i \in DOMAIN tasks : tasks[i] \in Routed
    BY DEF SeqTypeOK
  <2>2. QED
    BY <2>1 DEF Routed, LinkInv, SessionInv, Earlier
<1>5. routing.sess \in Nat /\ routing.sess <= csess
  BY DEF SeqTypeOK, Routed, LinkInv, SessionInv, Earlier
<1>6. QED
  BY <1>1, <1>2, <1>3, <1>4, <1>5 DEF ReachInv

LEMMA ReplaceReach ==
    ASSUME SeqTypeOK, LinkInv, ReplaceSess
    PROVE  ReachInv'
<1>1. reconnect.pc = "replace" /\ UNCHANGED <<wire, tasks, routing, got, csess>> /\ csess \in Nat
  BY DEF ReplaceSess, netVars, clientVars, SeqTypeOK, Sessions
<1>2. routing.sess # csess /\ \A i \in DOMAIN tasks : tasks[i].sess # csess
  <2>1. \A i \in DOMAIN tasks : tasks[i] \in Routed
    BY DEF SeqTypeOK
  <2>2. \A i \in DOMAIN tasks : tasks[i].sess \in Nat /\ tasks[i].sess < csess
    BY <1>1, <2>1 DEF Routed, LinkInv, SessionInv, Earlier
  <2>3. routing.sess \in Nat /\ routing.sess < csess
    BY <1>1 DEF SeqTypeOK, Routed, LinkInv, SessionInv, Earlier
  <2>4. QED
    BY <1>1, <2>2, <2>3
<1>3. QED
  BY <1>1, <1>2 DEF LinkInv, ReachInv

LEMMA LinkStep ==
    ASSUME SeqTypeOK, QueueInv, AcksInv, LinkInv, [SeqNext]_seqVars
    PROVE  LinkInv'
<1>1. ReachInv'
  <2>1. CASE (\E s \in Sessions : Drop(s) \/ ClearSess(s) \/ ClientRoute(s)) \/ (\E x \in timers : DelOffline(x))
             \/ RefuseReconnect \/ Request \/ Tick \/ UNCHANGED seqVars
    <3>1. UNCHANGED <<wire, tasks, routing, got, csess>>
          /\ (reconnect'.pc = "resend" => reconnect' = reconnect)
      BY <2>1 DEF ClearSess, Drop, ClientRoute, DelOffline, RefuseReconnect, NoReconnect, Request, Tick,
                  seqVars, netVars, clientVars
    <3>2. QED
      BY <3>1 DEF LinkInv, ReachInv, InReach
  <2>2. QED
    BY <2>1, RouteReach, PostReach, NetSendReach, ResendReach, ReceiveReach, ReconnectReach, ReplaceReach
       DEF SeqNext, ReconnectHandler
<1>2. QED
  BY <1>1, OrderStep, SessionStep DEF LinkInv

LEMMA SeqInvInit == SeqInit => SeqInv
<1> SUFFICES ASSUME SeqInit PROVE SeqInv
  OBVIOUS
<1> USE DEF SeqInit
<1>1. SeqTypeOK
  BY Sizes DEF SeqTypeOK, Sessions, Routed, Nothing, NoReconnect
<1>2. QueueInv
  BY Sizes DEF QueueInv, Queue
<1>3. AcksInv
  <2>1. Acks = {0}
    BY DEF Acks, Said, Reconnecting, NoReconnect
  <2>2. QED
    BY <2>1, Sizes DEF AcksInv
<1>4. NothingLost
  BY DEF NothingLost
<1>5. RequestInv
  <2>1. \A s \in Sessions : DOMAIN uplink[s] = {} /\ uplink[s] = << >>
    BY Sizes DEF Sessions
  <2>2. 1 \in Sessions /\ 0 <= 0 /\ 0 = 0 % SeqMod
    BY Sizes DEF Sessions
  <2>3. QED
    BY <2>1, <2>2 DEF RequestInv, RequestsOnce, Sent, InOrder, Before, Ahead, Number
<1>6. LinkInv
  <2>1. 1 \in Sessions /\ DOMAIN tasks = {} /\ \A s \in Sessions : DOMAIN wire[s] = {} /\ wire[s] = << >>
    BY Sizes DEF Sessions
  <2>2. OrderInv
    BY <2>1 DEF OrderInv
  <2>3. SessionInv
    BY <2>1 DEF SessionInv, Earlier, Nothing, NoReconnect
  <2>4. ReachInv
    BY <2>1 DEF ReachInv, Nothing
  <2>5. QED
    BY <2>2, <2>3, <2>4 DEF LinkInv
<1>7. QED
  BY <1>1, <1>2, <1>3, <1>4, <1>5, <1>6 DEF SeqInv

LEMMA SeqInvStep == SeqInv /\ [SeqNext]_seqVars => SeqInv'
BY TypeStep, UserStep, AcksStep, RequestStep, LinkStep DEF SeqInv

LEMMA SeqInvariance == SeqSpec => []SeqInv
BY SeqInvInit, SeqInvStep, PTL DEF SeqSpec

-----------------------------------------------------------------------------
(* As long as the gate_log_out timer has not removed the user, UpdateAck    *)
(* and AddSendMessage take from its SendQueue only what the client has and  *)
(* what is too old, whatever breaks, is refused or overtakes, and however   *)
(* often the numbers have wrapped.                                          *)
THEOREM NoMessageIsLost == SeqSpec => []NothingLost
<1>1. SeqInv => NothingLost
  BY DEF SeqInv
<1>2. QED
  BY <1>1, SeqInvariance, PTL

(* ClientRouteHandler accepts no request twice and none after a later one,  *)
(* though many are on their way on several sessions, repeated by the client *)
(* and read in any order between the sessions.                              *)
THEOREM RequestsAreHandledOnce == SeqSpec => []RequestsOnce
<1>1. SeqInv => RequestsOnce
  BY DEF SeqInv, RequestInv
<1>2. QED
  BY <1>1, SeqInvariance, PTL

(* The client takes no message but the next, though NetMgr's goroutine and  *)
(* a resend write to its session in any order and numbers repeat.           *)
THEOREM NumbersAreNotMixedUp == SeqSpec => NoMixUp
<1>1. ASSUME SeqInv, [SeqNext]_seqVars, got' # got PROVE got' = got + 1
  <2>1. Receive
    BY <1>1 DEF SeqNext, Route, Post, NetSend, ClearSess, Drop, DelOffline, ReconnectHandler, ReplaceSess,
                RefuseReconnect, ResendUnAckMessages, ClientRoute, Request, Reconnect, Tick, seqVars, clientVars
  <2>2. QED
    BY <1>1, <2>1, ReceivesNext DEF SeqInv
<1>2. SeqInv /\ [SeqNext]_seqVars => [got' # got => got' = got + 1]_seqVars
  BY <1>1
<1>3. QED
  BY <1>2, SeqInvariance, PTL DEF SeqSpec, NoMixUp
===============================================================================
