-------------------------- MODULE ServerKernelProofs --------------------------
(***************************************************************************)
(* Proofs about the parts of the server kernel: AsyncPool as ServerKernel  *)
(* uses it, the order in which the kernel stops its pools, and the timer   *)
(* manager, for any keys, sizes, hash, capacities, calls and timers.       *)
(*                                                                         *)
(* The argument looks at the line of each worker: the task it runs and     *)
(* those of its channel.  Taking a task does not change the line, a post   *)
(* appends to it and the end of a task takes its first.  Sound says what   *)
(* stands in the lines, Complete that for a key they hold all that is      *)
(* accepted and not finished, Counted how many tasks that are, without a   *)
(* key as well, and StopInv what a worker that drains has still to run.    *)
(*                                                                         *)
(* KernelInv adds where calls wait, where responses stand and how far the  *)
(* stop is; TimerInv says where each timer stands on its schedule.         *)
(***************************************************************************)
EXTENDS ServerKernel, TimerMgr, TLAPS, FiniteSetTheorems

Lines == [w \in Workers |-> IF Idle(w) THEN ch[w] ELSE <<current[w]>> \o ch[w]]
Home(p, k) == <<p, WorkerOf[p][k]>>
AllLines == [Workers -> Seq(Task)]

(* Numbers in a line are those of accepted tasks, and those of a key are    *)
(* not finished and at home; for each key they increase in a line, and none *)
(* is in two lines of a pool.                                               *)
Standing(L, acc, fin) ==
    \A w \in Workers : \A i \in DOMAIN L[w] :
        /\ L[w][i].n \in 1..acc[<<w[1], L[w][i].key>>]
        /\ L[w][i].key # 0 =>
               w = Home(w[1], L[w][i].key) /\ L[w][i].n > fin[<<w[1], L[w][i].key>>]
Increasing(L) ==
    \A w \in Workers : \A i, j \in DOMAIN L[w] :
        i < j /\ L[w][i].key = L[w][j].key => L[w][i].n < L[w][j].n
Apart(L) ==
    \A v, w \in Workers : \A i \in DOMAIN L[v], j \in DOMAIN L[w] :
        v # w /\ v[1] = w[1] /\ L[v][i].key = L[w][j].key => L[v][i].n # L[w][j].n
Sound(L, acc, fin) == Standing(L, acc, fin) /\ Increasing(L) /\ Apart(L)

Holds(L, w, k, n) == \E i \in DOMAIN L[w] : L[w][i].key = k /\ L[w][i].n = n

(* What is accepted for a key and not finished stands in the line at home.  *)
Complete(L, acc, fin) ==
    \A p \in Pools, k \in Keys : \A n \in (fin[<<p, k>>] + 1)..acc[<<p, k>>] :
        Holds(L, Home(p, k), k, n)

(* The tasks of a key, or those without, that are accepted and unfinished.  *)
Outstanding(L, acc, q) ==
    {n \in 1..acc[q] : \E w \in Workers : w[1] = q[1] /\ Holds(L, w, q[2], n)}
Counted(L, acc, fin) ==
    \A q \in Pools \X AllKeys : fin[q] + Cardinality(Outstanding(L, acc, q)) = acc[q]

InOrder(L, acc, fin) == Sound(L, acc, fin) /\ Complete(L, acc, fin) /\ Counted(L, acc, fin)

Late(w, i) == ch[w][i].n > early[<<w[1], ch[w][i].key>>]

(* What a worker that drains will leave behind was accepted after the stop. *)
StopInv ==
    /\ \A q \in Pools \X AllKeys : early[q] <= accepted[q]
    /\ \A w \in Workers :
           /\ poolStop[w[1]] = "no" => worker[w] = "running"
           /\ worker[w] = "draining" =>
                  left[w] <= Len(ch[w]) /\ \A i \in DOMAIN ch[w] : i > left[w] => Late(w, i)
           /\ worker[w] = "ended" => Idle(w) /\ \A i \in DOMAIN ch[w] : Late(w, i)
    /\ StopRunsAccepted

PoolInv == PoolTypeOK /\ InOrder(Lines, accepted, finished) /\ StopInv

----------------------------------------------------------------------------
(* Workers and keys. *)
LEMMA WorkerParts ==
    /\ \A w \in Workers : w[1] \in Pools /\ w[2] \in WorkersOf(w[1]) /\ w = <<w[1], w[2]>>
    /\ \A p \in Pools : \A i \in WorkersOf(p) : <<p, i>> \in Workers /\ <<p, i>>[1] = p
BY DEF Workers

LEMMA TargetType ==
    ASSUME PoolTypeOK, NEW p \in Pools, NEW k \in AllKeys
    PROVE  /\ Target(p, k) \in Workers /\ Target(p, k)[1] = p
           /\ k # 0 => Target(p, k) = Home(p, k)
<1>1. k # 0 => WorkerOf[p][k] \in WorkersOf(p)
  BY PoolParameters DEF PoolParameters, AllKeys
<1>2. index[p] + 1 \in Nat /\ Size[p] \in Nat /\ Size[p] > 0
  BY PoolParameters DEF PoolParameters, PoolTypeOK
<1>3. NextIndex(p) \in WorkersOf(p)
  BY <1>2 DEF NextIndex, WorkersOf
<1> QED
  BY <1>1, <1>3, WorkerParts DEF Target, Home

LEMMA HomeType ==
    ASSUME NEW p \in Pools, NEW k \in Keys
    PROVE  Home(p, k) \in Workers /\ Home(p, k)[1] = p
BY PoolParameters, WorkerParts DEF PoolParameters, Home

LEMMA LineType ==
    ASSUME PoolTypeOK
    PROVE  Lines \in AllLines
BY DEF Lines, AllLines, PoolTypeOK

(* The ways in which the lines change. *)
LEMMA LinesKept ==
    ASSUME UNCHANGED <<ch, current>>
    PROVE  Lines' = Lines
BY DEF Lines, Idle

LEMMA LinesTake ==
    ASSUME PoolTypeOK, Sound(Lines, accepted, finished), NEW w \in Workers, Idle(w), ch[w] # <<>>, Take(w)
    PROVE  Lines' = Lines
<1>1. Lines[w] = ch[w] /\ ch[w] \in Seq(Task) /\ 1 \in DOMAIN ch[w]
  BY DEF Lines, PoolTypeOK
<1>2. Head(ch[w]) # NoTask
  <2>1. ch[w][1].n \in 1..accepted[<<w[1], ch[w][1].key>>]
    BY <1>1 DEF Sound, Standing
  <2>2. Head(ch[w]) = ch[w][1] /\ NoTask.n = 0
    BY <1>1 DEF NoTask
  <2> QED
    BY <2>1, <2>2
<1>3. /\ current'[w] = Head(ch[w]) /\ ch'[w] = Tail(ch[w])
      /\ \A v \in Workers \ {w} : current'[v] = current[v] /\ ch'[v] = ch[v]
  BY DEF Take, PoolTypeOK
<1>4. <<Head(ch[w])>> \o Tail(ch[w]) = ch[w]
  BY <1>1
<1>5. ASSUME NEW v \in Workers PROVE Lines'[v] = Lines[v]
  BY <1>1, <1>2, <1>3, <1>4 DEF Lines, Idle
<1> QED
  BY <1>5 DEF Lines

LEMMA LinesPost ==
    ASSUME PoolTypeOK, NEW w \in Workers, NEW t \in Task,
           ch' = [ch EXCEPT ![w] = Append(@, t)], UNCHANGED current
    PROVE  Lines' = [Lines EXCEPT ![w] = Append(@, t)]
<1>1. ch[w] \in Seq(Task) /\ current[w] \in Task
  BY DEF PoolTypeOK
<1>2. <<current[w]>> \o Append(ch[w], t) = Append(<<current[w]>> \o ch[w], t)
  BY <1>1
<1>3. ASSUME NEW v \in Workers
      PROVE  Lines'[v] = IF v = w THEN Append(Lines[w], t) ELSE Lines[v]
  BY <1>2 DEF Lines, Idle, PoolTypeOK
<1> QED
  BY <1>3 DEF Lines

LEMMA LinesFinish ==
    ASSUME PoolTypeOK, NEW w \in Workers, ~Idle(w),
           current' = [current EXCEPT ![w] = NoTask], UNCHANGED ch
    PROVE  /\ Lines' = [Lines EXCEPT ![w] = Tail(@)]
           /\ Lines[w] # <<>> /\ Lines[w][1] = current[w]
<1>1. ch[w] \in Seq(Task) /\ current[w] \in Task
  BY DEF PoolTypeOK
<1>2. /\ Lines[w] = <<current[w]>> \o ch[w] /\ Tail(Lines[w]) = ch[w]
      /\ Lines[w] # <<>> /\ Lines[w][1] = current[w]
  BY <1>1 DEF Lines
<1>3. ASSUME NEW v \in Workers
      PROVE  Lines'[v] = IF v = w THEN Tail(Lines[w]) ELSE Lines[v]
  BY <1>2 DEF Lines, Idle, PoolTypeOK
<1> QED
  BY <1>2, <1>3 DEF Lines

----------------------------------------------------------------------------
(* What a line holds, and how many tasks of a key there are. *)
LEMMA InLine ==
    ASSUME NEW L \in AllLines, NEW w \in Workers
    PROVE  /\ L[w] \in Seq(Task) /\ w[1] \in Pools
           /\ \A k \in AllKeys : <<w[1], k>> \in Pools \X AllKeys
           /\ \A i \in DOMAIN L[w] : L[w][i] \in Task /\ L[w][i].key \in AllKeys /\ L[w][i].n \in Nat
<1>1. L[w] \in Seq(Task)
  BY DEF AllLines
<1>2. \A i \in DOMAIN L[w] : L[w][i] \in Task
  BY <1>1
<1> QED
  BY <1>1, <1>2, WorkerParts DEF Task

LEMMA OutstandingCount ==
    ASSUME NEW L, NEW acc \in Counts, NEW q \in Pools \X AllKeys
    PROVE  /\ IsFiniteSet(Outstanding(L, acc, q))
           /\ Cardinality(Outstanding(L, acc, q)) \in Nat
<1>1. acc[q] \in Nat
  BY DEF Counts
<1>2. Outstanding(L, acc, q) \subseteq 1..acc[q]
  BY DEF Outstanding
<1>3. IsFiniteSet(Outstanding(L, acc, q))
  <2>1. 1 \in Int /\ acc[q] \in Int
    BY <1>1
  <2>2. IsFiniteSet(1..acc[q])
    BY <2>1, FS_Interval
  <2> QED
    BY <1>2, <2>2, FS_Subset
<1> QED
  BY <1>3, FS_CardinalityType

(* A post that is taken appends the next number of its key.                 *)
LEMMA PostKeepsOrder ==
    ASSUME NEW L \in AllLines, NEW acc \in Counts, NEW fin \in Counts, InOrder(L, acc, fin),
           NEW w \in Workers, NEW k \in AllKeys, k # 0 => w = Home(w[1], k),
           NEW q, q = <<w[1], k>>, NEW t \in Task, t.key = k, t.n = acc[q] + 1,
           NEW M, M = [L EXCEPT ![w] = Append(@, t)],
           NEW bcc, bcc = [acc EXCEPT ![q] = @ + 1]
    PROVE  InOrder(M, bcc, fin)
<1>1. q \in Pools \X AllKeys /\ \A v \in Workers : v[1] = w[1] => <<v[1], k>> = q
  BY InLine
<1>2. /\ \A r \in Pools \X AllKeys : acc[r] \in Nat /\ fin[r] \in Nat /\ bcc[r] \in Nat
      /\ \A r \in Pools \X AllKeys : r # q => bcc[r] = acc[r]
      /\ bcc[q] = acc[q] + 1
  BY <1>1 DEF Counts
<1>q. acc[q] \in Nat /\ fin[q] \in Nat /\ bcc[q] \in Nat
  BY <1>1, <1>2
<1>3. PICK m \in Nat : m = Len(L[w]) + 1
  BY InLine
<1>4. /\ DOMAIN L[w] = 1..(m - 1) /\ DOMAIN M[w] = 1..m /\ M[w][m] = t
      /\ \A i \in 1..(m - 1) : M[w][i] = L[w][i]
  BY <1>3, InLine DEF AllLines
<1>5. \A v \in Workers : v # w => M[v] = L[v]
  BY DEF AllLines
<1>6. \A v \in Workers : \A i \in DOMAIN M[v] :
          \/ v = w /\ i = m /\ M[v][i] = t
          \/ i \in DOMAIN L[v] /\ M[v][i] = L[v][i] /\ (v = w => i < m)
  BY <1>4, <1>5
<1>7. \A v \in Workers : \A i \in DOMAIN L[v] : i \in DOMAIN M[v] /\ M[v][i] = L[v][i]
  BY <1>4, <1>5
<1>8. fin[q] <= acc[q]
  <2>1. Cardinality(Outstanding(L, acc, q)) \in Nat
    BY <1>1, OutstandingCount
  <2> QED
    BY <1>1, <1>2, <2>1 DEF InOrder, Counted
<1>9. \A v \in Workers : \A i \in DOMAIN L[v] :
          v[1] = w[1] /\ L[v][i].key = k => L[v][i].n \in Nat /\ L[v][i].n <= acc[q]
  <2> SUFFICES ASSUME NEW v \in Workers, NEW i \in DOMAIN L[v], v[1] = w[1], L[v][i].key = k
               PROVE  L[v][i].n \in Nat /\ L[v][i].n <= acc[q]
    OBVIOUS
  <2>1. L[v][i].n \in 1..acc[<<v[1], L[v][i].key>>]
    BY DEF InOrder, Sound, Standing
  <2>2. <<v[1], L[v][i].key>> = q /\ acc[q] \in Nat
    BY <1>1, <1>2
  <2> QED
    BY <2>1, <2>2
<1>10. Standing(M, bcc, fin)
  <2> SUFFICES ASSUME NEW v \in Workers, NEW i \in DOMAIN M[v]
               PROVE  /\ M[v][i].n \in 1..bcc[<<v[1], M[v][i].key>>]
                      /\ M[v][i].key # 0 =>
                             v = Home(v[1], M[v][i].key) /\ M[v][i].n > fin[<<v[1], M[v][i].key>>]
    BY DEF Standing
  <2>1. CASE v = w /\ M[v][i] = t
    <3>1. <<v[1], M[v][i].key>> = q /\ M[v][i].n = acc[q] + 1
      BY <2>1
    <3>2. acc[q] \in Nat /\ fin[q] \in Nat /\ bcc[q] = acc[q] + 1
      BY <1>1, <1>2
    <3>3. M[v][i].n \in 1..bcc[q] /\ M[v][i].n > fin[q]
      BY <1>8, <3>1, <3>2
    <3> QED
      BY <2>1, <3>1, <3>3
  <2>2. CASE i \in DOMAIN L[v] /\ M[v][i] = L[v][i]
    <3>1. PICK r \in Pools \X AllKeys : r = <<v[1], L[v][i].key>>
      BY <2>2, InLine
    <3>2. L[v][i].n \in 1..acc[r]
      BY <2>2, <3>1 DEF InOrder, Sound, Standing
    <3>3. acc[r] \in Nat /\ bcc[r] \in Nat /\ acc[r] <= bcc[r]
      BY <1>2
    <3>4. L[v][i].n \in 1..bcc[r]
      BY <3>2, <3>3
    <3> QED
      BY <2>2, <3>1, <3>4 DEF InOrder, Sound, Standing
  <2> QED
    BY <1>6, <2>1, <2>2
<1>11. Increasing(M)
  <2> SUFFICES ASSUME NEW v \in Workers, NEW i \in DOMAIN M[v], NEW j \in DOMAIN M[v],
                      i < j, M[v][i].key = M[v][j].key
               PROVE  M[v][i].n < M[v][j].n
    BY DEF Increasing
  <2>1. i \in DOMAIN L[v] /\ M[v][i] = L[v][i]
    <3>1. CASE v = w
      BY <1>4, <3>1
    <3>2. CASE v # w
      BY <1>5, <3>2
    <3> QED
      BY <3>1, <3>2
  <2>2. CASE v = w /\ M[v][j] = t
    <3>1. L[v][i].n \in Nat /\ L[v][i].n <= acc[q]
      BY <1>9, <2>1, <2>2
    <3> QED
      BY <1>1, <1>2, <2>1, <2>2, <3>1
  <2>3. CASE j \in DOMAIN L[v] /\ M[v][j] = L[v][j]
    BY <2>1, <2>3 DEF InOrder, Sound, Increasing
  <2> QED
    BY <1>6, <2>2, <2>3
<1>12. Apart(M)
  <2> SUFFICES ASSUME NEW v \in Workers, NEW u \in Workers,
                      NEW i \in DOMAIN M[v], NEW j \in DOMAIN M[u],
                      v # u, v[1] = u[1], M[v][i].key = M[u][j].key
               PROVE  M[v][i].n # M[u][j].n
    BY DEF Apart
  <2>1. CASE v = w /\ M[v][i] = t
    <3>1. j \in DOMAIN L[u] /\ M[u][j] = L[u][j]
      BY <1>5, <2>1
    <3>2. L[u][j].n \in Nat /\ L[u][j].n <= acc[q]
      BY <1>9, <2>1, <3>1
    <3>3. M[u][j].n # acc[q] + 1
      BY <1>q, <3>1, <3>2
    <3> QED
      BY <2>1, <3>3
  <2>2. CASE u = w /\ M[u][j] = t
    <3>1. i \in DOMAIN L[v] /\ M[v][i] = L[v][i]
      BY <1>5, <2>2
    <3>2. L[v][i].n \in Nat /\ L[v][i].n <= acc[q]
      BY <1>9, <2>2, <3>1
    <3>3. M[v][i].n # acc[q] + 1
      BY <1>q, <3>1, <3>2
    <3> QED
      BY <2>2, <3>3
  <2>3. CASE /\ i \in DOMAIN L[v] /\ M[v][i] = L[v][i]
             /\ j \in DOMAIN L[u] /\ M[u][j] = L[u][j]
    BY <2>3 DEF InOrder, Sound, Apart
  <2> QED
    BY <1>6, <2>1, <2>2, <2>3
<1>13. ASSUME NEW v \in Workers, NEW r, NEW n
       PROVE  Holds(M, v, r, n) <=> Holds(L, v, r, n) \/ (v = w /\ r = k /\ n = acc[q] + 1)
  <2>1. Holds(L, v, r, n) => Holds(M, v, r, n)
    BY <1>7 DEF Holds
  <2>2. Holds(M, v, r, n) => Holds(L, v, r, n) \/ (v = w /\ r = k /\ n = acc[q] + 1)
    BY <1>6 DEF Holds
  <2>3. m \in DOMAIN M[w]
    BY <1>3, <1>4, InLine
  <2>4. Holds(M, w, k, acc[q] + 1)
    BY <1>4, <2>3 DEF Holds
  <2> QED
    BY <2>1, <2>2, <2>4
<1>14. Complete(M, bcc, fin)
  <2> SUFFICES ASSUME NEW p \in Pools, NEW r \in Keys, NEW n \in (fin[<<p, r>>] + 1)..bcc[<<p, r>>]
               PROVE  Holds(M, Home(p, r), r, n)
    BY DEF Complete
  <2>1. <<p, r>> \in Pools \X AllKeys /\ Home(p, r) \in Workers /\ r # 0
    BY HomeType, PoolParameters DEF AllKeys, PoolParameters
  <2>2. CASE n \in (fin[<<p, r>>] + 1)..acc[<<p, r>>]
    <3>1. Holds(L, Home(p, r), r, n)
      BY <2>2 DEF InOrder, Complete
    <3> QED
      BY <1>13, <2>1, <3>1
  <2>3. CASE n \notin (fin[<<p, r>>] + 1)..acc[<<p, r>>]
    <3>1. acc[<<p, r>>] \in Nat /\ fin[<<p, r>>] \in Nat
      BY <1>2, <2>1
    <3>2. <<p, r>> = q
      BY <1>2, <2>1, <2>3
    <3>3. n = acc[q] + 1
      BY <1>2, <2>3, <3>1, <3>2
    <3>4. p = w[1] /\ r = k
      BY <3>2
    <3>5. Home(p, r) = w
      BY <2>1, <3>4
    <3> QED
      BY <1>13, <3>3, <3>4, <3>5
  <2> QED
    BY <2>2, <2>3
<1>15. Counted(M, bcc, fin)
  <2>1. ASSUME NEW r \in Pools \X AllKeys, r # q
        PROVE  Outstanding(M, bcc, r) = Outstanding(L, acc, r)
    <3>1. bcc[r] = acc[r] /\ r = <<r[1], r[2]>>
      BY <1>2, <2>1
    <3>2. ASSUME NEW v \in Workers, v[1] = r[1], NEW n
          PROVE  Holds(M, v, r[2], n) <=> Holds(L, v, r[2], n)
      <4>1. ~(v = w /\ r[2] = k)
        BY <2>1, <3>1, <3>2
      <4> QED
        BY <1>13, <4>1
    <3> QED
      BY <3>1, <3>2 DEF Outstanding
  <2>2. Outstanding(M, bcc, q) = Outstanding(L, acc, q) \cup {acc[q] + 1}
    <3>1. q[1] = w[1] /\ q[2] = k
      OBVIOUS
    <3>2. ASSUME NEW n \in 1..bcc[q], \E v \in Workers : v[1] = q[1] /\ Holds(M, v, q[2], n)
          PROVE  n \in Outstanding(L, acc, q) \/ n = acc[q] + 1
      <4>1. n # acc[q] + 1 => n \in 1..acc[q]
        BY <1>1, <1>2
      <4>2. n # acc[q] + 1 => \E v \in Workers : v[1] = q[1] /\ Holds(L, v, q[2], n)
        BY <1>13, <3>2
      <4> QED
        BY <4>1, <4>2 DEF Outstanding
    <3>3. ASSUME NEW n \in Outstanding(L, acc, q)
          PROVE  n \in Outstanding(M, bcc, q)
      <4>1. n \in 1..bcc[q]
        BY <1>1, <1>2 DEF Outstanding
      <4>2. \E v \in Workers : v[1] = q[1] /\ Holds(M, v, q[2], n)
        BY <1>13 DEF Outstanding
      <4> QED
        BY <4>1, <4>2 DEF Outstanding
    <3>4. acc[q] + 1 \in Outstanding(M, bcc, q)
      <4>1. acc[q] + 1 \in 1..bcc[q]
        BY <1>1, <1>2
      <4>2. Holds(M, w, q[2], acc[q] + 1)
        BY <1>13, <3>1
      <4> QED
        BY <3>1, <4>1, <4>2 DEF Outstanding
    <3>5. \A n \in Outstanding(M, bcc, q) : n \in Outstanding(L, acc, q) \/ n = acc[q] + 1
      BY <3>2 DEF Outstanding
    <3> QED
      BY <3>3, <3>4, <3>5
  <2>3. acc[q] + 1 \notin Outstanding(L, acc, q)
    BY <1>1, <1>2 DEF Outstanding
  <2>4. IsFiniteSet(Outstanding(L, acc, q)) /\ Cardinality(Outstanding(L, acc, q)) \in Nat
    BY <1>1, OutstandingCount
  <2>5. Cardinality(Outstanding(M, bcc, q)) = Cardinality(Outstanding(L, acc, q)) + 1
    <3>1. Cardinality(Outstanding(L, acc, q) \cup {acc[q] + 1}) = Cardinality(Outstanding(L, acc, q)) + 1
      BY <2>3, <2>4, FS_AddElement, Zenon
    <3> QED
      BY <2>2, <3>1
  <2>6. fin[q] + Cardinality(Outstanding(L, acc, q)) = acc[q]
    BY <1>1 DEF InOrder, Counted
  <2>7. fin[q] + Cardinality(Outstanding(M, bcc, q)) = bcc[q]
    <3>1. bcc[q] = acc[q] + 1
      BY <1>2
    <3> QED
      BY <1>q, <2>4, <2>5, <2>6, <3>1
  <2>8. ASSUME NEW r \in Pools \X AllKeys, r # q
        PROVE  fin[r] + Cardinality(Outstanding(M, bcc, r)) = bcc[r]
    BY <1>2, <2>1, <2>8 DEF InOrder, Counted
  <2> QED
    BY <2>7, <2>8 DEF Counted
<1> QED
  BY <1>10, <1>11, <1>12, <1>14, <1>15 DEF InOrder, Sound

(* The end of a task takes the first of a line, the next number of its key. *)
LEMMA FinishKeepsOrder ==
    ASSUME NEW L \in AllLines, NEW acc \in Counts, NEW fin \in Counts, InOrder(L, acc, fin),
           NEW w \in Workers, L[w] # <<>>, NEW t, t = L[w][1], NEW q, q = <<w[1], t.key>>,
           NEW M, M = [L EXCEPT ![w] = Tail(@)], NEW gin, gin = [fin EXCEPT ![q] = @ + 1]
    PROVE  InOrder(M, acc, gin)
<1>1. PICK m \in Nat : m = Len(L[w])
  BY InLine
<1>2. m # 0 /\ DOMAIN L[w] = 1..m /\ 1 \in DOMAIN L[w]
  BY <1>1, InLine
<1>3. t \in Task /\ t.key \in AllKeys /\ t.n \in Nat /\ q \in Pools \X AllKeys
  BY <1>2, InLine
<1>4. /\ \A r \in Pools \X AllKeys : acc[r] \in Nat /\ fin[r] \in Nat /\ gin[r] \in Nat
      /\ \A r \in Pools \X AllKeys : r # q => gin[r] = fin[r]
      /\ gin[q] = fin[q] + 1
  BY <1>3 DEF Counts
<1>5. acc[q] \in Nat /\ fin[q] \in Nat /\ gin[q] = fin[q] + 1
  BY <1>3, <1>4
<1>6. \A v \in Workers : v # w => M[v] = L[v]
  BY DEF AllLines
<1>7. /\ DOMAIN M[w] = 1..(m - 1)
      /\ \A i \in 1..(m - 1) : i + 1 \in 1..m /\ M[w][i] = L[w][i + 1]
  BY <1>1, <1>2, InLine DEF AllLines
<1>8. \A i \in DOMAIN M[w] : i \in Nat /\ i + 1 \in DOMAIN L[w] /\ i + 1 > 1 /\ M[w][i] = L[w][i + 1]
  BY <1>2, <1>7
<1>9. \A j \in DOMAIN L[w] :
          j # 1 => \E i \in DOMAIN M[w] : j = i + 1 /\ M[w][i] = L[w][j]
  <2> TAKE j \in DOMAIN L[w]
  <2> HAVE j # 1
  <2>1. j \in 1..m /\ j - 1 \in 1..(m - 1) /\ j = (j - 1) + 1
    BY <1>2
  <2>2. j - 1 \in DOMAIN M[w] /\ M[w][j - 1] = L[w][j]
    BY <1>7, <2>1
  <2> QED
    BY <2>1, <2>2
(* The first task is the next of its key, and no other has its number. *)
<1>10. t.n \in 1..acc[q] /\ (t.key # 0 => w = Home(w[1], t.key) /\ t.n > fin[q])
  BY <1>2 DEF InOrder, Sound, Standing
<1>11. \A j \in DOMAIN L[w] : j # 1 /\ L[w][j].key = t.key => L[w][j].n \in Nat /\ L[w][j].n > t.n
  <2> SUFFICES ASSUME NEW j \in DOMAIN L[w], j # 1, L[w][j].key = t.key
               PROVE  L[w][j].n \in Nat /\ L[w][j].n > t.n
    OBVIOUS
  <2>1. 1 < j
    BY <1>2
  <2>2. t.n < L[w][j].n
    BY <1>2, <2>1 DEF InOrder, Sound, Increasing
  <2> QED
    BY <1>3, <2>2, InLine
<1>12. \A v \in Workers : \A j \in DOMAIN L[v] :
          v # w /\ v[1] = w[1] /\ L[v][j].key = t.key => L[v][j].n # t.n
  BY <1>2 DEF InOrder, Sound, Apart
<1>13. t.key # 0 => t.n = fin[q] + 1
  <2> HAVE t.key # 0
  <2>1. w[1] \in Pools /\ t.key \in Keys
    BY <1>3, WorkerParts DEF AllKeys
  <2>2. fin[q] + 1 \in (fin[q] + 1)..acc[q]
    BY <1>5, <1>10
  <2>3. Holds(L, w, t.key, fin[q] + 1)
    BY <1>10, <2>1, <2>2 DEF InOrder, Complete
  <2>4. PICK j \in DOMAIN L[w] : L[w][j].key = t.key /\ L[w][j].n = fin[q] + 1
    BY <2>3 DEF Holds
  <2>5. CASE j = 1
    BY <2>4, <2>5
  <2>6. CASE j # 1
    <3>1. fin[q] + 1 > t.n
      BY <1>11, <2>4, <2>6
    <3> QED
      BY <1>3, <1>5, <1>10, <3>1
  <2> QED
    BY <2>5, <2>6
<1>14. Standing(M, acc, gin)
  <2> SUFFICES ASSUME NEW v \in Workers, NEW i \in DOMAIN M[v]
               PROVE  /\ M[v][i].n \in 1..acc[<<v[1], M[v][i].key>>]
                      /\ M[v][i].key # 0 =>
                             v = Home(v[1], M[v][i].key) /\ M[v][i].n > gin[<<v[1], M[v][i].key>>]
    BY DEF Standing
  <2>1. PICK j \in DOMAIN L[v] : M[v][i] = L[v][j] /\ (v = w => j # 1)
    BY <1>6, <1>8
  <2>2. PICK r \in Pools \X AllKeys : r = <<v[1], L[v][j].key>>
    BY InLine
  <2>3. /\ L[v][j].n \in 1..acc[r]
        /\ L[v][j].key # 0 => v = Home(v[1], L[v][j].key) /\ L[v][j].n > fin[r]
    BY <2>2 DEF InOrder, Sound, Standing
  <2>4. L[v][j].key # 0 => L[v][j].n > gin[r]
    <3>1. CASE r # q
      BY <1>4, <2>3, <3>1
    <3>2. CASE r = q /\ L[v][j].key # 0
      <4>1. v[1] = w[1] /\ L[v][j].key = t.key
        BY <2>2, <3>2
      <4>2. v = w
        BY <1>10, <2>3, <3>2, <4>1
      <4>3. L[v][j].n \in Nat /\ L[v][j].n > t.n
        BY <1>11, <2>1, <4>1, <4>2
      <4>4. t.n = gin[r]
        BY <1>5, <1>13, <3>2, <4>1
      <4> QED
        BY <4>3, <4>4
    <3> QED
      BY <3>1, <3>2
  <2> QED
    BY <2>1, <2>2, <2>3, <2>4
<1>15. Increasing(M)
  <2> SUFFICES ASSUME NEW v \in Workers, NEW i \in DOMAIN M[v], NEW j \in DOMAIN M[v],
                      i < j, M[v][i].key = M[v][j].key
               PROVE  M[v][i].n < M[v][j].n
    BY DEF Increasing
  <2>1. CASE v = w
    <3>1. i + 1 \in DOMAIN L[w] /\ j + 1 \in DOMAIN L[w] /\ i + 1 < j + 1
      BY <1>8, <2>1
    <3>2. M[w][i] = L[w][i + 1] /\ M[w][j] = L[w][j + 1]
      BY <1>8, <2>1
    <3> QED
      BY <2>1, <3>1, <3>2 DEF InOrder, Sound, Increasing
  <2>2. CASE v # w
    <3>1. M[v] = L[v]
      BY <1>6, <2>2
    <3> QED
      BY <3>1 DEF InOrder, Sound, Increasing
  <2> QED
    BY <2>1, <2>2
<1>16. Apart(M)
  <2> SUFFICES ASSUME NEW v \in Workers, NEW u \in Workers,
                      NEW i \in DOMAIN M[v], NEW j \in DOMAIN M[u],
                      v # u, v[1] = u[1], M[v][i].key = M[u][j].key
               PROVE  M[v][i].n # M[u][j].n
    BY DEF Apart
  <2>1. PICK a \in DOMAIN L[v] : M[v][i] = L[v][a]
    BY <1>6, <1>8
  <2>2. PICK b \in DOMAIN L[u] : M[u][j] = L[u][b]
    BY <1>6, <1>8
  <2>3. L[v][a].key = L[u][b].key
    BY <2>1, <2>2
  <2>4. L[v][a].n # L[u][b].n
    BY <2>3 DEF InOrder, Sound, Apart
  <2> QED
    BY <2>1, <2>2, <2>4
<1>17. ASSUME NEW v \in Workers, NEW r, NEW n
       PROVE  /\ Holds(M, v, r, n) => Holds(L, v, r, n)
              /\ Holds(L, v, r, n) => Holds(M, v, r, n) \/ (v = w /\ r = t.key /\ n = t.n)
  <2>1. CASE v = w
    <3>1. Holds(M, w, r, n) => Holds(L, w, r, n)
      BY <1>8 DEF Holds
    <3>2. Holds(L, w, r, n) => Holds(M, w, r, n) \/ (r = t.key /\ n = t.n)
      BY <1>9 DEF Holds
    <3> QED
      BY <2>1, <3>1, <3>2
  <2>2. CASE v # w
    BY <1>6, <2>2 DEF Holds
  <2> QED
    BY <2>1, <2>2
<1>18. \A v \in Workers : v[1] = w[1] => ~Holds(M, v, t.key, t.n)
  <2> SUFFICES ASSUME NEW v \in Workers, v[1] = w[1], NEW i \in DOMAIN M[v], M[v][i].key = t.key
               PROVE  M[v][i].n # t.n
    BY DEF Holds
  <2>1. CASE v = w
    <3>1. PICK j \in DOMAIN L[w] : j # 1 /\ M[w][i] = L[w][j]
      BY <1>8, <2>1
    <3>2. L[w][j].n \in Nat /\ L[w][j].n > t.n
      BY <1>11, <2>1, <3>1
    <3> QED
      BY <1>3, <2>1, <3>1, <3>2
  <2>2. CASE v # w
    BY <1>6, <1>12, <2>2
  <2> QED
    BY <2>1, <2>2
<1>19. Complete(M, acc, gin)
  <2> SUFFICES ASSUME NEW p \in Pools, NEW r \in Keys, NEW n \in (gin[<<p, r>>] + 1)..acc[<<p, r>>]
               PROVE  Holds(M, Home(p, r), r, n)
    BY DEF Complete
  <2>1. PICK x \in Pools \X AllKeys : x = <<p, r>>
    BY DEF AllKeys
  <2>2. Home(p, r) \in Workers /\ Home(p, r)[1] = p /\ r # 0
    BY HomeType, PoolParameters DEF PoolParameters
  <2>3. fin[x] \in Nat /\ gin[x] \in Nat /\ acc[x] \in Nat /\ fin[x] <= gin[x]
    <3>1. fin[x] \in Nat /\ gin[x] \in Nat /\ acc[x] \in Nat
      BY <1>4
    <3>2. gin[x] = fin[x] \/ gin[x] = fin[x] + 1
      BY <1>4
    <3> QED
      BY <3>1, <3>2
  <2>4. n \in (fin[x] + 1)..acc[x]
    BY <2>1, <2>3
  <2>5. Holds(L, Home(p, r), r, n)
    BY <2>1, <2>4 DEF InOrder, Complete
  <2>6. ~(Home(p, r) = w /\ r = t.key /\ n = t.n)
    <3> SUFFICES ASSUME Home(p, r) = w, r = t.key, n = t.n PROVE FALSE
      OBVIOUS
    <3>1. x = q
      BY <2>1, <2>2
    <3>2. n = fin[q] + 1 /\ n >= gin[q] + 1
      BY <1>13, <2>1, <2>2, <2>3, <3>1
    <3> QED
      BY <1>5, <3>2
  <2> QED
    BY <1>17, <2>2, <2>5, <2>6
<1>20. Counted(M, acc, gin)
  <2>1. ASSUME NEW r \in Pools \X AllKeys, r # q
        PROVE  Outstanding(M, acc, r) = Outstanding(L, acc, r)
    <3>1. r = <<r[1], r[2]>>
      OBVIOUS
    <3>2. ASSUME NEW v \in Workers, v[1] = r[1], NEW n
          PROVE  Holds(M, v, r[2], n) <=> Holds(L, v, r[2], n)
      <4>1. ~(v = w /\ r[2] = t.key)
        BY <2>1, <3>1, <3>2
      <4> QED
        BY <1>17, <4>1
    <3> QED
      BY <3>2 DEF Outstanding
  <2>2. q[1] = w[1] /\ q[2] = t.key
    OBVIOUS
  <2>3. Outstanding(M, acc, q) = Outstanding(L, acc, q) \ {t.n}
    <3>1. ASSUME NEW n \in Outstanding(M, acc, q)
          PROVE  n \in Outstanding(L, acc, q) /\ n # t.n
      <4>1. PICK v \in Workers : v[1] = q[1] /\ Holds(M, v, q[2], n) /\ n \in 1..acc[q]
        BY DEF Outstanding
      <4>2. Holds(L, v, q[2], n) /\ n # t.n
        BY <1>17, <1>18, <2>2, <4>1
      <4> QED
        BY <4>1, <4>2 DEF Outstanding
    <3>2. ASSUME NEW n \in Outstanding(L, acc, q), n # t.n
          PROVE  n \in Outstanding(M, acc, q)
      <4>1. PICK v \in Workers : v[1] = q[1] /\ Holds(L, v, q[2], n) /\ n \in 1..acc[q]
        BY DEF Outstanding
      <4>2. Holds(M, v, q[2], n)
        BY <1>17, <3>2, <4>1
      <4> QED
        BY <4>1, <4>2 DEF Outstanding
    <3> QED
      BY <3>1, <3>2
  <2>4. t.n \in Outstanding(L, acc, q)
    <3>1. Holds(L, w, q[2], t.n)
      BY <1>2, <2>2 DEF Holds
    <3> QED
      BY <1>10, <2>2, <3>1 DEF Outstanding
  <2>5. IsFiniteSet(Outstanding(L, acc, q)) /\ Cardinality(Outstanding(L, acc, q)) \in Nat
    BY <1>3, OutstandingCount
  <2>6. Cardinality(Outstanding(M, acc, q)) = Cardinality(Outstanding(L, acc, q)) - 1
    <3>1. Cardinality(Outstanding(L, acc, q) \ {t.n}) = Cardinality(Outstanding(L, acc, q)) - 1
      BY <2>4, <2>5, FS_RemoveElement, Zenon
    <3> QED
      BY <2>3, <3>1
  <2>7. fin[q] + Cardinality(Outstanding(L, acc, q)) = acc[q]
    BY <1>3 DEF InOrder, Counted
  <2>8. gin[q] + Cardinality(Outstanding(M, acc, q)) = acc[q]
    BY <1>5, <2>5, <2>6, <2>7
  <2>9. ASSUME NEW r \in Pools \X AllKeys, r # q
        PROVE  gin[r] + Cardinality(Outstanding(M, acc, r)) = acc[r]
    BY <1>4, <2>1, <2>9 DEF InOrder, Counted
  <2> QED
    BY <2>8, <2>9 DEF Counted
<1> QED
  BY <1>14, <1>15, <1>16, <1>19, <1>20 DEF InOrder, Sound

----------------------------------------------------------------------------
(* A post: into the channel of its worker, or refused.                      *)
LEMMA PostStep ==
    ASSUME PoolInv, NEW p \in Pools, NEW k \in AllKeys, NEW x \in Payloads \cup {Nothing},
           PostFixedOrRand(p, k, x)
    PROVE  PoolInv'
<1>1. PICK w \in Workers : w = Target(p, k) /\ w[1] = p /\ (k # 0 => w = Home(p, k))
  BY TargetType DEF PoolInv
<1>2. index' \in [Pools -> Nat]
  <2>1. NextIndex(p) \in Nat
    <3>1. index[p] + 1 \in Nat /\ Size[p] \in Nat /\ Size[p] > 0
      BY PoolParameters DEF PoolParameters, PoolInv, PoolTypeOK
    <3> QED
      BY <3>1 DEF NextIndex
  <2> QED
    BY <2>1 DEF PostFixedOrRand, PoolInv, PoolTypeOK
<1>3. UNCHANGED <<current, worker, left, early, finished, poolStop>>
  BY DEF PostFixedOrRand
<1>4. CASE ~Fits(w)
  <2>1. UNCHANGED <<ch, accepted>>
    BY <1>1, <1>4 DEF PostFixedOrRand, Post
  <2>2. Lines' = Lines
    BY <1>3, <2>1, LinesKept
  <2>3. PoolTypeOK'
    BY <1>2, <1>3, <2>1 DEF PoolInv, PoolTypeOK
  <2>4. StopInv'
    BY <1>3, <2>1 DEF PoolInv, StopInv, StopRunsAccepted, Late, Idle
  <2> QED
    BY <1>3, <2>1, <2>2, <2>3, <2>4 DEF PoolInv
<1>5. CASE Fits(w)
  <2>1. PICK q \in Pools \X AllKeys : q = <<w[1], k>> /\ q = <<p, k>>
    BY <1>1
  <2>2. accepted[q] \in Nat /\ early[q] \in Nat /\ early[q] <= accepted[q]
    BY DEF PoolInv, PoolTypeOK, Counts, StopInv
  <2>3. PICK t \in Task : t = [key |-> k, n |-> accepted[q] + 1, carries |-> x]
    <3>1. accepted[q] + 1 \in Nat
      BY <2>2
    <3>2. [key |-> k, n |-> accepted[q] + 1, carries |-> x] \in Task
      BY <3>1 DEF Task
    <3> QED
      BY <3>2
  <2>4. /\ accepted' = [accepted EXCEPT ![q] = @ + 1]
        /\ ch' = [ch EXCEPT ![w] = Append(@, t)]
    BY <1>1, <1>5, <2>1, <2>3 DEF PostFixedOrRand, Post
  <2>5. Lines' = [Lines EXCEPT ![w] = Append(@, t)]
    BY <1>3, <2>4, LinesPost DEF PoolInv
  <2>6. InOrder(Lines', accepted', finished)
    <3>1. Lines \in AllLines /\ accepted \in Counts /\ finished \in Counts
      BY LineType DEF PoolInv, PoolTypeOK
    <3>2. /\ InOrder(Lines, accepted, finished) /\ (k # 0 => w = Home(w[1], k))
          /\ t.key = k /\ t.n = accepted[q] + 1
      BY <1>1, <2>3 DEF PoolInv
    <3> QED
      BY <2>1, <2>4, <2>5, <3>1, <3>2, PostKeepsOrder
  <2>7. /\ ch[w] \in Seq(Task) /\ Len(ch'[w]) = Len(ch[w]) + 1 /\ Len(ch'[w]) <= QueueSize
        /\ ch'[w] \in Seq(Task)
        /\ \A i \in 1..Len(ch[w]) : ch'[w][i] = ch[w][i]
        /\ ch'[w][Len(ch[w]) + 1] = t
    BY <1>5, <2>4, PoolParameters DEF PoolInv, PoolTypeOK, Fits, PoolParameters
  <2>8. \A v \in Workers : v # w => ch'[v] = ch[v]
    BY <2>4 DEF PoolInv, PoolTypeOK
  <2>9. PoolTypeOK'
    <3>1. ch' \in [Workers -> Seq(Task)] /\ \A v \in Workers : Len(ch'[v]) <= QueueSize
      BY <2>4, <2>7, <2>8 DEF PoolInv, PoolTypeOK
    <3>2. accepted' \in Counts
      BY <2>1, <2>2, <2>4 DEF PoolInv, PoolTypeOK, Counts
    <3> QED
      BY <1>2, <1>3, <3>1, <3>2 DEF PoolInv, PoolTypeOK
  <2>10. \A r \in Pools \X AllKeys : early'[r] <= accepted'[r]
    <3> TAKE r \in Pools \X AllKeys
    <3>1. early[r] \in Nat /\ accepted[r] \in Nat /\ early[r] <= accepted[r]
      BY DEF PoolInv, PoolTypeOK, Counts, StopInv
    <3>2. accepted'[r] = accepted[r] \/ accepted'[r] = accepted[r] + 1
      BY <2>4 DEF PoolInv, PoolTypeOK, Counts
    <3> QED
      BY <1>3, <3>1, <3>2
  <2>11. \A v \in Workers : \A i \in DOMAIN ch'[v] :
             \/ i \in DOMAIN ch[v] /\ (Late(v, i) => Late(v, i)')
             \/ v = w /\ i > Len(ch[w]) /\ Late(v, i)'
    <3> SUFFICES ASSUME NEW v \in Workers, NEW i \in DOMAIN ch'[v]
                 PROVE  \/ i \in DOMAIN ch[v] /\ (Late(v, i) => Late(v, i)')
                        \/ v = w /\ i > Len(ch[w]) /\ Late(v, i)'
      OBVIOUS
    <3>1. CASE v = w /\ i = Len(ch[w]) + 1
      <4>1. ch'[v][i].n = accepted[q] + 1 /\ <<v[1], ch'[v][i].key>> = q
        BY <2>1, <2>3, <2>7, <3>1
      <4>2. Late(v, i)'
        BY <1>3, <2>2, <4>1 DEF Late
      <4>3. Len(ch[w]) \in Nat
        BY <2>7
      <4> QED
        BY <3>1, <4>2, <4>3
    <3>2. CASE v = w /\ i # Len(ch[w]) + 1
      <4>1. i \in 1..Len(ch[w]) /\ i \in DOMAIN ch[v]
        BY <2>7, <3>2
      <4>2. ch'[v][i] = ch[v][i]
        BY <2>7, <3>2, <4>1
      <4> QED
        BY <1>3, <4>1, <4>2 DEF Late
    <3>3. CASE v # w
      BY <1>3, <2>8, <3>3 DEF Late
    <3> QED
      BY <3>1, <3>2, <3>3
  <2>12. \A v \in Workers : Len(ch[v]) \in Nat /\ Len(ch'[v]) \in Nat /\ Len(ch[v]) <= Len(ch'[v])
    <3>1. Len(ch[w]) \in Nat /\ Len(ch'[w]) \in Nat /\ Len(ch[w]) <= Len(ch'[w])
      BY <2>7
    <3>2. \A v \in Workers : v # w => Len(ch[v]) \in Nat /\ ch'[v] = ch[v]
      BY <2>8 DEF PoolInv, PoolTypeOK
    <3> QED
      BY <3>1, <3>2
  <2>13. StopInv'
    <3>1. ASSUME NEW v \in Workers
          PROVE  /\ poolStop'[v[1]] = "no" => worker'[v] = "running"
                 /\ worker'[v] = "draining" =>
                        left'[v] <= Len(ch'[v]) /\ \A i \in DOMAIN ch'[v] : i > left'[v] => Late(v, i)'
                 /\ worker'[v] = "ended" => Idle(v)' /\ \A i \in DOMAIN ch'[v] : Late(v, i)'
      <4>1. left[v] \in Nat
        BY DEF PoolInv, PoolTypeOK
      <4>2. worker[v] = "draining" =>
                left[v] <= Len(ch'[v]) /\ \A i \in DOMAIN ch'[v] : i > left[v] => Late(v, i)'
        BY <2>11, <2>12, <4>1 DEF PoolInv, StopInv
      <4>3. worker[v] = "ended" => Idle(v)' /\ \A i \in DOMAIN ch'[v] : Late(v, i)'
        BY <1>3, <2>11 DEF PoolInv, StopInv, Idle
      <4>4. poolStop[v[1]] = "no" => worker[v] = "running"
        BY DEF PoolInv, StopInv
      <4> QED
        BY <1>3, <4>2, <4>3, <4>4
    <3>2. StopRunsAccepted'
      BY <1>3 DEF PoolInv, StopInv, StopRunsAccepted
    <3> QED
      BY <2>10, <3>1, <3>2 DEF StopInv
  <2> QED
    BY <1>3, <2>6, <2>9, <2>13 DEF PoolInv
<1> QED
  BY <1>4, <1>5

(* A worker starts a task, while it runs or while it drains.                *)
LEMMA TakeStep ==
    ASSUME PoolInv, NEW w \in Workers, WorkerTake(w) \/ DrainTake(w)
    PROVE  PoolInv'
<1>1. /\ Idle(w) /\ ch[w] # <<>> /\ Take(w)
      /\ UNCHANGED <<worker, index, accepted, early, finished, poolStop>>
  BY DEF WorkerTake, DrainTake
<1>2. Lines' = Lines
  BY <1>1, LinesTake DEF PoolInv, InOrder
<1>3. /\ ch[w] \in Seq(Task) /\ ch'[w] = Tail(ch[w]) /\ current'[w] = Head(ch[w])
      /\ \A v \in Workers : v # w => ch'[v] = ch[v] /\ current'[v] = current[v]
  BY <1>1 DEF PoolInv, PoolTypeOK, Take
<1>4. /\ Len(ch[w]) \in Nat /\ Len(ch'[w]) = Len(ch[w]) - 1 /\ ch'[w] \in Seq(Task)
      /\ Head(ch[w]) \in Task
      /\ \A i \in DOMAIN ch'[w] : i \in Nat /\ i + 1 \in DOMAIN ch[w] /\ ch'[w][i] = ch[w][i + 1]
  BY <1>1, <1>3
<1>5. left' \in [Workers -> Nat]
  <2>1. left \in [Workers -> Nat] /\ left[w] \in Nat
    BY DEF PoolInv, PoolTypeOK
  <2>2. CASE WorkerTake(w)
    BY <2>1, <2>2 DEF WorkerTake
  <2>3. CASE DrainTake(w)
    <3>1. left[w] > 0 /\ left' = [left EXCEPT ![w] = left[w] - 1]
      BY <2>3 DEF DrainTake
    <3>2. left[w] - 1 \in Nat
      BY <2>1, <3>1
    <3> QED
      BY <2>1, <3>1, <3>2
  <2> QED
    BY <2>2, <2>3
<1>6. PoolTypeOK'
  <2>1. ch' \in [Workers -> Seq(Task)] /\ current' \in [Workers -> Task]
    BY <1>1, <1>4 DEF PoolInv, PoolTypeOK, Take
  <2>2. \A v \in Workers : Len(ch'[v]) <= QueueSize
    BY <1>3, <1>4, PoolParameters DEF PoolInv, PoolTypeOK, PoolParameters
  <2> QED
    BY <1>1, <1>5, <2>1, <2>2 DEF PoolInv, PoolTypeOK
<1>7. \A v \in Workers : v # w => left'[v] = left[v]
  BY DEF WorkerTake, DrainTake, PoolInv, PoolTypeOK
<1>8. \A i \in DOMAIN ch'[w] : i \in Nat /\ i + 1 \in DOMAIN ch[w] /\ (Late(w, i + 1) => Late(w, i)')
  BY <1>1, <1>4 DEF Late
<1>9. StopInv'
  <2>1. ASSUME NEW v \in Workers, v # w
        PROVE  /\ poolStop'[v[1]] = "no" => worker'[v] = "running"
               /\ worker'[v] = "draining" =>
                      left'[v] <= Len(ch'[v]) /\ \A i \in DOMAIN ch'[v] : i > left'[v] => Late(v, i)'
               /\ worker'[v] = "ended" => Idle(v)' /\ \A i \in DOMAIN ch'[v] : Late(v, i)'
    BY <1>1, <1>3, <1>7, <2>1 DEF PoolInv, StopInv, Late, Idle
  <2>2. poolStop'[w[1]] = "no" => worker'[w] = "running"
    BY <1>1 DEF PoolInv, StopInv
  <2>3. worker'[w] = "draining" =>
            left'[w] <= Len(ch'[w]) /\ \A i \in DOMAIN ch'[w] : i > left'[w] => Late(w, i)'
    <3> HAVE worker'[w] = "draining"
    <3>1. left[w] \in Nat /\ left'[w] = left[w] - 1
      BY <1>1 DEF WorkerTake, DrainTake, PoolInv, PoolTypeOK
    <3>2. left[w] <= Len(ch[w]) /\ \A i \in DOMAIN ch[w] : i > left[w] => Late(w, i)
      BY <1>1 DEF PoolInv, StopInv
    <3> QED
      BY <1>4, <1>8, <3>1, <3>2
  <2>4. worker'[w] # "ended"
    BY <1>1 DEF WorkerTake, DrainTake
  <2>5. StopRunsAccepted'
    BY <1>1 DEF PoolInv, StopInv, StopRunsAccepted
  <2>6. \A r \in Pools \X AllKeys : early'[r] <= accepted'[r]
    BY <1>1 DEF PoolInv, StopInv
  <2> QED
    BY <2>1, <2>2, <2>3, <2>4, <2>5, <2>6 DEF StopInv
<1> QED
  BY <1>1, <1>2, <1>6, <1>9 DEF PoolInv

(* The end of a task.                                                       *)
LEMMA FinishTaskStep ==
    ASSUME PoolInv, NEW w \in Workers, FinishTask(w)
    PROVE  PoolInv'
<1>1. /\ ~Idle(w) /\ current' = [current EXCEPT ![w] = NoTask]
      /\ UNCHANGED <<ch, worker, left, index, accepted, early, poolStop>>
  BY DEF FinishTask
<1>2. PICK q : q = <<w[1], current[w].key>> /\ finished' = [finished EXCEPT ![q] = @ + 1]
  BY DEF FinishTask
<1>3. q \in Pools \X AllKeys
  BY <1>2, WorkerParts DEF PoolInv, PoolTypeOK, Task
<1>4. /\ Lines' = [Lines EXCEPT ![w] = Tail(@)]
      /\ Lines[w] # <<>> /\ Lines[w][1] = current[w]
  BY <1>1, LinesFinish DEF PoolInv
<1>5. InOrder(Lines', accepted, finished')
  <2>1. Lines \in AllLines /\ accepted \in Counts /\ finished \in Counts
    BY LineType DEF PoolInv, PoolTypeOK
  <2>2. InOrder(Lines, accepted, finished) /\ q = <<w[1], Lines[w][1].key>>
    BY <1>2, <1>4 DEF PoolInv
  <2> QED
    BY <1>2, <1>4, <2>1, <2>2, FinishKeepsOrder
<1>6. /\ finished' \in Counts
      /\ \A r \in Pools \X AllKeys : finished[r] \in Nat /\ finished'[r] >= finished[r]
  <2>1. finished \in Counts /\ \A r \in Pools \X AllKeys : finished[r] \in Nat
    BY DEF PoolInv, PoolTypeOK, Counts
  <2>2. \A r \in Pools \X AllKeys : finished'[r] = finished[r] \/ finished'[r] = finished[r] + 1
    BY <1>2, <2>1 DEF Counts
  <2>3. \A r \in Pools \X AllKeys : finished'[r] \in Nat /\ finished'[r] >= finished[r]
    <3> TAKE r \in Pools \X AllKeys
    <3>1. finished[r] \in Nat /\ (finished'[r] = finished[r] \/ finished'[r] = finished[r] + 1)
      BY <2>1, <2>2
    <3> QED
      BY <3>1
  <2> QED
    BY <1>2, <2>1, <2>3 DEF Counts
<1>7. PoolTypeOK'
  <2>1. NoTask \in Task
    BY DEF NoTask, Task, AllKeys
  <2>2. current' \in [Workers -> Task]
    BY <1>1, <2>1 DEF PoolInv, PoolTypeOK
  <2> QED
    BY <1>1, <1>6, <2>2 DEF PoolInv, PoolTypeOK
<1>8. StopInv'
  <2>1. \A v \in Workers : Idle(v) => Idle(v)'
    BY <1>1 DEF Idle, PoolInv, PoolTypeOK
  <2>2. StopRunsAccepted'
    <3> SUFFICES ASSUME NEW r \in Pools \X AllKeys, poolStop[r[1]] = "returned"
                 PROVE  finished'[r] >= early[r]
      BY <1>1 DEF StopRunsAccepted
    <3>1. finished[r] >= early[r]
      BY DEF PoolInv, StopInv, StopRunsAccepted
    <3>2. early[r] \in Nat /\ finished'[r] \in Nat
      BY <1>6 DEF PoolInv, PoolTypeOK, Counts
    <3> QED
      BY <1>6, <3>1, <3>2
  <2> QED
    BY <1>1, <2>1, <2>2 DEF PoolInv, StopInv, Late
<1> QED
  BY <1>1, <1>5, <1>7, <1>8 DEF PoolInv

(* A worker sees quit and counts what is in its channel.                    *)
LEMMA SeeQuitStep ==
    ASSUME PoolInv, NEW w \in Workers, SeeQuit(w)
    PROVE  PoolInv'
<1>1. /\ poolStop[w[1]] # "no" /\ worker' = [worker EXCEPT ![w] = "draining"]
      /\ left' = [left EXCEPT ![w] = Len(ch[w])]
      /\ UNCHANGED <<ch, current, index, accepted, early, finished, poolStop>>
  BY DEF SeeQuit, Remaining
<1>2. ch[w] \in Seq(Task) /\ Len(ch[w]) \in Nat
  BY DEF PoolInv, PoolTypeOK
<1>3. PoolTypeOK'
  BY <1>1, <1>2 DEF PoolInv, PoolTypeOK
<1>4. Lines' = Lines
  BY <1>1, LinesKept
<1>5. StopInv'
  <2>1. ASSUME NEW v \in Workers, v # w
        PROVE  worker'[v] = worker[v] /\ left'[v] = left[v]
    BY <1>1, <2>1 DEF PoolInv, PoolTypeOK
  <2>2. worker'[w] = "draining" /\ left'[w] = Len(ch[w])
    BY <1>1 DEF PoolInv, PoolTypeOK
  <2>3. \A i \in DOMAIN ch[w] : ~(i > Len(ch[w]))
    BY <1>2
  <2>4. ASSUME NEW v \in Workers
        PROVE  /\ poolStop'[v[1]] = "no" => worker'[v] = "running"
               /\ worker'[v] = "draining" =>
                      left'[v] <= Len(ch'[v]) /\ \A i \in DOMAIN ch'[v] : i > left'[v] => Late(v, i)'
               /\ worker'[v] = "ended" => Idle(v)' /\ \A i \in DOMAIN ch'[v] : Late(v, i)'
    <3>1. CASE v # w
      BY <1>1, <2>1, <3>1 DEF PoolInv, StopInv, Late, Idle
    <3>2. CASE v = w
      BY <1>1, <1>2, <2>2, <2>3, <3>2
    <3> QED
      BY <3>1, <3>2
  <2>5. StopRunsAccepted' /\ \A r \in Pools \X AllKeys : early'[r] <= accepted'[r]
    BY <1>1 DEF PoolInv, StopInv, StopRunsAccepted
  <2> QED
    BY <2>4, <2>5 DEF StopInv
<1> QED
  BY <1>1, <1>3, <1>4, <1>5 DEF PoolInv

LEMMA WorkerEndsStep ==
    ASSUME PoolInv, NEW w \in Workers, WorkerEnds(w)
    PROVE  PoolInv'
<1>1. /\ worker[w] = "draining" /\ Idle(w) /\ left[w] = 0
      /\ worker' = [worker EXCEPT ![w] = "ended"]
      /\ UNCHANGED <<ch, current, left, index, accepted, early, finished, poolStop>>
  BY DEF WorkerEnds
<1>2. PoolTypeOK'
  BY <1>1 DEF PoolInv, PoolTypeOK
<1>3. Lines' = Lines
  BY <1>1, LinesKept
<1>4. StopInv'
  <2>1. \A i \in DOMAIN ch[w] : i > 0
    BY DEF PoolInv, PoolTypeOK
  <2>2. Idle(w) /\ \A i \in DOMAIN ch[w] : Late(w, i)
    BY <1>1, <2>1 DEF PoolInv, StopInv
  <2>3. poolStop[w[1]] # "no" /\ worker'[w] = "ended"
    BY <1>1 DEF PoolInv, PoolTypeOK, StopInv
  <2>4. \A v \in Workers : v # w => worker'[v] = worker[v]
    BY <1>1 DEF PoolInv, PoolTypeOK
  <2> QED
    BY <1>1, <2>2, <2>3, <2>4 DEF PoolInv, StopInv, StopRunsAccepted, Late, Idle
<1> QED
  BY <1>1, <1>2, <1>3, <1>4 DEF PoolInv

(* Stop is called: what is accepted by now must run.                        *)
LEMMA CloseQuitStep ==
    ASSUME PoolInv, NEW p \in Pools, CloseQuit(p)
    PROVE  PoolInv'
<1>1. /\ poolStop[p] = "no" /\ poolStop' = [poolStop EXCEPT ![p] = "quit"]
      /\ early' = [q \in DOMAIN early |-> IF q[1] = p THEN accepted[q] ELSE early[q]]
      /\ UNCHANGED <<ch, current, worker, left, index, accepted, finished>>
  BY DEF CloseQuit
<1>2. \A q \in Pools \X AllKeys :
          /\ accepted[q] \in Nat /\ early[q] \in Nat
          /\ early'[q] = IF q[1] = p THEN accepted[q] ELSE early[q]
  BY <1>1 DEF PoolInv, PoolTypeOK, Counts
<1>3. early' \in Counts
  BY <1>1, <1>2 DEF PoolInv, PoolTypeOK, Counts
<1>4. PoolTypeOK'
  BY <1>1, <1>3 DEF PoolInv, PoolTypeOK
<1>5. Lines' = Lines
  BY <1>1, LinesKept
<1>6. StopInv'
  <2>1. ASSUME NEW v \in Workers
        PROVE  /\ poolStop'[v[1]] = "no" => worker'[v] = "running"
               /\ worker'[v] = "draining" =>
                      left'[v] <= Len(ch'[v]) /\ \A i \in DOMAIN ch'[v] : i > left'[v] => Late(v, i)'
               /\ worker'[v] = "ended" => Idle(v)' /\ \A i \in DOMAIN ch'[v] : Late(v, i)'
    <3>1. CASE v[1] = p
      <4>1. worker[v] = "running"
        BY <1>1, <3>1 DEF PoolInv, StopInv
      <4> QED
        BY <1>1, <4>1
    <3>2. CASE v[1] # p
      <4>1. poolStop'[v[1]] = poolStop[v[1]]
        BY <1>1, <3>2, WorkerParts DEF PoolInv, PoolTypeOK
      <4>2. \A i \in DOMAIN ch[v] : Late(v, i) => Late(v, i)'
        <5> TAKE i \in DOMAIN ch[v]
        <5>1. <<v[1], ch[v][i].key>> \in Pools \X AllKeys
          <6>1. ch[v] \in Seq(Task)
            BY DEF PoolInv, PoolTypeOK
          <6>2. ch[v][i] \in Task
            BY <6>1
          <6> QED
            BY <6>2, WorkerParts DEF Task
        <5>2. early'[<<v[1], ch[v][i].key>>] = early[<<v[1], ch[v][i].key>>]
          BY <1>2, <3>2, <5>1
        <5> QED
          BY <1>1, <5>2 DEF Late
      <4> QED
        BY <1>1, <4>1, <4>2 DEF PoolInv, StopInv, Idle
    <3> QED
      BY <3>1, <3>2
  <2>2. \A q \in Pools \X AllKeys : early'[q] <= accepted'[q]
    BY <1>1, <1>2 DEF PoolInv, StopInv
  <2>3. StopRunsAccepted'
    <3> SUFFICES ASSUME NEW q \in Pools \X AllKeys, poolStop'[q[1]] = "returned"
                 PROVE  finished[q] >= early'[q]
      BY <1>1 DEF StopRunsAccepted
    <3>1. q[1] # p /\ poolStop[q[1]] = "returned"
      BY <1>1 DEF PoolInv, PoolTypeOK
    <3> QED
      BY <1>2, <3>1 DEF PoolInv, StopInv, StopRunsAccepted
  <2> QED
    BY <2>1, <2>2, <2>3 DEF StopInv
<1> QED
  BY <1>1, <1>4, <1>5, <1>6 DEF PoolInv

(* Stop returns: what the lines of ended workers hold came after the stop.  *)
LEMMA StopReturnsStep ==
    ASSUME PoolInv, NEW p \in Pools, StopReturns(p)
    PROVE  PoolInv'
<1>1. /\ poolStop[p] = "quit" /\ AllEnded(p)
      /\ poolStop' = [poolStop EXCEPT ![p] = "returned"]
      /\ UNCHANGED <<ch, current, worker, left, index, accepted, early, finished>>
  BY DEF StopReturns
<1>2. PoolTypeOK'
  BY <1>1 DEF PoolInv, PoolTypeOK
<1>3. Lines' = Lines
  BY <1>1, LinesKept
<1>4. ASSUME NEW q \in Pools \X AllKeys, q[1] = p
      PROVE  finished[q] >= early[q]
  <2>1. PICK a \in Nat, b \in Nat, f \in Nat :
            a = accepted[q] /\ b = early[q] /\ f = finished[q] /\ b <= a
    BY DEF PoolInv, PoolTypeOK, Counts, StopInv
  <2>2. PICK O : O = Outstanding(Lines, accepted, q)
    OBVIOUS
  <2>3. O \subseteq (b + 1)..a
    <3> SUFFICES ASSUME NEW n \in O PROVE n \in (b + 1)..a
      OBVIOUS
    <3>1. PICK w \in Workers : n \in 1..a /\ w[1] = p /\ Holds(Lines, w, q[2], n)
      BY <1>4, <2>1, <2>2 DEF Outstanding
    <3>2. worker[w] = "ended"
      BY <1>1, <3>1 DEF AllEnded
    <3>3. Lines[w] = ch[w] /\ \A i \in DOMAIN ch[w] : Late(w, i)
      BY <3>2 DEF PoolInv, StopInv, Lines
    <3>4. PICK i \in DOMAIN ch[w] : ch[w][i].key = q[2] /\ ch[w][i].n = n
      BY <3>1, <3>3 DEF Holds
    <3>5. <<w[1], ch[w][i].key>> = q
      BY <1>4, <3>1, <3>4
    <3>6. n > b
      BY <2>1, <3>3, <3>4, <3>5 DEF Late
    <3> QED
      BY <2>1, <3>1, <3>6
  <2>4. IsFiniteSet((b + 1)..a) /\ Cardinality((b + 1)..a) <= a - b
    <3>1. b + 1 \in Int /\ a \in Int
      BY <2>1
    <3>2. /\ IsFiniteSet((b + 1)..a)
          /\ Cardinality((b + 1)..a) = IF b + 1 > a THEN 0 ELSE a - (b + 1) + 1
      BY <3>1, FS_Interval
    <3> QED
      BY <2>1, <3>2
  <2>5. Cardinality(O) <= Cardinality((b + 1)..a)
    BY <2>3, <2>4, FS_Subset
  <2>6. Cardinality((b + 1)..a) \in Nat /\ Cardinality(O) \in Nat
    BY <2>2, <2>4, FS_CardinalityType, OutstandingCount DEF PoolInv, PoolTypeOK
  <2>7. f + Cardinality(O) = a
    BY <2>1, <2>2 DEF PoolInv, InOrder, Counted
  <2>8. f >= b
    BY <2>1, <2>4, <2>5, <2>6, <2>7
  <2> QED
    BY <2>1, <2>8
<1>5. StopInv'
  <2>1. \A q \in Pools : q # p => poolStop'[q] = poolStop[q]
    BY <1>1 DEF PoolInv, PoolTypeOK
  <2>2. poolStop'[p] = "returned"
    BY <1>1 DEF PoolInv, PoolTypeOK
  <2>3. StopRunsAccepted'
    <3> SUFFICES ASSUME NEW q \in Pools \X AllKeys, poolStop'[q[1]] = "returned"
                 PROVE  finished[q] >= early[q]
      BY <1>1 DEF StopRunsAccepted
    <3>1. CASE q[1] = p
      BY <1>4, <3>1
    <3>2. CASE q[1] # p
      BY <2>1, <3>2 DEF PoolInv, StopInv, StopRunsAccepted
    <3> QED
      BY <3>1, <3>2
  <2>4. \A v \in Workers : poolStop'[v[1]] = "no" => worker[v] = "running"
    BY <2>1, <2>2, WorkerParts DEF PoolInv, StopInv
  <2> QED
    BY <1>1, <2>3, <2>4 DEF PoolInv, StopInv, Late, Idle
<1> QED
  BY <1>1, <1>2, <1>3, <1>5 DEF PoolInv

(* Steps of the server that leave its pools alone.                          *)
LEMMA OtherStep ==
    ASSUME PoolInv, UNCHANGED poolVars
    PROVE  PoolInv'
<1>1. UNCHANGED <<ch, current, worker, left, index, accepted, early, finished, poolStop>>
  BY DEF poolVars
<1>2. Lines' = Lines
  BY <1>1, LinesKept
<1>3. PoolTypeOK'
  BY <1>1 DEF PoolInv, PoolTypeOK
<1>4. StopInv'
  BY <1>1 DEF PoolInv, StopInv, StopRunsAccepted, Late, Idle
<1> QED
  BY <1>1, <1>2, <1>3, <1>4 DEF PoolInv

LEMMA PoolInvInit == PoolInit => PoolInv
<1> SUFFICES ASSUME PoolInit PROVE PoolInv
  OBVIOUS
<1>1. /\ \A w \in Workers : ch[w] = <<>> /\ current[w] = NoTask /\ worker[w] = "running"
      /\ \A q \in Pools \X AllKeys : accepted[q] = 0 /\ early[q] = 0 /\ finished[q] = 0
      /\ \A p \in Pools : poolStop[p] = "no"
  BY DEF PoolInit
<1>2. PoolTypeOK
  <2>1. NoTask \in Task
    BY DEF NoTask, Task, AllKeys
  <2>2. Len(<<>>) <= QueueSize
    BY PoolParameters DEF PoolParameters
  <2>3. /\ ch \in [Workers -> Seq(Task)] /\ worker \in [Workers -> {"running", "draining", "ended"}]
        /\ left \in [Workers -> Nat] /\ index \in [Pools -> Nat]
        /\ poolStop \in [Pools -> {"no", "quit", "returned"}]
    BY DEF PoolInit
  <2>4. current \in [Workers -> Task]
    BY <2>1 DEF PoolInit
  <2>5. accepted \in Counts /\ early \in Counts /\ finished \in Counts
    BY DEF PoolInit, Counts
  <2> QED
    BY <1>1, <2>2, <2>3, <2>4, <2>5 DEF PoolTypeOK
<1>3. \A w \in Workers : Lines[w] = <<>> /\ DOMAIN Lines[w] = {}
  BY <1>1 DEF Lines, Idle
<1>4. Sound(Lines, accepted, finished)
  BY <1>3 DEF Sound, Standing, Increasing, Apart
<1>5. Complete(Lines, accepted, finished)
  <2> SUFFICES ASSUME NEW p \in Pools, NEW k \in Keys,
                      NEW n \in (finished[<<p, k>>] + 1)..accepted[<<p, k>>]
               PROVE  FALSE
    BY DEF Complete
  <2>1. accepted[<<p, k>>] = 0 /\ finished[<<p, k>>] = 0
    BY <1>1 DEF AllKeys
  <2> QED
    BY <2>1
<1>6. Counted(Lines, accepted, finished)
  <2>1. ASSUME NEW q \in Pools \X AllKeys PROVE Outstanding(Lines, accepted, q) = {}
    BY <1>1 DEF Outstanding
  <2>2. IsFiniteSet({}) /\ Cardinality({}) = 0
    BY FS_EmptySet
  <2>3. ASSUME NEW q \in Pools \X AllKeys
        PROVE  finished[q] + Cardinality(Outstanding(Lines, accepted, q)) = accepted[q]
    <3>1. Cardinality(Outstanding(Lines, accepted, q)) = 0
      BY <2>1, <2>2
    <3> QED
      BY <1>1, <3>1
  <2> QED
    BY <2>3 DEF Counted
<1>7. StopInv
  BY <1>1 DEF StopInv, StopRunsAccepted
<1> QED
  BY <1>2, <1>4, <1>5, <1>6, <1>7 DEF PoolInv, InOrder

LEMMA PoolInvStep == PoolInv /\ [Next]_kernelVars => PoolInv'
<1> SUFFICES ASSUME PoolInv, [Next]_kernelVars PROVE PoolInv'
  OBVIOUS
<1>1. CASE Readers
  <2>1. ASSUME NEW k \in AllKeys, NEW p \in Pools, ReadMessage(p, k) PROVE PoolInv'
    <3>1. PostFixedOrRand(p, k, Nothing)
      BY <2>1 DEF ReadMessage
    <3> QED
      BY <3>1, PostStep
  <2>2. ASSUME NEW k \in AllKeys, NEW c \in Calls, ReadResponse(c, k) PROVE PoolInv'
    <3>1. PostFixedOrRand("resp", k, c) /\ "resp" \in Pools /\ c \in Payloads
      BY <2>2, KernelParameters DEF ReadResponse, KernelParameters
    <3> QED
      BY <3>1, PostStep
  <2> QED
    BY <1>1, <2>1, <2>2 DEF Readers
<1>2. ASSUME NEW w \in Workers, WorkerStep(w) PROVE PoolInv'
  <2>1. CASE Finish(w)
    BY <2>1, FinishTaskStep DEF Finish
  <2>2. CASE WorkerTake(w) \/ DrainTake(w)
    BY <2>2, TakeStep
  <2>3. CASE SeeQuit(w)
    BY <2>3, SeeQuitStep
  <2>4. CASE WorkerEnds(w)
    BY <2>4, WorkerEndsStep
  <2> QED
    BY <1>2, <2>1, <2>2, <2>3, <2>4 DEF WorkerStep
<1>3. ASSUME NEW w \in Workers, NEW c \in Calls, MakeCall(w, c) PROVE PoolInv'
  BY <1>3, OtherStep DEF MakeCall
<1>4. ASSUME NEW c \in Calls, Expire(c) PROVE PoolInv'
  BY <1>4, OtherStep DEF Expire
<1>5. CASE Stop
  BY <1>5, OtherStep DEF Stop
<1>6. CASE StopStep
  <2>1. ASSUME NEW p \in Pools, StopPool(p) PROVE PoolInv'
    BY <2>1, CloseQuitStep, StopReturnsStep DEF StopPool
  <2>2. CASE NetStop
    BY <2>2, OtherStep DEF NetStop
  <2> QED
    BY <1>6, <2>1, <2>2 DEF StopStep
<1>7. CASE UNCHANGED kernelVars
  BY <1>7, OtherStep DEF kernelVars
<1> QED
  BY <1>1, <1>2, <1>3, <1>4, <1>5, <1>6, <1>7 DEF Next

----------------------------------------------------------------------------
(* What a worker runs is the first of its line: by Complete and Increasing  *)
(* the next of its key, and tasks of a key stand in no other line.          *)
LEMMA OrderOfKeys == PoolInv => KeyOrder
<1> SUFFICES ASSUME PoolInv, NEW w \in Workers, ~Idle(w), current[w].key # 0
             PROVE  /\ current[w].n = finished[<<w[1], current[w].key>>] + 1
                    /\ \A v \in Workers \ {w} :
                          v[1] = w[1] /\ ~Idle(v) => current[v].key # current[w].key
  BY DEF KeyOrder
<1>1. Lines \in AllLines /\ accepted \in Counts /\ finished \in Counts
  BY LineType DEF PoolInv, PoolTypeOK
<1>2. \A v \in Workers : ~Idle(v) => 1 \in DOMAIN Lines[v] /\ Lines[v][1] = current[v]
  <2> TAKE v \in Workers
  <2> HAVE ~Idle(v)
  <2>1. Lines[v] = <<current[v]>> \o ch[v] /\ ch[v] \in Seq(Task) /\ current[v] \in Task
    BY DEF Lines, PoolInv, PoolTypeOK
  <2> QED
    BY <2>1
<1>3. \A v \in Workers : ~Idle(v) /\ current[v].key # 0 => v = Home(v[1], current[v].key)
  BY <1>2 DEF PoolInv, InOrder, Sound, Standing
<1>4. PICK t \in Task : t = current[w] /\ t.key \in Keys /\ t.n \in Nat
  BY DEF PoolInv, PoolTypeOK, Task, AllKeys
<1>5. PICK q \in Pools \X AllKeys : q = <<w[1], t.key>>
  BY <1>4, WorkerParts DEF Task
<1>6. accepted[q] \in Nat /\ finished[q] \in Nat
  BY <1>1 DEF Counts
<1>7. t.n \in 1..accepted[q] /\ t.n > finished[q]
  BY <1>2, <1>4, <1>5 DEF PoolInv, InOrder, Sound, Standing
<1>8. t.n = finished[q] + 1
  <2>1. finished[q] + 1 \in (finished[q] + 1)..accepted[q]
    BY <1>6, <1>7
  <2>2. w[1] \in Pools /\ w = Home(w[1], t.key)
    BY <1>3, <1>4, WorkerParts
  <2>3. Holds(Lines, w, t.key, finished[q] + 1)
    BY <1>4, <1>5, <2>1, <2>2 DEF PoolInv, InOrder, Complete
  <2>4. PICK j \in DOMAIN Lines[w] : Lines[w][j].key = t.key /\ Lines[w][j].n = finished[q] + 1
    BY <2>3 DEF Holds
  <2>5. j = 1 \/ 1 < j
    BY <1>1, InLine
  <2>6. 1 < j => t.n < finished[q] + 1
    BY <1>2, <1>4, <2>4 DEF PoolInv, InOrder, Sound, Increasing
  <2>7. j = 1 => t.n = finished[q] + 1
    BY <1>2, <1>4, <2>4
  <2> QED
    BY <1>4, <1>6, <1>7, <2>5, <2>6, <2>7
<1>9. \A v \in Workers \ {w} : v[1] = w[1] /\ ~Idle(v) => current[v].key # current[w].key
  BY <1>3
<1> QED
  BY <1>4, <1>5, <1>8, <1>9

LEMMA Invariance == Spec => []PoolInv
<1>1. Init => PoolInv
  BY PoolInvInit DEF Init
<1> QED
  BY <1>1, PoolInvStep, PTL DEF Spec

(* Channels hold tasks and never more than their capacity; counters are     *)
(* counted up and workers and pools are in one of their states.             *)
THEOREM PoolTypeCorrect == Spec => []PoolTypeOK
<1>1. PoolInv => PoolTypeOK
  BY DEF PoolInv
<1> QED
  BY <1>1, Invariance, PTL

(* Async.PostFixed: the tasks of a key run one after the other in the order *)
(* in which they were accepted, for any hash, also while the pool drains.   *)
THEOREM KeysStayInOrder == Spec => []KeyOrder
<1> QED
  BY Invariance, OrderOfKeys, PTL

(* Async.Stop: when it returns, every task accepted before it was called    *)
(* has run, although a worker may see quit while tasks wait for it.         *)
THEOREM StopRunsWhatWasAccepted == Spec => []StopRunsAccepted
<1>1. PoolInv => StopRunsAccepted
  BY DEF PoolInv, StopInv
<1> QED
  BY <1>1, Invariance, PTL

----------------------------------------------------------------------------
(* The order in which the pools are stopped. *)

(* A call that waits blocks the task of its caller, which is not one of the *)
(* pool of responses.                                                       *)
CallInv ==
    /\ call \in [Calls -> {"none", "waiting", "answered", "expired"}]
    /\ caller \in [Calls -> Workers]
    /\ \A c \in Calls : call[c] = "waiting" => caller[c][1] # "resp" /\ ~Idle(caller[c])

(* Responses stand only in the channels of their pool.                      *)
CarriesInv ==
    \A w \in Workers : w[1] # "resp" => \A i \in DOMAIN ch[w] : ch[w][i].carries = Nothing

(* The pool of responses runs until that of requests has ended.             *)
StageInv ==
    /\ stopPc \in StopPcs
    /\ stopPc \in {"up", "req"} => poolStop["resp"] = "no"
    /\ stopPc \notin {"up", "req"} => poolStop["req"] = "returned"
    /\ poolStop["req"] = "returned" => AllEnded("req")

KernelInv == PoolInv /\ CallInv /\ CarriesInv /\ StageInv

LEMMA PoolNames == Pools = {"req", "resp", "main"} /\ Calls \subseteq Payloads /\ Nothing \notin Calls
BY KernelParameters, PoolParameters DEF KernelParameters, PoolParameters

(* After the pool of requests comes that of responses. *)
LEMMA StopPlan ==
    /\ StopAt(1) = "req" /\ PcAfter("req") = "resp"
    /\ PcAfter("resp") = "main" /\ PcAfter("main") = "net"
<1>1. /\ Len(StopOrder) = 3 /\ StopOrder[1] = "req" /\ StopOrder[2] = "resp"
      /\ StopOrder[3] = "main"
  BY DEF StopOrder
<1>2. 2..4 = {2, 3, 4}
  OBVIOUS
<1>3. /\ StopAt(1) = "req" /\ StopAt(2) = "resp" /\ StopAt(3) = "main" /\ StopAt(4) = "net"
  BY ONLY <1>1 DEF StopAt
<1>4. /\ (CHOOSE j \in 2..4 : StopOrder[j - 1] = "req") = 2
      /\ (CHOOSE j \in 2..4 : StopOrder[j - 1] = "resp") = 3
      /\ (CHOOSE j \in 2..4 : StopOrder[j - 1] = "main") = 4
  <2>1. \A j \in 2..4 : /\ StopOrder[j - 1] = "req" <=> j = 2
                        /\ StopOrder[j - 1] = "resp" <=> j = 3
                        /\ StopOrder[j - 1] = "main" <=> j = 4
    BY ONLY <1>1, <1>2
  <2>2. 2 \in 2..4 /\ 3 \in 2..4 /\ 4 \in 2..4
    OBVIOUS
  <2>3. QED
    BY ONLY <2>1, <2>2
<1>5. QED
  BY ONLY <1>3, <1>4 DEF PcAfter

(* What can happen to a call and to the task of its caller. *)
LEMMA CallStep ==
    ASSUME PoolTypeOK, CallInv, [Next]_kernelVars
    PROVE  CallInv'
<1>1. /\ call \in [Calls -> {"none", "waiting", "answered", "expired"}]
      /\ caller \in [Calls -> Workers] /\ current \in [Workers -> Task]
  BY DEF CallInv, PoolTypeOK
<1>2. ASSUME UNCHANGED <<current, caller>>,
             call' \in [Calls -> {"none", "waiting", "answered", "expired"}],
             \A c \in Calls : call'[c] = "waiting" => call[c] = "waiting"
      PROVE  CallInv'
  BY <1>2 DEF CallInv, Idle
<1>3. ASSUME NEW c \in Calls
      PROVE  /\ Answered(c) \in [Calls -> {"none", "waiting", "answered", "expired"}]
             /\ \A d \in Calls : Answered(c)[d] = "waiting" => call[d] = "waiting"
  BY <1>1 DEF Answered
<1>4. CASE Readers
  <2>1. ASSUME NEW k \in AllKeys, NEW p \in Pools, ReadMessage(p, k)
        PROVE  CallInv'
    BY <1>1, <1>2, <2>1 DEF ReadMessage, PostFixedOrRand, kernelOther
  <2>2. ASSUME NEW k \in AllKeys, NEW c \in Calls, ReadResponse(c, k)
        PROVE  CallInv'
    <3>1. /\ UNCHANGED <<current, caller>>
          /\ call' = call \/ call' = Answered(c)
      BY <2>2 DEF ReadResponse, PostFixedOrRand
    <3>2. QED
      BY <1>1, <1>2, <1>3, <3>1
  <2>3. QED
    BY <1>4, <2>1, <2>2 DEF Readers
<1>5. ASSUME NEW w \in Workers, Finish(w)
      PROVE  CallInv'
  <2>1. /\ ~Waits(w) /\ current' = [current EXCEPT ![w] = NoTask] /\ caller' = caller
        /\ call' = call \/ \E c \in Calls : call' = Answered(c)
    BY <1>5 DEF Finish, FinishTask
  <2>2. /\ call' \in [Calls -> {"none", "waiting", "answered", "expired"}]
        /\ \A d \in Calls : call'[d] = "waiting" => call[d] = "waiting"
    BY <1>1, <1>3, <2>1
  <2>3. \A d \in Calls : call[d] = "waiting" => caller[d] # w
    BY <2>1 DEF Waits
  <2>4. QED
    BY <1>1, <2>1, <2>2, <2>3 DEF CallInv, Idle
<1>6. ASSUME NEW w \in Workers, WorkerTake(w) \/ DrainTake(w) \/ SeeQuit(w) \/ WorkerEnds(w),
             UNCHANGED kernelOther
      PROVE  CallInv'
  <2>1. /\ UNCHANGED <<call, caller>> /\ Idle(w)
        /\ current' = [current EXCEPT ![w] = Head(ch[w])] \/ current' = current
    BY <1>6 DEF WorkerTake, DrainTake, SeeQuit, WorkerEnds, Take, kernelOther
  <2>2. \A d \in Calls : call[d] = "waiting" => current'[caller[d]] = current[caller[d]]
    BY <1>1, <2>1 DEF CallInv
  <2>3. QED
    BY <1>1, <2>1, <2>2 DEF CallInv, Idle
<1>7. ASSUME NEW w \in Workers, NEW c \in Calls, MakeCall(w, c)
      PROVE  CallInv'
  BY <1>1, <1>7 DEF MakeCall, CallInv, Idle, poolVars
<1>8. ASSUME NEW c \in Calls, Expire(c)
      PROVE  CallInv'
  <2>1. UNCHANGED <<current, caller>> /\ call' = [call EXCEPT ![c] = "expired"]
    BY <1>8 DEF Expire, poolVars
  <2>2. QED
    BY <1>1, <1>2, <2>1
<1>9. CASE Stop \/ StopStep \/ UNCHANGED kernelVars
  <2>1. UNCHANGED <<current, call, caller>>
    <3>1. CASE Stop \/ UNCHANGED kernelVars
      BY <3>1 DEF Stop, kernelVars, kernelOther, poolVars
    <3>2. CASE StopStep
      BY <3>2 DEF StopStep, StopPool, NetStop, CloseQuit, StopReturns, poolVars
    <3>3. QED
      BY <1>9, <3>1, <3>2
  <2>2. QED
    BY <1>1, <1>2, <2>1
<1>10. QED
  BY <1>4, <1>5, <1>6, <1>7, <1>8, <1>9 DEF Next, WorkerStep

(* A response is posted only to its pool. *)
LEMMA CarriesStep ==
    ASSUME PoolTypeOK, CarriesInv, [Next]_kernelVars
    PROVE  CarriesInv'
<1>1. ch \in [Workers -> Seq(Task)]
  BY DEF PoolTypeOK
<1>2. ASSUME NEW p \in Pools, NEW k \in AllKeys, NEW x, PostFixedOrRand(p, k, x),
             p # "resp" => x = Nothing
      PROVE  CarriesInv'
  <2>1. PICK w \in Workers : w = Target(p, k) /\ w[1] = p
    BY TargetType
  <2>2. PICK t : \/ ch' = ch
                 \/ ch' = [ch EXCEPT ![w] = Append(@, t)] /\ t.carries = x
    <3>1. Post(w, k, x)
      BY <1>2, <2>1 DEF PostFixedOrRand
    <3>2. CASE Fits(w)
      <4>1. PICK t : t = [key |-> k, n |-> accepted[<<w[1], k>>] + 1, carries |-> x]
        OBVIOUS
      <4>2. ch' = [ch EXCEPT ![w] = Append(@, t)] /\ t.carries = x
        BY <3>1, <3>2, <4>1 DEF Post
      <4>3. QED
        BY <4>2
    <3>3. CASE ~Fits(w)
      BY <3>1, <3>3 DEF Post
    <3>4. QED
      BY <3>2, <3>3
  <2>3. CASE ch' = ch
    BY <2>3 DEF CarriesInv
  <2>4. CASE ch' = [ch EXCEPT ![w] = Append(@, t)] /\ t.carries = x
    <3>1. SUFFICES ASSUME NEW v \in Workers, v[1] # "resp", NEW i \in DOMAIN ch'[v]
                   PROVE  ch'[v][i].carries = Nothing
      BY DEF CarriesInv
    <3>2. CASE v = w
      <4>1. ch[w] \in Seq(Task) /\ ch'[v] = Append(ch[w], t)
        BY <1>1, <2>4, <3>2
      <4>2. i \in DOMAIN ch[w] \/ i = Len(ch[w]) + 1
        BY <4>1
      <4>3. CASE i \in DOMAIN ch[w]
        BY <3>1, <3>2, <4>1, <4>3 DEF CarriesInv
      <4>4. CASE i = Len(ch[w]) + 1
        BY <1>2, <2>1, <2>4, <3>1, <3>2, <4>1, <4>4
      <4>5. QED
        BY <4>2, <4>3, <4>4
    <3>3. CASE v # w
      BY <1>1, <2>4, <3>1, <3>3 DEF CarriesInv
    <3>4. QED
      BY <3>2, <3>3
  <2>5. QED
    BY <2>2, <2>3, <2>4
<1>3. CASE Readers
  <2>1. ASSUME NEW k \in AllKeys, NEW p \in Pools, ReadMessage(p, k)
        PROVE  CarriesInv'
    BY <1>2, <2>1 DEF ReadMessage
  <2>2. ASSUME NEW k \in AllKeys, NEW c \in Calls, ReadResponse(c, k)
        PROVE  CarriesInv'
    <3>1. "resp" \in Pools /\ PostFixedOrRand("resp", k, c)
      BY <2>2, PoolNames DEF ReadResponse
    <3>2. QED
      BY <1>2, <3>1
  <2>3. QED
    BY <1>3, <2>1, <2>2 DEF Readers
<1>4. ASSUME NEW w \in Workers, Take(w), ch[w] # <<>>
      PROVE  CarriesInv'
  <2>1. ch' = [ch EXCEPT ![w] = Tail(@)] /\ ch[w] \in Seq(Task)
    BY <1>1, <1>4 DEF Take
  <2>2. \A i \in DOMAIN Tail(ch[w]) : i + 1 \in DOMAIN ch[w] /\ Tail(ch[w])[i] = ch[w][i + 1]
    BY <1>4, <2>1
  <2>3. QED
    BY <1>1, <2>1, <2>2 DEF CarriesInv
<1>5. ASSUME NEW w \in Workers, WorkerStep(w)
      PROVE  CarriesInv'
  <2>1. CASE WorkerTake(w) \/ DrainTake(w)
    BY <1>4, <2>1 DEF WorkerTake, DrainTake
  <2>2. CASE Finish(w) \/ SeeQuit(w) \/ WorkerEnds(w)
    <3>1. ch' = ch
      BY <2>2 DEF Finish, FinishTask, SeeQuit, WorkerEnds
    <3>2. QED
      BY <3>1 DEF CarriesInv
  <2>3. QED
    BY <1>5, <2>1, <2>2 DEF WorkerStep
<1>6. ASSUME \/ \E w \in Workers, c \in Calls : MakeCall(w, c)
             \/ \E c \in Calls : Expire(c)
             \/ Stop \/ StopStep \/ UNCHANGED kernelVars
      PROVE  CarriesInv'
  <2>1. ch' = ch
    BY <1>6 DEF MakeCall, Expire, Stop, StopStep, StopPool, NetStop, CloseQuit,
                StopReturns, kernelVars, poolVars
  <2>2. QED
    BY <2>1 DEF CarriesInv
<1>7. QED
  BY <1>3, <1>5, <1>6 DEF Next

(* stop goes from one pool to the next only when Stop of the pool returns,  *)
(* and a worker that has ended stays so.                                    *)
LEMMA StageStep ==
    ASSUME PoolTypeOK, StageInv, [Next]_kernelVars
    PROVE  StageInv'
<1>1. /\ poolStop \in [Pools -> {"no", "quit", "returned"}] /\ Pools = {"req", "resp", "main"}
      /\ worker \in [Workers -> {"running", "draining", "ended"}]
  BY PoolNames DEF PoolTypeOK
<1>2. ASSUME UNCHANGED <<stopPc, poolStop>>,
             \A w \in Workers : worker[w] = "ended" => worker'[w] = "ended"
      PROVE  StageInv'
  BY <1>2 DEF StageInv, AllEnded
<1>3. ASSUME NEW w \in Workers, WorkerStep(w)
      PROVE  StageInv'
  <2>1. UNCHANGED <<stopPc, poolStop>>
    BY <1>3 DEF WorkerStep, Finish, FinishTask, WorkerTake, DrainTake, SeeQuit,
                WorkerEnds, kernelOther
  <2>2. \/ worker' = worker
        \/ worker[w] # "ended" /\ \E s : worker' = [worker EXCEPT ![w] = s]
    BY <1>3 DEF WorkerStep, Finish, FinishTask, WorkerTake, DrainTake, SeeQuit, WorkerEnds
  <2>3. QED
    BY <1>1, <1>2, <2>1, <2>2
<1>4. ASSUME \/ Readers
             \/ \E w \in Workers, c \in Calls : MakeCall(w, c)
             \/ \E c \in Calls : Expire(c)
             \/ UNCHANGED kernelVars
      PROVE  StageInv'
  <2>1. UNCHANGED <<stopPc, poolStop, worker>>
    BY <1>4 DEF Readers, ReadMessage, ReadResponse, PostFixedOrRand, MakeCall, Expire,
                kernelVars, kernelOther, poolVars
  <2>2. QED
    BY <1>2, <2>1
<1>5. CASE Stop
  <2>1. stopPc = "up" /\ stopPc' = "req" /\ UNCHANGED <<poolStop, worker>>
    BY <1>5, StopPlan DEF Stop, poolVars
  <2>2. QED
    BY ONLY <2>1, StageInv DEF StageInv, AllEnded, StopPcs
<1>6. ASSUME NEW p \in Pools, StopPool(p)
      PROVE  StageInv'
  <2>1. stopPc = p /\ worker' = worker
    BY <1>6 DEF StopPool, CloseQuit, StopReturns
  <2>2. CASE CloseQuit(p)
    <3>1. stopPc' = stopPc /\ poolStop[p] = "no" /\ poolStop' = [poolStop EXCEPT ![p] = "quit"]
      BY <1>6, <2>2 DEF StopPool, CloseQuit, StopReturns
    <3>2. QED
      BY ONLY <1>1, <2>1, <3>1, StageInv, p \in Pools DEF StageInv, AllEnded
  <2>3. CASE StopReturns(p)
    <3>1. /\ stopPc' = PcAfter(p) /\ AllEnded(p)
          /\ poolStop' = [poolStop EXCEPT ![p] = "returned"]
      BY <1>6, <2>3 DEF StopPool, CloseQuit, StopReturns
    <3>2. QED
      BY ONLY <1>1, <2>1, <3>1, StageInv, StopPlan, p \in Pools DEF StageInv, AllEnded, StopPcs
  <2>4. QED
    BY <1>6, <2>2, <2>3 DEF StopPool
<1>7. CASE NetStop
  <2>1. stopPc = "net" /\ stopPc' = "down" /\ UNCHANGED <<poolStop, worker>>
    BY <1>7 DEF NetStop, poolVars
  <2>2. QED
    BY ONLY <2>1, StageInv DEF StageInv, AllEnded, StopPcs
<1>8. QED
  BY <1>3, <1>4, <1>5, <1>6, <1>7 DEF Next, StopStep

LEMMA KernelInvInit == Init => KernelInv
<1> SUFFICES ASSUME Init PROVE KernelInv
  OBVIOUS
<1>1. PoolInv /\ PoolTypeOK
  BY PoolInvInit DEF Init, PoolInv
<1>2. CallInv
  <2>1. Workers # {}
    <3>1. "req" \in Pools /\ Size["req"] \in Nat \ {0}
      BY PoolNames, PoolParameters DEF PoolParameters
    <3>2. 0 \in WorkersOf("req")
      BY ONLY <3>1 DEF WorkersOf
    <3>3. QED
      BY <3>1, <3>2, WorkerParts
  <2>2. (CHOOSE w \in Workers : TRUE) \in Workers
    BY ONLY <2>1
  <2>3. call = [c \in Calls |-> "none"] /\ caller = [c \in Calls |-> CHOOSE w \in Workers : TRUE]
    BY DEF Init
  <2>4. QED
    BY ONLY <2>2, <2>3 DEF CallInv
<1>3. CarriesInv
  BY DEF Init, PoolInit, CarriesInv
<1>4. StageInv
  BY PoolNames DEF Init, PoolInit, StageInv, StopPcs
<1>5. QED
  BY ONLY <1>1, <1>2, <1>3, <1>4 DEF KernelInv

(* A worker of the pool of responses ends only after all of those of the    *)
(* pool of requests, and these are idle then: none of them waits for a call *)
(* whose response could be left behind.                                     *)
LEMMA ResponsesAreHandled == KernelInv => ResponsesHandled
<1> SUFFICES ASSUME KernelInv, NEW w \in Workers, worker[w] = "ended",
                    NEW i \in DOMAIN ch[w], NEW c, c = ch[w][i].carries, c \in Calls,
                    call[c] = "waiting", caller[c][1] = "req"
             PROVE  FALSE
  BY DEF ResponsesHandled
<1>1. w[1] = "resp"
  BY PoolNames DEF KernelInv, CarriesInv
<1>2. poolStop["resp"] # "no"
  BY <1>1 DEF KernelInv, PoolInv, StopInv
<1>3. AllEnded("req")
  BY <1>2 DEF KernelInv, StageInv
<1>4. caller[c] \in Workers /\ ~Idle(caller[c])
  BY DEF KernelInv, CallInv
<1>5. worker[caller[c]] = "ended"
  BY <1>3, <1>4 DEF AllEnded
<1>6. Idle(caller[c])
  BY <1>4, <1>5 DEF KernelInv, PoolInv, StopInv
<1>7. QED
  BY <1>4, <1>6

(* Requests that are being handled when the server stops still get the      *)
(* responses that arrive for them: none stays in a channel whose worker has *)
(* ended, for pools of any size.                                            *)
THEOREM ResponsesOutliveRequests == Spec => []ResponsesHandled
<1>1. KernelInv /\ [Next]_kernelVars => KernelInv'
  <2>1. PoolInv => PoolTypeOK
    BY DEF PoolInv
  <2>2. QED
    BY <2>1, PoolInvStep, CallStep, CarriesStep, StageStep DEF KernelInv
<1>2. QED
  BY <1>1, KernelInvInit, ResponsesAreHandled, PTL DEF Spec

----------------------------------------------------------------------------
(* The timer manager. *)

(* What the variables hold; a list of channels holds timers. *)
Statuses == {"new", "checked", "queued", "active", "done", "cancelled", "refused"}
TimerTypes ==
    /\ now \in Nat
    /\ status \in [Timers -> Statuses]
    /\ addChan \in Seq(Timers) /\ cancelChan \in Seq(Timers)
    /\ next \in [Timers -> Nat] /\ added \in [Timers -> Nat]
    /\ ticks \in [Timers -> Nat] /\ last \in [Timers -> Nat]

(* A timer stands in addChan once while it is queued, and not otherwise.    *)
AddChanInv ==
    /\ \A i \in DOMAIN addChan : status[addChan[i]] = "queued"
    /\ \A i, j \in DOMAIN addChan : addChan[i] = addChan[j] => i = j

(* Where a timer stands on its schedule: before its first callback, or an   *)
(* interval after the last one, with callbacks left while it is active.     *)
Pending(t) == ticks[t] = 0 /\ next[t] = added[t]
Repeating(t) ==
    /\ ticks[t] > 0 /\ added[t] <= last[t] /\ last[t] <= now
    /\ next[t] = last[t] + Interval[t]
    /\ \E k \in Nat : last[t] = added[t] + k * Interval[t]
ScheduleInv ==
    /\ \A t \in Timers : Pending(t) \/ Repeating(t)
    /\ \A t \in Timers : status[t] \in {"new", "checked", "queued"} => ticks[t] = 0
    /\ \A t \in Timers : status[t] = "active" /\ MaxTickCount[t] > 0 => ticks[t] < MaxTickCount[t]

TimerInv == TimerTypes /\ AddChanInv /\ ScheduleInv

LEMMA TimerInvInit == TimerInit => TimerInv
<1> SUFFICES ASSUME TimerInit PROVE TimerInv
  OBVIOUS
<1> USE TimerParameters
<1>1. TimerTypes
  BY DEF TimerInit, TimerTypes, Statuses, TimerParameters
<1>2. AddChanInv
  BY DEF TimerInit, AddChanInv
<1>3. ScheduleInv
  BY DEF TimerInit, ScheduleInv, Pending
<1>4. QED
  BY <1>1, <1>2, <1>3 DEF TimerInv

(* A step that moves no timer on its schedule leaves it where it is; the    *)
(* clock may go on.                                                         *)
LEMMA ScheduleKept ==
    ASSUME TimerInv, UNCHANGED <<next, added, ticks, last>>, now' \in Nat, now <= now',
           \A t \in Timers : status'[t] = "active" => status[t] \in {"queued", "active"},
           \A t \in Timers : status'[t] \in {"new", "checked", "queued"}
                             => status[t] \in {"new", "checked", "queued"}
    PROVE  ScheduleInv'
<1> USE TimerParameters
<1>1. ASSUME NEW t \in Timers PROVE (Pending(t) \/ Repeating(t))'
  <2>1. Pending(t) \/ Repeating(t)
    BY DEF TimerInv, ScheduleInv
  <2>2. last[t] \in Nat /\ now \in Nat
    BY DEF TimerInv, TimerTypes
  <2>3. QED
    BY <2>1, <2>2 DEF Pending, Repeating
<1>2. ASSUME NEW t \in Timers, status'[t] \in {"new", "checked", "queued"} PROVE ticks'[t] = 0
  BY <1>2 DEF TimerInv, ScheduleInv
<1>3. ASSUME NEW t \in Timers, status'[t] = "active", MaxTickCount[t] > 0
      PROVE  ticks'[t] < MaxTickCount[t]
  <2>1. CASE status[t] = "active"
    BY <1>3, <2>1 DEF TimerInv, ScheduleInv
  <2>2. CASE status[t] = "queued"
    BY <1>3, <2>2 DEF TimerInv, ScheduleInv
  <2>3. QED
    BY <1>3, <2>1, <2>2
<1>4. QED
  BY <1>1, <1>2, <1>3 DEF ScheduleInv

LEMMA AddCheckStep == ASSUME TimerInv, NEW t \in Timers, AddCheck(t) PROVE TimerInv'
<1> USE TimerParameters DEF TimerParameters
<1>1. status[t] = "new" /\ ticks[t] = 0 /\ t \in Timers
  BY DEF TimerInv, AddCheck, ScheduleInv
<1>2. TimerTypes'
  <2>1. now + First[t] \in Nat
    BY DEF TimerInv, TimerTypes
  <2>2. status' \in [Timers -> Statuses]
    <3>1. status \in [Timers -> Statuses] /\ "checked" \in Statuses /\ "refused" \in Statuses
      BY DEF TimerInv, TimerTypes, Statuses
    <3>2. QED
      BY <3>1 DEF AddCheck
  <2>3. next' \in [Timers -> Nat] /\ added' \in [Timers -> Nat]
    <3>1. next \in [Timers -> Nat] /\ added \in [Timers -> Nat]
      BY DEF TimerInv, TimerTypes
    <3>2. QED
      BY <2>1, <3>1 DEF AddCheck
  <2>4. QED
    BY <2>2, <2>3 DEF TimerInv, TimerTypes, AddCheck
<1>3. AddChanInv'
  <2>1. addChan' = addChan /\ \A s \in Timers : s # t => status'[s] = status[s]
    BY DEF AddCheck, TimerInv, TimerTypes
  <2>2. \A i \in DOMAIN addChan : addChan[i] \in Timers /\ addChan[i] # t
    BY <1>1 DEF TimerInv, TimerTypes, AddChanInv
  <2>3. QED
    BY <2>1, <2>2 DEF TimerInv, AddChanInv
<1>4. CASE running
  <2>1. \A s \in Timers : s # t => status'[s] = status[s] /\ next'[s] = next[s] /\ added'[s] = added[s]
    BY <1>4 DEF AddCheck, TimerInv, TimerTypes
  <2>2. status'[t] = "checked" /\ next'[t] = added'[t]
    BY <1>4 DEF AddCheck, TimerInv, TimerTypes
  <2>3. ticks' = ticks /\ last' = last /\ now' = now
    BY DEF AddCheck
  <2>4. ScheduleInv'
    BY <1>1, <2>1, <2>2, <2>3 DEF TimerInv, ScheduleInv, Pending, Repeating
  <2>5. QED
    BY <1>2, <1>3, <2>4 DEF TimerInv
<1>5. CASE ~running
  <2>1. \A s \in Timers : status'[s] = IF s = t THEN "refused" ELSE status[s]
    BY <1>5 DEF AddCheck, TimerInv, TimerTypes
  <2>2. UNCHANGED <<next, added, ticks, last, now>> /\ now \in Nat
    BY <1>5 DEF AddCheck, TimerInv, TimerTypes
  <2>3. ScheduleInv'
    BY <2>1, <2>2, ScheduleKept
  <2>4. QED
    BY <1>2, <1>3, <2>3 DEF TimerInv
<1>6. QED
  BY <1>4, <1>5

LEMMA AddSendStep == ASSUME TimerInv, NEW t \in Timers, AddSend(t) PROVE TimerInv'
<1>0. \/ addChan' = Append(addChan, t) /\ status' = [status EXCEPT ![t] = "queued"]
      \/ addChan' = addChan /\ status' = [status EXCEPT ![t] = "refused"]
  BY DEF AddSend
<1>1. status[t] = "checked" /\ \A i \in DOMAIN addChan : addChan[i] # t
  BY DEF TimerInv, AddSend, AddChanInv
<1>2. TimerTypes'
  <2>0. addChan \in Seq(Timers)
    BY DEF TimerInv, TimerTypes
  <2>1. addChan' \in Seq(Timers)
    BY <1>0, <2>0
  <2>2. status \in [Timers -> Statuses] /\ {"queued", "refused"} \subseteq Statuses
    BY DEF TimerInv, TimerTypes, Statuses
  <2>3. status' \in [Timers -> Statuses]
    BY <1>0, <2>2
  <2>4. QED
    BY <2>1, <2>3 DEF TimerInv, TimerTypes, AddSend
<1>3. UNCHANGED <<next, added, ticks, last, now>> /\ now \in Nat
  BY DEF AddSend, TimerInv, TimerTypes
<1>4. \A s \in Timers : \/ status'[s] = status[s]
                        \/ s = t /\ status'[s] \in {"queued", "refused"}
  <2>1. status \in [Timers -> Statuses]
    BY DEF TimerInv, TimerTypes
  <2>2. QED
    BY <1>0, <2>1
<1>5. ScheduleInv'
  BY <1>1, <1>3, <1>4, ScheduleKept
<1>6. CASE addChan' = addChan
  <2>1. \A s \in Timers : s # t => status'[s] = status[s]
    BY <1>4
  <2>2. QED
    BY <1>1, <1>2, <1>5, <1>6, <2>1 DEF TimerInv, TimerTypes, AddChanInv
<1>7. CASE addChan' = Append(addChan, t) /\ status' = [status EXCEPT ![t] = "queued"]
  <2>1. DOMAIN addChan' = 1..(Len(addChan) + 1) /\ addChan'[Len(addChan) + 1] = t
    BY <1>7 DEF TimerInv, TimerTypes
  <2>0. addChan \in Seq(Timers)
    BY DEF TimerInv, TimerTypes
  <2>2. \A i \in DOMAIN addChan : addChan'[i] = addChan[i] /\ addChan[i] \in Timers
    BY <1>7, <2>0
  <2>3. DOMAIN addChan = 1..Len(addChan) /\ Len(addChan) \in Nat
    BY DEF TimerInv, TimerTypes
  <2>4. status'[t] = "queued" /\ \A s \in Timers : s # t => status'[s] = status[s]
    BY <1>7 DEF TimerInv, TimerTypes
  <2>5. AddChanInv'
    <3>1. ASSUME NEW i \in DOMAIN addChan' PROVE status'[addChan'[i]] = "queued"
      BY <1>1, <2>1, <2>2, <2>3, <2>4 DEF TimerInv, AddChanInv
    <3>2. ASSUME NEW i \in DOMAIN addChan', NEW j \in DOMAIN addChan', addChan'[i] = addChan'[j] PROVE i = j
      BY <1>1, <2>1, <2>2, <2>3, <3>2 DEF TimerInv, AddChanInv
    <3>3. QED
      BY <3>1, <3>2 DEF AddChanInv
  <2>6. QED
    BY <1>2, <1>5, <2>5 DEF TimerInv
<1>8. QED
  BY <1>0, <1>6, <1>7

LEMMA CancelCheckStep == ASSUME TimerInv, NEW t \in Timers, CancelCheck(t) PROVE TimerInv'
<1>1. UNCHANGED <<now, status, addChan, cancelChan, next, added, ticks, last>>
  BY DEF CancelCheck
<1>2. QED
  BY <1>1 DEF TimerInv, TimerTypes, AddChanInv, ScheduleInv, Pending, Repeating

LEMMA CancelSendStep == ASSUME TimerInv, NEW t \in Timers, CancelSend(t) PROVE TimerInv'
<1>1. UNCHANGED <<now, status, addChan, next, added, ticks, last>>
  BY DEF CancelSend
<1>2. cancelChan' = Append(cancelChan, t) \/ cancelChan' = cancelChan
  BY DEF CancelSend
<1>3. cancelChan \in Seq(Timers)
  BY DEF TimerInv, TimerTypes
<1>4. cancelChan' \in Seq(Timers)
  BY <1>2, <1>3
<1>5. QED
  BY <1>1, <1>4 DEF TimerInv, TimerTypes, AddChanInv, ScheduleInv, Pending, Repeating

(* The first timer of addChan is queued and stands nowhere else in it.      *)
LEMMA AddInternalStep == ASSUME TimerInv, AddInternal PROVE TimerInv'
<1> DEFINE t == Head(addChan)
<1>1. addChan \in Seq(Timers) /\ addChan # <<>>
  BY DEF TimerInv, TimerTypes, AddInternal
<1>2. t = addChan[1] /\ t \in Timers /\ 1 \in DOMAIN addChan
  BY <1>1
<1>3. addChan' \in Seq(Timers) /\ \A i \in DOMAIN addChan' :
          i + 1 \in DOMAIN addChan /\ addChan'[i] = addChan[i + 1] /\ i \in Nat /\ i > 0
  BY <1>1 DEF AddInternal
<1> HIDE DEF t
<1>4. status[t] = "queued" /\ \A i \in DOMAIN addChan' : addChan'[i] # t
  BY <1>2, <1>3 DEF TimerInv, AddChanInv
<1>5. status' = [status EXCEPT ![t] = "active"] /\ UNCHANGED <<now, next, added, ticks, last, cancelChan>>
  BY DEF AddInternal, t
<1>6. status \in [Timers -> Statuses] /\ "active" \in Statuses /\ now \in Nat
  BY DEF TimerInv, TimerTypes, Statuses
<1>7. \A s \in Timers : status'[s] = IF s = t THEN "active" ELSE status[s]
  BY <1>5, <1>6
<1>8. TimerTypes'
  BY <1>3, <1>5, <1>6 DEF TimerInv, TimerTypes
<1>9. AddChanInv'
  <2>1. ASSUME NEW i \in DOMAIN addChan' PROVE status'[addChan'[i]] = "queued"
    <3>1. addChan'[i] \in Timers /\ status[addChan'[i]] = "queued"
      BY <1>1, <1>3 DEF TimerInv, AddChanInv
    <3>2. QED
      BY <1>4, <1>7, <3>1
  <2>2. ASSUME NEW i \in DOMAIN addChan', NEW j \in DOMAIN addChan', addChan'[i] = addChan'[j]
        PROVE  i = j
    <3>1. i + 1 = j + 1
      BY <1>3, <2>2 DEF TimerInv, AddChanInv
    <3>2. QED
      BY <1>3, <3>1
  <2>3. QED
    BY <2>1, <2>2 DEF AddChanInv
<1>10. ScheduleInv'
  BY <1>4, <1>5, <1>6, <1>7, ScheduleKept
<1>11. QED
  BY <1>8, <1>9, <1>10 DEF TimerInv

LEMMA CancelInternalStep == ASSUME TimerInv, CancelInternal PROVE TimerInv'
<1>1. PICK t : t = Head(cancelChan) /\ status' = [status EXCEPT ![t] = Cancelled(t)]
  BY DEF CancelInternal
<1>2. cancelChan \in Seq(Timers) /\ cancelChan # <<>> /\ cancelChan' = Tail(cancelChan)
  BY DEF TimerInv, TimerTypes, CancelInternal
<1>3. t \in Timers /\ cancelChan' \in Seq(Timers)
  BY <1>1, <1>2
<1>4. status \in [Timers -> Statuses] /\ "cancelled" \in Statuses /\ now \in Nat
  BY DEF TimerInv, TimerTypes, Statuses
<1>5. \A s \in Timers : status'[s] = IF s = t /\ status[s] = "active" THEN "cancelled" ELSE status[s]
  BY <1>1, <1>4 DEF Cancelled
<1>6. UNCHANGED <<now, addChan, next, added, ticks, last>>
  BY DEF CancelInternal
<1>7. status' \in [Timers -> Statuses]
  BY <1>1, <1>3, <1>4 DEF Cancelled
<1>8. TimerTypes'
  BY <1>3, <1>6, <1>7 DEF TimerInv, TimerTypes
<1>9. AddChanInv'
  <2>1. \A i \in DOMAIN addChan : addChan[i] \in Timers
    BY DEF TimerInv, TimerTypes
  <2>2. QED
    BY <1>5, <1>6, <2>1 DEF TimerInv, AddChanInv
<1>10. ScheduleInv'
  BY <1>4, <1>5, <1>6, ScheduleKept
<1>11. QED
  BY <1>8, <1>9, <1>10 DEF TimerInv

LEMMA ClockStep == ASSUME TimerInv, Clock PROVE TimerInv'
<1>1. now \in Nat /\ MaxTime \in Nat
  BY TimerParameters DEF TimerInv, TimerTypes, TimerParameters
<1>2. now' \in Nat /\ now <= now'
  BY <1>1 DEF Clock
<1>3. UNCHANGED <<status, addChan, cancelChan, next, added, ticks, last>>
  BY DEF Clock
<1>4. ScheduleInv'
  BY <1>2, <1>3, ScheduleKept
<1>5. QED
  BY <1>2, <1>3, <1>4 DEF TimerInv, TimerTypes, AddChanInv

(* The schedule time of a timer that is due is the latest of its times that *)
(* has passed.                                                              *)
LEMMA LatestTime ==
    ASSUME NEW n \in Nat, NEW f \in Nat, NEW i \in Nat \ {0}, f <= n
    PROVE  \E q \in Nat : /\ q = (n - f) \div i
                          /\ f + q * i \in Nat /\ f <= f + q * i
                          /\ f + q * i <= n /\ n < f + q * i + i
<1>1. PICK d \in Nat : d = n - f
  OBVIOUS
<1>2. PICK q \in Nat : q = d \div i
  OBVIOUS
<1>3. PICK m \in Nat : m = q * i /\ m <= d /\ d < m + i
  <2>1. q * i <= d /\ d < (q + 1) * i
    BY ONLY <1>2, d \in Nat, i \in Nat \ {0}
  <2>2. (q + 1) * i = q * i + i /\ q * i \in Nat
    BY ONLY q \in Nat, i \in Nat \ {0}
  <2>3. QED
    BY <2>1, <2>2
<1>4. QED
  BY <1>1, <1>2, <1>3

(* A timer that is due: the time it fires for, and what follows from that.  *)
LEMMA DueTimer ==
    ASSUME TimerInv, NEW t \in Due
    PROVE  /\ t \in Timers /\ status[t] = "active"
           /\ ScheduleTime(t) \in Nat /\ next[t] <= ScheduleTime(t) /\ ScheduleTime(t) <= now
           /\ added[t] <= ScheduleTime(t)
           /\ ticks[t] > 0 => last[t] < ScheduleTime(t)
           /\ \E k \in Nat : ScheduleTime(t) = added[t] + k * Interval[t]
<1>1. t \in Timers /\ status[t] = "active" /\ next[t] <= now
  BY DEF Due
<1>2. PICK n, f, a, l, i : n = now /\ f = next[t] /\ a = added[t] /\ l = last[t] /\ i = Interval[t]
  OBVIOUS
<1>3. n \in Nat /\ f \in Nat /\ a \in Nat /\ l \in Nat /\ i \in Nat \ {0} /\ ticks[t] \in Nat
  BY <1>1, <1>2, TimerParameters DEF TimerInv, TimerTypes, TimerParameters
<1>4. PICK q \in Nat : /\ q = (n - f) \div i
                       /\ f + q * i \in Nat /\ f <= f + q * i
                       /\ f + q * i <= n /\ n < f + q * i + i
  BY <1>1, <1>2, <1>3, LatestTime
<1>5. ScheduleTime(t) = f + q * i
  BY <1>2, <1>4 DEF ScheduleTime, Missed
<1>6. Pending(t) \/ Repeating(t)
  BY <1>1 DEF TimerInv, ScheduleInv
<1>7. CASE Pending(t)
  <2>1. ticks[t] = 0 /\ f = a
    BY <1>2, <1>7 DEF Pending
  <2>2. QED
    BY <1>1, <1>2, <1>3, <1>4, <1>5, <2>1
<1>8. CASE Repeating(t)
  <2>1. a <= l /\ f = l + i
    BY <1>2, <1>8 DEF Repeating
  <2>2. PICK k \in Nat : l = a + k * i
    BY <1>2, <1>8 DEF Repeating
  <2>3. PICK j \in Nat : j = k + 1 + q
    OBVIOUS
  <2>4. j * i = k * i + i + q * i /\ k * i \in Nat /\ q * i \in Nat
    BY ONLY <2>3, k \in Nat, q \in Nat, <1>3
  <2>5. f + q * i = a + j * i
    BY <1>3, <2>1, <2>2, <2>4
  <2>6. a <= f + q * i /\ l < f + q * i
    BY <1>3, <1>4, <2>1
  <2>7. QED
    BY <1>1, <1>2, <1>4, <1>5, <2>5, <2>6
<1>9. QED
  BY <1>6, <1>7, <1>8

LEMMA ProcessTickersStep == ASSUME TimerInv, ProcessTickers PROVE TimerInv'
<1>1. \A t \in Timers :
          /\ t \in Due => /\ last'[t] = ScheduleTime(t) /\ ticks'[t] = ticks[t] + 1
                          /\ next'[t] = NextTime(t)
                          /\ status'[t] = IF Exhausted(t) THEN "done" ELSE status[t]
          /\ t \notin Due => /\ last'[t] = last[t] /\ ticks'[t] = ticks[t]
                             /\ next'[t] = next[t] /\ status'[t] = status[t]
  BY DEF ProcessTickers
<1>2. now' = now /\ addChan' = addChan /\ cancelChan' = cancelChan /\ added' = added
  BY DEF ProcessTickers
<1>3. \A t \in Timers : /\ last[t] \in Nat /\ ticks[t] \in Nat /\ next[t] \in Nat
                         /\ status[t] \in Statuses /\ Interval[t] \in Nat \ {0}
                         /\ MaxTickCount[t] \in Nat
  BY TimerParameters DEF TimerInv, TimerTypes, TimerParameters
<1>4. TimerTypes'
  <2>1. ASSUME NEW t \in Timers
        PROVE  last'[t] \in Nat /\ ticks'[t] \in Nat /\ next'[t] \in Nat /\ status'[t] \in Statuses
    <3>1. CASE t \in Due
      <4>1. ScheduleTime(t) \in Nat
        BY <3>1, DueTimer
      <4>2. NextTime(t) \in Nat
        BY <1>3, <4>1 DEF NextTime
      <4>3. "done" \in Statuses
        BY DEF Statuses
      <4>4. QED
        BY <1>1, <1>3, <3>1, <4>1, <4>2, <4>3
    <3>2. CASE t \notin Due
      BY <1>1, <1>3, <3>2
    <3>3. QED
      BY <3>1, <3>2
  <2>2. last' \in [Timers -> Nat] /\ ticks' \in [Timers -> Nat]
    BY <2>1 DEF ProcessTickers
  <2>3. next' \in [Timers -> Nat] /\ status' \in [Timers -> Statuses]
    BY <2>1 DEF ProcessTickers
  <2>4. QED
    BY <1>2, <2>2, <2>3 DEF TimerInv, TimerTypes
<1>5. AddChanInv'
  <2>1. \A i \in DOMAIN addChan : addChan[i] \in Timers
    BY DEF TimerInv, TimerTypes
  <2>2. \A t \in Timers : status[t] = "queued" => status'[t] = "queued"
    BY <1>1, DueTimer
  <2>3. QED
    BY <1>2, <2>1, <2>2 DEF TimerInv, AddChanInv
<1>6. ASSUME NEW t \in Timers PROVE (Pending(t) \/ Repeating(t))'
  <2>1. CASE t \in Due
    <3>1. ticks'[t] > 0 /\ next'[t] = last'[t] + Interval[t]
      BY <1>1, <1>3, <2>1 DEF NextTime
    <3>2. added'[t] <= last'[t] /\ last'[t] <= now' /\ \E k \in Nat : last'[t] = added'[t] + k * Interval[t]
      BY <1>1, <1>2, <2>1, DueTimer
    <3>3. QED
      BY <3>1, <3>2 DEF Repeating
  <2>2. CASE t \notin Due
    <3>1. Pending(t) \/ Repeating(t)
      BY DEF TimerInv, ScheduleInv
    <3>2. QED
      BY <1>1, <1>2, <2>2, <3>1 DEF Pending, Repeating
  <2>3. QED
    BY <2>1, <2>2
<1>7. ASSUME NEW t \in Timers, status'[t] \in {"new", "checked", "queued"} PROVE ticks'[t] = 0
  <2>1. t \notin Due
    BY <1>1, <1>7, DueTimer
  <2>2. QED
    BY <1>1, <1>7, <2>1 DEF TimerInv, ScheduleInv
<1>8. ASSUME NEW t \in Timers, status'[t] = "active", MaxTickCount[t] > 0
      PROVE  ticks'[t] < MaxTickCount[t]
  <2>1. CASE t \in Due
    <3>1. ~Exhausted(t)
      BY <1>1, <1>8, <2>1
    <3>2. QED
      BY <1>1, <1>3, <1>8, <2>1, <3>1 DEF Exhausted
  <2>2. CASE t \notin Due
    BY <1>1, <1>8, <2>2 DEF TimerInv, ScheduleInv
  <2>3. QED
    BY <2>1, <2>2
<1>9. ScheduleInv'
  BY <1>6, <1>7, <1>8 DEF ScheduleInv
<1>10. QED
  BY <1>4, <1>5, <1>9 DEF TimerInv

LEMMA TimerInvStep == TimerInv /\ [TimerNext]_timerVars => TimerInv'
<1> SUFFICES ASSUME TimerInv, [TimerNext]_timerVars PROVE TimerInv'
  OBVIOUS
<1>1. CASE MainLoop
  <2>1. CASE LoopEnds
    BY <2>1 DEF LoopEnds, TimerInv, TimerTypes, AddChanInv, ScheduleInv, Pending, Repeating
  <2>2. QED
    BY <1>1, <2>1, AddInternalStep, CancelInternalStep, ProcessTickersStep DEF MainLoop
<1>2. CASE Callers
  BY <1>2, AddCheckStep, AddSendStep, CancelCheckStep, CancelSendStep DEF Callers
<1>3. CASE TimerStop \/ UNCHANGED timerVars
  BY <1>3 DEF TimerStop, timerVars, TimerInv, TimerTypes, AddChanInv, ScheduleInv, Pending, Repeating
<1>4. QED
  BY <1>1, <1>2, <1>3, ClockStep DEF TimerNext

LEMMA TimerInvariance == TimerSpec => []TimerInv
<1> QED
  BY TimerInvInit, TimerInvStep, PTL DEF TimerSpec

(* processTickers puts the next time an interval after the one it fires     *)
(* for, not after the clock: however late the loop takes its ticks, a       *)
(* timer stays on the times it was added for.                               *)
THEOREM TimersStayOnSchedule == TimerSpec => []OnSchedule
<1>1. TimerInv => OnSchedule
  <2> SUFFICES ASSUME TimerInv, NEW t \in Timers
               PROVE  /\ next[t] >= added[t] /\ (next[t] - added[t]) % Interval[t] = 0
                      /\ next[t] = added[t] \/ next[t] = last[t] + Interval[t]
                      /\ next[t] <= now + Interval[t] \/ next[t] = added[t]
    BY DEF OnSchedule
  <2>1. PICK n, f, a, l, i : n = now /\ f = next[t] /\ a = added[t] /\ l = last[t] /\ i = Interval[t]
    OBVIOUS
  <2>2. n \in Nat /\ f \in Nat /\ a \in Nat /\ l \in Nat /\ i \in Nat \ {0}
    BY <2>1, TimerParameters DEF TimerInv, TimerTypes, TimerParameters
  <2>3. CASE f = a
    <3>1. (f - a) % i = 0
      <4>1. f - a = 0 * i
        BY <2>2, <2>3
      <4>2. QED
        BY ONLY <2>2, <4>1
    <3>2. QED
      BY <2>1, <2>2, <2>3, <3>1
  <2>4. CASE Repeating(t)
    <3>1. l <= n /\ f = l + i
      BY <2>1, <2>4 DEF Repeating
    <3>2. PICK k \in Nat : l = a + k * i
      BY <2>1, <2>4 DEF Repeating
    <3>3. (k + 1) * i = k * i + i /\ k * i \in Nat
      BY ONLY <2>2, k \in Nat
    <3>4. PICK d \in Nat : d = f - a /\ d = (k + 1) * i /\ f >= a
      BY <2>2, <3>1, <3>2, <3>3
    <3>5. d % i = 0
      BY ONLY <2>2, <3>4, k \in Nat
    <3>6. QED
      BY <2>1, <2>2, <3>1, <3>4, <3>5
  <2>5. QED
    BY <2>1, <2>3, <2>4 DEF TimerInv, ScheduleInv, Pending
<1>2. QED
  BY <1>1, TimerInvariance, PTL

(* processTickers fires each active timer at most once for a time of its    *)
(* schedule, never early, and no more often than tickCount.                 *)
THEOREM NoTimeFiresTwice == TimerSpec => FiresOncePerTime
<1>1. ASSUME TimerInv, [TimerNext]_timerVars, NEW t \in Timers, Fired(t)
      PROVE  /\ status[t] = "active"
             /\ ticks[t] > 0 => last'[t] > last[t]
             /\ added[t] <= last'[t] /\ last'[t] <= now
             /\ MaxTickCount[t] > 0 => ticks'[t] <= MaxTickCount[t]
  <2>1. ProcessTickers
    BY <1>1 DEF Fired, TimerNext, MainLoop, Callers, AddInternal, CancelInternal, LoopEnds, AddCheck,
                AddSend, CancelCheck, CancelSend, TimerStop, Clock, timerVars
  <2>2. t \in Due /\ last'[t] = ScheduleTime(t) /\ ticks'[t] = ticks[t] + 1
    BY <1>1, <2>1 DEF ProcessTickers, Fired
  <2>3. ticks[t] \in Nat /\ last[t] \in Nat /\ MaxTickCount[t] \in Nat
    BY <1>1, TimerParameters DEF TimerInv, TimerTypes, TimerParameters
  <2>4. status[t] = "active" /\ ScheduleTime(t) \in Nat /\ ScheduleTime(t) <= now
        /\ added[t] <= ScheduleTime(t) /\ (ticks[t] > 0 => last[t] < ScheduleTime(t))
    BY <1>1, <2>2, DueTimer
  <2>5. MaxTickCount[t] > 0 => ticks[t] < MaxTickCount[t]
    BY <1>1, <2>4 DEF TimerInv, ScheduleInv
  <2>6. QED
    BY <2>2, <2>3, <2>4, <2>5
<1>2. TimerInv /\ [TimerNext]_timerVars
      => [\A t \in Timers : Fired(t) =>
              /\ status[t] = "active"
              /\ ticks[t] > 0 => last'[t] > last[t]
              /\ added[t] <= last'[t] /\ last'[t] <= now
              /\ MaxTickCount[t] > 0 => ticks'[t] <= MaxTickCount[t]]_timerVars
  BY <1>1
<1>3. QED
  BY <1>2, TimerInvariance, PTL DEF TimerSpec, FiresOncePerTime
===============================================================================
