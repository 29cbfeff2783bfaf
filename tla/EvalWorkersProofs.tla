------------------------- MODULE EvalWorkersProofs --------------------------
(***************************************************************************)
(* The division of the tasks and the benchmark run, for every number of    *)
(* tasks and of workers: the slices of equal lists stay apart, and         *)
(* together they leave nothing out.  The inductive invariant says of each  *)
(* worker what its list holds (ListOf) and how far it is in its slice      *)
(* (SliceOf).                                                              *)
(***************************************************************************)
EXTENDS EvalWorkers, TLAPS

LEMMA DivMod ==
  ASSUME NEW n \in Nat
  PROVE  /\ TasksPerWorker(n) \in Nat
         /\ Extra(n) \in 0 .. NumWorkers - 1
         /\ n = NumWorkers * TasksPerWorker(n) + Extra(n)
<1>1. \A b \in Nat \ {0} : /\ n \div b \in Nat /\ n % b \in 0 .. b - 1
                           /\ n = b * (n \div b) + (n % b)
  OBVIOUS
<1> QED  BY <1>1, WorkerAssumption DEF TasksPerWorker, Extra

\* Each slice begins where the previous one ends, the first at the first task
\* and the last at the end of the list.
LEMMA SlicesChain ==
  ASSUME NEW n \in Nat, NEW w \in Workers
  PROVE  /\ StartIndex(w, n) \in Nat /\ EndIndex(w, n) \in Nat
         /\ StartIndex(w, n) <= EndIndex(w, n)
         /\ EndIndex(w, n) = StartIndex(w + 1, n)
         /\ StartIndex(0, n) = 0
         /\ StartIndex(NumWorkers, n) = n
<1> DEFINE q == TasksPerWorker(n)
           x == Extra(n)
<1>1. q \in Nat /\ x \in Nat /\ x < NumWorkers /\ n = NumWorkers * q + x
  BY DivMod, WorkerAssumption
<1>2. w \in Nat /\ NumWorkers \in Nat
  BY WorkerAssumption DEF Workers
<1> HIDE DEF q, x
<1>3. \A k \in Nat : StartIndex(k, n) = k * q + (IF k < x THEN k ELSE x)
  BY DEF StartIndex, q, x
<1>4. EndIndex(w, n) = StartIndex(w, n) + q + (IF w < x THEN 1 ELSE 0)
  BY DEF EndIndex, q, x
<1>5. w * q \in Nat /\ (w + 1) * q = w * q + q /\ 0 * q = 0
  BY <1>1, <1>2
<1>6. StartIndex(w, n) = w * q + (IF w < x THEN w ELSE x)
  BY <1>2, <1>3
<1>7. StartIndex(w + 1, n) = (w + 1) * q + (IF w + 1 < x THEN w + 1 ELSE x)
  BY <1>2, <1>3
<1>8. StartIndex(NumWorkers, n) = NumWorkers * q + x
  BY <1>1, <1>2, <1>3
<1>9. StartIndex(0, n) = 0
  BY <1>1, <1>3, <1>5
<1> QED  BY <1>1, <1>2, <1>4, <1>5, <1>6, <1>7, <1>8, <1>9

\* StartIndex grows with the worker.
LEMMA StartMonotonic ==
  ASSUME NEW n \in Nat, NEW v \in Workers, NEW w \in Workers, v < w
  PROVE  EndIndex(v, n) <= StartIndex(w, n)
<1> DEFINE q == TasksPerWorker(n)
           x == Extra(n)
<1>1. q \in Nat /\ x \in Nat
  BY DivMod
<1>2. v \in Nat /\ w \in Nat /\ v + 1 <= w
  BY WorkerAssumption DEF Workers
<1>3. \A i, j \in Nat, k \in Nat : i <= j => i * k <= j * k
  OBVIOUS
<1>4. EndIndex(v, n) = StartIndex(v + 1, n)
  BY SlicesChain
<1>5. /\ StartIndex(v + 1, n) = (v + 1) * q + (IF v + 1 < x THEN v + 1 ELSE x)
      /\ StartIndex(w, n) = w * q + (IF w < x THEN w ELSE x)
  BY DEF StartIndex
<1> HIDE DEF q, x
<1>6. (v + 1) * q <= w * q /\ (v + 1) * q \in Nat /\ w * q \in Nat
  BY <1>1, <1>2, <1>3
<1> QED  BY <1>1, <1>2, <1>4, <1>5, <1>6

(***************************************************************************)
(* Two workers that listed the same tasks never take the same one.         *)
(***************************************************************************)
THEOREM SlicesNeverOverlap ==
  ASSUME NEW n \in Nat, NEW v \in Workers, NEW w \in Workers, v # w
  PROVE  (StartIndex(v, n) + 1 .. EndIndex(v, n))
           \cap (StartIndex(w, n) + 1 .. EndIndex(w, n)) = {}
<1>1. v < w \/ w < v
  BY WorkerAssumption DEF Workers
<1> QED  BY <1>1, StartMonotonic, SlicesChain

(***************************************************************************)
(* Workers that listed the same tasks leave none of them out.              *)
(***************************************************************************)
THEOREM SlicesLeaveNothingOut ==
  ASSUME NEW n \in Nat, NEW i \in 1 .. n
  PROVE  \E w \in Workers : i \in StartIndex(w, n) + 1 .. EndIndex(w, n)
<1> DEFINE q == TasksPerWorker(n)
           x == Extra(n)
           p == i - 1
<1>1. q \in Nat /\ x \in Nat /\ x < NumWorkers /\ n = NumWorkers * q + x
      /\ NumWorkers \in Nat /\ p \in Nat /\ p < n
  BY DivMod, WorkerAssumption
<1>2. \A w \in Nat : /\ StartIndex(w, n) = w * q + (IF w < x THEN w ELSE x)
                     /\ EndIndex(w, n) = StartIndex(w, n) + q + (IF w < x THEN 1 ELSE 0)
  BY DEF StartIndex, EndIndex
<1> HIDE DEF q, x, p
<1>3. \A a \in Nat, b \in Nat \ {0} :
        a \div b \in Nat /\ b * (a \div b) <= a /\ a < b * (a \div b) + b
  OBVIOUS
<1>4. CASE p < x * (q + 1)
  <2> DEFINE w == p \div (q + 1)
  <2>0. p \in Nat /\ q + 1 \in Nat \ {0}
    BY <1>1
  <2>1. w \in Nat /\ (q + 1) * w <= p /\ p < (q + 1) * w + (q + 1)
    BY <1>3, <2>0
  <2> HIDE DEF w
  <2>2. w < x
    <3>1. \A k, l, b \in Nat : l <= k => b * l <= b * k
      OBVIOUS
    <3>2. ~ (x <= w)
      <4>1. x <= w => (q + 1) * x <= (q + 1) * w
        BY <1>1, <2>1, <3>1
      <4>2. (q + 1) * x = x * (q + 1)
        BY <1>1
      <4> QED  BY <1>1, <1>4, <2>1, <4>1, <4>2
    <3> QED  BY <1>1, <2>1, <3>2
  <2>3. (q + 1) * w = w * q + w /\ w * q \in Nat
    BY <1>1, <2>1
  <2>4. StartIndex(w, n) = w * q + w /\ EndIndex(w, n) = w * q + w + q + 1
    BY <1>1, <1>2, <2>1, <2>2, <2>3
  <2>5. w \in Workers
    BY <1>1, <2>1, <2>2 DEF Workers
  <2>6. i = p + 1
    BY DEF p
  <2> QED  BY <1>1, <2>1, <2>3, <2>4, <2>5, <2>6
<1>5. CASE ~ (p < x * (q + 1))
  <2>1. x * (q + 1) = x * q + x /\ x * q \in Nat
    BY <1>1
  <2> DEFINE y == p - x * q - x
             k == y \div q
             w == x + k
  <2>2. y \in Nat
    BY <1>1, <1>5, <2>1
  <2>3. (NumWorkers - x) * q = NumWorkers * q - x * q
    BY <1>1
  <2>4. y < (NumWorkers - x) * q
    BY <1>1, <2>1, <2>3
  <2>5. q # 0
    BY <1>1, <2>2, <2>4
  <2> HIDE DEF y
  <2>6. k \in Nat /\ q * k <= y /\ y < q * k + q
    BY <1>1, <1>3, <2>2, <2>5
  <2> HIDE DEF k
  <2>7. k < NumWorkers - x
    <3>1. \A a, b, c \in Nat : b <= a => b * c <= c * a
      OBVIOUS
    <3>2. NumWorkers - x <= k => (NumWorkers - x) * q <= q * k
      BY <1>1, <2>6, <3>1
    <3> QED  BY <1>1, <2>2, <2>4, <2>6, <3>2
  <2>8. w \in Workers /\ w \in Nat /\ ~ (w < x)
    BY <1>1, <2>6, <2>7 DEF Workers
  <2>9. w * q = x * q + q * k /\ q * k \in Nat
    BY <1>1, <2>6
  <2>10. StartIndex(w, n) = w * q + x /\ EndIndex(w, n) = w * q + x + q
    BY <1>1, <1>2, <2>8, <2>9
  <2>11. i = y + x * q + x + 1 /\ y \in Nat
    BY <1>1, <2>1, <2>2 DEF p, y
  <2> HIDE DEF w
  <2> QED  BY <1>1, <2>1, <2>6, <2>8, <2>9, <2>10, <2>11
<1> QED  BY <1>4, <1>5

-----------------------------------------------------------------------------

\* The list of w: what it has seen without a result, each task once.
ListOf(w) ==
  /\ Len(listed[w]) <= seen[w]
  /\ \A i \in 1 .. Len(listed[w]) : listed[w][i] <= seen[w]
  /\ \A i, j \in 1 .. Len(listed[w]) : listed[w][i] = listed[w][j] => i = j
  /\ \A t \in 1 .. seen[w] : t \in done \/ \E i \in 1 .. Len(listed[w]) : listed[w][i] = t

\* The slice of w: what lies behind it is done unless something failed.
SliceOf(w) ==
  stage[w] # "listing" =>
    /\ seen[w] = NumTasks
    /\ StartIndex(w, Len(listed[w])) < next[w]
    /\ clean => \A i \in StartIndex(w, Len(listed[w])) + 1 .. next[w] - 1 : listed[w][i] \in done
    /\ clean /\ stage[w] = "ended" => next[w] > End(w)
    /\ next[w] <= End(w) + 1

WorkersInv ==
  /\ TypeOK
  /\ \A w \in Workers : ListOf(w)
  /\ \A w \in Workers : SliceOf(w)

\* A slice lies within the list.
LEMMA SliceInList ==
  ASSUME NEW n \in Nat, NEW w \in Workers
  PROVE  /\ StartIndex(w, n) \in Nat /\ EndIndex(w, n) \in Nat
         /\ StartIndex(w, n) <= EndIndex(w, n) /\ EndIndex(w, n) <= n
<1>1. StartIndex(w, n) \in Nat /\ EndIndex(w, n) \in Nat /\ StartIndex(w, n) <= EndIndex(w, n)
  BY SlicesChain
<1>2. CASE w = NumWorkers - 1
  <2>1. EndIndex(w, n) = StartIndex(w + 1, n) /\ StartIndex(NumWorkers, n) = n
    BY SlicesChain
  <2>2. w + 1 = NumWorkers
    BY <1>2, WorkerAssumption
  <2> QED  BY <1>1, <2>1, <2>2
<1>3. CASE w # NumWorkers - 1
  <2> DEFINE v == NumWorkers - 1
  <2>1. v \in Workers /\ w < v /\ v + 1 = NumWorkers
    BY <1>3, WorkerAssumption DEF Workers
  <2> HIDE DEF v
  <2>2. EndIndex(w, n) <= StartIndex(v, n)
    BY <2>1, StartMonotonic
  <2>3. /\ StartIndex(v, n) \in Nat /\ EndIndex(v, n) \in Nat
        /\ StartIndex(v, n) <= EndIndex(v, n)
        /\ EndIndex(v, n) = StartIndex(v + 1, n) /\ StartIndex(NumWorkers, n) = n
    BY <2>1, SlicesChain
  <2> QED  BY <1>1, <2>1, <2>2, <2>3
<1> QED  BY <1>1, <1>2, <1>3

LEMMA InitInv == Init => WorkersInv
<1> SUFFICES ASSUME Init PROVE WorkersInv
  OBVIOUS
<1>1. TypeOK
  BY EvalAssumption, WorkerAssumption DEF Init, TypeOK, Workers
<1>2. ASSUME NEW w \in Workers PROVE ListOf(w) /\ SliceOf(w)
  BY DEF Init, ListOf, SliceOf
<1> QED  BY <1>1, <1>2 DEF WorkersInv

\* What is fixed of a worker that does not move.
LEMMA Others ==
  ASSUME WorkersInv, NEW v \in Workers, done \subseteq done', clean' => clean,
         UNCHANGED <<stage[v], seen[v], listed[v], next[v]>>
  PROVE  ListOf(v)' /\ SliceOf(v)'
<1>1. ListOf(v) /\ SliceOf(v)
  BY DEF WorkersInv
<1>2. ListOf(v)'
  BY <1>1 DEF ListOf
<1>3. SliceOf(v)'
  BY <1>1 DEF SliceOf, End
<1> QED  BY <1>2, <1>3

LEMMA LookAtInv ==
  ASSUME WorkersInv, NEW w \in Workers, LookAt(w)
  PROVE  WorkersInv'
<1> DEFINE t == seen[w] + 1
<1>0. TypeOK /\ ListOf(w)
  BY DEF WorkersInv
<1>1. /\ stage' = stage /\ next' = next /\ done' = done /\ failures' = failures /\ clean' = clean
      /\ stage[w] = "listing" /\ seen[w] < NumTasks /\ seen[w] \in Nat
      /\ seen' = [seen EXCEPT ![w] = t]
  BY <1>0 DEF LookAt, TypeOK
<1>2. t \in Tasks /\ t \in 0 .. NumTasks
  BY <1>1, EvalAssumption DEF Tasks
<1>3. listed[w] \in Seq(Tasks) /\ Tasks \subseteq Nat
  BY <1>0 DEF TypeOK, Tasks
<1>4. \/ t \in done /\ listed' = listed
      \/ t \notin done /\ listed' = [listed EXCEPT ![w] = Append(@, t)]
  BY DEF LookAt
<1>5. seen' \in [Workers -> 0 .. NumTasks] /\ seen'[w] = t
  BY <1>0, <1>1, <1>2 DEF TypeOK
<1>6. listed' \in [Workers -> Seq(Tasks)]
  <2>1. listed \in [Workers -> Seq(Tasks)]
    BY <1>0 DEF TypeOK
  <2>2. Append(listed[w], t) \in Seq(Tasks)
    BY <1>2, <1>3
  <2> HIDE DEF t
  <2> QED  BY <1>4, <2>1, <2>2
<1>7. TypeOK'
  BY <1>0, <1>1, <1>5, <1>6 DEF TypeOK
<1>8. ListOf(w)'
  <2>0. \A i \in 1 .. Len(listed[w]) : listed[w][i] \in Nat /\ listed[w][i] <= seen[w]
    <3>1. \A i \in 1 .. Len(listed[w]) : listed[w][i] \in Tasks
      BY <1>3
    <3> QED  BY <1>0, <1>3, <3>1 DEF ListOf
  <2>1. CASE t \in done /\ listed' = listed
    <3>1. Len(listed[w]) <= seen'[w] /\ \A i \in 1 .. Len(listed[w]) : listed[w][i] <= seen'[w]
      BY <1>0, <1>1, <1>3, <1>5, <2>0 DEF ListOf
    <3>2. ASSUME NEW u \in 1 .. seen'[w]
          PROVE  u \in done \/ \E i \in 1 .. Len(listed[w]) : listed[w][i] = u
      <4>1. u = t \/ u \in 1 .. seen[w]
        BY <1>1, <1>5
      <4> QED  BY <1>0, <2>1, <4>1 DEF ListOf
    <3> QED  BY <1>0, <1>1, <2>1, <3>1, <3>2 DEF ListOf
  <2>2. CASE t \notin done /\ listed' = [listed EXCEPT ![w] = Append(@, t)]
    <3>1. listed'[w] = Append(listed[w], t)
      BY <1>0, <2>2 DEF TypeOK
    <3>2. /\ Len(listed'[w]) = Len(listed[w]) + 1 /\ Len(listed[w]) \in Nat
          /\ \A i \in 1 .. Len(listed[w]) : listed'[w][i] = listed[w][i] /\ listed[w][i] \in Tasks
          /\ listed'[w][Len(listed[w]) + 1] = t
      BY <1>2, <1>3, <3>1
    <3>3. \A i \in 1 .. Len(listed'[w]) : i \in 1 .. Len(listed[w]) \/ i = Len(listed[w]) + 1
      BY <3>2
    <3>4. \A i \in 1 .. Len(listed[w]) : listed'[w][i] < t
      BY <1>1, <2>0, <3>2
    <3>5. Len(listed'[w]) <= seen'[w]
      BY <1>0, <1>1, <1>5, <3>2 DEF ListOf
    <3>6. \A i \in 1 .. Len(listed'[w]) : listed'[w][i] <= seen'[w]
      <4>1. \A i \in 1 .. Len(listed[w]) : listed'[w][i] <= t
        BY <1>1, <2>0, <3>2
      <4> QED  BY <1>1, <1>5, <3>2, <3>3, <4>1
    <3>7. \A i, j \in 1 .. Len(listed'[w]) : listed'[w][i] = listed'[w][j] => i = j
      <4> SUFFICES ASSUME NEW i \in 1 .. Len(listed'[w]), NEW j \in 1 .. Len(listed'[w]),
                          listed'[w][i] = listed'[w][j]
                   PROVE  i = j
        OBVIOUS
      <4>1. CASE i \in 1 .. Len(listed[w]) /\ j \in 1 .. Len(listed[w])
        BY <1>0, <3>2, <4>1 DEF ListOf
      <4>2. CASE i \in 1 .. Len(listed[w]) /\ j = Len(listed[w]) + 1
        BY <1>1, <1>3, <3>2, <3>4, <4>2
      <4>3. CASE j \in 1 .. Len(listed[w]) /\ i = Len(listed[w]) + 1
        BY <1>1, <1>3, <3>2, <3>4, <4>3
      <4> QED  BY <3>3, <4>1, <4>2, <4>3
    <3>8. ASSUME NEW u \in 1 .. seen'[w]
          PROVE  u \in done \/ \E i \in 1 .. Len(listed'[w]) : listed'[w][i] = u
      <4>1. CASE u = t
        BY <3>2, <4>1
      <4>2. CASE u # t
        <5>1. u \in 1 .. seen[w]
          BY <1>1, <1>5, <4>2
        <5> QED  BY <1>0, <3>2, <5>1 DEF ListOf
      <4> QED  BY <4>1, <4>2
    <3> QED  BY <1>1, <3>5, <3>6, <3>7, <3>8 DEF ListOf
  <2> QED  BY <1>4, <2>1, <2>2
<1>9. SliceOf(w)'
  BY <1>1 DEF SliceOf
<1>10. ASSUME NEW v \in Workers, v # w PROVE ListOf(v)' /\ SliceOf(v)'
  <2>1. UNCHANGED <<stage[v], seen[v], listed[v], next[v]>>
    BY <1>0, <1>1, <1>4, <1>10 DEF TypeOK
  <2> QED  BY <1>1, <2>1, Others
<1> QED  BY <1>7, <1>8, <1>9, <1>10 DEF WorkersInv

LEMMA TakeSliceInv ==
  ASSUME WorkersInv, NEW w \in Workers, TakeSlice(w)
  PROVE  WorkersInv'
<1> DEFINE n == Len(listed[w])
<1>0. TypeOK /\ ListOf(w)
  BY DEF WorkersInv
<1>1. /\ done' = done /\ seen' = seen /\ listed' = listed /\ failures' = failures /\ clean' = clean
      /\ seen[w] = NumTasks
      /\ next' = [next EXCEPT ![w] = StartIndex(w, n) + 1]
      /\ stage' = [stage EXCEPT ![w] = "working"]
  BY DEF TakeSlice
<1>2. n \in Nat /\ n <= NumTasks /\ NumTasks \in Nat
  BY <1>0, <1>1, EvalAssumption DEF TypeOK, ListOf
<1>3. StartIndex(w, n) \in Nat /\ StartIndex(w, n) <= EndIndex(w, n) /\ EndIndex(w, n) <= n
      /\ EndIndex(w, n) \in Nat
  BY <1>2, SliceInList
<1>4. next'[w] = StartIndex(w, n) + 1 /\ next'[w] \in 0 .. NumTasks + 1 /\ stage'[w] = "working"
  BY <1>0, <1>1, <1>2, <1>3 DEF TypeOK
<1>5. TypeOK'
  BY <1>0, <1>1, <1>4 DEF TypeOK
<1>6. ListOf(w)'
  BY <1>0, <1>1 DEF ListOf
<1>7. SliceOf(w)'
  <2>1. StartIndex(w, n) + 1 .. next'[w] - 1 = {}
    BY <1>3, <1>4
  <2> QED  BY <1>1, <1>3, <1>4, <2>1 DEF SliceOf, End
<1>8. ASSUME NEW v \in Workers, v # w PROVE ListOf(v)' /\ SliceOf(v)'
  <2>1. UNCHANGED <<stage[v], seen[v], listed[v], next[v]>>
    BY <1>0, <1>1, <1>8 DEF TypeOK
  <2> QED  BY <1>1, <2>1, Others
<1> QED  BY <1>5, <1>6, <1>7, <1>8 DEF WorkersInv

\* A worker that runs a task is within its list.
LEMMA RunningInList ==
  ASSUME WorkersInv, NEW w \in Workers, Running(w)
  PROVE  /\ next[w] \in 1 .. Len(listed[w]) /\ Len(listed[w]) <= NumTasks
         /\ Current(w) \in Tasks /\ next[w] + 1 \in 0 .. NumTasks + 1
<1>1. TypeOK /\ ListOf(w) /\ SliceOf(w)
  BY DEF WorkersInv
<1>2. Len(listed[w]) \in Nat /\ seen[w] \in 0 .. NumTasks /\ listed[w] \in Seq(Tasks)
      /\ next[w] \in 0 .. NumTasks + 1
  BY <1>1 DEF TypeOK
<1>3. StartIndex(w, Len(listed[w])) \in Nat /\ End(w) <= Len(listed[w]) /\ End(w) \in Nat
  BY <1>2, SliceInList DEF End
<1>4. StartIndex(w, Len(listed[w])) < next[w] /\ next[w] <= End(w)
  BY <1>1 DEF SliceOf, Running
<1>5. next[w] \in 1 .. Len(listed[w]) /\ Len(listed[w]) <= NumTasks
  BY <1>1, <1>2, <1>3, <1>4, EvalAssumption DEF ListOf
<1> QED  BY <1>2, <1>5, EvalAssumption DEF Current

LEMMA FinishInv ==
  ASSUME WorkersInv, NEW w \in Workers, Finish(w)
  PROVE  WorkersInv'
<1>0. TypeOK /\ ListOf(w) /\ SliceOf(w) /\ Running(w)
  BY DEF WorkersInv, Finish
<1>1. /\ stage' = stage /\ seen' = seen /\ listed' = listed /\ failures' = failures /\ clean' = clean
      /\ done' = done \cup {Current(w)}
      /\ next' = [next EXCEPT ![w] = next[w] + 1]
  BY DEF Finish
<1>2. /\ next[w] \in 1 .. Len(listed[w]) /\ Current(w) \in Tasks
      /\ next[w] + 1 \in 0 .. NumTasks + 1
  BY <1>0, RunningInList
<1>3. TypeOK' /\ next'[w] = next[w] + 1
  BY <1>0, <1>1, <1>2 DEF TypeOK
<1>4. ListOf(w)'
  BY <1>0, <1>1 DEF ListOf
<1>5. SliceOf(w)'
  <2> DEFINE n == Len(listed[w])
  <2>1. /\ seen[w] = NumTasks /\ StartIndex(w, n) < next[w] /\ next[w] <= End(w)
        /\ stage[w] = "working"
        /\ clean => \A i \in StartIndex(w, n) + 1 .. next[w] - 1 : listed[w][i] \in done
    BY <1>0 DEF SliceOf, Running
  <2>2. n \in Nat /\ StartIndex(w, n) \in Nat /\ End(w) \in Nat
    BY <1>0, SliceInList DEF TypeOK, End
  <2>3. ASSUME clean, NEW i \in StartIndex(w, n) + 1 .. next'[w] - 1
        PROVE  listed[w][i] \in done'
    <3>1. i = next[w] \/ i \in StartIndex(w, n) + 1 .. next[w] - 1
      BY <1>2, <1>3, <2>2
    <3> QED  BY <1>1, <2>1, <2>3, <3>1 DEF Current
  <2>4. StartIndex(w, n) < next'[w] /\ next'[w] <= End(w) + 1
    BY <1>2, <1>3, <2>1, <2>2
  <2>5. End(w)' = End(w) /\ stage'[w] = "working" /\ seen'[w] = NumTasks
    BY <1>1, <2>1 DEF End
  <2> QED  BY <1>1, <2>3, <2>4, <2>5 DEF SliceOf
<1>6. ASSUME NEW v \in Workers, v # w PROVE ListOf(v)' /\ SliceOf(v)'
  <2>1. UNCHANGED <<stage[v], seen[v], listed[v], next[v]>>
    BY <1>0, <1>1, <1>6 DEF TypeOK
  <2> QED  BY <1>1, <2>1, Others
<1> QED  BY <1>3, <1>4, <1>5, <1>6 DEF WorkersInv

LEMMA TaskErrorInv ==
  ASSUME WorkersInv, NEW w \in Workers, TaskError(w)
  PROVE  WorkersInv'
<1>0. TypeOK /\ ListOf(w) /\ SliceOf(w) /\ Running(w)
  BY DEF WorkersInv, TaskError
<1>1. /\ done' = done /\ stage' = stage /\ seen' = seen /\ listed' = listed
      /\ clean' = FALSE /\ failures' \in 0 .. MaxFailures
      /\ next' = [next EXCEPT ![w] = next[w] + 1]
  BY <1>0, EvalAssumption DEF TaskError, Failing, TypeOK
<1>2. next[w] \in 1 .. Len(listed[w]) /\ next[w] + 1 \in 0 .. NumTasks + 1
  BY <1>0, RunningInList
<1>3. TypeOK' /\ next'[w] = next[w] + 1
  BY <1>0, <1>1, <1>2, EvalAssumption DEF TypeOK
<1>4. ListOf(w)'
  BY <1>0, <1>1 DEF ListOf
<1>5. SliceOf(w)'
  <2>1. seen[w] = NumTasks /\ StartIndex(w, Len(listed[w])) < next[w] /\ next[w] <= End(w)
    BY <1>0 DEF SliceOf, Running
  <2>2. Len(listed[w]) \in Nat /\ StartIndex(w, Len(listed[w])) \in Nat /\ End(w) \in Nat
    BY <1>0, SliceInList DEF TypeOK, End
  <2>3. StartIndex(w, Len(listed[w])) < next'[w] /\ next'[w] <= End(w) + 1
    BY <1>2, <1>3, <2>1, <2>2
  <2> QED  BY <1>1, <2>1, <2>3 DEF SliceOf, End
<1>6. ASSUME NEW v \in Workers, v # w PROVE ListOf(v)' /\ SliceOf(v)'
  <2>1. UNCHANGED <<stage[v], seen[v], listed[v], next[v]>>
    BY <1>0, <1>1, <1>6 DEF TypeOK
  <2> QED  BY <1>1, <2>1, Others
<1> QED  BY <1>3, <1>4, <1>5, <1>6 DEF WorkersInv

LEMMA StopInv ==
  ASSUME WorkersInv, NEW w \in Workers, Exit(w) \/ Ended(w)
  PROVE  WorkersInv'
<1>0. TypeOK /\ ListOf(w) /\ SliceOf(w)
  BY DEF WorkersInv
<1>1. /\ done' = done /\ seen' = seen /\ listed' = listed /\ next' = next
      /\ stage' = [stage EXCEPT ![w] = "ended"] /\ stage[w] = "working"
      /\ clean' => clean /\ next[w] > End(w)
      /\ clean' \in BOOLEAN /\ failures' \in 0 .. MaxFailures
  <2>1. CASE Exit(w)
    <3>1. failures < MaxFailures /\ failures' = failures + 1 /\ clean' = FALSE
      BY <2>1 DEF Exit, Failing
    <3>2. failures' \in 0 .. MaxFailures
      BY <1>0, <3>1, EvalAssumption DEF TypeOK
    <3> QED  BY <2>1, <3>1, <3>2 DEF Exit, Running
  <2>2. CASE Ended(w)
    BY <1>0, <2>2 DEF Ended, TypeOK
  <2> QED  BY <2>1, <2>2
<1>2. TypeOK'
  BY <1>0, <1>1 DEF TypeOK
<1>3. ListOf(w)'
  BY <1>0, <1>1 DEF ListOf
<1>4. SliceOf(w)'
  BY <1>0, <1>1 DEF SliceOf, End
<1>5. ASSUME NEW v \in Workers, v # w PROVE ListOf(v)' /\ SliceOf(v)'
  <2>1. UNCHANGED <<stage[v], seen[v], listed[v], next[v]>>
    BY <1>0, <1>1, <1>5 DEF TypeOK
  <2> QED  BY <1>1, <2>1, Others
<1> QED  BY <1>2, <1>3, <1>4, <1>5 DEF WorkersInv

LEMMA RelaunchInv == ASSUME WorkersInv, Relaunch PROVE WorkersInv'
<1>1. TypeOK'
  BY EvalAssumption DEF WorkersInv, TypeOK, Relaunch
<1>2. ASSUME NEW w \in Workers PROVE ListOf(w)' /\ SliceOf(w)'
  BY DEF Relaunch, ListOf, SliceOf
<1> QED  BY <1>1, <1>2 DEF WorkersInv

LEMMA NextInv == WorkersInv /\ [Next]_vars => WorkersInv'
<1> SUFFICES ASSUME WorkersInv, [Next]_vars PROVE WorkersInv'
  OBVIOUS
<1>1. CASE UNCHANGED vars
  BY <1>1 DEF vars, WorkersInv, TypeOK, ListOf, SliceOf, End
<1>2. CASE Relaunch
  BY <1>2, RelaunchInv
<1>3. ASSUME NEW w \in Workers, Worker(w) PROVE WorkersInv'
  BY <1>3, LookAtInv, TakeSliceInv, FinishInv, TaskErrorInv, StopInv DEF Worker
<1> QED  BY <1>1, <1>2, <1>3 DEF Next

THEOREM WorkersInvariant == Spec => []WorkersInv
<1> QED  BY InitInv, NextInv, PTL DEF Spec

(***************************************************************************)
(* Type correctness; a position never runs past its list by more than one. *)
(***************************************************************************)
THEOREM WorkersTypeCorrect == Spec => []TypeOK
<1>1. WorkersInv => TypeOK
  BY DEF WorkersInv
<1> QED  BY <1>1, WorkersInvariant, PTL

(***************************************************************************)
(* Workers whose lists are equal have no task in common at any time.       *)
(***************************************************************************)
THEOREM ListsApart == Spec => []SameListNoOverlap
<1>1. WorkersInv => SameListNoOverlap
  <2> SUFFICES ASSUME WorkersInv, NEW v \in Workers, NEW w \in Workers, v # w,
                      listed[v] = listed[w], NEW t \in Pending(v) \cap Pending(w)
               PROVE  FALSE
    BY DEF SameListNoOverlap
  <2> DEFINE n == Len(listed[w])
  <2>1. stage[v] = "working" /\ stage[w] = "working"
    BY DEF Pending
  <2>2. PICK i \in next[v] .. End(v) : listed[w][i] = t
    BY <2>1 DEF Pending
  <2>3. PICK j \in next[w] .. End(w) : listed[w][j] = t
    BY <2>1 DEF Pending
  <2>4. n \in Nat /\ next[v] \in Nat /\ next[w] \in Nat
    BY DEF WorkersInv, TypeOK
  <2>5. StartIndex(v, n) < next[v] /\ StartIndex(w, n) < next[w]
    BY <2>1 DEF WorkersInv, SliceOf
  <2>6. /\ StartIndex(v, n) \in Nat /\ EndIndex(v, n) \in Nat /\ EndIndex(v, n) <= n
        /\ StartIndex(w, n) \in Nat /\ EndIndex(w, n) \in Nat /\ EndIndex(w, n) <= n
    BY <2>4, SliceInList
  <2>7. i \in StartIndex(v, n) + 1 .. EndIndex(v, n) /\ j \in StartIndex(w, n) + 1 .. EndIndex(w, n)
    BY <2>2, <2>3, <2>4, <2>5, <2>6 DEF End
  <2>8. i \in 1 .. n /\ j \in 1 .. n
    BY <2>4, <2>6, <2>7
  <2>9. i = j
    BY <2>2, <2>3, <2>8 DEF WorkersInv, ListOf
  <2> QED  BY <2>4, <2>7, <2>9, SlicesNeverOverlap
<1> QED  BY <1>1, WorkersInvariant, PTL

(***************************************************************************)
(* A complete list has every task that has no result.                      *)
(***************************************************************************)
THEOREM ListsComplete == Spec => []NothingOverlooked
<1>1. ASSUME WorkersInv
      PROVE  NothingOverlooked
  <2> SUFFICES ASSUME NEW w \in Workers, stage[w] # "listing", NEW t \in Tasks \ done
               PROVE  t \in Range(listed[w])
    BY DEF NothingOverlooked
  <2>1. t \in 1 .. seen[w]
    BY <1>1 DEF WorkersInv, SliceOf, Tasks
  <2>2. PICK i \in 1 .. Len(listed[w]) : listed[w][i] = t
    BY <1>1, <2>1 DEF WorkersInv, ListOf
  <2>3. DOMAIN listed[w] = 1 .. Len(listed[w])
    BY <1>1 DEF WorkersInv, TypeOK
  <2> QED  BY <2>2, <2>3 DEF Range
<1> QED  BY <1>1, WorkersInvariant, PTL

(***************************************************************************)
(* A launch without failures and with equal lists does all tasks.          *)
(***************************************************************************)
THEOREM LaunchDoesAll == Spec => []LaunchComplete
<1>1. WorkersInv => LaunchComplete
  <2> SUFFICES ASSUME WorkersInv, clean, \A w \in Workers : stage[w] = "ended",
                      \A v, w \in Workers : listed[v] = listed[w],
                      NEW t \in Tasks, t \notin done
               PROVE  FALSE
    BY DEF LaunchComplete, WorkersInv, TypeOK
  <2>1. 0 \in Workers
    BY WorkerAssumption DEF Workers
  <2> DEFINE n == Len(listed[0])
  <2>2. n \in Nat
    BY <2>1 DEF WorkersInv, TypeOK
  <2>3. seen[0] = NumTasks
    BY <2>1 DEF WorkersInv, SliceOf
  <2>4. PICK i \in 1 .. n : listed[0][i] = t
    BY <2>1, <2>3 DEF WorkersInv, ListOf, Tasks
  <2>5. PICK v \in Workers : i \in StartIndex(v, n) + 1 .. EndIndex(v, n)
    BY <2>2, SlicesLeaveNothingOut
  <2>6. listed[v] = listed[0]
    BY <2>1
  <2>7. /\ next[v] > EndIndex(v, n) /\ next[v] \in Nat
        /\ \A k \in StartIndex(v, n) + 1 .. next[v] - 1 : listed[0][k] \in done
    BY <2>6 DEF WorkersInv, SliceOf, End, TypeOK
  <2>8. StartIndex(v, n) \in Nat /\ EndIndex(v, n) \in Nat
    BY <2>2, SliceInList
  <2>9. i \in StartIndex(v, n) + 1 .. next[v] - 1
    BY <2>5, <2>7, <2>8
  <2> QED  BY <2>4, <2>7, <2>9
<1> QED  BY <1>1, WorkersInvariant, PTL
=============================================================================
