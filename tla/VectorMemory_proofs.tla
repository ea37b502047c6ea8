------------------------- MODULE VectorMemory_proofs -------------------------
(***************************************************************************)
(* The memory of a pass.  Whatever order the two streams take, an entry    *)
(* leaves in memory what its calls leave when each is done before the next *)
(* is made, and that is what the caller asked for.                         *)
(*                                                                         *)
(* The first part is about the streams: each buffer is at a place of the   *)
(* serial run of the program, and an operation finds the buffers it        *)
(* touches where that run has them.  The second part follows the serial    *)
(* run, one operation at a time, through claims that say which columns or  *)
(* rows each buffer holds: polynomials of A for the filter, names of rows  *)
(* for the sums.  The third part puts the two together into an invariant   *)
(* and reads off what holds when an entry returns.                         *)
(***************************************************************************)
EXTENDS VectorStream_proofs, FiniteSetTheorems

(***************************************************************************)
(* What is still to come.                                                  *)
(***************************************************************************)

\* The operation at place x of the program is queued.
Pending(q, at, x) == \E s \in Streams : \E i \in 1 .. Len(q[s]) : at[s][i] = x

\* While an operation is queued, a wait is before any later one that touches its buffers.
LEMMA WaitBetween ==
  ASSUME NEW p, IsProgram(p), InOrder(p), NEW n \in 0 .. Len(p),
         NEW q, NEW at, NEW rec, NEW dn, Ordered(p, n, q, at, rec, dn),
         NEW x \in 1 .. n, NEW y \in x + 1 .. n, Data(p[x]), Data(p[y]), p[x].on # p[y].on,
         Touched(p[x]) \cap Touched(p[y]) # {},
         NEW i \in 1 .. Len(q[p[x].on]), at[p[x].on][i] = x
  PROVE  \E j \in 1 .. Len(q[p[y].on]) : at[p[y].on][j] < y
PROOF
<1>0. Len(p) \in Nat /\ n \in Nat /\ x \in 1 .. Len(p) /\ y \in 1 .. Len(p) /\ x < y
  BY ProgramLength
<1>1. PICK u, v : u = p[x].on /\ v = p[y].on
  OBVIOUS
<1>2. u \in Streams /\ v \in Streams
  BY <1>1 DEF Data
<1>3. Line(p, n, u, q[u], at[u]) /\ Line(p, n, v, q[v], at[v]) /\ Held(p, n, q[u], q[v], v, at[u], at[v])
  BY <1>2 DEF Ordered
<1>4. PICK r \in x + 1 .. y - 1 : \E w \in r + 1 .. y - 1 :
        /\ p[r].do = "record" /\ p[r].on = u
        /\ p[w].do = "wait" /\ p[w].on = v /\ p[w].event = p[r].event
  <2>1. \E r \in x + 1 .. y - 1 : \E w \in r + 1 .. y - 1 :
          /\ p[r].do = "record" /\ p[r].on = p[x].on
          /\ p[w].do = "wait" /\ p[w].on = p[y].on /\ p[w].event = p[r].event
    BY <1>0, Zenon DEF InOrder
  <2> QED
    BY <1>1, <2>1
<1>5. PICK w \in r + 1 .. y - 1 :
        /\ p[r].do = "record" /\ p[r].on = u
        /\ p[w].do = "wait" /\ p[w].on = v /\ p[w].event = p[r].event
  BY <1>4, Zenon
<1>6. r \in 1 .. n /\ w \in 1 .. n /\ r > x /\ w < y /\ w \in r + 1 .. n
  BY <1>0
<1>7. i \in 1 .. Len(q[u]) /\ at[u][i] = x
  BY <1>1
<1>8. PICK k \in 1 .. Len(q[u]) : at[u][k] = r
  <2>1. (\E k \in 1 .. Len(q[u]) : at[u][k] = r) \/ (\A k \in 1 .. Len(q[u]) : r < at[u][k])
    BY <1>3, <1>5, <1>6, Zenon DEF Line
  <2>2. ~(r < at[u][i])
    BY <1>0, <1>6, <1>7
  <2> QED
    BY <1>7, <2>1, <2>2, Zenon
<1>9. q[u][k].do = "record" /\ q[u][k].event = p[r].event
  <2>1. Stands(q[u][k], p[at[u][k]])
    BY <1>3, <1>8, Zenon DEF Line
  <2> QED
    BY <1>5, <1>8, <2>1 DEF Stands
<1>10. PICK j \in 1 .. Len(q[v]) : at[v][j] = w
  <2>1. w \in at[u][k] + 1 .. n /\ p[w].do = "wait" /\ p[w].event = q[u][k].event /\ p[w].on = v
    BY <1>5, <1>6, <1>8, <1>9
  <2>2. Held(p, n, q[u], q[v], v, at[u], at[v])
    BY <1>3
  <2>3. \E j \in 1 .. Len(q[v]) : at[v][j] = w /\ q[v][j].count >= q[u][k].count
    BY <1>8, <1>9, <2>1, <2>2, Zenon DEF Held
  <2> QED
    BY <2>3
<1> QED
  BY <1>1, <1>6, <1>10

\* What touches a buffer of a queued operation, and comes behind it, is queued too.
LEMMA PendingBehind ==
  ASSUME NEW p, IsProgram(p), InOrder(p), NEW n \in 0 .. Len(p),
         NEW q, NEW at, NEW rec, NEW dn, Ordered(p, n, q, at, rec, dn),
         NEW x \in 1 .. n, NEW y \in x + 1 .. n, Data(p[x]), Data(p[y]),
         Touched(p[x]) \cap Touched(p[y]) # {}, Pending(q, at, x)
  PROVE  Pending(q, at, y)
PROOF
<1>0. Len(p) \in Nat /\ n \in Nat /\ x < y /\ y \in 1 .. n
  BY ProgramLength
<1>0a. PICK u \in Streams : \E i \in 1 .. Len(q[u]) : at[u][i] = x
  BY DEF Pending
<1>1. PICK i \in 1 .. Len(q[u]) : at[u][i] = x
  BY <1>0a
<1>2. Line(p, n, u, q[u], at[u])
  BY DEF Ordered
<1>3. p[x].on = u
  BY <1>1, <1>2, Zenon DEF Line, Queueable
<1>4. PICK v \in Streams : v = p[y].on
  BY DEF Data
<1>5. PICK j \in 1 .. Len(q[v]) : at[v][j] < y
  <2>1. CASE u = v
    BY <1>0, <1>1, <2>1
  <2>2. CASE u # v
    <3>1. /\ i \in 1 .. Len(q[p[x].on]) /\ at[p[x].on][i] = x /\ p[x].on # p[y].on
      BY <1>1, <1>3, <1>4, <2>2
    <3>2. \E j \in 1 .. Len(q[p[y].on]) : at[p[y].on][j] < y
      BY <3>1, WaitBetween, Zenon
    <3> QED
      BY <1>4, <3>2
  <2> QED
    BY <2>1, <2>2
<1>6. Line(p, n, v, q[v], at[v])
  BY DEF Ordered
<1>7. (\E k \in 1 .. Len(q[v]) : at[v][k] = y) \/ (\A k \in 1 .. Len(q[v]) : y < at[v][k])
  BY <1>0, <1>4, <1>6, Zenon DEF Line
<1>8. at[v][j] \in Nat
  BY <1>0, <1>6 DEF Line
<1> QED
  BY <1>0, <1>5, <1>7, <1>8 DEF Pending

\* The head of a stream: what it touches, nothing before it has still to touch.
LEMMA NothingBefore ==
  ASSUME NEW p, IsProgram(p), InOrder(p), NEW n \in 0 .. Len(p),
         NEW q, NEW at, NEW rec, NEW dn, Ordered(p, n, q, at, rec, dn),
         NEW s \in Streams, q[s] # <<>>, NEW z \in 1 .. n, z = at[s][1], Data(p[z]),
         NEW x \in 1 .. z - 1, Data(p[x]), Touched(p[x]) \cap Touched(p[z]) # {}
  PROVE  ~Pending(q, at, x)
PROOF
<1> SUFFICES ASSUME Pending(q, at, x) PROVE FALSE
  OBVIOUS
<1>0. Len(p) \in Nat /\ n \in Nat /\ x < z /\ x \in 1 .. n /\ z \in x + 1 .. n
  BY ProgramLength
<1>0a. PICK u \in Streams : \E i \in 1 .. Len(q[u]) : at[u][i] = x
  BY DEF Pending
<1>1. PICK i \in 1 .. Len(q[u]) : at[u][i] = x
  BY <1>0a
<1>2. Line(p, n, u, q[u], at[u]) /\ Line(p, n, s, q[s], at[s])
  BY DEF Ordered
<1>3. Len(q[s]) \in Nat \ {0} /\ 1 \in 1 .. Len(q[s])
  BY <1>2, HeadAndTail DEF Line
<1>4. p[x].on = u /\ p[z].on = s
  BY <1>1, <1>2, <1>3, Zenon DEF Line, Queueable
<1>5. \A j \in 1 .. Len(q[s]) : z <= at[s][j] /\ at[s][j] \in Nat
  <2>1. ASSUME NEW j \in 1 .. Len(q[s]) PROVE z <= at[s][j] /\ at[s][j] \in Nat
    <3>1. at[s][j] \in 1 .. n
      BY <1>2 DEF Line
    <3>2. CASE j = 1
      BY <1>0, <3>1, <3>2
    <3>3. CASE j # 1
      <4>1. 1 < j
        BY <1>3, <3>3
      <4>2. at[s][1] < at[s][j]
        BY <1>2, <1>3, <4>1 DEF Line
      <4>3. PICK g : g = at[s][j]
        OBVIOUS
      <4>4. z < g /\ g \in 1 .. n
        BY <3>1, <4>2, <4>3
      <4>5. z <= g /\ g \in Nat
        BY <1>0, <4>4
      <4> QED
        BY <4>3, <4>5
    <3> QED
      BY <3>2, <3>3
  <2> QED
    BY <2>1
<1>6. CASE u = s
  BY <1>0, <1>1, <1>5, <1>6
<1>7. CASE u # s
  <2>1. /\ i \in 1 .. Len(q[p[x].on]) /\ at[p[x].on][i] = x /\ p[x].on # p[z].on
    BY <1>1, <1>4, <1>7
  <2>2. /\ x \in 1 .. n /\ z \in x + 1 .. n /\ Data(p[x]) /\ Data(p[z])
        /\ Touched(p[x]) \cap Touched(p[z]) # {}
    BY <1>0
  <2>3. \E j \in 1 .. Len(q[p[z].on]) : at[p[z].on][j] < z
    <3>1. ASSUME NEW y \in x + 1 .. n, Data(p[y]), p[x].on # p[y].on,
                 Touched(p[x]) \cap Touched(p[y]) # {}
          PROVE  \E j \in 1 .. Len(q[p[y].on]) : at[p[y].on][j] < y
      BY <2>1, <2>2, <3>1, WaitBetween, Zenon
    <3> QED
      BY <2>1, <2>2, <3>1, Zenon
  <2> QED
    BY <1>0, <1>4, <1>5, <2>3
<1> QED
  BY <1>6, <1>7

\* One more operation is queued.
LEMMA PendingPlaced ==
  ASSUME NEW p, NEW n \in Nat, NEW q, NEW at, NEW rec, NEW dn, Ordered(p, n, q, at, rec, dn),
         NEW s \in Streams, NEW item, NEW q2,
         \A t \in Streams : q2[t] = IF t = s THEN Append(q[t], item) ELSE q[t], NEW x
  PROVE  Pending(q2, Placed(at, s, n + 1), x) <=> Pending(q, at, x) \/ x = n + 1
PROOF
<1> DEFINE a2 == Placed(at, s, n + 1)
<1>1. \A t \in Streams : a2[t] = IF t = s THEN Append(at[t], n + 1) ELSE at[t]
  BY DEF Placed
<1>2. IsProgram(q[s]) /\ IsProgram(at[s]) /\ Len(at[s]) = Len(q[s]) /\ Len(q[s]) \in Nat
  BY ProgramLength DEF Ordered, Line, IsProgram
<1> HIDE DEF a2
<1>3. /\ Len(q2[s]) = Len(q[s]) + 1
      /\ \A i \in 1 .. Len(q[s]) : a2[s][i] = at[s][i]
      /\ a2[s][Len(q[s]) + 1] = n + 1
  <2> DEFINE l == q[s]
             m == at[s]
  <2>1. q2[s] = Append(l, item) /\ a2[s] = Append(m, n + 1)
    BY <1>1, Zenon
  <2>2. IsProgram(l) /\ IsProgram(m) /\ Len(m) = Len(l)
    BY <1>2
  <2> HIDE DEF l, m
  <2>3. Len(Append(l, item)) = Len(l) + 1
    BY <2>2, Appended
  <2>4. /\ \A i \in 1 .. Len(m) : Append(m, n + 1)[i] = m[i]
        /\ Append(m, n + 1)[Len(m) + 1] = n + 1
    BY <2>2, Appended
  <2> QED
    BY <2>1, <2>2, <2>3, <2>4 DEF l, m
<1>4. \A t \in Streams : t # s => q2[t] = q[t] /\ a2[t] = at[t]
  BY <1>1
<1>5. ASSUME Pending(q2, a2, x) PROVE Pending(q, at, x) \/ x = n + 1
  <2>0a. PICK t \in Streams : \E i \in 1 .. Len(q2[t]) : a2[t][i] = x
    BY <1>5 DEF Pending
  <2>1. PICK i \in 1 .. Len(q2[t]) : a2[t][i] = x
    BY <2>0a
  <2>2. CASE t # s
    BY <1>4, <2>1, <2>2 DEF Pending
  <2>3. CASE t = s
    <3>1. i \in 1 .. Len(q[s]) \/ i = Len(q[s]) + 1
      BY <1>2, <1>3, <2>3
    <3> QED
      BY <1>3, <2>1, <2>3, <3>1 DEF Pending
  <2> QED
    BY <2>2, <2>3
<1>6. ASSUME Pending(q, at, x) PROVE Pending(q2, a2, x)
  <2>0a. PICK t \in Streams : \E i \in 1 .. Len(q[t]) : at[t][i] = x
    BY <1>6 DEF Pending
  <2>1. PICK i \in 1 .. Len(q[t]) : at[t][i] = x
    BY <2>0a
  <2>2. CASE t # s
    BY <1>4, <2>1, <2>2 DEF Pending
  <2>3. CASE t = s
    <3>1. i \in 1 .. Len(q2[s]) /\ a2[s][i] = x
      BY <1>2, <1>3, <2>1, <2>3
    <3> QED
      BY <3>1 DEF Pending
  <2> QED
    BY <2>2, <2>3
<1>7. ASSUME x = n + 1 PROVE Pending(q2, a2, x)
  <2>1. Len(q[s]) + 1 \in 1 .. Len(q2[s])
    BY <1>2, <1>3
  <2> QED
    BY <1>3, <1>7, <2>1 DEF Pending
<1> QED
  BY <1>5, <1>6, <1>7 DEF a2

\* The head of stream s is done.
LEMMA PendingLeft ==
  ASSUME NEW p, NEW n \in Nat, NEW q, NEW at, NEW rec, NEW dn, Ordered(p, n, q, at, rec, dn),
         NEW s \in Streams, q[s] # <<>>, NEW q2,
         \A t \in Streams : q2[t] = IF t = s THEN Tail(q[t]) ELSE q[t], NEW x
  PROVE  Pending(q2, Left(at, s), x) <=> Pending(q, at, x) /\ x # at[s][1]
PROOF
<1> DEFINE a2 == Left(at, s)
           m == Len(q[s]) - 1
<1>1. \A t \in Streams : a2[t] = IF t = s THEN Tail(at[t]) ELSE at[t]
  BY DEF Left
<1>2. \A t \in Streams : Line(p, n, t, q[t], at[t])
  BY DEF Ordered
<1>3. /\ IsProgram(q[s]) /\ IsProgram(at[s]) /\ Len(at[s]) = Len(q[s]) /\ Len(q[s]) \in Nat \ {0}
      /\ at[s] # <<>>
  <2>1. IsProgram(q[s]) /\ IsProgram(at[s]) /\ Len(at[s]) = Len(q[s])
    BY <1>2 DEF Line, IsProgram
  <2>2. Len(q[s]) \in Nat \ {0}
    BY <2>1, HeadAndTail
  <2> QED
    BY <2>1, <2>2, NoStep
<1> HIDE DEF a2
<1>4. /\ m \in Nat /\ Len(q[s]) = m + 1 /\ Len(q2[s]) = m
      /\ \A i \in 1 .. m : a2[s][i] = at[s][i + 1]
  <2> DEFINE l == q[s]
             k == at[s]
  <2>1. q2[s] = Tail(l) /\ a2[s] = Tail(k)
    BY <1>1
  <2>2. IsProgram(l) /\ IsProgram(k) /\ Len(k) = Len(l) /\ l # <<>> /\ k # <<>> /\ m = Len(l) - 1
    BY <1>3
  <2> HIDE DEF l, k, m
  <2>3. Len(l) \in Nat \ {0} /\ Len(Tail(l)) = Len(l) - 1
    BY <2>2, HeadAndTail
  <2>4. \A i \in 1 .. Len(k) - 1 : Tail(k)[i] = k[i + 1]
    BY <2>2, HeadAndTail
  <2> QED
    BY <2>1, <2>2, <2>3, <2>4 DEF l, k
<1> HIDE DEF m
<1>5. \A t \in Streams : t # s => q2[t] = q[t] /\ a2[t] = at[t]
  BY <1>1
<1>6. 1 \in 1 .. Len(q[s]) /\ p[at[s][1]].on = s
  BY <1>2, <1>4 DEF Line, Queueable
<1>7. ASSUME Pending(q2, a2, x) PROVE Pending(q, at, x) /\ x # at[s][1]
  <2>0a. PICK t \in Streams : \E i \in 1 .. Len(q2[t]) : a2[t][i] = x
    BY <1>7 DEF Pending
  <2>1. PICK i \in 1 .. Len(q2[t]) : a2[t][i] = x
    BY <2>0a
  <2>2. CASE t # s
    <3>1. i \in 1 .. Len(q[t]) /\ at[t][i] = x
      BY <1>5, <2>1, <2>2
    <3>2. p[x].on = t
      BY <1>2, <3>1, Zenon DEF Line, Queueable
    <3> QED
      BY <1>6, <2>2, <3>1, <3>2 DEF Pending
  <2>3. CASE t = s
    <3>1. i + 1 \in 1 .. Len(q[s]) /\ 1 < i + 1 /\ at[s][i + 1] = x
      BY <1>4, <2>1, <2>3
    <3>2. at[s][1] < at[s][i + 1] /\ at[s][1] \in Nat
      BY <1>2, <1>6, <3>1 DEF Line
    <3>3. x # at[s][1]
      BY <3>1, <3>2
    <3> QED
      BY <3>1, <3>3 DEF Pending
  <2> QED
    BY <2>2, <2>3
<1>8. ASSUME Pending(q, at, x), x # at[s][1] PROVE Pending(q2, a2, x)
  <2>0a. PICK t \in Streams : \E i \in 1 .. Len(q[t]) : at[t][i] = x
    BY <1>8 DEF Pending
  <2>1. PICK i \in 1 .. Len(q[t]) : at[t][i] = x
    BY <2>0a
  <2>2. CASE t # s
    BY <1>5, <2>1, <2>2 DEF Pending
  <2>3. CASE t = s
    <3>1. i # 1
      BY <1>8, <2>1, <2>3
    <3>2. i - 1 \in 1 .. Len(q2[s]) /\ i - 1 \in 1 .. m /\ (i - 1) + 1 = i
      BY <1>4, <2>3, <3>1
    <3>3. a2[s][i - 1] = at[s][i]
      BY <1>4, <3>2
    <3> QED
      BY <2>1, <2>3, <3>2, <3>3 DEF Pending
  <2> QED
    BY <2>2, <2>3
<1> QED
  BY <1>7, <1>8 DEF a2

(***************************************************************************)
(* The calls of a program done one at a time.                              *)
(***************************************************************************)

\* Memory m after the operation op.
Step(m, op) ==
  IF Data(op) THEN [m EXCEPT ![Target(op)] = Written(m, op)]
  ELSE IF op.do = "legacy" THEN [m EXCEPT ![op.dst] = op.value]
  ELSE IF op.do = "readback" THEN [m EXCEPT ![op.dst] = m[op.src]] ELSE m

\* The operation op changes the buffer b, at most.
HostWork(op) == ~Data(op) /\ op.do \in {"legacy", "readback"}
Changes(op, b) == IF Data(op) THEN b = Target(op) ELSE HostWork(op) /\ op.dst = b

Memory(m) == m = [b \in Buffers |-> m[b]]

\* What op writes depends on the buffers it touches, and it writes one of them.
Agree(m, m2, op) == \A b \in Touched(op) : m[b] = m2[b]
Local(op) ==
  /\ Data(op) => /\ Target(op) \in Touched(op) /\ Touched(op) \subseteq Buffers
                 /\ \A m, m2 : Agree(m, m2, op) => Written(m, op) = Written(m2, op)
  /\ HostWork(op) => op.on = "legacy" /\ op.dst \in Buffers
LocalProgram(p) == \A j \in 1 .. Len(p) : Local(p[j])

\* M are the memories of the first n operations of p, done one at a time.
RunTo(p, n, M) == Memory(M[0]) /\ \A j \in 1 .. n : M[j] = Step(M[j - 1], p[j])

\* A step changes one buffer.
LEMMA StepOf ==
  ASSUME NEW m, Memory(m), NEW op, Local(op)
  PROVE  /\ Memory(Step(m, op))
         /\ \A b \in Buffers : ~Changes(op, b) => Step(m, op)[b] = m[b]
         /\ Data(op) => Step(m, op)[Target(op)] = Written(m, op)
PROOF
<1> DEFINE new == Step(m, op)
<1>1. CASE Data(op)
  <2> DEFINE t == Target(op)
             v == Written(m, op)
  <2>1. t \in Buffers
    BY <1>1 DEF Local
  <2>2. new = [m EXCEPT ![t] = v] /\ \A b : ~Changes(op, b) <=> b # t
    BY <1>1 DEF Step, Changes
  <2> HIDE DEF new, t, v
  <2>3. m = [b \in Buffers |-> m[b]]
    BY DEF Memory
  <2>4. new = [b \in Buffers |-> IF b = t THEN v ELSE m[b]]
    BY <2>2, <2>3
  <2>5. new = [b \in Buffers |-> new[b]] /\ \A b \in Buffers : new[b] = IF b = t THEN v ELSE m[b]
    BY <2>4
  <2> QED
    BY <1>1, <2>1, <2>2, <2>5 DEF Memory, new, t, v
<1>2. CASE HostWork(op)
  <2> DEFINE t == op.dst
  <2>1. PICK v : new = [m EXCEPT ![t] = v]
    BY <1>2, Zenon DEF HostWork, Step
  <2>2. t \in Buffers /\ \A b : ~Changes(op, b) <=> b # t
    BY <1>2 DEF HostWork, Local, Changes
  <2> HIDE DEF new, t
  <2>3. m = [b \in Buffers |-> m[b]]
    BY DEF Memory
  <2>4. new = [b \in Buffers |-> IF b = t THEN v ELSE m[b]]
    BY <2>1, <2>3
  <2>5. new = [b \in Buffers |-> new[b]] /\ \A b \in Buffers : new[b] = IF b = t THEN v ELSE m[b]
    BY <2>4
  <2> QED
    BY <1>2, <2>2, <2>5 DEF Memory, new, HostWork
<1>3. CASE ~Data(op) /\ ~HostWork(op)
  BY <1>3 DEF HostWork, Step
<1> QED
  BY <1>1, <1>2, <1>3

\* All the memories are.
LEMMA RunIsMemory ==
  ASSUME NEW p, NEW n \in Nat, NEW M, RunTo(p, n, M), \A j \in 1 .. n : Local(p[j])
  PROVE  \A j \in 0 .. n : Memory(M[j])
PROOF
<1> DEFINE T == {j \in 0 .. n : ~Memory(M[j])}
<1>1. SUFFICES ASSUME T # {} PROVE FALSE
  OBVIOUS
<1>2. T \subseteq Nat
  OBVIOUS
<1>3. PICK x \in T : \A y \in T : x <= y
  <2> HIDE DEF T
  <2> QED
    BY <1>1, <1>2, LeastOf, Zenon
<1>4. x \in 0 .. n /\ ~Memory(M[x])
  OBVIOUS
<1>5. x # 0
  BY <1>4 DEF RunTo
<1>6. x \in 1 .. n /\ x - 1 \in 0 .. n /\ ~(x <= x - 1)
  BY <1>4, <1>5
<1>7. Memory(M[x - 1])
  BY <1>3, <1>6
<1>8. M[x] = Step(M[x - 1], p[x]) /\ Local(p[x])
  BY <1>6 DEF RunTo
<1> QED
  BY <1>4, <1>7, <1>8, StepOf

\* A buffer that nothing changes stays.
LEMMA RunLeaves ==
  ASSUME NEW p, NEW n \in Nat, NEW M, RunTo(p, n, M), \A j \in 1 .. n : Local(p[j]),
         NEW b \in Buffers, NEW x \in 0 .. n, NEW y \in x .. n,
         \A j \in x + 1 .. y : ~Changes(p[j], b)
  PROVE  M[y][b] = M[x][b]
PROOF
<1> DEFINE T == {j \in x .. y : M[j][b] # M[x][b]}
<1>1. SUFFICES ASSUME T # {} PROVE FALSE
  OBVIOUS
<1>2. T \subseteq Nat
  OBVIOUS
<1>3. PICK z \in T : \A k \in T : z <= k
  <2> HIDE DEF T
  <2> QED
    BY <1>1, <1>2, LeastOf, Zenon
<1>4. z \in x .. y /\ M[z][b] # M[x][b] /\ z # x
  OBVIOUS
<1>5. z \in x + 1 .. y /\ z \in 1 .. n /\ z - 1 \in x .. y /\ z - 1 \in 0 .. n /\ ~(z <= z - 1)
  BY <1>4
<1>6. M[z - 1][b] = M[x][b]
  BY <1>3, <1>5
<1>7. Memory(M[z - 1])
  BY <1>5, RunIsMemory
<1>8. M[z] = Step(M[z - 1], p[z]) /\ Local(p[z]) /\ ~Changes(p[z], b)
  BY <1>5 DEF RunTo
<1>9. M[z][b] = M[z - 1][b]
  BY <1>7, <1>8, StepOf
<1> QED
  BY <1>4, <1>6, <1>9

\* One more operation is done.
Extend(M, n, v) == [j \in 0 .. n + 1 |-> IF j = n + 1 THEN v ELSE M[j]]
More(p, n, M) == Extend(M, n, Step(M[n], p[n + 1]))

\* A run that does one more operation is a run.
LEMMA RunMore ==
  ASSUME NEW p, NEW n \in Nat, NEW M, RunTo(p, n, M)
  PROVE  /\ RunTo(p, n + 1, More(p, n, M))
         /\ \A j \in 0 .. n : More(p, n, M)[j] = M[j]
         /\ More(p, n, M)[n + 1] = Step(M[n], p[n + 1])
PROOF
<1> DEFINE N == More(p, n, M)
           v == Step(M[n], p[n + 1])
<1>1. N = [j \in 0 .. n + 1 |-> IF j = n + 1 THEN v ELSE M[j]]
  BY DEF More, Extend
<1> HIDE DEF N
<1>2. (\A j \in 0 .. n : N[j] = M[j]) /\ N[n + 1] = v
  <2> HIDE DEF v
  <2> QED
    BY <1>1
<1>3. Memory(N[0])
  BY <1>2 DEF RunTo
<1>4. ASSUME NEW j \in 1 .. n + 1 PROVE N[j] = Step(N[j - 1], p[j])
  <2>1. CASE j = n + 1
    <3>1. j - 1 = n /\ n \in 0 .. n
      BY <2>1
    <3> QED
      BY <1>2, <2>1, <3>1
  <2>2. CASE j # n + 1
    <3>1. j \in 1 .. n /\ j \in 0 .. n /\ j - 1 \in 0 .. n
      BY <2>2
    <3> QED
      BY <1>2, <3>1 DEF RunTo
  <2> QED
    BY <2>1, <2>2
<1>5. RunTo(p, n + 1, N)
  BY <1>3, <1>4 DEF RunTo
<1> QED
  BY <1>2, <1>5 DEF N

(***************************************************************************)
(* The memory while operations are queued.                                 *)
(***************************************************************************)

\* Of the first n operations, those that change b are done up to place x, not behind it.
Cut(p, n, q, at, b, x) ==
  /\ \A y \in 1 .. x : Changes(p[y], b) => ~Pending(q, at, y)
  /\ \A y \in x + 1 .. n : Changes(p[y], b) => Pending(q, at, y)

\* Each buffer is as it is in the run M at such a place.
InMemory(p, n, q, at, M, m) ==
  \A b \in Buffers : \A x \in 0 .. n : Cut(p, n, q, at, b, x) => m[b] = M[x][b]

\* The host works itself only when nothing is queued.
Settled(p, n, q, at) ==
  \A y \in 1 .. n : HostWork(p[y]) => \A x \in 1 .. y : ~Pending(q, at, x)

\* The memory m is what the streams have made of the first n operations of p.
Serial(p, n, q, at, M, m) ==
  /\ RunTo(p, n, M) /\ Memory(m)
  /\ Settled(p, n, q, at) /\ InMemory(p, n, q, at, M, m)

\* At the beginning it is the one before.
LEMMA SerialFirst ==
  ASSUME NEW p, NEW q, NEW at, NEW m, Memory(m), NEW M, M[0] = m
  PROVE  Serial(p, 0, q, at, M, m)
PROOF
<1>1. RunTo(p, 0, M)
  BY DEF RunTo
<1>2. Settled(p, 0, q, at) /\ InMemory(p, 0, q, at, M, m)
  BY DEF Settled, InMemory
<1> QED
  BY <1>1, <1>2 DEF Serial

\* Nothing is queued: it is that of the run.
LEMMA SerialLast ==
  ASSUME NEW p, NEW n \in Nat, NEW q, NEW at, NEW M, NEW m, Serial(p, n, q, at, M, m),
         \A j \in 1 .. n : Local(p[j]), \A x : ~Pending(q, at, x)
  PROVE  m = M[n]
PROOF
<1>1. \A b \in Buffers : Cut(p, n, q, at, b, n)
  BY DEF Cut
<1>2. n \in 0 .. n
  OBVIOUS
<1>3. \A b \in Buffers : m[b] = M[n][b]
  BY <1>1, <1>2 DEF Serial, InMemory
<1>4. Memory(m) /\ Memory(M[n])
  BY <1>2, RunIsMemory DEF Serial
<1>5. PICK v : v = M[n]
  BY Zenon
<1>6. m = [b \in Buffers |-> m[b]] /\ v = [b \in Buffers |-> v[b]] /\ \A b \in Buffers : m[b] = v[b]
  BY <1>3, <1>4, <1>5 DEF Memory
<1>7. m = v
  BY <1>6
<1> QED
  BY <1>5, <1>7

\* One more operation is made, and queued if it changes anything.
LEMMA SerialMore ==
  ASSUME NEW p, NEW n \in Nat, NEW q, NEW at, NEW M, NEW m, Serial(p, n, q, at, M, m),
         \A j \in 1 .. n + 1 : Local(p[j]), ~HostWork(p[n + 1]), NEW q2, NEW a2,
         \A x \in 1 .. n : Pending(q2, a2, x) <=> Pending(q, at, x),
         Data(p[n + 1]) => Pending(q2, a2, n + 1)
  PROVE  Serial(p, n + 1, q2, a2, More(p, n, M), m)
PROOF
<1> DEFINE N == More(p, n, M)
<1>1. /\ RunTo(p, n + 1, N) /\ \A j \in 0 .. n : N[j] = M[j]
      /\ N[n + 1] = Step(M[n], p[n + 1])
  BY RunMore DEF Serial
<1> HIDE DEF N
<1>2. Settled(p, n + 1, q2, a2)
  <2>1. ASSUME NEW y \in 1 .. n + 1, HostWork(p[y]), NEW x \in 1 .. y PROVE ~Pending(q2, a2, x)
    <3>1. y \in 1 .. n /\ x \in 1 .. n
      BY <2>1
    <3>2. ~Pending(q, at, x)
      BY <2>1, <3>1 DEF Serial, Settled
    <3> QED
      BY <3>1, <3>2
  <2> QED
    BY <2>1 DEF Settled
<1>3. ASSUME NEW b \in Buffers, NEW x \in 0 .. n + 1, Cut(p, n + 1, q2, a2, b, x) PROVE m[b] = N[x][b]
  <2>1. CASE x # n + 1
    <3>1. x \in 0 .. n
      BY <2>1
    <3>2. ASSUME NEW y \in 1 .. x, Changes(p[y], b) PROVE ~Pending(q, at, y)
      <4>1. y \in 1 .. n
        BY <3>1
      <4> QED
        BY <1>3, <3>2, <4>1 DEF Cut
    <3>3. ASSUME NEW y \in x + 1 .. n, Changes(p[y], b) PROVE Pending(q, at, y)
      <4>1. y \in 1 .. n /\ y \in x + 1 .. n + 1
        BY <3>1
      <4> QED
        BY <1>3, <3>3, <4>1 DEF Cut
    <3>4. Cut(p, n, q, at, b, x)
      BY <3>2, <3>3 DEF Cut
    <3>5. m[b] = M[x][b]
      BY <3>1, <3>4 DEF Serial, InMemory
    <3> QED
      BY <1>1, <3>1, <3>5
  <2>2. CASE x = n + 1
    <3>1. n + 1 \in 1 .. x /\ n \in 0 .. n
      BY <2>2
    <3>2. ~Changes(p[n + 1], b)
      <4>1. Changes(p[n + 1], b) => Data(p[n + 1])
        BY DEF Changes
      <4> QED
        BY <1>3, <3>1, <4>1 DEF Cut
    <3>3. ASSUME NEW y \in 1 .. n, Changes(p[y], b) PROVE ~Pending(q, at, y)
      <4>1. y \in 1 .. x
        BY <2>2
      <4> QED
        BY <1>3, <3>3, <4>1 DEF Cut
    <3>4. Cut(p, n, q, at, b, n)
      BY <3>3 DEF Cut
    <3>5. m[b] = M[n][b]
      BY <3>1, <3>4 DEF Serial, InMemory
    <3>6. Memory(M[n]) /\ Local(p[n + 1])
      BY <3>1, RunIsMemory DEF Serial
    <3>7. Step(M[n], p[n + 1])[b] = M[n][b]
      BY <3>2, <3>6, StepOf
    <3> QED
      BY <1>1, <2>2, <3>5, <3>7
  <2> QED
    BY <2>1, <2>2
<1>4. InMemory(p, n + 1, q2, a2, N, m)
  BY <1>3 DEF InMemory
<1> QED
  BY <1>1, <1>2, <1>4 DEF Serial, N

\* The host works itself.
LEMMA SerialWorked ==
  ASSUME NEW p, NEW n \in Nat, NEW q, NEW at, NEW M, NEW m, Serial(p, n, q, at, M, m),
         \A j \in 1 .. n + 1 : Local(p[j]), \A x : ~Pending(q, at, x)
  PROVE  Serial(p, n + 1, q, at, More(p, n, M), Step(m, p[n + 1]))
PROOF
<1> DEFINE N == More(p, n, M)
           v == Step(m, p[n + 1])
<1>1. m = M[n]
  BY SerialLast
<1>2. /\ RunTo(p, n + 1, N) /\ N[n + 1] = v
  BY <1>1, RunMore DEF Serial
<1>3. Memory(v)
  BY StepOf DEF Serial
<1> HIDE DEF N, v
<1>4. Settled(p, n + 1, q, at)
  BY DEF Settled
<1>5. ASSUME NEW b \in Buffers, NEW x \in 0 .. n + 1, Cut(p, n + 1, q, at, b, x) PROVE v[b] = N[x][b]
  <2>1. n + 1 \in x .. n + 1 /\ n + 1 \in Nat
    OBVIOUS
  <2>2. \A j \in x + 1 .. n + 1 : ~Changes(p[j], b)
    BY <1>5 DEF Cut
  <2>3. N[n + 1][b] = N[x][b]
    BY <1>2, <2>1, <2>2, RunLeaves
  <2> QED
    BY <1>2, <2>3
<1>6. InMemory(p, n + 1, q, at, N, v)
  BY <1>5 DEF InMemory
<1> QED
  BY <1>2, <1>3, <1>4, <1>6 DEF Serial, N, v

\* A mark leaves its stream.
LEMMA SerialMarked ==
  ASSUME NEW p, NEW n \in Nat, NEW q, NEW at, NEW M, NEW m, Serial(p, n, q, at, M, m),
         NEW z, ~Data(p[z]), ~HostWork(p[z]), NEW q2, NEW a2,
         \A x : Pending(q2, a2, x) <=> Pending(q, at, x) /\ x # z
  PROVE  Serial(p, n, q2, a2, M, m)
PROOF
<1>1. \A b : ~Changes(p[z], b)
  BY DEF Changes
<1>2. ASSUME NEW b, NEW x \in 0 .. n, Cut(p, n, q2, a2, b, x) PROVE Cut(p, n, q, at, b, x)
  BY <1>1, <1>2 DEF Cut
<1>3. InMemory(p, n, q2, a2, M, m)
  BY <1>2 DEF Serial, InMemory
<1>4. Settled(p, n, q2, a2)
  BY DEF Serial, Settled
<1> QED
  BY <1>3, <1>4 DEF Serial

\* The host's own work is never queued.
LEMMA PendingIsQueued ==
  ASSUME NEW p, NEW n, NEW q, NEW at, NEW rec, NEW dn, Ordered(p, n, q, at, rec, dn),
         NEW x, Pending(q, at, x)
  PROVE  p[x].on \in Streams
PROOF
<1>1. PICK u \in Streams : \E i \in 1 .. Len(q[u]) : at[u][i] = x
  BY DEF Pending
<1>2. PICK i \in 1 .. Len(q[u]) : at[u][i] = x
  BY <1>1
<1>3. Line(p, n, u, q[u], at[u])
  BY DEF Ordered
<1> QED
  BY <1>2, <1>3 DEF Line, Queueable

\* The head of a stream finds what it touches as it is in the run.
LEMMA HeadFinds ==
  ASSUME NEW p, IsProgram(p), InOrder(p), NEW n \in 0 .. Len(p),
         NEW q, NEW at, NEW rec, NEW dn, Ordered(p, n, q, at, rec, dn),
         NEW M, NEW m, Serial(p, n, q, at, M, m), \A j \in 1 .. n : Local(p[j]),
         NEW s \in Streams, q[s] # <<>>, NEW z \in 1 .. n, z = at[s][1], Data(p[z]),
         Pending(q, at, z)
  PROVE  Agree(m, M[z - 1], p[z])
PROOF
<1>0. Len(p) \in Nat /\ n \in Nat /\ z \in Nat /\ z - 1 \in 0 .. n /\ (z - 1) + 1 = z
  BY ProgramLength
<1>1. SUFFICES ASSUME NEW b \in Touched(p[z]) PROVE m[b] = M[z - 1][b]
  BY DEF Agree
<1>2. b \in Buffers
  BY DEF Local
<1>3. \A y \in 1 .. n : Data(p[y]) /\ Changes(p[y], b) => Touched(p[y]) \cap Touched(p[z]) # {}
  BY DEF Local, Changes
<1>4. ASSUME NEW y \in 1 .. z - 1, Changes(p[y], b) PROVE ~Pending(q, at, y)
  <2>1. y \in 1 .. n
    BY <1>0
  <2>2. CASE Data(p[y])
    <3>1. Touched(p[y]) \cap Touched(p[z]) # {}
      BY <1>3, <1>4, <2>1, <2>2
    <3> QED
      BY <2>2, <3>1, NothingBefore, Zenon
  <2>3. CASE ~Data(p[y])
    <3>1. p[y].on = "legacy"
      BY <1>4, <2>1, <2>3 DEF Local, Changes
    <3> QED
      BY <3>1, PendingIsQueued DEF Streams
  <2> QED
    BY <2>2, <2>3
<1>5. ASSUME NEW y \in z .. n, Changes(p[y], b) PROVE Pending(q, at, y)
  <2>1. CASE y = z
    BY <2>1
  <2>2. CASE y # z
    <3>1. y \in z + 1 .. n /\ y \in 1 .. n /\ z \in 1 .. y
      BY <1>0, <2>2
    <3>2. Data(p[y])
      BY <1>5, <3>1 DEF Changes, Serial, Settled
    <3>3. Touched(p[z]) \cap Touched(p[y]) # {}
      BY <1>3, <1>5, <3>1, <3>2
    <3> QED
      BY <3>1, <3>2, <3>3, PendingBehind, Zenon
  <2> QED
    BY <2>1, <2>2
<1>6. Cut(p, n, q, at, b, z - 1)
  BY <1>0, <1>4, <1>5 DEF Cut
<1> QED
  BY <1>0, <1>2, <1>6 DEF Serial, InMemory

\* A copy or a kernel ends.
LEMMA SerialDone ==
  ASSUME NEW p, IsProgram(p), InOrder(p), NEW n \in 0 .. Len(p),
         NEW q, NEW at, NEW rec, NEW dn, Ordered(p, n, q, at, rec, dn),
         NEW M, NEW m, Serial(p, n, q, at, M, m), \A j \in 1 .. n : Local(p[j]),
         NEW s \in Streams, q[s] # <<>>, NEW z \in 1 .. n, z = at[s][1], Data(p[z]),
         Pending(q, at, z),
         NEW q2, NEW a2, \A x : Pending(q2, a2, x) <=> Pending(q, at, x) /\ x # z
  PROVE  Serial(p, n, q2, a2, M, Step(m, p[z]))
PROOF
<1>0. Len(p) \in Nat /\ n \in Nat /\ z \in Nat /\ z - 1 \in 0 .. n /\ z \in 0 .. n
  BY ProgramLength
<1> DEFINE v == Step(m, p[z])
           t == Target(p[z])
<1>1. RunTo(p, n, M) /\ Memory(m) /\ Local(p[z]) /\ t \in Touched(p[z]) /\ t \in Buffers
  BY Zenon DEF Serial, Local
<1>2. Agree(m, M[z - 1], p[z])
  BY HeadFinds
<1>3. Memory(M[z - 1]) /\ M[z] = Step(M[z - 1], p[z])
  BY <1>0, <1>1, RunIsMemory, Zenon DEF RunTo
<1>4. /\ Memory(v) /\ v[t] = M[z][t]
      /\ \A b \in Buffers : b # t => v[b] = m[b]
  <2>1. /\ Memory(v) /\ v[t] = Written(m, p[z])
        /\ \A b \in Buffers : ~Changes(p[z], b) => v[b] = m[b]
    BY <1>1, StepOf
  <2>2. M[z][t] = Written(M[z - 1], p[z])
    BY <1>1, <1>3, StepOf
  <2>3. Written(m, p[z]) = Written(M[z - 1], p[z])
    BY <1>1, <1>2 DEF Local
  <2>4. \A b \in Buffers : b # t => ~Changes(p[z], b)
    BY DEF Changes
  <2> QED
    BY <2>1, <2>2, <2>3, <2>4
<1>5. \A b : Changes(p[z], b) <=> b = t
  BY DEF Changes
<1> HIDE DEF v, t
<1>6. ASSUME NEW b \in Buffers, NEW x \in 0 .. n, Cut(p, n, q2, a2, b, x) PROVE v[b] = M[x][b]
  <2>1. CASE b # t
    <3>1. ASSUME NEW y \in 1 .. x, Changes(p[y], b) PROVE ~Pending(q, at, y)
      BY <1>5, <1>6, <2>1, <3>1 DEF Cut
    <3>2. ASSUME NEW y \in x + 1 .. n, Changes(p[y], b) PROVE Pending(q, at, y)
      BY <1>6, <3>2 DEF Cut
    <3>3. Cut(p, n, q, at, b, x)
      BY <3>1, <3>2 DEF Cut
    <3> QED
      BY <1>4, <2>1, <3>3 DEF Serial, InMemory
  <2>2. CASE b = t
    <3>1. z <= x
      <4>1. z \in x + 1 .. n => FALSE
        BY <1>5, <1>6, <2>2 DEF Cut
      <4> QED
        BY <1>0, <4>1
    <3>2. ASSUME NEW y \in z + 1 .. x, Changes(p[y], b) PROVE FALSE
      <4>1. y \in 1 .. x /\ y \in 1 .. n /\ y \in z + 1 .. n /\ z \in 1 .. y /\ y # z
        BY <1>0
      <4>2. ~Pending(q, at, y)
        BY <1>6, <3>2, <4>1 DEF Cut
      <4>3. Data(p[y])
        BY <3>2, <4>1 DEF Changes, Serial, Settled
      <4>4. Touched(p[z]) \cap Touched(p[y]) # {}
        BY <1>1, <2>2, <3>2, <4>1, <4>3 DEF Local, Changes
      <4>5. Pending(q, at, y)
        BY <4>1, <4>3, <4>4, PendingBehind, Zenon
      <4> QED
        BY <4>2, <4>5
    <3>3. x \in z .. n /\ \A j \in z + 1 .. x : ~Changes(p[j], b)
      BY <1>0, <3>1, <3>2
    <3>4. M[x][b] = M[z][b]
      <4>1. n \in Nat /\ z \in 0 .. n /\ RunTo(p, n, M) /\ \A j \in 1 .. n : Local(p[j])
        BY <1>0, <1>1
      <4>2. ASSUME NEW i \in 0 .. n, NEW k \in i .. n, \A j \in i + 1 .. k : ~Changes(p[j], b)
            PROVE  M[k][b] = M[i][b]
        BY <4>1, <4>2, RunLeaves
      <4> QED
        BY <3>3, <4>1, <4>2, Zenon
    <3> QED
      BY <1>4, <2>2, <3>4
  <2> QED
    BY <2>1, <2>2
<1>7. InMemory(p, n, q2, a2, M, v)
  BY <1>6 DEF InMemory
<1>8. Settled(p, n, q2, a2)
  BY DEF Serial, Settled
<1> QED
  BY <1>1, <1>4, <1>7, <1>8 DEF Serial, v

\* Whatever is queued, each buffer is that of the run somewhere.
LEMMA SomewhereInTheRun ==
  ASSUME NEW p, IsProgram(p), InOrder(p), NEW n \in 0 .. Len(p),
         NEW q, NEW at, NEW rec, NEW dn, Ordered(p, n, q, at, rec, dn),
         NEW M, NEW m, Serial(p, n, q, at, M, m), \A j \in 1 .. n : Local(p[j]),
         NEW b \in Buffers
  PROVE  \E x \in 0 .. n : m[b] = M[x][b]
PROOF
<1>0. Len(p) \in Nat /\ n \in Nat
  BY ProgramLength
<1> DEFINE T == {y \in 1 .. n : Changes(p[y], b) /\ Pending(q, at, y)}
<1>1. CASE T = {}
  <2>1. Cut(p, n, q, at, b, n)
    BY <1>1 DEF Cut
  <2>2. n \in 0 .. n
    BY <1>0
  <2> QED
    BY <2>1, <2>2 DEF Serial, InMemory
<1>2. CASE T # {}
  <2>1. PICK z \in T : \A k \in T : z <= k
    <3>1. T \subseteq Nat
      OBVIOUS
    <3> HIDE DEF T
    <3> QED
      BY <1>2, <3>1, LeastOf, Zenon
  <2>2. z \in 1 .. n /\ Changes(p[z], b) /\ Pending(q, at, z)
    OBVIOUS
  <2>3. ASSUME NEW y \in 1 .. z - 1, Changes(p[y], b) PROVE ~Pending(q, at, y)
    <3>1. y \in 1 .. n /\ ~(z <= y)
      BY <1>0
    <3> QED
      BY <2>1, <2>3, <3>1
  <2>4. ASSUME NEW y \in z .. n, Changes(p[y], b) PROVE Pending(q, at, y)
    <3>1. CASE y = z
      BY <2>2, <3>1
    <3>2. CASE y # z
      <4>1. y \in z + 1 .. n /\ y \in 1 .. n /\ z \in 1 .. y
        BY <1>0, <2>2, <3>2
      <4>2. p[z].on \in Streams
        BY <2>2, PendingIsQueued
      <4>3. Data(p[z]) /\ Data(p[y])
        <5>1. Data(p[y])
          BY <2>2, <2>4, <4>1 DEF Changes, Serial, Settled
        <5>2. HostWork(p[z]) => p[z].on = "legacy"
          BY <2>2 DEF Local
        <5> QED
          BY <2>2, <4>2, <5>1, <5>2 DEF Changes, Streams
      <4>4. Touched(p[z]) \cap Touched(p[y]) # {}
        BY <2>2, <2>4, <4>1, <4>3 DEF Local, Changes
      <4> QED
        BY <2>2, <4>1, <4>3, <4>4, PendingBehind
    <3> QED
      BY <3>1, <3>2
  <2>5. z - 1 \in 0 .. n /\ (z - 1) + 1 = z
    BY <1>0, <2>2
  <2>6. Cut(p, n, q, at, b, z - 1)
    BY <2>3, <2>4, <2>5 DEF Cut
  <2> QED
    BY <2>5, <2>6 DEF Serial, InMemory
<1> QED
  BY <1>1, <1>2

(***************************************************************************)
(* The cells of a block, row by row.                                       *)
(***************************************************************************)

\* Cell x of row r, in rows of n.
LEMMA CellOf ==
  ASSUME NEW n \in Nat \ {0}, NEW r \in Nat, NEW x \in 0 .. n - 1
  PROVE  (r * n) + x \in Nat /\ ((r * n) + x) \div n = r /\ ((r * n) + x) % n = x
PROOF
<1> DEFINE a == (r * n) + x
           q == a \div n
           d == a % n
<1>1. r * n \in Nat /\ a \in Nat /\ a = (r * n) + x
  OBVIOUS
<1>2. q \in Nat /\ d \in 0 .. n - 1 /\ a = (n * q) + d
  BY <1>1, Division, Zenon
<1> HIDE DEF a, q, d
<1>3. n * q = q * n
  BY <1>2
<1>4. CASE q < r
  <2>1. (q + 1) * n <= r * n /\ (q + 1) * n = (q * n) + n
    <3>1. q + 1 <= r /\ q + 1 \in Nat
      BY <1>2, <1>4
    <3> QED
      BY <1>2, <3>1, TimesGrows
  <2>2. q * n \in Nat
    BY <1>2
  <2> QED
    BY <1>1, <1>2, <1>3, <2>1, <2>2
<1>5. CASE r < q
  <2>1. (r + 1) * n <= q * n /\ (r + 1) * n = (r * n) + n
    <3>1. r + 1 <= q /\ r + 1 \in Nat
      BY <1>2, <1>5
    <3> QED
      BY <1>2, <3>1, TimesGrows
  <2>2. q * n \in Nat
    BY <1>2
  <2> QED
    BY <1>1, <1>2, <1>3, <2>1, <2>2
<1>6. CASE q = r
  BY <1>1, <1>2, <1>3, <1>6 DEF a, q, d
<1> QED
  BY <1>2, <1>4, <1>5, <1>6

\* The cells of the first m rows of n.
LEMMA CellWithin ==
  ASSUME NEW n \in Nat \ {0}, NEW m \in Nat, NEW r \in 0 .. m - 1, NEW x \in 0 .. n - 1
  PROVE  (r * n) + x \in 0 .. (m * n) - 1
PROOF
<1>1. r + 1 \in Nat /\ r + 1 <= m /\ r \in Nat
  OBVIOUS
<1>2. (r + 1) * n <= m * n
  BY <1>1, TimesGrows
<1>3. (r + 1) * n = (r * n) + n /\ r * n \in Nat /\ m * n \in Nat
  BY <1>1
<1> QED
  BY <1>2, <1>3

\* A cell of m rows of n has a row and a column.
LEMMA CellHas ==
  ASSUME NEW n \in Nat \ {0}, NEW m \in Nat, NEW i \in 0 .. (m * n) - 1
  PROVE  \E r \in 0 .. m - 1 : \E x \in 0 .. n - 1 : i = (r * n) + x
PROOF
<1> DEFINE q == i \div n
           d == i % n
<1>1. i \in Nat /\ q \in Nat /\ d \in 0 .. n - 1 /\ i = (n * q) + d
  <2>1. m * n \in Nat /\ i \in Nat
    OBVIOUS
  <2> QED
    BY <2>1, Division, Zenon
<1> HIDE DEF q, d
<1>2. n * q = q * n
  BY <1>1
<1>3. q < m
  <2> SUFFICES ASSUME m <= q PROVE FALSE
    BY <1>1
  <2>1. m * n <= q * n
    BY <1>1, TimesGrows
  <2> QED
    BY <1>1, <1>2, <2>1
<1> QED
  BY <1>1, <1>2, <1>3

(***************************************************************************)
(* Sums of the values of one entry.                                        *)
(***************************************************************************)

Poly == [Coefs -> Int]
Times(a, p) == Comb(a, p, 0, p)
Plus(p, q) == Comb(1, p, 1, q)
ZeroPoly == [k \in Coefs |-> 0]

\* Polynomials stay polynomials.
LEMMA PolyClosed ==
  /\ Monomial(0) \in Poly /\ ZeroPoly \in Poly
  /\ \A p \in Poly : Shift(p) \in Poly
  /\ \A p, q \in Poly : \A a, b \in Int : Comb(a, p, b, q) \in Poly
PROOF
<1>0. Degree \in Nat /\ \A k \in Coefs : k \in Nat /\ (k # 0 => k - 1 \in Coefs)
  BY CoefficientsAssumption DEF Coefs
<1>1. Monomial(0) \in Poly
  BY DEF Monomial, Poly
<1>2. ZeroPoly \in Poly
  BY DEF ZeroPoly, Poly
<1>3. ASSUME NEW p \in Poly PROVE Shift(p) \in Poly
  <2>1. \A k \in Coefs : k # 0 => p[k - 1] \in Int
    BY <1>0 DEF Poly
  <2>2. \A k \in Coefs : (IF k = 0 THEN 0 ELSE p[k - 1]) \in Int
    BY <2>1
  <2> QED
    BY <2>2 DEF Poly, Shift
<1>4. ASSUME NEW p \in Poly, NEW q \in Poly, NEW a \in Int, NEW b \in Int
      PROVE  Comb(a, p, b, q) \in Poly
  <2>1. \A k \in Coefs : p[k] \in Int /\ q[k] \in Int
    BY DEF Poly
  <2>2. \A k \in Coefs : (a * p[k]) + (b * q[k]) \in Int
    BY <2>1
  <2> QED
    BY <2>2 DEF Poly, Comb
<1> QED
  BY <1>1, <1>2, <1>3, <1>4

\* Nothing of a polynomial, and nothing of nothing.
LEMMA PolyZero ==
  /\ Zero.p = ZeroPoly /\ Zero.name = <<>> /\ Monomial(0) # ZeroPoly
  /\ Shift(ZeroPoly) = ZeroPoly
  /\ \A a \in Int : Times(a, ZeroPoly) = ZeroPoly
  /\ \A p \in Poly : Plus(ZeroPoly, p) = p /\ Plus(p, ZeroPoly) = p
PROOF
<1>0. Degree \in Nat /\ 0 \in Coefs /\ \A k \in Coefs : k \in Nat /\ (k # 0 => k - 1 \in Coefs)
  BY CoefficientsAssumption DEF Coefs
<1>1. Zero.p = ZeroPoly /\ Zero.name = <<>>
  BY DEF Zero, ZeroPoly
<1>2. Monomial(0) # ZeroPoly
  <2>1. Monomial(0)[0] = 1 /\ ZeroPoly[0] = 0
    BY <1>0 DEF Monomial, ZeroPoly
  <2> QED
    BY <2>1
<1>3. Shift(ZeroPoly) = ZeroPoly
  <2>1. \A k \in Coefs : (IF k = 0 THEN 0 ELSE ZeroPoly[k - 1]) = 0
    BY <1>0 DEF ZeroPoly
  <2> QED
    BY <2>1 DEF Shift, ZeroPoly
<1>4. ASSUME NEW a \in Int PROVE Times(a, ZeroPoly) = ZeroPoly
  <2>1. \A k \in Coefs : (a * ZeroPoly[k]) + (0 * ZeroPoly[k]) = 0
    BY DEF ZeroPoly
  <2> QED
    BY <2>1 DEF Times, Comb, ZeroPoly
<1>5. ASSUME NEW p \in Poly PROVE Plus(ZeroPoly, p) = p /\ Plus(p, ZeroPoly) = p
  <2>1. p = [k \in Coefs |-> p[k]] /\ \A k \in Coefs : p[k] \in Int
    BY DEF Poly
  <2>2. \A k \in Coefs : (1 * ZeroPoly[k]) + (1 * p[k]) = p[k] /\ (1 * p[k]) + (1 * ZeroPoly[k]) = p[k]
    BY <2>1 DEF ZeroPoly
  <2>3. Plus(ZeroPoly, p) = [k \in Coefs |-> p[k]] /\ Plus(p, ZeroPoly) = [k \in Coefs |-> p[k]]
    BY <2>2 DEF Plus, Comb
  <2> QED
    BY <2>1, <2>3
<1> QED
  BY <1>1, <1>2, <1>3, <1>4, <1>5

\* The name and the polynomial of a value.
LEMMA ValueOf ==
  ASSUME NEW name, NEW p
  PROVE  /\ Value(name, p).p = p
         /\ Value(name, p) = Zero <=> p = ZeroPoly
         /\ p # ZeroPoly => Value(name, p).name = name
         /\ p = ZeroPoly => Value(name, p).name = <<>>
PROOF
<1>1. CASE p = ZeroPoly
  <2>1. Value(name, p) = Zero
    BY <1>1, PolyZero DEF Value
  <2> QED
    BY <1>1, <2>1, PolyZero
<1>2. CASE p # ZeroPoly
  <2>1. Value(name, p) = [name |-> name, p |-> p]
    BY <1>2, PolyZero DEF Value
  <2>2. Value(name, p).p = p /\ Value(name, p).name = name
    BY <2>1
  <2> QED
    BY <1>2, <2>2, PolyZero
<1> QED
  BY <1>1, <1>2

\* A multiple of a value, and the sum of two of the same entry.
LEMMA MultipleOf ==
  ASSUME NEW name, NEW p \in Poly, NEW a \in Int
  PROVE  Scaled(a, Value(name, p)) = Value(name, Times(a, p))
PROOF
<1>1. Scaled(a, Value(name, p)) = Value(Value(name, p).name, Times(a, p))
  BY ValueOf DEF Scaled, Times
<1>2. CASE p = ZeroPoly
  <2>1. Times(a, p) = ZeroPoly
    BY <1>2, PolyZero
  <2>2. \A n : Value(n, ZeroPoly) = Zero
    BY ValueOf
  <2> QED
    BY <1>1, <2>1, <2>2
<1>3. CASE p # ZeroPoly
  BY <1>1, <1>3, ValueOf
<1> QED
  BY <1>2, <1>3

\* Entries of one column are added by their polynomials.
LEMMA SumOf ==
  ASSUME NEW name, NEW p \in Poly, NEW q \in Poly
  PROVE  Sum(Value(name, p), Value(name, q)) = Value(name, Plus(p, q))
PROOF
<1> DEFINE v == Value(name, p)
           w == Value(name, q)
<1>1. /\ v.p = p /\ w.p = q
      /\ v = Zero <=> p = ZeroPoly
      /\ w = Zero <=> q = ZeroPoly
      /\ p # ZeroPoly => v.name = name
      /\ q # ZeroPoly => w.name = name
  BY ValueOf
<1>2. CASE p = ZeroPoly
  <2>1. v = Zero /\ Plus(p, q) = q
    BY <1>1, <1>2, PolyZero
  <2>2. Sum(v, w) = w
    <3> HIDE DEF v, w
    <3> QED
      BY <2>1 DEF Sum
  <2> QED
    BY <2>1, <2>2
<1>3. CASE p # ZeroPoly /\ q = ZeroPoly
  <2>1. v # Zero /\ w = Zero /\ Plus(p, q) = p
    BY <1>1, <1>3, PolyZero
  <2>2. Sum(v, w) = v
    <3> HIDE DEF v, w
    <3> QED
      BY <2>1 DEF Sum
  <2> QED
    BY <2>1, <2>2
<1>4. CASE p # ZeroPoly /\ q # ZeroPoly
  <2>1. v # Zero /\ w # Zero /\ v.name = w.name /\ v.name = name
    BY <1>1, <1>4
  <2>2. Sum(v, w) = Value(v.name, Comb(1, v.p, 1, w.p))
    <3> HIDE DEF v, w
    <3> QED
      BY <2>1 DEF Sum
  <2> QED
    BY <1>1, <2>1, <2>2 DEF Plus
<1> QED
  BY <1>2, <1>3, <1>4

\* The product with A of a whole column.
Values(a, id, c, p) == [s \in Rows |-> Value(<<a, id, s, c>>, p)]

\* A applied to a column shifts its polynomial.
LEMMA ProductOf ==
  ASSUME ctx.vecRows \in Nat \ {0}, NEW a, NEW id, NEW c, NEW p \in Poly, NEW r \in Rows
  PROVE  Applied(Values(a, id, c, p), r) = Value(<<a, id, r, c>>, Shift(p))
PROOF
<1> DEFINE col == Values(a, id, c, p)
<1>0. DOMAIN col = Rows /\ \A s \in Rows : col[s] = Value(<<a, id, s, c>>, p)
  BY DEF Values
<1> HIDE DEF col
<1>1. CASE p = ZeroPoly
  <2>1. \A s \in DOMAIN col : col[s] = Zero
    BY <1>0, <1>1, ValueOf, Zenon
  <2>2. Value(<<a, id, r, c>>, Shift(p)) = Zero
    BY <1>1, PolyZero, ValueOf
  <2>3. Applied(col, r) = Zero
    BY <2>1 DEF Applied
  <2> QED
    BY <2>2, <2>3 DEF col
<1>2. CASE p # ZeroPoly
  <2>1. \A s \in Rows : col[s] # Zero /\ col[s].p = p /\ col[s].name = <<a, id, s, c>>
    <3>1. SUFFICES ASSUME NEW s \in Rows PROVE col[s] # Zero /\ col[s].p = p /\ col[s].name = <<a, id, s, c>>
      OBVIOUS
    <3>2. PICK z : z = <<a, id, s, c>>
      BY Zenon
    <3>3. Value(z, p) # Zero /\ Value(z, p).p = p /\ Value(z, p).name = z
      BY <1>2, ValueOf
    <3> QED
      BY <1>0, <3>2, <3>3
  <2>2. ~(\A s \in DOMAIN col : col[s] = Zero)
    BY <1>0, <2>1
  <2>3. \A s \in DOMAIN col :
          /\ Len(col[s].name) = 4
          /\ col[s].p = col[r].p
          /\ col[s].name = [col[r].name EXCEPT ![3] = s]
    <3>1. SUFFICES ASSUME NEW s \in Rows
                   PROVE  /\ Len(col[s].name) = 4
                          /\ col[s].p = col[r].p
                          /\ col[s].name = [col[r].name EXCEPT ![3] = s]
      BY <1>0
    <3>2. Len(<<a, id, s, c>>) = 4
      OBVIOUS
    <3>3. <<a, id, s, c>> = [<<a, id, r, c>> EXCEPT ![3] = s]
      OBVIOUS
    <3> QED
      BY <2>1, <3>2, <3>3
  <2>4. Applied(col, r) = Value(col[r].name, Shift(col[r].p))
    BY <2>2, <2>3 DEF Applied
  <2> QED
    BY <2>1, <2>4 DEF col
<1> QED
  BY <1>1, <1>2

\* Which names are not the allocator's.
LEMMA NamesApart == \A a, b, c, d : <<a, b, c, d>> # <<"poison">> /\ <<>> # <<"poison">>
PROOF
<1>1. \A a, b, c, d : Len(<<a, b, c, d>>) = 4 /\ Len(<<"poison">>) = 1 /\ Len(<<>>) = 0
  OBVIOUS
<1> QED
  BY <1>1

(***************************************************************************)
(* What each operation does to memory.                                     *)
(***************************************************************************)

\* The operation replaces buffer y by v, which depends on what it reads.
Replaces(op, y) == Data(op) /\ op.writes = {y} /\ op.reads \cup {y} \subseteq Buffers

\* Memory n is m with v in buffer y.
With(n, m, y, v) == Memory(n) /\ n[y] = v /\ \A b \in Buffers : b # y => n[b] = m[b]

\* Such an operation leaves the other buffers.
LEMMA ReplacesOne ==
  ASSUME NEW op, NEW y, Replaces(op, y), Local(op), NEW m, Memory(m)
  PROVE  With(Step(m, op), m, y, Written(m, op))
PROOF
<1>1. Data(op) /\ Target(op) = y
  BY DEF Replaces, Target
<1>2. \A b : Changes(op, b) <=> b = y
  BY <1>1 DEF Changes
<1> QED
  BY <1>1, <1>2, StepOf DEF With

\* An operation whose contents depend on the buffers it touches.
LEMMA LocalIf ==
  ASSUME NEW op, NEW y, Replaces(op, y),
         \A n, k : Agree(n, k, op) => Written(n, op) = Written(k, op)
  PROVE  Local(op)
PROOF
<1>1. Target(op) = y /\ Touched(op) = op.reads \cup {y} /\ Data(op)
  BY DEF Replaces, Target, Touched
<1>2. ~HostWork(op)
  BY <1>1 DEF HostWork
<1> QED
  BY <1>1, <1>2 DEF Local, Replaces

\* A copy.
LEMMA CopyDoes ==
  ASSUME NEW dst \in Buffers, NEW src \in Buffers, NEW doff, NEW dp, NEW soff, NEW sp, NEW w, NEW h,
         NEW op, op = Copy(dst, doff, dp, src, soff, sp, w, h)
  PROVE  /\ Local(op)
         /\ \A m : Memory(m) =>
              With(Step(m, op), m, dst, [i \in DOMAIN m[dst] |-> CopyValue(m, op, i)])
PROOF
<1>1. /\ op.do = "copy" /\ op.on = "copy" /\ op.reads = {src} /\ op.writes = {dst}
      /\ op.src = src /\ op.dst = dst
  BY DEF Copy
<1>2. Replaces(op, dst)
  BY <1>1 DEF Replaces, Data, Streams
<1>3. \A n : Written(n, op) = [i \in DOMAIN n[dst] |-> CopyValue(n, op, i)]
  BY <1>1 DEF Written
<1>4. ASSUME NEW n, NEW k, Agree(n, k, op) PROVE Written(n, op) = Written(k, op)
  <2>1. n[src] = k[src] /\ n[dst] = k[dst]
    BY <1>1, <1>4 DEF Agree, Touched
  <2>2. \A i : CopyValue(n, op, i) = CopyValue(k, op, i)
    BY <1>1, <2>1 DEF CopyValue
  <2> QED
    BY <1>3, <2>1, <2>2
<1>5. Local(op)
  BY <1>2, <1>4, LocalIf
<1>6. ASSUME NEW m, Memory(m) PROVE With(Step(m, op), m, dst, Written(m, op))
  BY <1>2, <1>5, <1>6, ReplacesOne
<1> QED
  BY <1>3, <1>5, <1>6

\* A copy of columns: cell y of row r.
LEMMA CopyOfColumns ==
  ASSUME NEW dst, NEW src, NEW doff \in Nat, NEW dp \in Nat \ {0}, NEW soff \in Nat, NEW sp \in Nat,
         NEW w \in Nat, NEW h \in Nat, doff + w <= dp,
         NEW op, op = Copy(dst, doff, dp, src, soff, sp, w, h), NEW m,
         NEW r \in 0 .. h - 1, NEW y \in 0 .. dp - 1
  PROVE  CopyValue(m, op, (r * dp) + y) =
           IF y \in doff .. doff + w - 1 THEN m[src][soff + (r * sp) + (y - doff)]
           ELSE m[dst][(r * dp) + y]
PROOF
<1> DEFINE i == (r * dp) + y
           rel == i - doff
<1>1. /\ op.src = src /\ op.soff = soff /\ op.spitch = sp /\ op.dst = dst
      /\ op.doff = doff /\ op.dpitch = dp /\ op.w = w /\ op.h = h
  BY DEF Copy
<1>2. CopyValue(m, op, i) =
        IF rel >= 0 /\ rel \div dp < h /\ rel % dp < w
        THEN m[src][soff + (rel \div dp) * sp + (rel % dp)] ELSE m[dst][i]
  BY <1>1 DEF CopyValue
<1>3. r * dp \in Nat /\ r \in Nat
  OBVIOUS
<1>4. CASE y >= doff
  <2>1. PICK x \in 0 .. dp - 1 : x = y - doff /\ rel = (r * dp) + x
    BY <1>3, <1>4
  <2>2. rel >= 0 /\ rel \div dp = r /\ rel % dp = x
    <3>1. (r * dp) + x \in Nat /\ ((r * dp) + x) \div dp = r /\ ((r * dp) + x) % dp = x
      BY <1>3, CellOf, Zenon
    <3> HIDE DEF rel
    <3> QED
      BY <2>1, <3>1
  <2>3. x < w <=> y \in doff .. doff + w - 1
    BY <1>4, <2>1
  <2> HIDE DEF rel, i
  <2> QED
    BY <1>2, <2>1, <2>2, <2>3 DEF i
<1>5. CASE y < doff
  <2>1. y \notin doff .. doff + w - 1
    BY <1>5
  <2>2. CASE r = 0
    <3>1. r * dp = 0
      BY <2>2
    <3>2. ~(rel >= 0)
      BY <1>5, <3>1
    <3> HIDE DEF rel, i
    <3> QED
      BY <1>2, <2>1, <3>2 DEF i
  <2>3. CASE r # 0
    <3>1. PICK x \in 0 .. dp - 1 : x = dp + y - doff /\ ~(x < w)
      BY <1>5
    <3>2. PICK q \in Nat : q = r - 1
      BY <2>3
    <3>3. (q * dp) + dp = r * dp
      BY <3>2
    <3>4. rel = (q * dp) + x
      BY <1>3, <3>1, <3>2, <3>3
    <3> HIDE DEF rel, i
    <3>5. rel % dp = x
      BY <3>4, CellOf, Zenon
    <3> QED
      BY <1>2, <2>1, <3>1, <3>5 DEF i
  <2> QED
    BY <2>2, <2>3
<1> QED
  BY <1>4, <1>5

\* axpby3.
LEMMA AxpbyDoes ==
  ASSUME NEW x \in Buffers, NEW y \in Buffers, NEW a,
         NEW op, op = Kernel("axpby3", {x}, {y}, [x |-> x, a |-> a, y |-> y])
  PROVE  /\ Local(op)
         /\ \A m : Memory(m) =>
              With(Step(m, op), m, y, [i \in DOMAIN m[y] |-> Scaled(a, m[x][i])])
PROOF
<1>1. /\ op.do = "axpby3" /\ op.on = "compute" /\ op.reads = {x} /\ op.writes = {y}
      /\ op.args.x = x /\ op.args.y = y /\ op.args.a = a
  BY DEF Kernel
<1>2. Replaces(op, y)
  BY <1>1, Zenon DEF Replaces, Data, Streams
<1>3. \A n : Written(n, op) = [i \in DOMAIN n[y] |-> Scaled(a, n[x][i])]
  BY <1>1, Zenon DEF Written
<1>4. ASSUME NEW n, NEW k, Agree(n, k, op) PROVE Written(n, op) = Written(k, op)
  <2>1. n[x] = k[x] /\ n[y] = k[y]
    BY <1>1, <1>4, Zenon DEF Agree, Touched
  <2> QED
    BY <1>3, <2>1, Zenon
<1>5. Local(op)
  BY <1>2, <1>4, LocalIf
<1>6. ASSUME NEW m, Memory(m) PROVE With(Step(m, op), m, y, Written(m, op))
  BY <1>2, <1>5, <1>6, ReplacesOne
<1> QED
  BY <1>3, <1>5, <1>6, Zenon

\* The product kernel.
LEMMA SpmmvDoes ==
  ASSUME NEW x \in Buffers, NEW y \in Buffers, NEW w,
         NEW op, op = Kernel("spmmv", {x}, {y}, [x |-> x, y |-> y, w |-> w])
  PROVE  /\ Local(op)
         /\ \A m : Memory(m) =>
              With(Step(m, op), m, y,
                   [i \in DOMAIN m[y] |-> IF InColumns(i, w) THEN Product(m, x, i) ELSE m[y][i]])
PROOF
<1>1. /\ op.do = "spmmv" /\ op.on = "compute" /\ op.reads = {x} /\ op.writes = {y}
      /\ op.args.x = x /\ op.args.y = y /\ op.args.w = w
  BY DEF Kernel
<1>2. Replaces(op, y)
  BY <1>1, Zenon DEF Replaces, Data, Streams
<1>3. \A n : Written(n, op) =
        [i \in DOMAIN n[y] |-> IF InColumns(i, w) THEN Product(n, x, i) ELSE n[y][i]]
  BY <1>1, Zenon DEF Written
<1>4. ASSUME NEW n, NEW k, Agree(n, k, op) PROVE Written(n, op) = Written(k, op)
  <2>1. n[x] = k[x] /\ n[y] = k[y]
    BY <1>1, <1>4, Zenon DEF Agree, Touched
  <2>2. \A i : Product(n, x, i) = Product(k, x, i)
    BY <2>1 DEF Product, ColumnOf
  <2> QED
    <3> DEFINE F(g, i) == IF InColumns(i, w) THEN Product(g, x, i) ELSE g[y][i]
    <3>1. \A i : F(n, i) = F(k, i)
      BY <2>1, <2>2
    <3>2. Written(n, op) = [i \in DOMAIN n[y] |-> F(n, i)] /\ Written(k, op) = [i \in DOMAIN k[y] |-> F(k, i)]
      BY <1>3, Zenon
    <3> HIDE DEF F
    <3> QED
      BY <2>1, <3>1, <3>2
<1>5. Local(op)
  BY <1>2, <1>4, LocalIf
<1>6. ASSUME NEW m, Memory(m) PROVE With(Step(m, op), m, y, Written(m, op))
  BY <1>2, <1>5, <1>6, ReplacesOne
<1> QED
  BY <1>3, <1>5, <1>6, Zenon

\* The Clenshaw kernel.
LEMMA ChebfdDoes ==
  ASSUME NEW x \in Buffers, NEW y \in Buffers, NEW r \in Buffers, NEW q, q = None \/ q \in Buffers,
         NEW f, NEW cQ, NEW cR, NEW w, NEW op, op = Chebfd(x, f, q, cQ, y, r, cR, w)
  PROVE  /\ Local(op)
         /\ \A m : Memory(m) =>
              With(Step(m, op), m, y, [i \in DOMAIN m[y] |->
                      IF InColumns(i, w) THEN ChebfdValue(m, op.args, i) ELSE m[y][i]])
PROOF
<1>1. /\ op.do = "chebfd" /\ op.on = "compute" /\ op.writes = {y}
      /\ op.reads = {x, r} \cup (IF q = None THEN {} ELSE {q})
      /\ op.args.x = x /\ op.args.y = y /\ op.args.r = r /\ op.args.q = q /\ op.args.w = w
  BY DEF Kernel, Chebfd
<1>2. Replaces(op, y)
  BY <1>1 DEF Replaces, Data, Streams
<1>3. \A n : Written(n, op) =
        [i \in DOMAIN n[y] |-> IF InColumns(i, w) THEN ChebfdValue(n, op.args, i) ELSE n[y][i]]
  BY <1>1 DEF Written
<1>4. ASSUME NEW n, NEW k, Agree(n, k, op) PROVE Written(n, op) = Written(k, op)
  <2>1. n[x] = k[x] /\ n[y] = k[y] /\ n[r] = k[r] /\ (q # None => n[q] = k[q])
    BY <1>1, <1>4 DEF Agree, Touched
  <2>2. \A i : Product(n, x, i) = Product(k, x, i)
    BY <2>1 DEF Product, ColumnOf
  <2>3. \A i : ChebfdValue(n, op.args, i) = ChebfdValue(k, op.args, i)
    BY <1>1, <2>1, <2>2 DEF ChebfdValue
  <2> QED
    BY <1>3, <2>1, <2>3
<1>5. Local(op)
  BY <1>2, <1>4, LocalIf
<1>6. ASSUME NEW m, Memory(m) PROVE With(Step(m, op), m, y, Written(m, op))
  BY <1>2, <1>5, <1>6, ReplacesOne
<1> QED
  BY <1>3, <1>5, <1>6, Zenon

\* Marks and synchronisations leave memory as it is.
LEMMA MarkDoes ==
  ASSUME NEW op, op.do \notin {"legacy", "readback"}, ~Data(op)
  PROVE  Local(op) /\ \A m : Step(m, op) = m
PROOF
  BY DEF Local, HostWork, Step

(***************************************************************************)
(* What is true of memory along a program.  A claim is a record that tells *)
(* what memory is like at one place of a pass.                             *)
(***************************************************************************)

Cells == 0 .. (ctx.vecRows * ctx.nb) - 1
HostCells == 0 .. (ctx.vecRows * ctx.NS) - 1
ChunkCells == 0 .. (ctx.chunkRows * ctx.NS) - 1

\* No cell of a column block is what the allocator left, and each buffer has its size.
Calm(m) ==
  /\ Memory(m)
  /\ \A b \in Scratch : DOMAIN m[b] = Cells /\ \A i \in Cells : m[b][i].name # <<"poison">>
  /\ \A b \in HostArrays : DOMAIN m[b] = HostCells
  /\ \A b \in Chunks : DOMAIN m[b] = ChunkCells
  /\ IsProgram(m[Partial])

\* Column x of buffer b, in rows of n, is p(A') of column col of the block the caller gave.
Column(m, b, n, x, id, col, p) == \A r \in Rows : m[b][(r * n) + x] = Value(<<Y, id, r, col>>, p)

\* Column x of block i, of the m columns there are.
OfBlock(c, i, x) == i \in Nat /\ x \in 0 .. ctx.nb - 1 /\ (i * ctx.nb) + x < c.m
ColArray(c) == IF c.op = "filter" THEN Y ELSE AY
ColSlots(c) == IF c.op = "filter" THEN InSlot ELSE OutSlot

\* A pass over columns: the first d.dr blocks are back on the host, the first d.ld
\* computed, and the buffers of d.has hold the columns of the next one.
ColumnPass(m, d) ==
  LET c == d.c
      At(i, x) == (i * ctx.nb) + x
  IN /\ \A i, x : OfBlock(c, i, x) /\ (c.op = "spmmv" \/ d.dr <= i) =>
          Column(m, Y, c.m, At(i, x), c.id, At(i, x), Monomial(0))
     /\ \A i, x : OfBlock(c, i, x) /\ i < d.dr =>
          Column(m, ColArray(c), c.m, At(i, x), c.id, At(i, x), d.res)
     /\ \A i, x : OfBlock(c, i, x) /\ d.dr <= i /\ i < d.ld =>
          Column(m, ColSlots(c)[i % NSLOT], ctx.nb, x, c.id, At(i, x), d.res)
     /\ \A b \in DOMAIN d.has : \A x : OfBlock(c, d.ld, x) =>
          Column(m, b, ctx.nb, x, c.id, At(d.ld, x), d.has[b])

\* Row q of chunk i, of the rows there are.
OfChunk(i, q) == i \in Nat /\ q \in 0 .. ctx.chunkRows - 1 /\ (i * ctx.chunkRows) + q < ctx.vecRows
RowArrays(c) == IF c.op = "ritz" \/ (c.op = "gram" /\ c.useB) THEN {Y, AY} ELSE {Y}
Second(c) == IF c.op = "ritz" \/ (c.op = "gram" /\ c.useB) THEN AY ELSE Y
MatrixOf(c) == IF c.op = "update" THEN <<"B", c.id, c.m, c.out>> ELSE <<"evec", c.id, c.m, c.m>>
SumIn(c) == IF c.op = "gram" THEN G ELSE Res2

\* Row r of array a has these names, and the sums of its pass these terms.
NamesOf(a, id, r, n) == [j \in 1 .. n |-> <<a, id, r, j - 1>>]
TermOf(c, r) ==
  <<NamesOf(Y, c.id, r, c.m), NamesOf(Second(c), c.id, r, c.m),
    IF c.op = "ritz" THEN {MatrixOf(c)} ELSE {}>>
TermsTo(c, n) == {TermOf(c, r) : r \in {z \in Rows : z < n * ctx.chunkRows}}

\* Row q of buffer b, in rows of n, is row r of array a, or that of the update.
RowIs(m, b, q, n, a, id, r) == \A j \in 0 .. n - 1 : m[b][(q * n) + j].name = <<a, id, r, j>>
NewEntry(c, r, x) == Value(<<"dot", NamesOf(Y, c.id, r, c.m), MatrixOf(c), x>>, Monomial(0))
NewRow(m, b, q, c, r) == \A x \in 0 .. c.out - 1 : m[b][(q * c.out) + x] = NewEntry(c, r, x)

\* The rows not yet written back are as they were given; those written back are new.
InRows(m, c, j) ==
  \A a \in RowArrays(c) : \A r \in Rows :
    (c.op = "update" => j * ctx.chunkRows <= r) => RowIs(m, a, r, c.m, a, c.id, r)
NewRows(m, c, j) ==
  c.op = "update" => \A r \in Rows : r < j * ctx.chunkRows => NewRow(m, Y, r, c, r)

\* The chunks from j to l - 1 are in their slots.
OutRows(m, c, j, l) ==
  c.op = "update" => \A i, q : OfChunk(i, q) /\ j <= i /\ i < l =>
    NewRow(m, RO(i % NSLOT), q, c, (i * ctx.chunkRows) + q)

\* The buffers of h hold the rows of chunk l, the partial buffer the terms of its groups g.
LoadedRows(m, c, l, h) ==
  \A b \in DOMAIN h : \A q : OfChunk(l, q) =>
    RowIs(m, b, q, c.m, h[b], c.id, (l * ctx.chunkRows) + q)
PartRows(m, c, l, g) ==
  \A z \in 1 .. Len(g) : m[Partial][z] = {TermOf(c, (l * ctx.chunkRows) + q) : q \in g[z]}

\* A pass over rows: the first d.dr chunks are back on the host, the first d.ld computed,
\* the next one is where d.has and d.groups tell; the matrix is there, and the sum, if
\* d.mat and d.acc.
RowsPass(m, d) ==
  /\ InRows(m, d.c, d.dr) /\ NewRows(m, d.c, d.dr) /\ OutRows(m, d.c, d.dr, d.ld)
  /\ LoadedRows(m, d.c, d.ld, d.has) /\ PartRows(m, d.c, d.ld, d.groups)
  /\ d.mat => m[B] = MatrixOf(d.c)
  /\ d.acc => m[SumIn(d.c)] = SetToBag(TermsTo(d.c, d.ld))

\* The sum a pass over rows ends with.
Summed(c) == IF c.op = "ritz" /\ c.out < 1 THEN EmptyBag ELSE SetToBag({TermOf(c, r) : r \in Rows})

Holds(m, d) ==
  /\ Calm(m)
  /\ d.pass = "columns" => ColumnPass(m, d)
  /\ d.pass = "rows" => RowsPass(m, d)
  /\ d.pass = "result" => m[Result] = Summed(d.c)

\* The operation takes the one claim to the other, and the program.
Fits(d, op, e) == Local(op) /\ \A m : Holds(m, d) => Holds(Step(m, op), e)
Proved(p, D) == IsProgram(p) /\ \A j \in 1 .. Len(p) : Fits(D[j - 1], p[j], D[j])
Leads(p, d, e) == \E D : Proved(p, D) /\ D[0] = d /\ D[Len(p)] = e

\* One program behind the other.
LEMMA LeadsOn ==
  ASSUME NEW a, NEW b, NEW d, NEW e, NEW f, Leads(a, d, e), Leads(b, e, f)
  PROVE  Leads(a \o b, d, f)
PROOF
<1>1. PICK D : Proved(a, D) /\ D[0] = d /\ D[Len(a)] = e
  BY DEF Leads
<1>2. PICK E : Proved(b, E) /\ E[0] = e /\ E[Len(b)] = f
  BY DEF Leads
<1> DEFINE c == a \o b
           n == Len(a)
           k == Len(b)
<1>3. PICK S, T : a \in Seq(S) /\ b \in Seq(T)
  BY <1>1, <1>2, Zenon DEF Proved, IsProgram
<1>4. /\ c \in Seq(S \cup T)
      /\ n \in Nat /\ k \in Nat /\ Len(c) = n + k
      /\ \A i \in 1 .. n : c[i] = a[i]
      /\ \A i \in 1 .. k : c[n + i] = b[i]
  BY <1>3, Joined
<1>5. IsProgram(c)
  BY <1>4, Zenon DEF IsProgram
<1>6. /\ \A i \in 1 .. n : Fits(D[i - 1], a[i], D[i])
      /\ \A i \in 1 .. k : Fits(E[i - 1], b[i], E[i])
      /\ D[0] = d /\ D[n] = e /\ E[0] = e /\ E[k] = f
  BY <1>1, <1>2 DEF Proved
<1> HIDE DEF c, n, k
<1> DEFINE F == [i \in 0 .. n + k |-> IF i <= n THEN D[i] ELSE E[i - n]]
<1>7. \A i \in 0 .. n : F[i] = D[i]
  BY <1>4
<1>8. \A i \in 0 .. k : F[n + i] = E[i]
  <2>1. SUFFICES ASSUME NEW i \in 0 .. k PROVE F[n + i] = E[i]
    OBVIOUS
  <2>2. CASE i = 0
    <3>1. n + i = n /\ n \in 0 .. n
      BY <1>4, <2>2
    <3> HIDE DEF F
    <3> QED
      BY <1>6, <1>7, <2>2, <3>1
  <2>3. CASE i # 0
    <3>1. n + i \in 0 .. n + k /\ ~(n + i <= n) /\ (n + i) - n = i
      BY <1>4, <2>3
    <3> QED
      BY <3>1
  <2> QED
    BY <2>2, <2>3
<1> HIDE DEF F
<1>9. ASSUME NEW i \in 1 .. Len(c) PROVE Fits(F[i - 1], c[i], F[i])
  <2>1. CASE i \in 1 .. n
    <3>1. i - 1 \in 0 .. n /\ i \in 0 .. n
      BY <1>4, <2>1
    <3>2. F[i - 1] = D[i - 1] /\ F[i] = D[i] /\ c[i] = a[i]
      BY <1>4, <1>7, <2>1, <3>1
    <3>3. Fits(D[i - 1], a[i], D[i])
      BY <1>6, <2>1
    <3> QED
      BY <3>2, <3>3
  <2>2. CASE i \notin 1 .. n
    <3>1. PICK j \in 1 .. k : i = n + j /\ j - 1 \in 0 .. k /\ i - 1 = n + (j - 1) /\ j \in 0 .. k
      <4>1. i - n \in 1 .. k /\ i = n + (i - n) /\ (i - n) - 1 \in 0 .. k
            /\ i - 1 = n + ((i - n) - 1) /\ i - n \in 0 .. k
        BY <1>4, <2>2
      <4> QED
        BY <4>1
    <3>2. F[i - 1] = E[j - 1] /\ F[i] = E[j] /\ c[i] = b[j]
      BY <1>4, <1>8, <3>1
    <3>3. Fits(E[j - 1], b[j], E[j])
      BY <1>6
    <3> QED
      BY <3>2, <3>3
  <2> QED
    BY <2>1, <2>2
<1>10. F[0] = d /\ F[Len(c)] = f
  <2>1. 0 \in 0 .. n /\ k \in 0 .. k
    BY <1>4
  <2> QED
    BY <1>4, <1>6, <1>7, <1>8, <2>1
<1>11. Proved(c, F)
  BY <1>5, <1>9 DEF Proved
<1> QED
  BY <1>10, <1>11, Zenon DEF Leads, c

\* Operations that keep a claim, and a single one.
LEMMA LeadsKept ==
  ASSUME NEW p, IsProgram(p), NEW d, \A i \in 1 .. Len(p) : Fits(d, p[i], d)
  PROVE  Leads(p, d, d)
PROOF
<1> DEFINE D == [i \in 0 .. Len(p) |-> d]
<1>1. Len(p) \in Nat
  BY ProgramLength
<1>2. D[0] = d /\ D[Len(p)] = d /\ \A i \in 1 .. Len(p) : D[i - 1] = d /\ D[i] = d
  BY <1>1
<1> HIDE DEF D
<1>3. Proved(p, D)
  BY <1>2 DEF Proved
<1> QED
  BY <1>2, <1>3 DEF Leads

\* A program of one operation.
LEMMA LeadsOne ==
  ASSUME NEW op, NEW d, NEW e, Fits(d, op, e)
  PROVE  Leads(<<op>>, d, e)
PROOF
<1> DEFINE D == [i \in 0 .. 1 |-> IF i = 0 THEN d ELSE e]
<1>1. D[0] = d /\ D[1] = e
  OBVIOUS
<1> HIDE DEF D
<1>2. IsProgram(<<op>>) /\ Len(<<op>>) = 1 /\ <<op>>[1] = op
  BY OneStep
<1>3. PICK p : p = <<op>>
  BY Zenon
<1>4. \A i \in 1 .. Len(p) : i = 1 /\ i - 1 = 0
  BY <1>2, <1>3
<1>5. Fits(D[0], op, D[1])
  BY <1>1
<1>6. Proved(p, D)
  BY <1>2, <1>3, <1>4, <1>5 DEF Proved
<1>7. Leads(p, d, e)
  BY <1>1, <1>2, <1>3, <1>6 DEF Leads
<1> QED
  BY <1>3, <1>7

\* Two operations.
LEMMA LeadsTwo ==
  ASSUME NEW x, NEW y, NEW d, NEW e, NEW f, Fits(d, x, e), Fits(e, y, f)
  PROVE  Leads(<<x, y>>, d, f)
PROOF
<1>1. Leads(<<x>>, d, e) /\ Leads(<<y>>, e, f)
  BY LeadsOne
<1>2. Leads(<<x>> \o <<y>>, d, f)
  BY <1>1, LeadsOn
<1>3. <<x>> \o <<y>> = <<x, y>>
  BY PairOf
<1> QED
  BY <1>2, <1>3, Zenon

\* As many programs as there are, one behind the other.
LEMMA LeadsAll ==
  ASSUME NEW m \in Nat, NEW S, NEW p \in [1 .. m -> S], NEW at,
         \A i \in 1 .. m : Leads(p[i], at[i - 1], at[i])
  PROVE  Leads(FlattenSeq(p), at[0], at[m])
PROOF
<1>1. p \in Seq(S) /\ Len(p) = m
  BY LengthOf
<1>2. CASE m = 0
  <2>1. FlattenSeq(p) = p
    BY <1>1, <1>2 DEF FlattenSeq
  <2>2. IsProgram(p) /\ \A i \in 1 .. Len(p) : Fits(at[0], p[i], at[0])
    BY <1>1, <1>2 DEF IsProgram
  <2> QED
    BY <1>2, <2>1, <2>2, LeadsKept
<1>3. CASE m # 0
  <2> DEFINE Is(g) == g = [i \in 1 .. m |-> IF i = 1 THEN p[i] ELSE g[i - 1] \o p[i]]
             f == CHOOSE g : Is(g)
  <2>1. FlattenSeq(p) = f[m]
    <3>1. FlattenSeq(p) = (CHOOSE g : g = [i \in 1 .. Len(p) |->
                                           IF i = 1 THEN p[i] ELSE g[i - 1] \o p[i]])[Len(p)]
      BY <1>1, <1>3, Zenon DEF FlattenSeq
    <3> QED
      BY <1>1, <3>1, Zenon
  <2>2. Is(f)
    BY Flattening, Zenon
  <2> HIDE DEF f
  <2>3. \A i \in 1 .. m : f[i] = IF i = 1 THEN p[i] ELSE f[i - 1] \o p[i]
    BY <2>2, Zenon
  <2> DEFINE Bad == {i \in 1 .. m : ~ Leads(f[i], at[0], at[i])}
  <2>4. SUFFICES ASSUME Bad # {} PROVE FALSE
    BY <1>3, <2>1
  <2>5. PICK j \in Bad : \A y \in Bad : j <= y
    <3>1. \A i \in Bad : i \in Nat
      OBVIOUS
    <3> QED
      BY <2>4, <3>1, LeastOf, Zenon
  <2>6. Leads(p[j], at[j - 1], at[j])
    BY <2>5
  <2>7. j # 1
    <3>1. SUFFICES ASSUME j = 1 PROVE FALSE
      OBVIOUS
    <3>2. f[j] = p[j] /\ j - 1 = 0
      BY <2>3, <2>5, <3>1
    <3> QED
      BY <2>5, <2>6, <3>2
  <2>8. j - 1 \in 1 .. m /\ j - 1 \notin Bad
    BY <2>5, <2>7
  <2>9. Leads(f[j - 1], at[0], at[j - 1])
    BY <2>8
  <2>10. f[j] = f[j - 1] \o p[j]
    BY <2>3, <2>5, <2>7, Zenon
  <2>11. Leads(f[j - 1] \o p[j], at[0], at[j])
    BY <2>6, <2>9, LeadsOn
  <2> QED
    BY <2>5, <2>10, <2>11, Zenon
<1> QED
  BY <1>2, <1>3

\* What the claims say is true of the run.
LEMMA RunHolds ==
  ASSUME NEW p, NEW D, Proved(p, D), NEW n \in 0 .. Len(p), NEW M, RunTo(p, n, M), Holds(M[0], D[0])
  PROVE  \A j \in 0 .. n : Holds(M[j], D[j])
PROOF
<1>0. Len(p) \in Nat /\ n \in Nat
  BY ProgramLength DEF Proved
<1> DEFINE T == {j \in 0 .. n : ~Holds(M[j], D[j])}
<1>1. SUFFICES ASSUME T # {} PROVE FALSE
  OBVIOUS
<1>2. T \subseteq Nat
  OBVIOUS
<1>3. PICK x \in T : \A y \in T : x <= y
  <2> HIDE DEF T
  <2> QED
    BY <1>1, <1>2, LeastOf, Zenon
<1>4. x \in 0 .. n /\ ~Holds(M[x], D[x]) /\ x # 0
  OBVIOUS
<1>5. x \in 1 .. n /\ x \in 1 .. Len(p) /\ x - 1 \in 0 .. n /\ ~(x <= x - 1)
  BY <1>0, <1>4
<1>6. Holds(M[x - 1], D[x - 1])
  BY <1>3, <1>5
<1>7. M[x] = Step(M[x - 1], p[x])
  BY <1>5 DEF RunTo
<1>8. Fits(D[x - 1], p[x], D[x])
  BY <1>5 DEF Proved
<1> QED
  BY <1>4, <1>6, <1>7, <1>8 DEF Fits


(***************************************************************************)
(* Passes over columns: one operation at a time.                           *)
(***************************************************************************)

ColDesc(c, j, l, h, p) == [pass |-> "columns", c |-> c, dr |-> j, ld |-> l, has |-> h, res |-> p]
NoColumns == [b \in {} |-> ZeroPoly]

ColumnsOK(c) ==
  /\ ContextOK /\ ctx.NS \in Nat /\ c.op \in {"filter", "spmmv"} /\ c.m \in 1 .. ctx.NS

\* In buffer y, op leaves q of the columns of the next block.
Gives(d, op, y, q) ==
  /\ Local(op) /\ y \in Scratch
  /\ \A m : Holds(m, d) =>
       /\ Calm(Step(m, op)) /\ \A b \in Buffers : b # y => Step(m, op)[b] = m[b]
       /\ \A x : OfBlock(d.c, d.ld, x) =>
            Column(Step(m, op), y, ctx.nb, x, d.c.id, (d.ld * ctx.nb) + x, q)

\* The fields of a claim.
LEMMA ColDescOf ==
  ASSUME NEW c, NEW j, NEW l, NEW h, NEW p
  PROVE  LET d == ColDesc(c, j, l, h, p)
         IN d.pass = "columns" /\ d.c = c /\ d.dr = j /\ d.ld = l /\ d.has = h /\ d.res = p
PROOF
  BY DEF ColDesc

\* The slots of the results are scratch, and one block has the one, the next the other.
LEMMA SlotsOfColumns ==
  ASSUME NEW c, NEW i \in Nat
  PROVE  /\ i % NSLOT \in Slots
         /\ ColSlots(c)[i % NSLOT] \in Scratch
         /\ ColSlots(c)[i % NSLOT] # ColSlots(c)[(i + 1) % NSLOT]
         /\ c.op = "filter" => ColSlots(c)[i % NSLOT] = X(i % NSLOT)
         /\ c.op = "spmmv" => ColSlots(c)[i % NSLOT] = OutSlot[i % NSLOT]
         /\ Scratch \subseteq Buffers /\ Scratch \cap HostArrays = {}
PROOF
<1>1. i % NSLOT \in Slots /\ (i + 1) % NSLOT \in Slots /\ i % NSLOT # (i + 1) % NSLOT
  BY DEF NSLOT, Slots
<1>2. /\ \A k \in Slots : k = 0 \/ k = 1
      /\ X(0) # X(1) /\ U # W
  BY DEF Slots, NSLOT, X, U, W
<1>3. \A k \in Slots : InSlot[k] = X(k) /\ OutSlot[k] = IF k = 0 THEN U ELSE W
  BY DEF InSlot, OutSlot
<1>4. Scratch \subseteq Buffers /\ Scratch \cap HostArrays = {}
  BY DEF Scratch, Buffers, HostArrays, X, U, W, Y, AY
<1> QED
  BY <1>1, <1>2, <1>3, <1>4 DEF ColSlots, Scratch

\* A buffer that is left keeps its columns.
LEMMA ColumnKept ==
  ASSUME NEW m, NEW n, NEW b, n[b] = m[b], NEW k, NEW x, NEW id, NEW col, NEW p,
         Column(m, b, k, x, id, col, p)
  PROVE  Column(n, b, k, x, id, col, p)
PROOF
  BY DEF Column

\* What was computed before is left as it is.
LEMMA WorkFits ==
  ASSUME NEW c, ColumnsOK(c), NEW j \in Nat, NEW l \in Nat, NEW h, DOMAIN h \subseteq Scratch, NEW p,
         NEW op, NEW y, NEW q, Gives(ColDesc(c, j, l, h, p), op, y, q),
         \A i \in j .. l - 1 : y # ColSlots(c)[i % NSLOT],
         NEW h2, \A b \in DOMAIN h2 : \/ b = y /\ h2[b] = q
                                      \/ b # y /\ b \in DOMAIN h /\ h2[b] = h[b]
  PROVE  Fits(ColDesc(c, j, l, h, p), op, ColDesc(c, j, l, h2, p))
PROOF
<1> DEFINE d == ColDesc(c, j, l, h, p)
           e == ColDesc(c, j, l, h2, p)
<1>1. /\ d.pass = "columns" /\ d.c = c /\ d.dr = j /\ d.ld = l /\ d.has = h /\ d.res = p
      /\ e.pass = "columns" /\ e.c = c /\ e.dr = j /\ e.ld = l /\ e.has = h2 /\ e.res = p
  BY ColDescOf
<1> HIDE DEF d, e
<1>2. SUFFICES ASSUME NEW m, Holds(m, d) PROVE Holds(Step(m, op), e)
  BY DEF Fits, Gives, d, e
<1> DEFINE n == Step(m, op)
<1>3. /\ Calm(n) /\ \A b \in Buffers : b # y => n[b] = m[b]
      /\ \A x : OfBlock(c, l, x) => Column(n, y, ctx.nb, x, c.id, (l * ctx.nb) + x, q)
      /\ y \in Scratch
  BY <1>1, <1>2 DEF Gives, d
<1>4. ColumnPass(m, d)
  BY <1>1, <1>2 DEF Holds
<1> HIDE DEF n
<1>5. Scratch \subseteq Buffers /\ HostArrays \subseteq Buffers /\ Y # y /\ AY # y
      /\ Y \in Buffers /\ AY \in Buffers /\ ColArray(c) \in {Y, AY}
  BY <1>3 DEF Scratch, Buffers, HostArrays, X, U, W, Y, AY, ColArray
<1>6. ASSUME NEW i, NEW x, OfBlock(c, i, x), c.op = "spmmv" \/ j <= i
      PROVE  Column(n, Y, c.m, (i * ctx.nb) + x, c.id, (i * ctx.nb) + x, Monomial(0))
  <2>1. Column(m, Y, c.m, (i * ctx.nb) + x, c.id, (i * ctx.nb) + x, Monomial(0))
    BY <1>1, <1>4, <1>6 DEF ColumnPass
  <2> QED
    BY <1>3, <1>5, <2>1, ColumnKept, ZenonT(30)
<1>7. ASSUME NEW i, NEW x, OfBlock(c, i, x), i < j
      PROVE  Column(n, ColArray(c), c.m, (i * ctx.nb) + x, c.id, (i * ctx.nb) + x, p)
  <2>1. Column(m, ColArray(c), c.m, (i * ctx.nb) + x, c.id, (i * ctx.nb) + x, p)
    BY <1>1, <1>4, <1>7 DEF ColumnPass
  <2>2. n[ColArray(c)] = m[ColArray(c)]
    BY <1>3, <1>5
  <2> QED
    BY <2>1, <2>2, ColumnKept
<1>8. ASSUME NEW i, NEW x, OfBlock(c, i, x), j <= i, i < l
      PROVE  Column(n, ColSlots(c)[i % NSLOT], ctx.nb, x, c.id, (i * ctx.nb) + x, p)
  <2>1. Column(m, ColSlots(c)[i % NSLOT], ctx.nb, x, c.id, (i * ctx.nb) + x, p)
    BY <1>1, <1>4, <1>8 DEF ColumnPass
  <2>2. i \in Nat /\ i \in j .. l - 1
    BY <1>8 DEF OfBlock
  <2>3. ColSlots(c)[i % NSLOT] \in Buffers /\ ColSlots(c)[i % NSLOT] # y
    BY <1>5, <2>2, SlotsOfColumns
  <2>4. n[ColSlots(c)[i % NSLOT]] = m[ColSlots(c)[i % NSLOT]]
    BY <1>3, <2>3
  <2> QED
    BY <2>1, <2>4, ColumnKept
<1>9. ASSUME NEW b \in DOMAIN h2, NEW x, OfBlock(c, l, x)
      PROVE  Column(n, b, ctx.nb, x, c.id, (l * ctx.nb) + x, h2[b])
  <2>1. CASE b = y /\ h2[b] = q
    BY <1>3, <1>9, <2>1
  <2>2. CASE b # y /\ b \in DOMAIN h /\ h2[b] = h[b]
    <3>1. Column(m, b, ctx.nb, x, c.id, (l * ctx.nb) + x, h[b])
      BY <1>1, <1>4, <1>9, <2>2 DEF ColumnPass
    <3>2. n[b] = m[b]
      BY <1>3, <1>5, <2>2
    <3>3. Column(n, b, ctx.nb, x, c.id, (l * ctx.nb) + x, h[b])
      BY <3>1, <3>2, ColumnKept
    <3> QED
      BY <2>2, <3>3
  <2> QED
    BY <2>1, <2>2
<1>10. ColumnPass(n, e)
  BY <1>1, <1>6, <1>7, <1>8, <1>9 DEF ColumnPass
<1> QED
  BY <1>1, <1>3, <1>10 DEF Holds, n

\* The last operation on a block leaves its result.
LEMMA FinishFits ==
  ASSUME NEW c, ColumnsOK(c), NEW j \in Nat, NEW l \in Nat, l <= j + 1, NEW h, NEW p,
         NEW op, NEW y, Gives(ColDesc(c, j, l, h, p), op, y, p), y = ColSlots(c)[l % NSLOT]
  PROVE  Fits(ColDesc(c, j, l, h, p), op, ColDesc(c, j, l + 1, NoColumns, p))
PROOF
<1> DEFINE d == ColDesc(c, j, l, h, p)
           e == ColDesc(c, j, l + 1, NoColumns, p)
<1>1. /\ d.pass = "columns" /\ d.c = c /\ d.dr = j /\ d.ld = l /\ d.has = h /\ d.res = p
      /\ e.pass = "columns" /\ e.c = c /\ e.dr = j /\ e.ld = l + 1 /\ e.has = NoColumns /\ e.res = p
  BY ColDescOf
<1> HIDE DEF d, e
<1>2. SUFFICES ASSUME NEW m, Holds(m, d) PROVE Holds(Step(m, op), e)
  BY DEF Fits, Gives, d, e
<1> DEFINE n == Step(m, op)
<1>3. /\ Calm(n) /\ \A b \in Buffers : b # y => n[b] = m[b]
      /\ \A x : OfBlock(c, l, x) => Column(n, y, ctx.nb, x, c.id, (l * ctx.nb) + x, p)
      /\ y \in Scratch
  BY <1>1, <1>2 DEF Gives, d
<1>4. ColumnPass(m, d)
  BY <1>1, <1>2 DEF Holds
<1> HIDE DEF n
<1>5. Scratch \subseteq Buffers /\ HostArrays \subseteq Buffers /\ Y # y /\ AY # y
      /\ Y \in Buffers /\ AY \in Buffers /\ ColArray(c) \in {Y, AY}
  BY <1>3 DEF Scratch, Buffers, HostArrays, X, U, W, Y, AY, ColArray
<1>6. ASSUME NEW i, NEW x, OfBlock(c, i, x), c.op = "spmmv" \/ j <= i
      PROVE  Column(n, Y, c.m, (i * ctx.nb) + x, c.id, (i * ctx.nb) + x, Monomial(0))
  <2>1. Column(m, Y, c.m, (i * ctx.nb) + x, c.id, (i * ctx.nb) + x, Monomial(0))
    BY <1>1, <1>4, <1>6 DEF ColumnPass
  <2> QED
    BY <1>3, <1>5, <2>1, ColumnKept
<1>7. ASSUME NEW i, NEW x, OfBlock(c, i, x), i < j
      PROVE  Column(n, ColArray(c), c.m, (i * ctx.nb) + x, c.id, (i * ctx.nb) + x, p)
  <2>1. Column(m, ColArray(c), c.m, (i * ctx.nb) + x, c.id, (i * ctx.nb) + x, p)
    BY <1>1, <1>4, <1>7 DEF ColumnPass
  <2>2. n[ColArray(c)] = m[ColArray(c)]
    BY <1>3, <1>5
  <2> QED
    BY <2>1, <2>2, ColumnKept
<1>8. ASSUME NEW i, NEW x, OfBlock(c, i, x), j <= i, i < l + 1
      PROVE  Column(n, ColSlots(c)[i % NSLOT], ctx.nb, x, c.id, (i * ctx.nb) + x, p)
  <2>0. i \in Nat /\ (i = l \/ i < l)
    BY <1>8 DEF OfBlock
  <2>1. CASE i = l
    BY <1>3, <1>8, <2>1
  <2>2. CASE i < l
    <3>1. Column(m, ColSlots(c)[i % NSLOT], ctx.nb, x, c.id, (i * ctx.nb) + x, p)
      BY <1>1, <1>4, <1>8, <2>2 DEF ColumnPass
    <3>2. l = i + 1
      BY <1>8, <2>0, <2>2
    <3>3. ColSlots(c)[i % NSLOT] \in Buffers /\ ColSlots(c)[i % NSLOT] # y
      BY <1>5, <2>0, <3>2, SlotsOfColumns
    <3>4. n[ColSlots(c)[i % NSLOT]] = m[ColSlots(c)[i % NSLOT]]
      BY <1>3, <3>3
    <3> QED
      BY <3>1, <3>4, ColumnKept
  <2> QED
    BY <2>0, <2>1, <2>2
<1>9. DOMAIN NoColumns = {}
  BY DEF NoColumns
<1>10. ColumnPass(n, e)
  BY <1>1, <1>6, <1>7, <1>8, <1>9 DEF ColumnPass
<1> QED
  BY <1>1, <1>3, <1>10 DEF Holds, n

\* How wide block l is.
LEMMA WidthOfBlock ==
  ASSUME NEW c, ColumnsOK(c), NEW l \in Nat, l * ctx.nb < c.m,
         NEW w, w = Least(ctx.nb, c.m - l * ctx.nb)
  PROVE  /\ w \in 1 .. ctx.nb /\ l * ctx.nb \in Nat /\ (l * ctx.nb) + w <= c.m
         /\ \A x : OfBlock(c, l, x) <=> x \in 0 .. w - 1
PROOF
<1>1. ctx.nb \in Nat \ {0} /\ c.m \in Nat /\ l * ctx.nb \in Nat
  BY DEF ColumnsOK, ContextOK
<1>2. PICK a \in Nat : a = l * ctx.nb
  BY <1>1
<1>3. w \in 1 .. ctx.nb /\ a + w <= c.m
  BY <1>1, <1>2 DEF Least
<1>4. \A x : OfBlock(c, l, x) <=> x \in 0 .. ctx.nb - 1 /\ a + x < c.m
  BY <1>2 DEF OfBlock
<1>5. \A x \in 0 .. ctx.nb - 1 : a + x < c.m <=> x < w
  BY <1>1, <1>2 DEF Least
<1> QED
  BY <1>1, <1>2, <1>3, <1>4, <1>5

\* The value of an entry is not the allocator's.
LEMMA CalmValue ==
  /\ \A a, b, c, d, p : Value(<<a, b, c, d>>, p).name # <<"poison">>
  /\ \A a, v : v.name # <<"poison">> => Scaled(a, v).name # <<"poison">>
PROOF
<1>1. ASSUME NEW a, NEW b, NEW c, NEW d, NEW p PROVE Value(<<a, b, c, d>>, p).name # <<"poison">>
  <2>1. Value(<<a, b, c, d>>, p).name \in {<<>>, <<a, b, c, d>>}
    BY ValueOf
  <2> QED
    BY <2>1, NamesApart, Zenon
<1>2. ASSUME NEW a, NEW v, v.name # <<"poison">> PROVE Scaled(a, v).name # <<"poison">>
  <2> DEFINE q == Comb(a, v.p, 0, v.p)
  <2>1. Scaled(a, v) = Value(v.name, q)
    BY DEF Scaled
  <2> HIDE DEF q
  <2>2. Value(v.name, q).name \in {<<>>, v.name}
    BY ValueOf
  <2> QED
    BY <1>2, <2>1, <2>2, NamesApart, Zenon
<1> QED
  BY <1>1, <1>2

\* Memory stays calm.
Sized == Scratch \cup HostArrays \cup Chunks

\* A column block, a chunk or a host array is replaced.
LEMMA CalmKept ==
  ASSUME NEW m, Calm(m), NEW n, NEW y \in Sized, NEW v, With(n, m, y, v), DOMAIN v = DOMAIN m[y],
         y \in Scratch => \A i \in Cells : v[i].name # <<"poison">>
  PROVE  Calm(n)
PROOF
<1>1. /\ Memory(n) /\ n[y] = v /\ \A b \in Buffers : b # y => n[b] = m[b]
  BY DEF With
<1>2. /\ Scratch \subseteq Buffers /\ HostArrays \subseteq Buffers /\ Chunks \subseteq Buffers
      /\ Partial \in Buffers /\ Partial \notin Sized
  BY DEF Buffers, Sized, Scratch, HostArrays, Chunks, Partial, X, RA, RB, RO, U, W, Y, AY
<1>3. ASSUME NEW b \in Scratch
      PROVE  DOMAIN n[b] = Cells /\ \A i \in Cells : n[b][i].name # <<"poison">>
  BY <1>1, <1>2 DEF Calm
<1>4. ASSUME NEW b \in HostArrays PROVE DOMAIN n[b] = HostCells
  BY <1>1, <1>2 DEF Calm
<1>5. ASSUME NEW b \in Chunks PROVE DOMAIN n[b] = ChunkCells
  BY <1>1, <1>2 DEF Calm
<1>6. IsProgram(n[Partial])
  <2>1. n[Partial] = m[Partial]
    BY <1>1, <1>2
  <2> QED
    BY <2>1 DEF Calm
<1> QED
  BY <1>1, <1>3, <1>4, <1>5, <1>6 DEF Calm

\* In the buffers that have no cells, too.
LEMMA CalmOtherwise ==
  ASSUME NEW m, Calm(m), NEW n, NEW y \in Buffers \ Sized, NEW v, With(n, m, y, v),
         y = Partial => IsProgram(v)
  PROVE  Calm(n)
PROOF
<1>1. /\ Memory(n) /\ n[y] = v /\ \A b \in Buffers : b # y => n[b] = m[b]
  BY DEF With
<1>2. Sized \subseteq Buffers /\ Partial \in Buffers
  BY DEF Buffers, Sized
<1>3. \A b \in Sized : n[b] = m[b]
  BY <1>1, <1>2
<1>4. IsProgram(n[Partial])
  <2>1. CASE y = Partial
    BY <1>1, <2>1
  <2>2. CASE y # Partial
    <3>1. n[Partial] = m[Partial]
      BY <1>1, <1>2, <2>2
    <3> QED
      BY <3>1 DEF Calm
  <2> QED
    BY <2>1, <2>2
<1>5. ASSUME NEW b \in Scratch
      PROVE  DOMAIN n[b] = Cells /\ \A i \in Cells : n[b][i].name # <<"poison">>
  BY <1>3 DEF Calm, Sized
<1>6. \A b \in HostArrays : DOMAIN n[b] = HostCells
  BY <1>3 DEF Calm, Sized
<1>7. \A b \in Chunks : DOMAIN n[b] = ChunkCells
  BY <1>3 DEF Calm, Sized
<1> QED
  BY <1>1, <1>4, <1>5, <1>6, <1>7 DEF Calm

\* Cell x of row r of a column block.
LEMMA CellIn ==
  ASSUME ContextOK, NEW r \in Rows, NEW x \in 0 .. ctx.nb - 1, NEW i, i = (r * ctx.nb) + x
  PROVE  /\ i \in Cells /\ i \div ctx.nb = r /\ i % ctx.nb = x
         /\ \A w : InColumns(i, w) <=> x < w
PROOF
<1>1. ctx.nb \in Nat \ {0} /\ ctx.vecRows \in Nat \ {0}
  BY DEF ContextOK
<1>2. r \in 0 .. ctx.vecRows - 1 /\ r \in Nat
  BY DEF Rows
<1>3. i \div ctx.nb = r /\ i % ctx.nb = x
  BY <1>1, <1>2, CellOf, Zenon
<1>4. i \in Cells
  <2>1. i \in 0 .. (ctx.vecRows * ctx.nb) - 1
    BY <1>1, <1>2, CellWithin
  <2> QED
    BY <2>1 DEF Cells
<1>5. \A w : InColumns(i, w) <=> x < w
  BY <1>3 DEF InColumns
<1> QED
  BY <1>3, <1>4, <1>5

\* Cell i is cell x of row r.
IsCell(i, r, x) == r \in Rows /\ x \in 0 .. ctx.nb - 1 /\ i = (r * ctx.nb) + x

\* What a kernel gathers there.
LEMMA Gathered ==
  ASSUME ContextOK, NEW r, NEW x, NEW i, IsCell(i, r, x), NEW m, NEW b, NEW id, NEW col, NEW p \in Poly, Column(m, b, ctx.nb, x, id, col, p)
  PROVE  /\ Product(m, b, i) = Value(<<Y, id, r, col>>, Shift(p))
         /\ m[b][i] = Value(<<Y, id, r, col>>, p)
PROOF
<1>0. r \in Rows /\ x \in 0 .. ctx.nb - 1 /\ i = (r * ctx.nb) + x
  BY DEF IsCell
<1>1. ctx.vecRows \in Nat \ {0} /\ i \div ctx.nb = r /\ i % ctx.nb = x
  BY <1>0, CellIn DEF ContextOK
<1>2. \A s \in Rows : m[b][(s * ctx.nb) + x] = Value(<<Y, id, s, col>>, p)
  BY DEF Column
<1>3. ColumnOf(m, b, x) = Values(Y, id, col, p)
  BY <1>2 DEF ColumnOf, Values
<1>4. Applied(ColumnOf(m, b, x), r) = Value(<<Y, id, r, col>>, Shift(p))
  BY <1>0, <1>1, <1>3, ProductOf
<1> QED
  BY <1>0, <1>1, <1>2, <1>4 DEF Product

\* A cell has a row and a column.
LEMMA CellsAre ==
  ASSUME ContextOK, NEW i \in Cells
  PROVE  \E r \in Rows : \E x \in 0 .. ctx.nb - 1 : i = (r * ctx.nb) + x
PROOF
<1>1. ctx.nb \in Nat \ {0} /\ ctx.vecRows \in Nat
  BY DEF ContextOK
<1>2. i \in 0 .. (ctx.vecRows * ctx.nb) - 1
  BY DEF Cells
<1> QED
  BY <1>1, <1>2, CellHas, Zenon DEF Rows

\* A kernel that computes the columns of block l and keeps the others.
LEMMA KernelGives ==
  ASSUME NEW c, ColumnsOK(c), NEW j, NEW l \in Nat, l * ctx.nb < c.m, NEW h, NEW p,
         NEW d, d = ColDesc(c, j, l, h, p),
         NEW w, w = Least(ctx.nb, c.m - l * ctx.nb),
         NEW op, Local(op), NEW y \in Scratch, NEW q,
         \A m : Holds(m, d) => \E v :
           /\ With(Step(m, op), m, y, v) /\ DOMAIN v = DOMAIN m[y]
           /\ \A r \in Rows : \A x \in 0 .. ctx.nb - 1 : v[(r * ctx.nb) + x] =
                IF x < w THEN Value(<<Y, c.id, r, (l * ctx.nb) + x>>, q) ELSE m[y][(r * ctx.nb) + x]
  PROVE  Gives(d, op, y, q)
PROOF
<1>0. ContextOK /\ d.c = c /\ d.ld = l
  BY ColDescOf DEF ColumnsOK
<1>1. SUFFICES ASSUME NEW m, Holds(m, d)
               PROVE  /\ Calm(Step(m, op)) /\ \A b \in Buffers : b # y => Step(m, op)[b] = m[b]
                      /\ \A x : OfBlock(c, l, x) =>
                           Column(Step(m, op), y, ctx.nb, x, c.id, (l * ctx.nb) + x, q)
  BY <1>0 DEF Gives
<1> DEFINE n == Step(m, op)
<1>2. Calm(m) /\ Memory(m) /\ y \in Buffers /\ y \in Sized
  BY <1>1 DEF Holds, Calm, Buffers, Sized
<1>3. PICK v :
        /\ With(n, m, y, v) /\ DOMAIN v = DOMAIN m[y]
        /\ \A r \in Rows : \A x \in 0 .. ctx.nb - 1 : v[(r * ctx.nb) + x] =
             IF x < w THEN Value(<<Y, c.id, r, (l * ctx.nb) + x>>, q) ELSE m[y][(r * ctx.nb) + x]
  BY <1>1
<1>6. \A i \in Cells : v[i].name # <<"poison">>
  <2>1. SUFFICES ASSUME NEW i \in Cells PROVE v[i].name # <<"poison">>
    OBVIOUS
  <2>2. PICK r \in Rows : \E x \in 0 .. ctx.nb - 1 : i = (r * ctx.nb) + x
    BY <1>0, CellsAre
  <2>3. PICK x \in 0 .. ctx.nb - 1 : i = (r * ctx.nb) + x
    BY <2>2
  <2>4. v[i] = Value(<<Y, c.id, r, (l * ctx.nb) + x>>, q) \/ v[i] = m[y][i]
    BY <1>3, <2>3
  <2> QED
    BY <1>2, <2>4, CalmValue DEF Calm
<1> HIDE DEF n
<1>7. Calm(n)
  BY <1>2, <1>3, <1>6, CalmKept, ZenonT(30)
<1>8. n[y] = v /\ \A b \in Buffers : b # y => n[b] = m[b]
  BY <1>3 DEF With
<1>9. ASSUME NEW x, OfBlock(c, l, x) PROVE Column(n, y, ctx.nb, x, c.id, (l * ctx.nb) + x, q)
  <2>1. x \in 0 .. w - 1 /\ w \in 1 .. ctx.nb
    BY <1>9, WidthOfBlock
  <2>2. x \in 0 .. ctx.nb - 1 /\ x < w
    BY <1>0, <2>1 DEF ContextOK
  <2> QED
    BY <1>3, <1>8, <2>2 DEF Column
<1> QED
  BY <1>7, <1>8, <1>9 DEF n

\* What a claim says of the columns of the next block.
LEMMA WorkOf ==
  ASSUME NEW c, ColumnsOK(c), NEW j, NEW l \in Nat, l * ctx.nb < c.m, NEW h, NEW p,
         NEW m, Holds(m, ColDesc(c, j, l, h, p)), NEW w, w = Least(ctx.nb, c.m - l * ctx.nb)
  PROVE  /\ Memory(m) /\ Calm(m)
         /\ \A b \in DOMAIN h : \A x \in 0 .. w - 1 :
              Column(m, b, ctx.nb, x, c.id, (l * ctx.nb) + x, h[b])
         /\ c.op = "spmmv" \/ j <= l => \A x \in 0 .. w - 1 :
              Column(m, Y, c.m, (l * ctx.nb) + x, c.id, (l * ctx.nb) + x, Monomial(0))
PROOF
<1> DEFINE d == ColDesc(c, j, l, h, p)
<1>1. d.pass = "columns" /\ d.c = c /\ d.dr = j /\ d.ld = l /\ d.has = h /\ d.res = p
  BY ColDescOf
<1> HIDE DEF d
<1>2. Calm(m) /\ ColumnPass(m, d)
  BY <1>1 DEF Holds, d
<1>3. \A x \in 0 .. w - 1 : OfBlock(c, l, x)
  BY WidthOfBlock
<1> QED
  BY <1>1, <1>2, <1>3 DEF ColumnPass, Calm

\* The block of columns is loaded.
LEMMA LoadGives ==
  ASSUME NEW c, ColumnsOK(c), NEW j, NEW l \in Nat, c.op = "spmmv" \/ j <= l,
         l * ctx.nb < c.m, NEW h, NEW p, NEW k \in Slots,
         NEW w, w = Least(ctx.nb, c.m - l * ctx.nb),
         NEW op, op = Copy(X(k), 0, ctx.nb, Y, l * ctx.nb, c.m, w, ctx.vecRows)
  PROVE  Gives(ColDesc(c, j, l, h, p), op, X(k), Monomial(0))
PROOF
<1> DEFINE d == ColDesc(c, j, l, h, p)
           a == l * ctx.nb
<1>1. X(k) \in Scratch /\ X(k) \in Buffers /\ Y \in Buffers
  BY DEF Slots, NSLOT, Scratch, Buffers, HostArrays
<1>2. ctx.nb \in Nat \ {0} /\ ctx.vecRows \in Nat \ {0} /\ c.m \in Nat /\ ContextOK
  BY DEF ColumnsOK, ContextOK
<1>3. w \in 1 .. ctx.nb /\ a \in Nat
  BY WidthOfBlock
<1> HIDE DEF d, a
<1>4. op = Copy(X(k), 0, ctx.nb, Y, a, c.m, w, ctx.vecRows)
  BY DEF a
<1>5. /\ Local(op)
      /\ \A m : Memory(m) =>
           With(Step(m, op), m, X(k), [i \in DOMAIN m[X(k)] |-> CopyValue(m, op, i)])
  BY <1>1, <1>4, CopyDoes
<1>6. ASSUME NEW m, Holds(m, d)
      PROVE  \E v :
        /\ With(Step(m, op), m, X(k), v) /\ DOMAIN v = DOMAIN m[X(k)]
        /\ \A r \in Rows : \A x \in 0 .. ctx.nb - 1 : v[(r * ctx.nb) + x] =
             IF x < w THEN Value(<<Y, c.id, r, (l * ctx.nb) + x>>, Monomial(0))
             ELSE m[X(k)][(r * ctx.nb) + x]
  <2> DEFINE v == [i \in DOMAIN m[X(k)] |-> CopyValue(m, op, i)]
  <2>1. Memory(m) /\ Calm(m)
        /\ \A x \in 0 .. w - 1 : Column(m, Y, c.m, a + x, c.id, a + x, Monomial(0))
    BY <1>6, WorkOf DEF d, a
  <2>2. With(Step(m, op), m, X(k), v) /\ DOMAIN v = DOMAIN m[X(k)]
    BY <1>5, <2>1
  <2>3. ASSUME NEW r \in Rows, NEW x \in 0 .. ctx.nb - 1
        PROVE  v[(r * ctx.nb) + x] = IF x < w THEN Value(<<Y, c.id, r, a + x>>, Monomial(0))
                                     ELSE m[X(k)][(r * ctx.nb) + x]
    <3>1. PICK i : i = (r * ctx.nb) + x
      OBVIOUS
    <3>2. i \in Cells
      BY <1>2, <3>1, CellIn
    <3>3. v[i] = CopyValue(m, op, i)
      BY <1>1, <2>1, <3>2 DEF Calm
    <3> HIDE DEF v
    <3>4. CopyValue(m, op, (r * ctx.nb) + x) =
            IF x \in 0 .. 0 + w - 1 THEN m[Y][a + (r * c.m) + (x - 0)]
            ELSE m[X(k)][(r * ctx.nb) + x]
      <4>1. 0 \in Nat /\ w \in Nat /\ 0 + w <= ctx.nb /\ r \in 0 .. ctx.vecRows - 1
        BY <1>2, <1>3 DEF Rows
      <4> QED
        BY <1>2, <1>3, <1>4, <4>1, CopyOfColumns
    <3>5. x < w => m[Y][(r * c.m) + (a + x)] = Value(<<Y, c.id, r, a + x>>, Monomial(0))
      <4>1. x < w => x \in 0 .. w - 1
        BY <1>3
      <4> QED
        BY <2>1, <4>1 DEF Column
    <3>6. a + (r * c.m) + (x - 0) = (r * c.m) + (a + x)
      <4>1. r * c.m \in Nat
        BY <1>2 DEF Rows
      <4> QED
        BY <1>3, <4>1
    <3>7. x \in 0 .. 0 + w - 1 <=> x < w
      BY <1>2, <1>3
    <3> QED
      BY <3>1, <3>3, <3>4, <3>5, <3>6, <3>7
  <2> HIDE DEF v
  <2>4. \A r \in Rows : \A x \in 0 .. ctx.nb - 1 : v[(r * ctx.nb) + x] =
          IF x < w THEN Value(<<Y, c.id, r, (l * ctx.nb) + x>>, Monomial(0))
          ELSE m[X(k)][(r * ctx.nb) + x]
    BY <2>3 DEF a
  <2> QED
    BY <2>2, <2>4
<1> QED
  BY <1>1, <1>5, <1>6, KernelGives DEF d

\* The product kernel on the block.
LEMMA SpmmvGives ==
  ASSUME NEW c, ColumnsOK(c), NEW j, NEW l \in Nat, l * ctx.nb < c.m, NEW h, NEW p,
         NEW w, w = Least(ctx.nb, c.m - l * ctx.nb),
         NEW x \in DOMAIN h, x \in Scratch, h[x] \in Poly, NEW y \in Scratch,
         NEW op, op = Kernel("spmmv", {x}, {y}, [x |-> x, y |-> y, w |-> w]),
         NEW g, g = Shift(h[x])
  PROVE  Gives(ColDesc(c, j, l, h, p), op, y, g)
PROOF
<1> DEFINE d == ColDesc(c, j, l, h, p)
<1>1. x \in Buffers /\ y \in Buffers /\ ContextOK
  BY DEF Buffers, ColumnsOK
<1>2. w \in 1 .. ctx.nb
  BY WidthOfBlock
<1> HIDE DEF d
<1>3. /\ Local(op)
      /\ \A m : Memory(m) => With(Step(m, op), m, y,
              [i \in DOMAIN m[y] |-> IF InColumns(i, w) THEN Product(m, x, i) ELSE m[y][i]])
  BY <1>1, SpmmvDoes, Zenon
<1>4. ASSUME NEW m, Holds(m, d)
      PROVE  \E v :
        /\ With(Step(m, op), m, y, v) /\ DOMAIN v = DOMAIN m[y]
        /\ \A r \in Rows : \A z \in 0 .. ctx.nb - 1 : v[(r * ctx.nb) + z] =
             IF z < w THEN Value(<<Y, c.id, r, (l * ctx.nb) + z>>, g)
             ELSE m[y][(r * ctx.nb) + z]
  <2> DEFINE v == [i \in DOMAIN m[y] |-> IF InColumns(i, w) THEN Product(m, x, i) ELSE m[y][i]]
  <2>1. Memory(m) /\ Calm(m)
        /\ \A z \in 0 .. w - 1 : Column(m, x, ctx.nb, z, c.id, (l * ctx.nb) + z, h[x])
    BY <1>4, WorkOf DEF d
  <2>2. With(Step(m, op), m, y, v) /\ DOMAIN v = DOMAIN m[y]
    BY <1>3, <2>1, Zenon
  <2>3. ASSUME NEW r \in Rows, NEW z \in 0 .. ctx.nb - 1
        PROVE  v[(r * ctx.nb) + z] =
                 IF z < w THEN Value(<<Y, c.id, r, (l * ctx.nb) + z>>, g)
                 ELSE m[y][(r * ctx.nb) + z]
    <3>1. PICK i : i = (r * ctx.nb) + z
      OBVIOUS
    <3>2. i \in Cells /\ (InColumns(i, w) <=> z < w)
      BY <1>1, <3>1, CellIn
    <3>3. v[i] = IF InColumns(i, w) THEN Product(m, x, i) ELSE m[y][i]
      BY <2>1, <3>2 DEF Calm
    <3>4. z < w => Product(m, x, i) = Value(<<Y, c.id, r, (l * ctx.nb) + z>>, g)
      <4>1. z < w => z \in 0 .. w - 1
        BY <1>2
      <4>2. IsCell(i, r, z)
        BY <3>1 DEF IsCell
      <4>3. z < w => Product(m, x, i) = Value(<<Y, c.id, r, (l * ctx.nb) + z>>, Shift(h[x]))
        BY <1>1, <2>1, <4>1, <4>2, Gathered
      <4> QED
        BY <4>3
    <3> HIDE DEF v
    <3> QED
      BY <3>1, <3>2, <3>3, <3>4
  <2> HIDE DEF v
  <2> QED
    BY <2>2, <2>3
<1> QED
  BY <1>3, <1>4, KernelGives DEF d

\* The Clenshaw kernel on the block: without and with a second term.
LEMMA FirstGives ==
  ASSUME NEW c, ColumnsOK(c), NEW j, NEW l \in Nat, l * ctx.nb < c.m, NEW h, NEW p,
         NEW w, w = Least(ctx.nb, c.m - l * ctx.nb), NEW y \in Scratch,
         NEW x \in DOMAIN h, x \in Scratch, h[x] \in Poly, x # y,
         NEW s \in DOMAIN h, s \in Scratch, h[s] \in Poly,
         NEW f \in Int, NEW cR \in Int,
         NEW op, op = Chebfd(x, f, None, 0, y, s, cR, w),
         NEW g, g = Plus(Times(f, Shift(h[x])), Times(cR, h[s]))
  PROVE  Gives(ColDesc(c, j, l, h, p), op, y, g)
PROOF
<1> DEFINE d == ColDesc(c, j, l, h, p)
<1>1. x \in Buffers /\ y \in Buffers /\ s \in Buffers /\ ContextOK
  BY DEF Buffers, ColumnsOK
<1>2. w \in 1 .. ctx.nb
  BY WidthOfBlock
<1> HIDE DEF d
<1>3. /\ Local(op)
      /\ \A m : Memory(m) => With(Step(m, op), m, y,
              [i \in DOMAIN m[y] |-> IF InColumns(i, w) THEN ChebfdValue(m, op.args, i) ELSE m[y][i]])
  BY <1>1, ChebfdDoes
<1>4. /\ op.args.x = x /\ op.args.y = y /\ op.args.r = s /\ op.args.q = None
      /\ op.args.f = f /\ op.args.cR = cR
  BY DEF Chebfd, Kernel
<1>5. \A m, i : ChebfdValue(m, op.args, i) = Sum(Scaled(f, Product(m, x, i)), Scaled(cR, m[s][i]))
  BY <1>4 DEF ChebfdValue
<1>6. ASSUME NEW name
      PROVE  Sum(Scaled(f, Value(name, Shift(h[x]))), Scaled(cR, Value(name, h[s]))) = Value(name, g)
  <2>1. PICK a \in Poly : a = Shift(h[x])
    BY PolyClosed
  <2>2. Scaled(f, Value(name, a)) = Value(name, Times(f, a)) /\ Times(f, a) \in Poly
    BY MultipleOf, PolyClosed DEF Times
  <2>3. Scaled(cR, Value(name, h[s])) = Value(name, Times(cR, h[s])) /\ Times(cR, h[s]) \in Poly
    BY MultipleOf, PolyClosed DEF Times
  <2>4. Sum(Value(name, Times(f, a)), Value(name, Times(cR, h[s])))
          = Value(name, Plus(Times(f, a), Times(cR, h[s])))
    BY <2>2, <2>3, SumOf
  <2> QED
    BY <2>1, <2>2, <2>3, <2>4
<1>7. ASSUME NEW m, Holds(m, d)
      PROVE  \E v :
        /\ With(Step(m, op), m, y, v) /\ DOMAIN v = DOMAIN m[y]
        /\ \A r \in Rows : \A z \in 0 .. ctx.nb - 1 : v[(r * ctx.nb) + z] =
             IF z < w THEN Value(<<Y, c.id, r, (l * ctx.nb) + z>>, g)
             ELSE m[y][(r * ctx.nb) + z]
  <2> DEFINE v == [i \in DOMAIN m[y] |->
                     IF InColumns(i, w) THEN ChebfdValue(m, op.args, i) ELSE m[y][i]]
  <2>1. Memory(m) /\ Calm(m)
        /\ \A b \in {x, s} : \A z \in 0 .. w - 1 :
              Column(m, b, ctx.nb, z, c.id, (l * ctx.nb) + z, h[b])
    BY <1>7, WorkOf, Zenon DEF d
  <2>2. With(Step(m, op), m, y, v) /\ DOMAIN v = DOMAIN m[y]
    BY <1>3, <2>1
  <2>3. ASSUME NEW r \in Rows, NEW z \in 0 .. ctx.nb - 1
        PROVE  v[(r * ctx.nb) + z] =
                 IF z < w THEN Value(<<Y, c.id, r, (l * ctx.nb) + z>>, g)
                 ELSE m[y][(r * ctx.nb) + z]
    <3>1. PICK i : i = (r * ctx.nb) + z
      OBVIOUS
    <3>2. i \in Cells /\ (InColumns(i, w) <=> z < w)
      BY <1>1, <3>1, CellIn
    <3>3. v[i] = IF InColumns(i, w) THEN ChebfdValue(m, op.args, i) ELSE m[y][i]
      BY <2>1, <3>2 DEF Calm
    <3>4. ASSUME z < w PROVE ChebfdValue(m, op.args, i) = Value(<<Y, c.id, r, (l * ctx.nb) + z>>, g)
      <4>1. z \in 0 .. w - 1
        BY <1>2, <3>4
      <4>2. PICK name : name = <<Y, c.id, r, (l * ctx.nb) + z>>
        BY Zenon
      <4>3. \A b \in {x, s} :
              /\ Product(m, b, i) = Value(<<Y, c.id, r, (l * ctx.nb) + z>>, Shift(h[b]))
              /\ m[b][i] = Value(<<Y, c.id, r, (l * ctx.nb) + z>>, h[b])
        <5>1. ASSUME NEW b \in {x, s}
              PROVE  /\ Product(m, b, i) = Value(<<Y, c.id, r, (l * ctx.nb) + z>>, Shift(h[b]))
                     /\ m[b][i] = Value(<<Y, c.id, r, (l * ctx.nb) + z>>, h[b])
          <6>1. Column(m, b, ctx.nb, z, c.id, (l * ctx.nb) + z, h[b]) /\ h[b] \in Poly
            BY <2>1, <4>1
          <6>2. PICK col : col = (l * ctx.nb) + z
            OBVIOUS
          <6>3. PICK k \in Poly : k = h[b]
            BY <6>1
          <6>4. Column(m, b, ctx.nb, z, c.id, col, k)
            BY <6>1, <6>2, <6>3
          <6>5. IsCell(i, r, z)
            BY <3>1 DEF IsCell
          <6>6. /\ Product(m, b, i) = Value(<<Y, c.id, r, col>>, Shift(k))
                /\ m[b][i] = Value(<<Y, c.id, r, col>>, k)
            BY <1>1, <6>4, <6>5, Gathered
          <6> QED
            BY <6>2, <6>3, <6>6
        <5> QED
          BY <5>1
      <4> QED
        BY <1>5, <1>6, <4>2, <4>3
    <3> HIDE DEF v
    <3> QED
      BY <3>1, <3>2, <3>3, <3>4
  <2> HIDE DEF v
  <2> QED
    BY <2>2, <2>3
<1> QED
  BY <1>3, <1>7, KernelGives DEF d

\* The kernel of a Clenshaw step that reads two earlier registers.
LEMMA SecondGives ==
  ASSUME NEW c, ColumnsOK(c), NEW j, NEW l \in Nat, l * ctx.nb < c.m, NEW h, NEW p,
         NEW w, w = Least(ctx.nb, c.m - l * ctx.nb), NEW y \in Scratch,
         NEW x \in DOMAIN h, x \in Scratch, h[x] \in Poly, x # y,
         NEW s \in DOMAIN h, s \in Scratch, h[s] \in Poly,
         NEW q \in DOMAIN h, q \in Scratch, h[q] \in Poly, q # None,
         NEW f \in Int, NEW cQ \in Int, NEW cR \in Int,
         NEW op, op = Chebfd(x, f, q, cQ, y, s, cR, w),
         NEW g, g = Plus(Plus(Times(f, Shift(h[x])), Times(cQ, h[q])), Times(cR, h[s]))
  PROVE  Gives(ColDesc(c, j, l, h, p), op, y, g)
PROOF
<1> DEFINE d == ColDesc(c, j, l, h, p)
<1>1. x \in Buffers /\ y \in Buffers /\ s \in Buffers /\ q \in Buffers /\ ContextOK
  BY DEF Buffers, ColumnsOK
<1>2. w \in 1 .. ctx.nb
  BY WidthOfBlock
<1> HIDE DEF d
<1>3. /\ Local(op)
      /\ \A m : Memory(m) => With(Step(m, op), m, y,
              [i \in DOMAIN m[y] |-> IF InColumns(i, w) THEN ChebfdValue(m, op.args, i) ELSE m[y][i]])
  BY <1>1, ChebfdDoes
<1>4. /\ op.args.x = x /\ op.args.y = y /\ op.args.r = s /\ op.args.q = q
      /\ op.args.f = f /\ op.args.cR = cR /\ op.args.cQ = cQ
  BY DEF Chebfd, Kernel
<1>5. \A m, i : ChebfdValue(m, op.args, i) =
        Sum(Sum(Scaled(f, Product(m, x, i)), Scaled(cQ, m[q][i])), Scaled(cR, m[s][i]))
  BY <1>4 DEF ChebfdValue
<1>6. ASSUME NEW name
      PROVE  Sum(Sum(Scaled(f, Value(name, Shift(h[x]))), Scaled(cQ, Value(name, h[q]))),
                 Scaled(cR, Value(name, h[s]))) = Value(name, g)
  <2>1. PICK a \in Poly : a = Shift(h[x])
    BY PolyClosed
  <2>2. Scaled(f, Value(name, a)) = Value(name, Times(f, a)) /\ Times(f, a) \in Poly
    BY MultipleOf, PolyClosed DEF Times
  <2>3. Scaled(cR, Value(name, h[s])) = Value(name, Times(cR, h[s])) /\ Times(cR, h[s]) \in Poly
    BY MultipleOf, PolyClosed DEF Times
  <2>4. Scaled(cQ, Value(name, h[q])) = Value(name, Times(cQ, h[q])) /\ Times(cQ, h[q]) \in Poly
    BY MultipleOf, PolyClosed DEF Times
  <2>5. PICK b \in Poly : b = Plus(Times(f, a), Times(cQ, h[q]))
    BY <2>2, <2>4, PolyClosed DEF Plus
  <2>6. Sum(Value(name, Times(f, a)), Value(name, Times(cQ, h[q]))) = Value(name, b)
    BY <2>2, <2>4, <2>5, SumOf
  <2>7. Sum(Value(name, b), Value(name, Times(cR, h[s]))) = Value(name, Plus(b, Times(cR, h[s])))
    BY <2>3, SumOf
  <2> QED
    BY <2>1, <2>2, <2>3, <2>4, <2>5, <2>6, <2>7
<1>7. ASSUME NEW m, Holds(m, d)
      PROVE  \E v :
        /\ With(Step(m, op), m, y, v) /\ DOMAIN v = DOMAIN m[y]
        /\ \A r \in Rows : \A z \in 0 .. ctx.nb - 1 : v[(r * ctx.nb) + z] =
             IF z < w THEN Value(<<Y, c.id, r, (l * ctx.nb) + z>>, g)
             ELSE m[y][(r * ctx.nb) + z]
  <2> DEFINE v == [i \in DOMAIN m[y] |->
                     IF InColumns(i, w) THEN ChebfdValue(m, op.args, i) ELSE m[y][i]]
  <2>1. Memory(m) /\ Calm(m)
        /\ \A b \in {x, s, q} : \A z \in 0 .. w - 1 :
              Column(m, b, ctx.nb, z, c.id, (l * ctx.nb) + z, h[b])
    BY <1>7, WorkOf, Zenon DEF d
  <2>2. With(Step(m, op), m, y, v) /\ DOMAIN v = DOMAIN m[y]
    BY <1>3, <2>1
  <2>3. ASSUME NEW r \in Rows, NEW z \in 0 .. ctx.nb - 1
        PROVE  v[(r * ctx.nb) + z] =
                 IF z < w THEN Value(<<Y, c.id, r, (l * ctx.nb) + z>>, g)
                 ELSE m[y][(r * ctx.nb) + z]
    <3>1. PICK i : i = (r * ctx.nb) + z
      OBVIOUS
    <3>2. i \in Cells /\ (InColumns(i, w) <=> z < w)
      BY <1>1, <3>1, CellIn
    <3>3. v[i] = IF InColumns(i, w) THEN ChebfdValue(m, op.args, i) ELSE m[y][i]
      BY <2>1, <3>2 DEF Calm
    <3>4. ASSUME z < w PROVE ChebfdValue(m, op.args, i) = Value(<<Y, c.id, r, (l * ctx.nb) + z>>, g)
      <4>1. z \in 0 .. w - 1
        BY <1>2, <3>4
      <4>2. PICK name : name = <<Y, c.id, r, (l * ctx.nb) + z>>
        BY Zenon
      <4>3. \A b \in {x, s, q} :
              /\ Product(m, b, i) = Value(<<Y, c.id, r, (l * ctx.nb) + z>>, Shift(h[b]))
              /\ m[b][i] = Value(<<Y, c.id, r, (l * ctx.nb) + z>>, h[b])
        <5>1. ASSUME NEW b \in {x, s, q}
              PROVE  /\ Product(m, b, i) = Value(<<Y, c.id, r, (l * ctx.nb) + z>>, Shift(h[b]))
                     /\ m[b][i] = Value(<<Y, c.id, r, (l * ctx.nb) + z>>, h[b])
          <6>1. Column(m, b, ctx.nb, z, c.id, (l * ctx.nb) + z, h[b]) /\ h[b] \in Poly
            BY <2>1, <4>1
          <6>2. PICK col : col = (l * ctx.nb) + z
            OBVIOUS
          <6>3. PICK k \in Poly : k = h[b]
            BY <6>1
          <6>4. Column(m, b, ctx.nb, z, c.id, col, k)
            BY <6>1, <6>2, <6>3
          <6>5. IsCell(i, r, z)
            BY <3>1 DEF IsCell
          <6>6. /\ Product(m, b, i) = Value(<<Y, c.id, r, col>>, Shift(k))
                /\ m[b][i] = Value(<<Y, c.id, r, col>>, k)
            BY <1>1, <6>4, <6>5, Gathered
          <6> QED
            BY <6>2, <6>3, <6>6
        <5> QED
          BY <5>1
      <4>4. ChebfdValue(m, op.args, i) =
              Sum(Sum(Scaled(f, Value(name, Shift(h[x]))), Scaled(cQ, Value(name, h[q]))),
                  Scaled(cR, Value(name, h[s])))
        BY <1>5, <4>2, <4>3
      <4> QED
        BY <1>6, <4>2, <4>4
    <3> HIDE DEF v
    <3> QED
      BY <3>1, <3>2, <3>3, <3>4
  <2> HIDE DEF v
  <2> QED
    BY <2>2, <2>3
<1> QED
  BY <1>3, <1>7, KernelGives DEF d

\* The first multiple, over the whole buffer.
LEMMA MultipleGives ==
  ASSUME NEW c, ColumnsOK(c), NEW j, NEW l \in Nat, l * ctx.nb < c.m, NEW h, NEW p,
         NEW y \in Scratch, NEW x \in DOMAIN h, x \in Scratch, h[x] \in Poly, NEW a \in Int,
         NEW op, op = Kernel("axpby3", {x}, {y}, [x |-> x, a |-> a, y |-> y]),
         NEW g, g = Times(a, h[x])
  PROVE  Gives(ColDesc(c, j, l, h, p), op, y, g)
PROOF
<1> DEFINE d == ColDesc(c, j, l, h, p)
<1>1. x \in Buffers /\ y \in Buffers /\ ContextOK
  BY DEF Buffers, ColumnsOK
<1>2. d.c = c /\ d.ld = l
  BY ColDescOf
<1> HIDE DEF d
<1>3. /\ Local(op)
      /\ \A m : Memory(m) => With(Step(m, op), m, y, [i \in DOMAIN m[y] |-> Scaled(a, m[x][i])])
  BY <1>1, AxpbyDoes, Zenon
<1>4. SUFFICES ASSUME NEW m, Holds(m, d)
               PROVE  /\ Calm(Step(m, op)) /\ \A b \in Buffers : b # y => Step(m, op)[b] = m[b]
                      /\ \A z : OfBlock(c, l, z) =>
                           Column(Step(m, op), y, ctx.nb, z, c.id, (l * ctx.nb) + z, g)
  BY <1>2, <1>3, Zenon DEF Gives, d
<1> DEFINE n == Step(m, op)
           v == [i \in DOMAIN m[y] |-> Scaled(a, m[x][i])]
<1>5. PICK w : w = Least(ctx.nb, c.m - l * ctx.nb)
  OBVIOUS
<1>6. Memory(m) /\ Calm(m)
      /\ \A z \in 0 .. w - 1 : Column(m, x, ctx.nb, z, c.id, (l * ctx.nb) + z, h[x])
  BY <1>4, <1>5, WorkOf, Zenon DEF d
<1>7. With(n, m, y, v) /\ DOMAIN v = DOMAIN m[y] /\ DOMAIN m[y] = Cells
  BY <1>3, <1>6, Zenon DEF Calm
<1>8. \A i \in Cells : v[i] = Scaled(a, m[x][i])
  BY <1>7
<1> HIDE DEF v, n
<1>9. \A i \in Cells : v[i].name # <<"poison">>
  BY <1>6, <1>8, CalmValue DEF Calm
<1>10. Calm(n)
  <2>1. y \in Sized
    BY DEF Sized
  <2> QED
    BY <1>6, <1>7, <1>9, <2>1, CalmKept, ZenonT(30)
<1>11. n[y] = v /\ \A b \in Buffers : b # y => n[b] = m[b]
  BY <1>7 DEF With
<1>12. ASSUME NEW z, OfBlock(c, l, z) PROVE Column(n, y, ctx.nb, z, c.id, (l * ctx.nb) + z, g)
  <2>1. z \in 0 .. w - 1 /\ w \in 1 .. ctx.nb
    BY <1>5, <1>12, WidthOfBlock
  <2>2. z \in 0 .. ctx.nb - 1
    BY <1>1, <2>1 DEF ContextOK
  <2>3. ASSUME NEW r \in Rows
        PROVE  n[y][(r * ctx.nb) + z] = Value(<<Y, c.id, r, (l * ctx.nb) + z>>, g)
    <3>1. PICK i : i = (r * ctx.nb) + z
      OBVIOUS
    <3>2. i \in Cells /\ m[x][i] = Value(<<Y, c.id, r, (l * ctx.nb) + z>>, h[x])
      <4>1. i \in Cells /\ IsCell(i, r, z)
        BY <1>1, <2>2, <3>1, CellIn DEF IsCell
      <4>2. Column(m, x, ctx.nb, z, c.id, (l * ctx.nb) + z, h[x])
        BY <1>6, <2>1
      <4>3. PICK col : col = (l * ctx.nb) + z
        OBVIOUS
      <4>4. PICK k \in Poly : k = h[x]
        OBVIOUS
      <4>5. Column(m, x, ctx.nb, z, c.id, col, k)
        BY <4>2, <4>3, <4>4
      <4>6. /\ Product(m, x, i) = Value(<<Y, c.id, r, col>>, Shift(k))
            /\ m[x][i] = Value(<<Y, c.id, r, col>>, k)
        BY <1>1, <4>1, <4>5, Gathered
      <4> QED
        BY <4>1, <4>3, <4>4, <4>6
    <3>3. Scaled(a, Value(<<Y, c.id, r, (l * ctx.nb) + z>>, h[x]))
            = Value(<<Y, c.id, r, (l * ctx.nb) + z>>, Times(a, h[x]))
      BY MultipleOf
    <3> QED
      BY <1>8, <1>11, <3>1, <3>2, <3>3
  <2> QED
    BY <2>3 DEF Column
<1> QED
  BY <1>10, <1>11, <1>12, Zenon DEF n

\* Entry y of row r of the block the caller gave is in the host arrays.
LEMMA HostCellIn ==
  ASSUME ContextOK, ctx.NS \in Nat, NEW k \in 1 .. ctx.NS, NEW r \in Rows, NEW y \in 0 .. k - 1
  PROVE  (r * k) + y \in HostCells
PROOF
<1>1. ctx.vecRows \in Nat /\ k \in Nat \ {0} /\ r \in 0 .. ctx.vecRows - 1 /\ r \in Nat
  BY DEF ContextOK, Rows
<1>2. (r * k) + y \in 0 .. (ctx.vecRows * k) - 1
  BY <1>1, CellWithin
<1>3. k * ctx.vecRows <= ctx.NS * ctx.vecRows
  BY <1>1, TimesGrows
<1>4. ctx.vecRows * k <= ctx.vecRows * ctx.NS
  <2>1. ctx.vecRows * k = k * ctx.vecRows /\ ctx.vecRows * ctx.NS = ctx.NS * ctx.vecRows
    BY <1>1
  <2> QED
    BY <1>3, <2>1
<1>5. ctx.vecRows * k \in Nat /\ ctx.vecRows * ctx.NS \in Nat
  BY <1>1
<1> QED
  BY <1>2, <1>4, <1>5 DEF HostCells

\* Blocks have columns of their own.
LEMMA BlocksApart ==
  ASSUME NEW c, ColumnsOK(c), NEW j \in Nat, j * ctx.nb < c.m,
         NEW w, w = Least(ctx.nb, c.m - j * ctx.nb), NEW i, NEW x, OfBlock(c, i, x)
  PROVE  /\ (i * ctx.nb) + x \in 0 .. c.m - 1
         /\ i # j => (i * ctx.nb) + x \notin j * ctx.nb .. (j * ctx.nb) + w - 1
PROOF
<1>1. /\ ctx.nb \in Nat \ {0} /\ c.m \in Nat /\ i \in Nat /\ x \in 0 .. ctx.nb - 1
      /\ (i * ctx.nb) + x < c.m
  BY DEF ColumnsOK, ContextOK, OfBlock
<1>2. w \in 1 .. ctx.nb /\ j * ctx.nb \in Nat
  BY WidthOfBlock
<1>3. i * ctx.nb \in Nat
  BY <1>1
<1>4. ASSUME i < j PROVE (i * ctx.nb) + ctx.nb <= j * ctx.nb
  <2>1. (i + 1) * ctx.nb <= j * ctx.nb /\ (i + 1) * ctx.nb = (i * ctx.nb) + ctx.nb
    BY <1>1, <1>4, TimesGrows
  <2> QED
    BY <2>1
<1>5. ASSUME j < i PROVE (j * ctx.nb) + ctx.nb <= i * ctx.nb
  <2>1. (j + 1) * ctx.nb <= i * ctx.nb /\ (j + 1) * ctx.nb = (j * ctx.nb) + ctx.nb
    BY <1>1, <1>5, TimesGrows
  <2> QED
    BY <2>1
<1> QED
  BY <1>1, <1>2, <1>3, <1>4, <1>5

\* The result of a block goes back to the host.
LEMMA DrainFits ==
  ASSUME NEW c, ColumnsOK(c), NEW j \in Nat, NEW l \in Nat, j < l, j * ctx.nb < c.m,
         NEW h, DOMAIN h \subseteq Scratch, NEW p, NEW w, w = Least(ctx.nb, c.m - j * ctx.nb),
         NEW op, op = Copy(ColArray(c), j * ctx.nb, c.m, ColSlots(c)[j % NSLOT], 0, ctx.nb, w,
                           ctx.vecRows)
  PROVE  Fits(ColDesc(c, j, l, h, p), op, ColDesc(c, j + 1, l, h, p))
PROOF
<1> DEFINE d == ColDesc(c, j, l, h, p)
           e == ColDesc(c, j + 1, l, h, p)
           a == j * ctx.nb
           A == ColArray(c)
           S == ColSlots(c)[j % NSLOT]
<1>1. /\ d.pass = "columns" /\ d.c = c /\ d.dr = j /\ d.ld = l /\ d.has = h /\ d.res = p
      /\ e.pass = "columns" /\ e.c = c /\ e.dr = j + 1 /\ e.ld = l /\ e.has = h /\ e.res = p
  BY ColDescOf
<1>2. /\ ctx.nb \in Nat \ {0} /\ ctx.vecRows \in Nat \ {0} /\ c.m \in Nat \ {0} /\ ContextOK
      /\ c.m \in 1 .. ctx.NS /\ ctx.NS \in Nat
  BY DEF ColumnsOK, ContextOK
<1>3. w \in 1 .. ctx.nb /\ a \in Nat /\ a + w <= c.m
      /\ \A x : OfBlock(c, j, x) <=> x \in 0 .. w - 1
  BY WidthOfBlock
<1>4. \A i, x : OfBlock(c, i, x) =>
        /\ i \in Nat /\ (i * ctx.nb) + x \in 0 .. c.m - 1
        /\ i # j => (i * ctx.nb) + x \notin a .. a + w - 1
  BY BlocksApart DEF OfBlock
<1>5. /\ A \in {Y, AY} /\ (A = Y <=> c.op = "filter") /\ A \in HostArrays /\ A \in Buffers /\ A \notin Scratch
      /\ S \in Buffers /\ S \in Scratch /\ S # A
      /\ Scratch \subseteq Buffers /\ HostArrays \subseteq Buffers /\ Y \in Buffers /\ AY \in Buffers
      /\ Y # AY
  <2>1. S \in Scratch /\ Scratch \subseteq Buffers /\ Scratch \cap HostArrays = {}
    BY SlotsOfColumns
  <2> HIDE DEF S
  <2> QED
    BY <2>1 DEF ColArray, HostArrays, Buffers, Y, AY
<1> HIDE DEF d, e, a, A, S
<1>6. op = Copy(A, a, c.m, S, 0, ctx.nb, w, ctx.vecRows)
  BY DEF a, A, S
<1>7. /\ Local(op)
      /\ \A m : Memory(m) => With(Step(m, op), m, A, [i \in DOMAIN m[A] |-> CopyValue(m, op, i)])
  BY <1>5, <1>6, CopyDoes
<1>8. SUFFICES ASSUME NEW m, Holds(m, d) PROVE Holds(Step(m, op), e)
  BY <1>7 DEF Fits, d, e
<1> DEFINE n == Step(m, op)
           v == [i \in DOMAIN m[A] |-> CopyValue(m, op, i)]
<1>9. Calm(m) /\ Memory(m) /\ ColumnPass(m, d)
  BY <1>1, <1>8 DEF Holds, Calm
<1>10. With(n, m, A, v) /\ DOMAIN v = DOMAIN m[A] /\ DOMAIN m[A] = HostCells
  BY <1>5, <1>7, <1>9 DEF Calm
<1>11. ASSUME NEW r \in Rows, NEW y \in 0 .. c.m - 1
       PROVE  v[(r * c.m) + y] = IF y \in a .. a + w - 1 THEN m[S][(r * ctx.nb) + (y - a)]
                                 ELSE m[A][(r * c.m) + y]
  <2>1. (r * c.m) + y \in HostCells
    BY <1>2, HostCellIn
  <2>2. PICK i : i = (r * c.m) + y
    OBVIOUS
  <2>3. v[i] = CopyValue(m, op, i)
    BY <1>10, <2>1, <2>2
  <2> HIDE DEF v
  <2>4. CopyValue(m, op, (r * c.m) + y) =
          IF y \in a .. a + w - 1 THEN m[S][0 + (r * ctx.nb) + (y - a)] ELSE m[A][(r * c.m) + y]
    <3>1. 0 \in Nat /\ w \in Nat /\ r \in 0 .. ctx.vecRows - 1
      BY <1>2, <1>3 DEF Rows
    <3> QED
      BY <1>2, <1>3, <1>6, <3>1, CopyOfColumns
  <2>5. 0 + (r * ctx.nb) + (y - a) = (r * ctx.nb) + (y - a)
    <3>1. r * ctx.nb \in Nat
      BY <1>2 DEF Rows
    <3> QED
      BY <1>3, <3>1
  <2> QED
    BY <2>2, <2>3, <2>4, <2>5
<1> HIDE DEF n, v
<1>12. Calm(n)
  <2>1. A \in Sized
    BY <1>5 DEF Sized
  <2> QED
    BY <1>5, <1>9, <1>10, <2>1, CalmKept, ZenonT(30)
<1>13. n[A] = v /\ \A b \in Buffers : b # A => n[b] = m[b]
  BY <1>10 DEF With
\* What the claims say of the arrays.
<1>14. ASSUME NEW i, NEW x, OfBlock(c, i, x), NEW q, i # j,
              Column(m, A, c.m, (i * ctx.nb) + x, c.id, (i * ctx.nb) + x, q)
       PROVE  Column(n, A, c.m, (i * ctx.nb) + x, c.id, (i * ctx.nb) + x, q)
  <2>1. PICK y \in 0 .. c.m - 1 : y = (i * ctx.nb) + x /\ y \notin a .. a + w - 1
    BY <1>4, <1>14
  <2>2. \A r \in Rows : n[A][(r * c.m) + y] = m[A][(r * c.m) + y]
    BY <1>11, <1>13, <2>1
  <2> QED
    BY <1>14, <2>1, <2>2 DEF Column
<1>15. ASSUME NEW x, OfBlock(c, j, x)
       PROVE  Column(n, A, c.m, a + x, c.id, a + x, p)
  <2>1. x \in 0 .. w - 1
    BY <1>3, <1>15
  <2>2. PICK y \in 0 .. c.m - 1 : y = a + x /\ y \in a .. a + w - 1 /\ y - a = x
    BY <1>2, <1>3, <2>1
  <2>3. Column(m, S, ctx.nb, x, c.id, y, p)
    <3>1. j <= j /\ j < l
      OBVIOUS
    <3>2. Column(m, S, ctx.nb, x, c.id, a + x, p)
      BY <1>1, <1>9, <1>15, <3>1 DEF ColumnPass, S, a
    <3> QED
      BY <2>2, <3>2
  <2>4. \A r \in Rows : n[A][(r * c.m) + y] = m[S][(r * ctx.nb) + x]
    BY <1>11, <1>13, <2>2
  <2> QED
    BY <2>2, <2>3, <2>4 DEF Column
<1>16. ASSUME NEW i, NEW x, OfBlock(c, i, x), c.op = "spmmv" \/ j + 1 <= i
       PROVE  Column(n, Y, c.m, (i * ctx.nb) + x, c.id, (i * ctx.nb) + x, Monomial(0))
  <2>1. i \in Nat
    BY <1>4, <1>16
  <2>2. Column(m, Y, c.m, (i * ctx.nb) + x, c.id, (i * ctx.nb) + x, Monomial(0))
    <3>1. c.op = "spmmv" \/ j <= i
      BY <1>16, <2>1
    <3> QED
      BY <1>1, <1>9, <1>16, <3>1 DEF ColumnPass
  <2>3. CASE A = Y
    <3>1. i # j
      BY <1>5, <1>16, <2>1, <2>3
    <3> QED
      BY <1>14, <1>16, <2>2, <2>3, <3>1
  <2>4. CASE A # Y
    <3>1. n[Y] = m[Y]
      BY <1>5, <1>13, <2>4
    <3> QED
      BY <2>2, <3>1, ColumnKept
  <2> QED
    BY <2>3, <2>4
<1>17. ASSUME NEW i, NEW x, OfBlock(c, i, x), i < j + 1
       PROVE  Column(n, A, c.m, (i * ctx.nb) + x, c.id, (i * ctx.nb) + x, p)
  <2>1. i \in Nat
    BY <1>4, <1>17
  <2>2. CASE i = j
    BY <1>15, <1>17, <2>2 DEF a
  <2>3. CASE i # j
    <3>1. i < j
      BY <1>17, <2>1, <2>3
    <3>2. Column(m, A, c.m, (i * ctx.nb) + x, c.id, (i * ctx.nb) + x, p)
      BY <1>1, <1>9, <1>17, <3>1 DEF ColumnPass, A
    <3> QED
      BY <1>14, <1>17, <2>3, <3>2
  <2> QED
    BY <2>2, <2>3
<1>18. ASSUME NEW i, NEW x, OfBlock(c, i, x), j + 1 <= i, i < l
       PROVE  Column(n, ColSlots(c)[i % NSLOT], ctx.nb, x, c.id, (i * ctx.nb) + x, p)
  <2>1. i \in Nat /\ j <= i
    BY <1>4, <1>18
  <2>2. Column(m, ColSlots(c)[i % NSLOT], ctx.nb, x, c.id, (i * ctx.nb) + x, p)
    BY <1>1, <1>9, <1>18, <2>1 DEF ColumnPass
  <2>3. ColSlots(c)[i % NSLOT] \in Scratch
    BY <2>1, SlotsOfColumns
  <2>4. n[ColSlots(c)[i % NSLOT]] = m[ColSlots(c)[i % NSLOT]]
    BY <1>5, <1>13, <2>3
  <2> QED
    BY <2>2, <2>4, ColumnKept
<1>19. ASSUME NEW b \in DOMAIN h, NEW x, OfBlock(c, l, x)
       PROVE  Column(n, b, ctx.nb, x, c.id, (l * ctx.nb) + x, h[b])
  <2>1. Column(m, b, ctx.nb, x, c.id, (l * ctx.nb) + x, h[b])
    BY <1>1, <1>9, <1>19 DEF ColumnPass
  <2>2. n[b] = m[b]
    BY <1>5, <1>13
  <2> QED
    BY <2>1, <2>2, ColumnKept
<1>20. ColumnPass(n, e)
  BY <1>1, <1>16, <1>17, <1>18, <1>19 DEF ColumnPass, A
<1> QED
  BY <1>1, <1>12, <1>20 DEF Holds, n

(***************************************************************************)
(* Passes over columns: the blocks of a program.                           *)
(***************************************************************************)

\* The columns of the next block as they were loaded to slot k.
Loaded(k) == [b \in {X(k)} |-> Monomial(0)]

\* Waits, records, synchronisations and counts keep every claim.
LEMMA MarkFits ==
  ASSUME NEW op, op.do \notin {"legacy", "readback"}, ~Data(op), NEW d
  PROVE  Fits(d, op, d)
PROOF
<1>1. Local(op) /\ \A m : Step(m, op) = m
  BY MarkDoes
<1> QED
  BY <1>1 DEF Fits

\* Which they are.
LEMMA MarksOf ==
  ASSUME NEW d
  PROVE  /\ \A s, e : Fits(d, Wait(s, e), d) /\ Fits(d, Record(s, e), d)
         /\ \A s : Fits(d, Sync(s), d)
         /\ \A x : Fits(d, Ensure(x), d)
         /\ \A x \in {"colPass", "rowPass"} : Fits(d, [do |-> x, on |-> "legacy"], d)
PROOF
<1>1. ASSUME NEW s, NEW e PROVE Fits(d, Wait(s, e), d)
  <2>1. PICK op : op = Wait(s, e)
    OBVIOUS
  <2>2. op.do = "wait"
    BY <2>1 DEF Wait
  <2> QED
    BY <2>1, <2>2, MarkFits DEF Data
<1>2. ASSUME NEW s, NEW e PROVE Fits(d, Record(s, e), d)
  <2>1. PICK op : op = Record(s, e)
    OBVIOUS
  <2>2. op.do = "record"
    BY <2>1 DEF Record
  <2> QED
    BY <2>1, <2>2, MarkFits DEF Data
<1>3. ASSUME NEW s PROVE Fits(d, Sync(s), d)
  <2>1. PICK op : op = Sync(s)
    OBVIOUS
  <2>2. op.do = "sync"
    BY <2>1 DEF Sync
  <2> QED
    BY <2>1, <2>2, MarkFits DEF Data
<1>4. ASSUME NEW x PROVE Fits(d, Ensure(x), d)
  <2>1. PICK op : op = Ensure(x)
    OBVIOUS
  <2>2. op.do = "ensure" /\ op.on = "legacy"
    BY <2>1 DEF Ensure
  <2> QED
    BY <2>1, <2>2, MarkFits DEF Data, Streams
<1>5. ASSUME NEW x \in {"colPass", "rowPass"} PROVE Fits(d, [do |-> x, on |-> "legacy"], d)
  <2>1. PICK op : op = [do |-> x, on |-> "legacy"]
    BY Zenon
  <2>2. op.do = x /\ op.on = "legacy"
    BY <2>1
  <2> QED
    BY <2>1, <2>2, MarkFits DEF Data, Streams
<1> QED
  BY <1>1, <1>2, <1>3, <1>4, <1>5

\* Nothing is done where there is nothing.
LEMMA LeadsNone == \A d : Leads(<<>>, d, d)
PROOF
<1>1. SUFFICES ASSUME NEW d PROVE Leads(<<>>, d, d)
  OBVIOUS
<1>2. PICK p : p = <<>>
  OBVIOUS
<1>3. IsProgram(p) /\ Len(p) = 0
  BY <1>2, NoStep
<1>4. \A i \in 1 .. Len(p) : Fits(d, p[i], d)
  BY <1>3
<1> QED
  BY <1>2, <1>3, <1>4, LeadsKept

\* The kernels of a slot stand between marks.
LEMMA OnSlotLeads ==
  ASSUME NEW k, NEW ks, NEW d, NEW e, Leads(ks, d, e)
  PROVE  Leads(OnSlot(k, ks), d, e)
PROOF
<1> DEFINE r1 == Record("copy", <<"copyDone", k>>)
           w1 == Wait("compute", <<"copyDone", k>>)
           r2 == Record("compute", <<"computeDone", k>>)
<1>1. Fits(d, r1, d) /\ Fits(d, w1, d) /\ Fits(e, r2, e)
  BY MarksOf, Zenon
<1>2. OnSlot(k, ks) = <<r1, w1>> \o ks \o <<r2>>
  BY Zenon DEF OnSlot
<1> HIDE DEF r1, w1, r2
<1>3. Leads(<<r1, w1>>, d, d) /\ Leads(<<r2>>, e, e)
  BY <1>1, LeadsOne, LeadsTwo
<1>4. Leads(<<r1, w1>> \o ks, d, e)
  BY <1>3, LeadsOn
<1>5. Leads((<<r1, w1>> \o ks) \o <<r2>>, d, e)
  BY <1>3, <1>4, LeadsOn
<1> QED
  BY <1>2, <1>5

\* A pass ends with marks.
LEMMA EndLeads ==
  ASSUME NEW pass \in {"colPass", "rowPass"}, NEW d
  PROVE  Leads(EndPass(pass), d, d)
PROOF
<1> DEFINE y1 == Sync("compute")
           y2 == Sync("copy")
           y3 == [do |-> pass, on |-> "legacy"]
           p == <<y1, y2, y3>>
<1>1. EndPass(pass) = p
  BY Zenon DEF EndPass
<1>2. Fits(d, y1, d) /\ Fits(d, y2, d) /\ Fits(d, y3, d)
  BY MarksOf
<1> HIDE DEF y1, y2, y3
<1>3. p \in Seq({y1, y2, y3}) /\ Len(p) = 3 /\ p[1] = y1 /\ p[2] = y2 /\ p[3] = y3
  OBVIOUS
<1> HIDE DEF p
<1>4. \A i \in 1 .. Len(p) : Fits(d, p[i], d)
  <2>1. \A i \in 1 .. Len(p) : i = 1 \/ i = 2 \/ i = 3
    BY <1>3
  <2> QED
    BY <1>2, <1>3, <2>1
<1>5. IsProgram(p)
  BY <1>3, Zenon DEF IsProgram
<1> QED
  BY <1>1, <1>4, <1>5, LeadsKept

\* A drain of columns.
LEMMA DrainLeads ==
  ASSUME NEW c, ColumnsOK(c), NEW j \in Nat, NEW l \in Nat, j < l, j * ctx.nb < c.m, NEW p,
         NEW outBuf, outBuf = ColSlots(c)
  PROVE  Leads(DrainColBlock(j, c.m, ColArray(c), outBuf),
               ColDesc(c, j, l, NoColumns, p), ColDesc(c, j + 1, l, NoColumns, p))
PROOF
<1> DEFINE k == j % NSLOT
           w == Least(ctx.nb, c.m - j * ctx.nb)
           w1 == Wait("copy", <<"computeDone", k>>)
           op == Copy(ColArray(c), j * ctx.nb, c.m, outBuf[k], 0, ctx.nb, w, ctx.vecRows)
           d == ColDesc(c, j, l, NoColumns, p)
           e == ColDesc(c, j + 1, l, NoColumns, p)
<1>1. DrainColBlock(j, c.m, ColArray(c), outBuf) = <<w1, op>>
  BY Zenon DEF DrainColBlock
<1>2. Fits(d, w1, d)
  BY MarksOf, Zenon
<1>3. DOMAIN NoColumns \subseteq Scratch
  BY DEF NoColumns
<1>4. op = Copy(ColArray(c), j * ctx.nb, c.m, ColSlots(c)[j % NSLOT], 0, ctx.nb, w, ctx.vecRows)
  OBVIOUS
<1> HIDE DEF op, w1
<1>5. Fits(ColDesc(c, j, l, NoColumns, p), op, ColDesc(c, j + 1, l, NoColumns, p))
  BY <1>3, <1>4, DrainFits
<1> HIDE DEF d, e
<1>6. Leads(<<w1, op>>, d, e)
  BY <1>2, <1>5, LeadsTwo DEF d, e
<1> QED
  BY <1>1, <1>6 DEF d, e

\* A block of columns is loaded and computed, and the block two before goes back.
LEMMA ColBlockLeads ==
  ASSUME NEW c, ColumnsOK(c), NEW i \in Nat, i * ctx.nb < c.m, NEW p,
         NEW w, w = Least(ctx.nb, c.m - i * ctx.nb), NEW outBuf, outBuf = ColSlots(c), NEW fn,
         Leads(fn[i % NSLOT][w], ColDesc(c, Largest(i - 1, 0), i, Loaded(i % NSLOT), p),
               ColDesc(c, Largest(i - 1, 0), i + 1, NoColumns, p))
  PROVE  Leads(ColBlock(i, Y, c.m, ColArray(c), outBuf, fn),
               ColDesc(c, Largest(i - NSLOT, 0), i, NoColumns, p),
               ColDesc(c, Largest(i - 1, 0), i + 1, NoColumns, p))
PROOF
<1> DEFINE k == i % NSLOT
           w1 == Wait("copy", <<"computeDone", k>>)
           drain == IF i >= NSLOT THEN DrainColBlock(i - NSLOT, c.m, ColArray(c), outBuf) ELSE <<>>
           op == Copy(X(k), 0, ctx.nb, Y, i * ctx.nb, c.m, w, ctx.vecRows)
           ks == fn[k][w]
<1>1. PICK a \in Nat, b \in Nat :
        /\ a = Largest(i - NSLOT, 0) /\ b = Largest(i - 1, 0) /\ a <= i /\ b <= i
        /\ (i >= NSLOT => a = i - NSLOT /\ b = a + 1 /\ a < i)
        /\ (~(i >= NSLOT) => a = 0 /\ b = 0)
        /\ i <= b + 1 /\ (\A ii \in b .. i - 1 : ii + 1 = i /\ ii \in Nat)
  <2>1. /\ Largest(i - NSLOT, 0) \in Nat /\ Largest(i - 1, 0) \in Nat
        /\ Largest(i - NSLOT, 0) <= i /\ Largest(i - 1, 0) <= i
        /\ (i >= NSLOT => /\ Largest(i - NSLOT, 0) = i - NSLOT
                          /\ Largest(i - 1, 0) = Largest(i - NSLOT, 0) + 1
                          /\ Largest(i - NSLOT, 0) < i)
        /\ (~(i >= NSLOT) => Largest(i - NSLOT, 0) = 0 /\ Largest(i - 1, 0) = 0)
        /\ i <= Largest(i - 1, 0) + 1
        /\ \A ii \in Largest(i - 1, 0) .. i - 1 : ii + 1 = i /\ ii \in Nat
    BY DEF Largest, NSLOT
  <2> QED
    BY <2>1
<1>2. k \in Slots /\ c.m \in Nat /\ ctx.nb \in Nat \ {0}
  BY SlotOf DEF ColumnsOK, ContextOK
<1> DEFINE d0 == ColDesc(c, a, i, NoColumns, p)
           d1 == ColDesc(c, b, i, NoColumns, p)
           d2 == ColDesc(c, b, i, Loaded(k), p)
           d3 == ColDesc(c, b, i + 1, NoColumns, p)
<1>3. ColBlock(i, Y, c.m, ColArray(c), outBuf, fn) = <<w1>> \o drain \o <<op>> \o OnSlot(k, ks)
  BY Zenon DEF ColBlock
<1>4. Leads(<<w1>>, d0, d0)
  <2> HIDE DEF w1, d0
  <2>1. Fits(d0, w1, d0)
    BY MarksOf, Zenon DEF w1
  <2> QED
    BY <2>1, LeadsOne
<1>5. Leads(drain, d0, d1)
  <2>1. CASE i >= NSLOT
    <3>1. a * ctx.nb < c.m
      <4>1. a * ctx.nb <= i * ctx.nb
        BY <1>1, <1>2, TimesGrows
      <4>2. a * ctx.nb \in Nat /\ i * ctx.nb \in Nat
        BY <1>2
      <4> QED
        BY <1>2, <4>1, <4>2
    <3>2. Leads(DrainColBlock(a, c.m, ColArray(c), outBuf),
                ColDesc(c, a, i, NoColumns, p), ColDesc(c, a + 1, i, NoColumns, p))
      BY <1>1, <2>1, <3>1, DrainLeads
    <3>3. drain = DrainColBlock(a, c.m, ColArray(c), outBuf)
      BY <1>1, <2>1
    <3> QED
      BY <1>1, <2>1, <3>2, <3>3
  <2>2. CASE ~(i >= NSLOT)
    <3>1. drain = <<>> /\ d0 = d1
      BY <1>1, <2>2
    <3> QED
      BY <3>1, LeadsNone
  <2> QED
    BY <2>1, <2>2
<1>6. Fits(d1, op, d2)
  <2>1. Gives(ColDesc(c, b, i, NoColumns, p), op, X(k), Monomial(0))
    <3>1. c.op = "spmmv" \/ b <= i
      BY <1>1
    <3> HIDE DEF op
    <3>2. op = Copy(X(k), 0, ctx.nb, Y, i * ctx.nb, c.m, w, ctx.vecRows)
      BY DEF op
    <3> HIDE DEF k
    <3> QED
      BY <1>1, <1>2, <3>1, <3>2, LoadGives
  <2>2. \A ii \in b .. i - 1 : X(k) # ColSlots(c)[ii % NSLOT]
    <3>1. SUFFICES ASSUME NEW ii \in b .. i - 1 PROVE X(k) # ColSlots(c)[ii % NSLOT]
      OBVIOUS
    <3>2. ii \in Nat /\ ii + 1 = i
      BY <1>1
    <3>3. /\ ColSlots(c)[ii % NSLOT] # ColSlots(c)[(ii + 1) % NSLOT]
          /\ c.op = "spmmv" => ColSlots(c)[ii % NSLOT] = OutSlot[ii % NSLOT]
          /\ ii % NSLOT \in Slots
      BY <3>2, SlotsOfColumns
    <3>4. c.op = "filter" => ColSlots(c)[i % NSLOT] = X(i % NSLOT)
      BY SlotsOfColumns
    <3>5. \A z \in Slots : OutSlot[z] # X(k)
      BY DEF OutSlot, U, W, X
    <3>6. c.op \in {"filter", "spmmv"}
      BY DEF ColumnsOK
    <3> QED
      BY <3>2, <3>3, <3>4, <3>5, <3>6
  <2>3. \A z \in DOMAIN Loaded(k) : z = X(k) /\ Loaded(k)[z] = Monomial(0)
    BY DEF Loaded
  <2>4. DOMAIN NoColumns \subseteq Scratch
    BY DEF NoColumns
  <2> HIDE DEF op, k
  <2> DEFINE h2 == Loaded(k)
             y == X(k)
             q == Monomial(0)
  <2>5. \A z \in DOMAIN h2 : \/ z = y /\ h2[z] = q
                             \/ z # y /\ z \in DOMAIN NoColumns /\ h2[z] = NoColumns[z]
    BY <2>3
  <2> HIDE DEF h2, y, q
  <2>6. Gives(ColDesc(c, b, i, NoColumns, p), op, y, q) /\ \A ii \in b .. i - 1 : y # ColSlots(c)[ii % NSLOT]
    BY <2>1, <2>2 DEF y, q
  <2>7. Fits(ColDesc(c, b, i, NoColumns, p), op, ColDesc(c, b, i, h2, p))
    BY <1>1, <2>4, <2>5, <2>6, WorkFits
  <2> QED
    BY <2>7 DEF h2
<1>7. Leads(<<op>>, d1, d2)
  <2> HIDE DEF op, d1, d2
  <2> QED
    BY <1>6, LeadsOne
<1>8. Leads(OnSlot(k, ks), d2, d3)
  <2>1. Leads(ks, d2, d3)
    BY <1>1
  <2> HIDE DEF k, ks, d2, d3
  <2> QED
    BY <2>1, OnSlotLeads
<1> HIDE DEF d0, d1, d2, d3, op, w1, k, ks, drain
<1>9. Leads(<<w1>> \o drain, d0, d1)
  BY <1>4, <1>5, LeadsOn
<1>10. Leads((<<w1>> \o drain) \o <<op>>, d0, d2)
  BY <1>7, <1>9, LeadsOn
<1>11. Leads(((<<w1>> \o drain) \o <<op>>) \o OnSlot(k, ks), d0, d3)
  BY <1>8, <1>10, LeadsOn
<1> QED
  BY <1>1, <1>3, <1>11 DEF d0, d3

\* The last drains of a pass over columns.
LEMMA LastColDrainsLead ==
  ASSUME NEW c, ColumnsOK(c), NEW n \in Nat, \A i \in 0 .. n - 1 : i * ctx.nb < c.m, NEW p,
         NEW outBuf, outBuf = ColSlots(c),
         NEW drain, \A i \in 0 .. n - 1 : drain[i] = DrainColBlock(i, c.m, ColArray(c), outBuf)
  PROVE  Leads(LastDrains(n, drain), ColDesc(c, Largest(n - NSLOT, 0), n, NoColumns, p),
               ColDesc(c, n, n, NoColumns, p))
PROOF
<1> DEFINE first == Largest(n - NSLOT, 0)
           m == n - first
           s == [j \in 1 .. m |-> drain[first + j - 1]]
           at == [j \in 0 .. m |-> ColDesc(c, first + j, n, NoColumns, p)]
           S == {s[j] : j \in 1 .. m}
<1>1. first \in Nat /\ m \in Nat /\ first + m = n
  BY DEF Largest, NSLOT
<1>2. LastDrains(n, drain) = FlattenSeq(s)
  BY Zenon DEF LastDrains
<1>3. at[0] = ColDesc(c, Largest(n - NSLOT, 0), n, NoColumns, p)
  <2>1. at[0] = ColDesc(c, first + 0, n, NoColumns, p)
    BY <1>1
  <2>2. first + 0 = Largest(n - NSLOT, 0)
    BY <1>1
  <2> QED
    BY <2>1, <2>2
<1> HIDE DEF m, first
<1>4. at[m] = ColDesc(c, n, n, NoColumns, p)
  BY <1>1
<1>5. ASSUME NEW j \in 1 .. m PROVE Leads(s[j], at[j - 1], at[j])
  <2>1. PICK i \in 0 .. n - 1 :
          i \in Nat /\ i < n /\ i = first + j - 1 /\ i = first + (j - 1) /\ first + j = i + 1 /\ j - 1 \in 0 .. m
    BY <1>1
  <2>2. s[j] = DrainColBlock(i, c.m, ColArray(c), outBuf)
    BY <2>1
  <2>3. at[j - 1] = ColDesc(c, i, n, NoColumns, p)
    BY <2>1
  <2>4. at[j] = ColDesc(c, i + 1, n, NoColumns, p)
    <3>1. at[j] = ColDesc(c, first + j, n, NoColumns, p)
      BY <1>1
    <3> QED
      BY <2>1, <3>1
  <2>5. Leads(DrainColBlock(i, c.m, ColArray(c), outBuf),
              ColDesc(c, i, n, NoColumns, p), ColDesc(c, i + 1, n, NoColumns, p))
    BY <2>1, DrainLeads
  <2> QED
    BY <2>2, <2>3, <2>4, <2>5
<1>6. s \in [1 .. m -> S]
  OBVIOUS
<1> HIDE DEF s, at, S
<1>7. Leads(FlattenSeq(s), at[0], at[m])
  BY <1>1, <1>5, <1>6, LeadsAll, Zenon
<1> QED
  BY <1>2, <1>3, <1>4, <1>7

\* A whole pass over columns.
LEMMA ColPassLeads ==
  ASSUME NEW c, ColumnsOK(c), NEW p, NEW outBuf, outBuf = ColSlots(c), NEW fn,
         \A i \in Nat : \A w \in 1 .. ctx.nb :
           i * ctx.nb < c.m /\ w = Least(ctx.nb, c.m - i * ctx.nb) =>
             Leads(fn[i % NSLOT][w], ColDesc(c, Largest(i - 1, 0), i, Loaded(i % NSLOT), p),
                   ColDesc(c, Largest(i - 1, 0), i + 1, NoColumns, p))
  PROVE  Leads(ColBlockPipeline(Y, c.m, ColArray(c), outBuf, fn),
               ColDesc(c, 0, 0, NoColumns, p),
               ColDesc(c, Ceil(c.m, ctx.nb), Ceil(c.m, ctx.nb), NoColumns, p))
PROOF
<1> DEFINE n == Ceil(c.m, ctx.nb)
           outH == ColArray(c)
           block == [j \in 1 .. n |-> ColBlock(j - 1, Y, c.m, outH, outBuf, fn)]
           drain == [i \in 0 .. n - 1 |-> DrainColBlock(i, c.m, outH, outBuf)]
           last == LastDrains(n, drain)
           at == [j \in 0 .. n |-> ColDesc(c, Largest(j - NSLOT, 0), j, NoColumns, p)]
           S == {block[j] : j \in 1 .. n}
<1>1. c.m \in Nat /\ ctx.nb \in Nat \ {0}
  BY DEF ColumnsOK, ContextOK
<1>2. /\ n \in Nat
      /\ \A i \in 0 .. n - 1 : Least(ctx.nb, c.m - i * ctx.nb) \in 1 .. Least(ctx.nb, c.m)
  BY <1>1, CeilBound
<1> HIDE DEF n
<1>3. ASSUME NEW i \in 0 .. n - 1 PROVE i * ctx.nb < c.m /\ i * ctx.nb \in Nat
  <2>1. i \in Nat /\ i * ctx.nb \in Nat
    BY <1>1, <1>2
  <2>2. PICK a \in Nat : a = i * ctx.nb
    BY <2>1
  <2>3. Least(ctx.nb, c.m - a) >= 1
    BY <1>1, <1>2, <2>2 DEF Least
  <2> QED
    BY <1>1, <2>2, <2>3 DEF Least
<1>4. at[0] = ColDesc(c, 0, 0, NoColumns, p)
  <2>1. at[0] = ColDesc(c, Largest(0 - NSLOT, 0), 0, NoColumns, p)
    BY <1>2
  <2>2. Largest(0 - NSLOT, 0) = 0
    BY DEF Largest, NSLOT
  <2> QED
    BY <2>1, <2>2
<1>5. at[n] = ColDesc(c, Largest(n - NSLOT, 0), n, NoColumns, p)
  BY <1>2
<1>6. ASSUME NEW j \in 1 .. n PROVE Leads(block[j], at[j - 1], at[j])
  <2>1. PICK i \in 0 .. n - 1 : i \in Nat /\ i = j - 1 /\ i + 1 = j /\ j - 1 \in 0 .. n /\ j \in 0 .. n
                                /\ j - NSLOT = i - 1
    BY <1>2 DEF NSLOT
  <2>2. block[j] = ColBlock(i, Y, c.m, outH, outBuf, fn)
    BY <2>1
  <2>3. at[j - 1] = ColDesc(c, Largest(i - NSLOT, 0), i, NoColumns, p)
    BY <2>1
  <2>4. at[j] = ColDesc(c, Largest(i - 1, 0), i + 1, NoColumns, p)
    <3>1. at[j] = ColDesc(c, Largest(j - NSLOT, 0), j, NoColumns, p)
      BY <2>1
    <3> QED
      BY <2>1, <3>1
  <2>5. PICK w : w = Least(ctx.nb, c.m - i * ctx.nb)
    OBVIOUS
  <2>6. w \in 1 .. ctx.nb /\ i * ctx.nb < c.m
    <3>1. Least(ctx.nb, c.m) <= ctx.nb /\ Least(ctx.nb, c.m) \in Int
      BY <1>1 DEF Least
    <3> QED
      BY <1>1, <1>2, <1>3, <2>5, <3>1
  <2>7. Leads(fn[i % NSLOT][w], ColDesc(c, Largest(i - 1, 0), i, Loaded(i % NSLOT), p),
                   ColDesc(c, Largest(i - 1, 0), i + 1, NoColumns, p))
    BY <2>1, <2>5, <2>6
  <2>8. Leads(ColBlock(i, Y, c.m, outH, outBuf, fn),
              ColDesc(c, Largest(i - NSLOT, 0), i, NoColumns, p),
              ColDesc(c, Largest(i - 1, 0), i + 1, NoColumns, p))
    BY <2>1, <2>5, <2>6, <2>7, ColBlockLeads
  <2> QED
    BY <2>2, <2>3, <2>4, <2>8
<1>7. block \in [1 .. n -> S]
  OBVIOUS
<1>8. ColBlockPipeline(Y, c.m, outH, outBuf, fn) = FlattenSeq(block) \o last \o EndPass("colPass")
  BY Zenon DEF ColBlockPipeline, n
<1>9. \A i \in 0 .. n - 1 : drain[i] = DrainColBlock(i, c.m, outH, outBuf)
  OBVIOUS
<1> HIDE DEF block, drain, S, at
<1>10. Leads(FlattenSeq(block), at[0], at[n])
  BY <1>2, <1>6, <1>7, LeadsAll, Zenon
<1>11. Leads(last, ColDesc(c, Largest(n - NSLOT, 0), n, NoColumns, p), ColDesc(c, n, n, NoColumns, p))
  BY <1>2, <1>3, <1>9, LastColDrainsLead
<1>12. Leads(EndPass("colPass"), ColDesc(c, n, n, NoColumns, p), ColDesc(c, n, n, NoColumns, p))
  BY EndLeads
<1> HIDE DEF last, outH
<1>13. Leads(FlattenSeq(block) \o last, at[0], ColDesc(c, n, n, NoColumns, p))
  BY <1>5, <1>10, <1>11, LeadsOn
<1>14. Leads((FlattenSeq(block) \o last) \o EndPass("colPass"), at[0], ColDesc(c, n, n, NoColumns, p))
  BY <1>12, <1>13, LeadsOn
<1> QED
  BY <1>4, <1>8, <1>14 DEF n, outH

\* Slots in which a block may be computed while the one before is on its way back.
LEMMA OneBehind ==
  ASSUME NEW i \in Nat
  PROVE  /\ Largest(i - 1, 0) \in Nat /\ i <= Largest(i - 1, 0) + 1
         /\ \A ii \in Largest(i - 1, 0) .. i - 1 : ii \in Nat /\ ii + 1 = i
PROOF
  BY DEF Largest

\* The claims of A Y, before and after it.
SpmmvGoal == Shift(Monomial(0))

\* A Y.
LEMMA SpmmvLeads ==
  ASSUME NEW c, ColumnsOK(c), c.op = "spmmv"
  PROVE  Leads(SpmmvEntry(c), ColDesc(c, 0, 0, NoColumns, SpmmvGoal),
               ColDesc(c, Ceil(c.m, ctx.nb), Ceil(c.m, ctx.nb), NoColumns, SpmmvGoal))
PROOF
<1> DEFINE kernel(k, w) == Kernel("spmmv", {X(k)}, {OutSlot[k]}, [x |-> X(k), y |-> OutSlot[k], w |-> w])
           fn == [k \in Slots |-> [w \in 1 .. ctx.nb |-> <<kernel(k, w)>>]]
<1>1. SpmmvEntry(c) = ColBlockPipeline(Y, c.m, AY, OutSlot, fn)
  BY Zenon DEF SpmmvEntry
<1>2. ColArray(c) = AY /\ ColSlots(c) = OutSlot
  BY DEF ColArray, ColSlots
<1>3. \A k \in Slots : \A w \in 1 .. ctx.nb : fn[k][w] = <<kernel(k, w)>>
  BY Zenon
<1> HIDE DEF fn
<1>4. ASSUME NEW i \in Nat, NEW w \in 1 .. ctx.nb, i * ctx.nb < c.m, w = Least(ctx.nb, c.m - i * ctx.nb)
      PROVE  Leads(fn[i % NSLOT][w], ColDesc(c, Largest(i - 1, 0), i, Loaded(i % NSLOT), SpmmvGoal),
                   ColDesc(c, Largest(i - 1, 0), i + 1, NoColumns, SpmmvGoal))
  <2>1. PICK k \in Slots, j \in Nat : k = i % NSLOT /\ j = Largest(i - 1, 0) /\ i <= j + 1
    BY SlotOf, OneBehind, Zenon
  <2>2. PICK op : op = kernel(k, w)
    OBVIOUS
  <2>3. fn[k][w] = <<op>>
    BY <1>3, <2>2
  <2> DEFINE h == Loaded(k)
             x == X(k)
             y == OutSlot[k]
  <2>4. x \in DOMAIN h /\ h[x] = Monomial(0) /\ x \in Scratch /\ y \in Scratch
    BY DEF Loaded, Scratch, OutSlot, Slots, NSLOT
  <2>5. Monomial(0) \in Poly
    BY DEF Monomial, Poly
  <2>6. op = Kernel("spmmv", {x}, {y}, [x |-> x, y |-> y, w |-> w])
    BY <2>2
  <2>7. y = ColSlots(c)[i % NSLOT]
    BY <1>2, <2>1
  <2> HIDE DEF h, x, y
  <2>8. SpmmvGoal = Shift(h[x]) /\ h[x] \in Poly
    BY <2>4, <2>5 DEF SpmmvGoal
  <2>9. Gives(ColDesc(c, j, i, h, SpmmvGoal), op, y, SpmmvGoal)
    BY <1>4, <2>4, <2>6, <2>8, SpmmvGives
  <2>10. Fits(ColDesc(c, j, i, h, SpmmvGoal), op, ColDesc(c, j, i + 1, NoColumns, SpmmvGoal))
    BY <2>1, <2>7, <2>9, FinishFits
  <2>11. Leads(<<op>>, ColDesc(c, j, i, h, SpmmvGoal), ColDesc(c, j, i + 1, NoColumns, SpmmvGoal))
    BY <2>10, LeadsOne
  <2> QED
    BY <2>1, <2>3, <2>11 DEF h
<1>5. PICK outBuf : outBuf = ColSlots(c)
  OBVIOUS
<1>6. Leads(ColBlockPipeline(Y, c.m, ColArray(c), outBuf, fn), ColDesc(c, 0, 0, NoColumns, SpmmvGoal),
               ColDesc(c, Ceil(c.m, ctx.nb), Ceil(c.m, ctx.nb), NoColumns, SpmmvGoal))
  BY <1>4, <1>5, ColPassLeads
<1> QED
  BY <1>1, <1>2, <1>5, <1>6

(***************************************************************************)
(* The filter: the sums of Clenshaw are those of the host's recurrence.    *)
(***************************************************************************)

\* A sequence in S: from a, each element by F from the one before.
Chain(f, a, F, n, S) ==
  f \in [0 .. n -> S] /\ f[0] = a /\ \A i \in 1 .. n : f[i] = F[i][f[i - 1]]
Steps(F, n, S) == F \in [1 .. n -> [S -> S]]

\* There is one.
LEMMA Recurrence ==
  ASSUME NEW n \in Nat, NEW S, NEW a \in S, NEW F, Steps(F, n, S)
  PROVE  \E f : Chain(f, a, F, n, S)
PROOF
<1> USE DEF Steps, Chain
<1> DEFINE Upto(m) == \E f \in [0 .. m -> S] : f[0] = a /\ \A i \in 1 .. m : f[i] = F[i][f[i - 1]]
           T == {m \in 0 .. n : ~Upto(m)}
<1>0. SUFFICES Upto(n)
  OBVIOUS
<1>1. SUFFICES ASSUME T # {} PROVE FALSE
  <2>1. n \in 0 .. n
    OBVIOUS
  <2> HIDE DEF Upto
  <2> QED
    BY <2>1
<1>2. PICK m \in T : \A y \in T : m <= y
  <2>1. T \subseteq Nat
    OBVIOUS
  <2> HIDE DEF T
  <2> QED
    BY <1>1, <2>1, LeastOf, Zenon
<1>3. m \in 0 .. n /\ ~Upto(m)
  OBVIOUS
<1>4. m # 0
  <2>1. SUFFICES ASSUME m = 0 PROVE FALSE
    OBVIOUS
  <2>2. PICK g : g = [i \in 0 .. 0 |-> a]
    BY Zenon
  <2>3. g \in [0 .. 0 -> S] /\ g[0] = a /\ \A i \in 1 .. 0 : g[i] = F[i][g[i - 1]]
    BY <2>2
  <2>4. Upto(0)
    BY <2>3
  <2> QED
    BY <1>3, <2>1, <2>4
<1>5. PICK k \in 0 .. n : k + 1 = m /\ k = m - 1 /\ k \in Nat /\ m \in 1 .. n
  BY <1>3, <1>4
<1>6. Upto(k)
  <2>1. ~(m <= k)
    BY <1>5
  <2> QED
    BY <1>2, <1>5, <2>1, ZenonT(30)
<1>7. PICK f \in [0 .. k -> S] : f[0] = a /\ \A i \in 1 .. k : f[i] = F[i][f[i - 1]]
  BY <1>6
<1> DEFINE g == [i \in 0 .. m |-> IF i = m THEN F[m][f[k]] ELSE f[i]]
<1>8. \A i \in 0 .. k : i \in 0 .. m /\ g[i] = f[i]
  BY <1>5
<1>9. g[m] = F[m][f[k]] /\ g[m] \in S
  BY <1>5
<1>10. g \in [0 .. m -> S]
  BY <1>5
<1>11. g[0] = a
  BY <1>5, <1>7, <1>8
<1> HIDE DEF g
<1>12. ASSUME NEW i \in 1 .. m PROVE g[i] = F[i][g[i - 1]]
  <2>1. CASE i = m
    <3>1. g[k] = f[k]
      BY <1>5, <1>8
    <3> QED
      BY <1>5, <1>9, <2>1, <3>1
  <2>2. CASE i # m
    <3>1. i \in 1 .. k /\ i \in 0 .. k /\ i - 1 \in 0 .. k
      BY <1>5, <2>2
    <3> QED
      BY <1>7, <1>8, <3>1
  <2> QED
    BY <2>1, <2>2
<1>13. Upto(m)
  BY <1>10, <1>11, <1>12, Zenon
<1> QED
  BY <1>3, <1>13

\* The entries of the polynomials.
LEMMA EntryOf ==
  /\ \A a, b, p, q : \A k \in Coefs : Comb(a, p, b, q)[k] = a * p[k] + b * q[k]
  /\ \A p : \A k \in Coefs : Shift(p)[k] = IF k = 0 THEN 0 ELSE p[k - 1]
  /\ \A k \in Coefs : Monomial(0)[k] = IF k = 0 THEN 1 ELSE 0
  /\ \A k \in Coefs : ZeroPoly[k] = 0
  /\ \A p, q : p \in Poly /\ q \in Poly /\ (\A k \in Coefs : p[k] = q[k]) => p = q
  /\ \A p \in Poly : \A k \in Coefs : p[k] \in Int
  /\ \A k \in Coefs : k \in Int /\ (k # 0 => k - 1 \in Coefs)
PROOF
  BY CoefficientsAssumption DEF Comb, Shift, Monomial, ZeroPoly, Poly, Coefs

\* The sums stay polynomials.
LEMMA SumsClosed ==
  /\ \A p \in Poly : Shift(p) \in Poly
  /\ \A a, b \in Int : \A p, q \in Poly : Comb(a, p, b, q) \in Poly
  /\ \A a \in Int : \A p \in Poly : Times(a, p) \in Poly
  /\ \A p, q \in Poly : Plus(p, q) \in Poly
  /\ Monomial(0) \in Poly /\ ZeroPoly \in Poly
  /\ \A k \in Coefs : Gc[k] \in Int
PROOF
<1>1. \A p \in Poly : Shift(p) \in Poly
  BY CoefficientsAssumption DEF Shift, Poly, Coefs
<1>2. \A a, b \in Int : \A p, q \in Poly : Comb(a, p, b, q) \in Poly
  BY CoefficientsAssumption DEF Comb, Poly
<1>3. Monomial(0) \in Poly /\ ZeroPoly \in Poly
  BY DEF Monomial, Poly, ZeroPoly
<1>4. \A k \in Coefs : Gc[k] \in Int
  BY CoefficientsAssumption
<1> QED
  BY <1>1, <1>2, <1>3, <1>4 DEF Times, Plus

\* The Chebyshev polynomials of the second kind, one place on: V[0] = 0, V[1] = 1.
SecondKind(V, n) ==
  /\ V \in [0 .. n -> Poly] /\ V[0] = ZeroPoly /\ V[1] = Monomial(0)
  /\ \A i \in 2 .. n : V[i] = Comb(2, Shift(V[i - 1]), -1, V[i - 2])

\* The sums of Clenshaw to degree n, and the last step.
Clenshaw(b, n) ==
  /\ b \in [1 .. n + 2 -> Poly] /\ b[n + 1] = ZeroPoly /\ b[n + 2] = ZeroPoly
  /\ \A k \in 1 .. n : b[k] = Plus(Comb(2, Shift(b[k + 1]), -1, b[k + 2]), Times(Gc[k], Monomial(0)))
ClenshawEnd(b) == Plus(Comb(1, Shift(b[1]), -1, b[2]), Times(Gc[0], Monomial(0)))

Pairs == [u : Poly, v : Poly]

\* There are such polynomials.
LEMMA SecondKindIs ==
  ASSUME NEW n \in Nat \ {0}
  PROVE  \E V : SecondKind(V, n)
PROOF
<1>0. PICK m \in Nat : m = n - 1
  OBVIOUS
<1> DEFINE step(s) == [u |-> Comb(2, Shift(s.u), -1, s.v), v |-> s.u]
           F == [i \in 1 .. m |-> [s \in Pairs |-> step(s)]]
           a == [u |-> Monomial(0), v |-> ZeroPoly]
<1>1. a \in Pairs
  BY SumsClosed DEF Pairs
<1>2. ASSUME NEW s \in Pairs PROVE step(s) \in Pairs
  <2>1. s.u \in Poly /\ s.v \in Poly
    BY DEF Pairs
  <2>2. Comb(2, Shift(s.u), -1, s.v) \in Poly
    BY <2>1, SumsClosed
  <2> QED
    BY <2>1, <2>2 DEF Pairs
<1>3. F \in [1 .. m -> [Pairs -> Pairs]]
  <2> HIDE DEF step
  <2>1. [s \in Pairs |-> step(s)] \in [Pairs -> Pairs]
    BY <1>2
  <2> QED
    BY <2>1
<1>4. a.u = Monomial(0) /\ a.v = ZeroPoly
  OBVIOUS
<1>5. \A i \in 1 .. m : \A s \in Pairs :
        F[i][s].u = Comb(2, Shift(s.u), -1, s.v) /\ F[i][s].v = s.u
  OBVIOUS
<1> HIDE DEF F, a
<1>6. PICK f \in [0 .. m -> Pairs] : f[0] = a /\ \A i \in 1 .. m : f[i] = F[i][f[i - 1]]
  <2>1. Steps(F, m, Pairs)
    BY <1>3 DEF Steps
  <2>2. \E f : Chain(f, a, F, m, Pairs)
    BY <1>1, <2>1, Recurrence
  <2> QED
    BY <2>2, Zenon DEF Chain
<1>7. ASSUME NEW i \in 1 .. m
      PROVE  f[i].u = Comb(2, Shift(f[i - 1].u), -1, f[i - 1].v) /\ f[i].v = f[i - 1].u
  <2>1. i - 1 \in 0 .. m
    OBVIOUS
  <2>2. f[i - 1] \in Pairs
    BY <2>1
  <2> QED
    BY <1>5, <1>6, <2>2
<1>8. \A i \in 0 .. m : f[i].u \in Poly
  BY DEF Pairs
<1> DEFINE V == [i \in 0 .. n |-> IF i = 0 THEN ZeroPoly ELSE f[i - 1].u]
<1>9. \A i \in 1 .. n : V[i] = f[i - 1].u
  BY <1>0
<1>10. V[0] = ZeroPoly
  OBVIOUS
<1>11. V \in [0 .. n -> Poly]
  BY <1>0, <1>8, SumsClosed
<1> HIDE DEF V
<1>12. V[1] = Monomial(0)
  <2>1. 1 \in 1 .. n /\ 1 - 1 = 0
    OBVIOUS
  <2> QED
    BY <1>4, <1>6, <1>9, <2>1
<1>13. ASSUME NEW i \in 2 .. n PROVE V[i] = Comb(2, Shift(V[i - 1]), -1, V[i - 2])
  <2>1. PICK j \in 1 .. m : j = i - 1 /\ i \in 1 .. n /\ i - 1 \in 1 .. n /\ (i - 1) - 1 = j - 1
    BY <1>0
  <2>2. V[i] = f[j].u /\ V[i - 1] = f[j - 1].u
    BY <1>9, <2>1
  <2>3. f[j - 1].v = V[i - 2]
    <3>1. CASE j = 1
      <4>1. i - 2 = 0 /\ j - 1 = 0
        BY <2>1, <3>1
      <4> QED
        BY <1>4, <1>6, <1>10, <4>1
    <3>2. CASE j # 1
      <4>1. PICK z \in 1 .. m : z = j - 1 /\ i - 2 \in 1 .. n /\ (i - 2) - 1 = z - 1
        BY <2>1, <3>2
      <4>2. f[z].v = f[z - 1].u
        BY <1>7
      <4>3. V[i - 2] = f[z - 1].u
        BY <1>9, <4>1
      <4> QED
        BY <4>1, <4>2, <4>3
    <3> QED
      BY <3>1, <3>2
  <2> QED
    BY <1>7, <2>2, <2>3
<1>14. SecondKind(V, n)
  BY <1>10, <1>11, <1>12, <1>13 DEF SecondKind
<1> QED
  BY <1>14

\* There are sums of Clenshaw.
LEMMA ClenshawIs ==
  ASSUME NEW n \in Coefs, n # 0
  PROVE  \E b : Clenshaw(b, n)
PROOF
<1>0. n \in Nat /\ Degree \in Nat /\ n <= Degree /\ \A i \in 1 .. n : n + 1 - i \in Coefs
  BY CoefficientsAssumption DEF Coefs
<1> DEFINE coef(i) == Times(Gc[n + 1 - i], Monomial(0))
           step(i, s) == [u |-> Plus(Comb(2, Shift(s.u), -1, s.v), coef(i)), v |-> s.u]
           F == [i \in 1 .. n |-> [s \in Pairs |-> step(i, s)]]
           a == [u |-> ZeroPoly, v |-> ZeroPoly]
<1>1. a \in Pairs
  BY SumsClosed DEF Pairs
<1>2. ASSUME NEW i \in 1 .. n, NEW s \in Pairs PROVE step(i, s) \in Pairs
  <2>1. s.u \in Poly /\ s.v \in Poly
    BY DEF Pairs
  <2>2. coef(i) \in Poly
    <3>1. Gc[n + 1 - i] \in Int
      BY <1>0, SumsClosed
    <3> QED
      BY <3>1, SumsClosed
  <2> HIDE DEF coef
  <2>3. Plus(Comb(2, Shift(s.u), -1, s.v), coef(i)) \in Poly
    BY <2>1, <2>2, SumsClosed
  <2> QED
    BY <2>1, <2>3 DEF Pairs
<1>3. Steps(F, n, Pairs)
  <2> HIDE DEF step
  <2>1. \A i \in 1 .. n : [s \in Pairs |-> step(i, s)] \in [Pairs -> Pairs]
    BY <1>2
  <2> QED
    BY <2>1 DEF Steps
<1>4. a.u = ZeroPoly /\ a.v = ZeroPoly
  OBVIOUS
<1>5. \A i \in 1 .. n : \A s \in Pairs :
        F[i][s].u = Plus(Comb(2, Shift(s.u), -1, s.v), coef(i)) /\ F[i][s].v = s.u
  OBVIOUS
<1> HIDE DEF F, a
<1>6. PICK f \in [0 .. n -> Pairs] : f[0] = a /\ \A i \in 1 .. n : f[i] = F[i][f[i - 1]]
  <2>1. \E f : Chain(f, a, F, n, Pairs)
    BY <1>0, <1>1, <1>3, Recurrence
  <2> QED
    BY <2>1, Zenon DEF Chain
<1>7. ASSUME NEW i \in 1 .. n
      PROVE  f[i].u = Plus(Comb(2, Shift(f[i - 1].u), -1, f[i - 1].v), coef(i)) /\ f[i].v = f[i - 1].u
  <2>1. f[i - 1] \in Pairs
    BY <1>0
  <2> HIDE DEF coef
  <2> QED
    BY <1>5, <1>6, <2>1
<1>8. \A i \in 0 .. n : f[i].u \in Poly
  BY DEF Pairs
<1> DEFINE b == [k \in 1 .. n + 2 |-> IF k = n + 2 THEN ZeroPoly ELSE f[n + 1 - k].u]
<1>9. \A i \in 0 .. n : b[n + 1 - i] = f[i].u
  <2>1. SUFFICES ASSUME NEW i \in 0 .. n PROVE b[n + 1 - i] = f[i].u
    OBVIOUS
  <2>2. n + 1 - i \in 1 .. n + 2 /\ n + 1 - i # n + 2 /\ n + 1 - (n + 1 - i) = i
    BY <1>0
  <2> QED
    BY <2>2
<1>10. b[n + 2] = ZeroPoly
  BY <1>0
<1>11. b \in [1 .. n + 2 -> Poly]
  <2>1. ASSUME NEW k \in 1 .. n + 2, k # n + 2 PROVE f[n + 1 - k].u \in Poly
    <3>1. n + 1 - k \in 0 .. n
      BY <1>0, <2>1
    <3> QED
      BY <1>8, <3>1
  <2> QED
    BY <2>1, SumsClosed
<1> HIDE DEF b
<1>12. b[n + 1] = ZeroPoly
  <2>1. 0 \in 0 .. n /\ n + 1 - 0 = n + 1
    BY <1>0
  <2> QED
    BY <1>4, <1>6, <1>9, <2>1
<1>13. ASSUME NEW k \in 1 .. n
       PROVE  b[k] = Plus(Comb(2, Shift(b[k + 1]), -1, b[k + 2]), Times(Gc[k], Monomial(0)))
  <2>1. PICK i \in 1 .. n :
          /\ i = n + 1 - k /\ i \in 0 .. n /\ i - 1 \in 0 .. n
          /\ n + 1 - i = k /\ n + 1 - (i - 1) = k + 1
    BY <1>0
  <2>2. b[k] = f[i].u /\ b[k + 1] = f[i - 1].u
    BY <1>9, <2>1
  <2>3. coef(i) = Times(Gc[k], Monomial(0))
    BY <2>1
  <2>4. f[i - 1].v = b[k + 2]
    <3>1. CASE i = 1
      <4>1. i - 1 = 0 /\ k + 2 = n + 2
        BY <1>0, <2>1, <3>1
      <4> QED
        BY <1>4, <1>6, <1>10, <4>1
    <3>2. CASE i # 1
      <4>1. PICK z \in 1 .. n : z = i - 1 /\ z - 1 \in 0 .. n /\ n + 1 - (z - 1) = k + 2
        BY <1>0, <2>1, <3>2
      <4>2. f[z].v = f[z - 1].u
        BY <1>7
      <4>3. b[k + 2] = f[z - 1].u
        BY <1>9, <4>1
      <4> QED
        BY <4>1, <4>2, <4>3
    <3> QED
      BY <3>1, <3>2
  <2>5. f[i].u = Plus(Comb(2, Shift(f[i - 1].u), -1, f[i - 1].v), coef(i))
    BY <1>7
  <2> HIDE DEF coef
  <2> QED
    BY <2>2, <2>3, <2>4, <2>5
<1>14. Clenshaw(b, n)
  BY <1>10, <1>11, <1>12, <1>13 DEF Clenshaw
<1> QED
  BY <1>14

\* The host's recurrence.
HostSums == [u : Poly, w : Poly, x : Poly]
HostFirst ==
  LET u == Shift(Monomial(0))
      w == Comb(2, Shift(u), -1, Monomial(0))
  IN [u |-> u, w |-> w, x |-> Comb(1, Comb(Gc[0], Monomial(0), Gc[1], u), Gc[2], w)]
HostStep(g, b) ==
  LET t == Comb(2, Shift(b.w), -1, b.u)
  IN [u |-> b.w, w |-> t, x |-> Comb(1, b.x, g, t)]
ForwardRuns(f) ==
  f = [n \in 3 .. Degree + 1 |-> IF n = 3 THEN HostFirst ELSE HostStep(Gc[n - 1], f[n - 1])]

\* It is what it says.
LEMMA ForwardIs ==
  ASSUME 2 \in Coefs
  PROVE  /\ Forward[3] = HostFirst
         /\ \A n \in 4 .. Degree + 1 : Forward[n] = HostStep(Gc[n - 1], Forward[n - 1])
         /\ \A n \in 3 .. Degree + 1 : Forward[n] \in HostSums
PROOF
<1>0. Degree \in Nat /\ 2 <= Degree /\ 0 \in Coefs /\ 1 \in Coefs
  BY CoefficientsAssumption DEF Coefs
<1>1. PICK m \in Nat : m = Degree - 2
  BY <1>0
<1> DEFINE F == [i \in 1 .. m |-> [s \in HostSums |-> HostStep(Gc[i + 2], s)]]
<1>2. HostFirst \in HostSums
  <2>1. Gc[0] \in Int /\ Gc[1] \in Int /\ Gc[2] \in Int
    BY <1>0, SumsClosed
  <2>2. Shift(Monomial(0)) \in Poly
    BY SumsClosed
  <2>3. Comb(2, Shift(Shift(Monomial(0))), -1, Monomial(0)) \in Poly
    BY <2>2, SumsClosed
  <2> DEFINE u == Shift(Monomial(0))
             w == Comb(2, Shift(u), -1, Monomial(0))
  <2>4. u \in Poly /\ w \in Poly
    BY <2>2, <2>3
  <2>5. HostFirst = [u |-> u, w |-> w, x |-> Comb(1, Comb(Gc[0], Monomial(0), Gc[1], u), Gc[2], w)]
    BY Zenon DEF HostFirst
  <2> HIDE DEF u, w
  <2>6. Comb(1, Comb(Gc[0], Monomial(0), Gc[1], u), Gc[2], w) \in Poly
    <3>1. Comb(Gc[0], Monomial(0), Gc[1], u) \in Poly
      BY <2>1, <2>4, SumsClosed
    <3> QED
      BY <2>1, <2>4, <3>1, SumsClosed
  <2> QED
    BY <2>4, <2>5, <2>6 DEF HostSums
<1>3. ASSUME NEW g \in Int, NEW s \in HostSums PROVE HostStep(g, s) \in HostSums
  <2>1. s.u \in Poly /\ s.w \in Poly /\ s.x \in Poly
    BY DEF HostSums
  <2> DEFINE t == Comb(2, Shift(s.w), -1, s.u)
  <2>2. t \in Poly
    BY <2>1, SumsClosed
  <2>3. HostStep(g, s) = [u |-> s.w, w |-> t, x |-> Comb(1, s.x, g, t)]
    BY Zenon DEF HostStep
  <2> HIDE DEF t
  <2>4. Comb(1, s.x, g, t) \in Poly
    BY <2>1, <2>2, SumsClosed
  <2> QED
    BY <2>1, <2>2, <2>3, <2>4 DEF HostSums
<1>4. Steps(F, m, HostSums)
  <2>1. \A i \in 1 .. m : Gc[i + 2] \in Int
    <3>1. \A i \in 1 .. m : i + 2 \in Coefs
      BY <1>0, <1>1 DEF Coefs
    <3> QED
      BY <3>1, SumsClosed
  <2>2. \A i \in 1 .. m : [s \in HostSums |-> HostStep(Gc[i + 2], s)] \in [HostSums -> HostSums]
    BY <1>3, <2>1
  <2> QED
    BY <2>2 DEF Steps
<1>5. PICK f : Chain(f, HostFirst, F, m, HostSums)
  BY <1>2, <1>4, Recurrence, Zenon
<1>6. /\ f \in [0 .. m -> HostSums] /\ f[0] = HostFirst
      /\ \A i \in 1 .. m : f[i] = HostStep(Gc[i + 2], f[i - 1])
  <2>1. f \in [0 .. m -> HostSums] /\ f[0] = HostFirst /\ \A i \in 1 .. m : f[i] = F[i][f[i - 1]]
    BY <1>5, Zenon DEF Chain
  <2>2. \A i \in 1 .. m : f[i - 1] \in HostSums
    BY <2>1
  <2>3. \A i \in 1 .. m : \A s \in HostSums : F[i][s] = HostStep(Gc[i + 2], s)
    OBVIOUS
  <2> HIDE DEF F
  <2> QED
    BY <2>1, <2>2, <2>3, Zenon
<1> DEFINE h == [n \in 3 .. Degree + 1 |-> f[n - 3]]
<1>7. ForwardRuns(h)
  <2>1. ASSUME NEW n \in 3 .. Degree + 1
        PROVE  f[n - 3] = IF n = 3 THEN HostFirst ELSE HostStep(Gc[n - 1], h[n - 1])
    <3>1. CASE n = 3
      BY <1>6, <3>1
    <3>2. CASE n # 3
      <4>1. PICK i \in 1 .. m : i = n - 3 /\ i + 2 = n - 1 /\ i - 1 = (n - 1) - 3 /\ n - 1 \in 3 .. Degree + 1
        BY <1>0, <1>1, <3>2
      <4>2. h[n - 1] = f[i - 1]
        BY <4>1
      <4> QED
        BY <1>6, <3>2, <4>1, <4>2
    <3> QED
      BY <3>1, <3>2
  <2> QED
    BY <2>1, Zenon DEF ForwardRuns
<1>8. Forward = CHOOSE g : ForwardRuns(g)
  BY Zenon DEF Forward, ForwardRuns, HostFirst, HostStep
<1> HIDE DEF h
<1>9. ForwardRuns(Forward)
  BY <1>7, <1>8, Zenon
<1>10. \A n \in 3 .. Degree + 1 :
         Forward[n] = IF n = 3 THEN HostFirst ELSE HostStep(Gc[n - 1], Forward[n - 1])
  BY <1>9, Zenon DEF ForwardRuns
<1>11. Forward[3] = HostFirst
  <2>1. 3 \in 3 .. Degree + 1
    BY <1>0
  <2> QED
    BY <1>10, <2>1
<1>12. \A n \in 4 .. Degree + 1 : Forward[n] = HostStep(Gc[n - 1], Forward[n - 1])
  BY <1>10
<1>13. ASSUME NEW n \in 3 .. Degree + 1 PROVE Forward[n] \in HostSums
  <2> DEFINE T == {k \in 3 .. Degree + 1 : Forward[k] \notin HostSums}
  <2>1. SUFFICES ASSUME T # {} PROVE FALSE
    OBVIOUS
  <2>2. PICK k \in T : \A y \in T : k <= y
    <3>1. T \subseteq Nat
      OBVIOUS
    <3> HIDE DEF T
    <3> QED
      BY <2>1, <3>1, LeastOf, Zenon
  <2>3. k \in 3 .. Degree + 1 /\ Forward[k] \notin HostSums
    OBVIOUS
  <2>4. k # 3
    BY <1>2, <1>11, <2>3
  <2>5. k - 1 \in 3 .. Degree + 1 /\ k \in 4 .. Degree + 1 /\ ~(k <= k - 1) /\ k - 1 \in Coefs
    BY <1>0, <2>3, <2>4 DEF Coefs
  <2>6. Forward[k - 1] \in HostSums
    BY <2>2, <2>5
  <2>7. Gc[k - 1] \in Int
    BY <2>5, SumsClosed
  <2> QED
    BY <1>3, <1>12, <2>3, <2>5, <2>6, <2>7
<1> QED
  BY <1>11, <1>12, <1>13

\* A shifted sum is the sum of what is shifted.
LEMMA ShiftOfSum ==
  ASSUME NEW a \in Int, NEW b \in Int, NEW p \in Poly, NEW q \in Poly
  PROVE  Shift(Comb(a, p, b, q)) = Comb(a, Shift(p), b, Shift(q))
PROOF
<1> DEFINE x == Shift(Comb(a, p, b, q))
           y == Comb(a, Shift(p), b, Shift(q))
<1>1. x \in Poly /\ y \in Poly
  <2>1. Comb(a, p, b, q) \in Poly /\ Shift(p) \in Poly /\ Shift(q) \in Poly
    BY SumsClosed
  <2> QED
    BY <2>1, SumsClosed
<1>2. ASSUME NEW k \in Coefs PROVE x[k] = y[k]
  <2>1. x[k] = IF k = 0 THEN 0 ELSE Comb(a, p, b, q)[k - 1]
    BY EntryOf
  <2>2. y[k] = a * Shift(p)[k] + b * Shift(q)[k]
    BY EntryOf
  <2>3. CASE k = 0
    <3>1. Shift(p)[k] = 0 /\ Shift(q)[k] = 0
      BY <2>3, EntryOf
    <3> QED
      BY <2>1, <2>2, <2>3, <3>1
  <2>4. CASE k # 0
    <3>1. k - 1 \in Coefs /\ Shift(p)[k] = p[k - 1] /\ Shift(q)[k] = q[k - 1]
      BY <2>4, EntryOf
    <3>2. Comb(a, p, b, q)[k - 1] = a * p[k - 1] + b * q[k - 1]
      BY <3>1, EntryOf
    <3> QED
      BY <2>1, <2>2, <2>4, <3>1, <3>2
  <2> QED
    BY <2>3, <2>4
<1> HIDE DEF x, y
<1>3. x = y
  BY <1>1, <1>2, EntryOf
<1> QED
  BY <1>3 DEF x, y

\* The polynomials of the first kind, out of those of the second.
FirstKind(p, q) == Comb(1, Shift(p), -1, q)

\* They follow the same recurrence.
LEMMA FirstKindNext ==
  ASSUME NEW p0 \in Poly, NEW p1 \in Poly, NEW p2, NEW p3,
         p2 = Comb(2, Shift(p1), -1, p0), p3 = Comb(2, Shift(p2), -1, p1)
  PROVE  Comb(2, Shift(FirstKind(p2, p1)), -1, FirstKind(p1, p0)) = FirstKind(p3, p2)
PROOF
<1>1. /\ Shift(p1) \in Poly /\ p2 \in Poly /\ Shift(p2) \in Poly /\ Shift(Shift(p2)) \in Poly
      /\ p3 \in Poly /\ Shift(p3) \in Poly
  <2>1. Shift(p1) \in Poly /\ p2 \in Poly
    BY SumsClosed
  <2>2. Shift(p2) \in Poly /\ p3 \in Poly
    BY <2>1, SumsClosed
  <2> QED
    BY <2>1, <2>2, SumsClosed
<1>2. Shift(FirstKind(p2, p1)) = Comb(1, Shift(Shift(p2)), -1, Shift(p1))
  BY <1>1, ShiftOfSum DEF FirstKind
<1>3. Shift(p3) = Comb(2, Shift(Shift(p2)), -1, Shift(p1))
  BY <1>1, ShiftOfSum
<1> DEFINE a == Comb(1, Shift(Shift(p2)), -1, Shift(p1))
           b == FirstKind(p1, p0)
           x == Comb(2, a, -1, b)
           y == FirstKind(p3, p2)
<1>4. a \in Poly /\ b \in Poly /\ x \in Poly /\ y \in Poly
  <2>1. a \in Poly /\ b \in Poly /\ y \in Poly
    BY <1>1, SumsClosed DEF FirstKind
  <2> HIDE DEF a, b
  <2> QED
    BY <2>1, SumsClosed
<1>5. ASSUME NEW k \in Coefs PROVE x[k] = y[k]
  <2>1. PICK s2 \in Int, s1 \in Int, z1 \in Int, z0 \in Int :
          s2 = Shift(Shift(p2))[k] /\ s1 = Shift(p1)[k] /\ z1 = p1[k] /\ z0 = p0[k]
    BY <1>1, EntryOf, Zenon
  <2>2. a[k] = 1 * s2 + (-1) * s1 /\ b[k] = 1 * s1 + (-1) * z0 /\ p2[k] = 2 * s1 + (-1) * z0
    BY <2>1, EntryOf DEF FirstKind
  <2>3. Shift(p3)[k] = 2 * s2 + (-1) * s1
    BY <1>3, <2>1, EntryOf
  <2>4. x[k] = 2 * a[k] + (-1) * b[k] /\ y[k] = 1 * Shift(p3)[k] + (-1) * p2[k]
    BY EntryOf DEF FirstKind
  <2> HIDE DEF a, b, x, y
  <2> QED
    BY <2>2, <2>3, <2>4
<1> HIDE DEF x, y
<1>6. x = y
  BY <1>4, <1>5, EntryOf
<1> QED
  BY <1>2, <1>6 DEF x, y

\* The first two.
LEMMA FirstKindFirst ==
  ASSUME NEW p2, p2 = Comb(2, Shift(Monomial(0)), -1, ZeroPoly)
  PROVE  /\ FirstKind(Monomial(0), ZeroPoly) = Shift(Monomial(0))
         /\ FirstKind(p2, Monomial(0)) = Comb(2, Shift(Shift(Monomial(0))), -1, Monomial(0))
PROOF
<1> DEFINE e == Monomial(0)
           s == Shift(e)
           z == Shift(s)
           o == Shift(ZeroPoly)
<1>1. e \in Poly /\ s \in Poly /\ z \in Poly /\ ZeroPoly \in Poly /\ o = ZeroPoly
  BY SumsClosed, PolyZero
<1>2. Shift(p2) = Comb(2, z, -1, o)
  BY <1>1, ShiftOfSum
<1> DEFINE x1 == Comb(1, s, -1, ZeroPoly)
           x2 == Comb(1, Comb(2, z, -1, ZeroPoly), -1, e)
           y2 == Comb(2, z, -1, e)
<1>3. FirstKind(e, ZeroPoly) = x1 /\ FirstKind(p2, e) = x2
  BY <1>1, <1>2 DEF FirstKind
<1>4. x1 \in Poly /\ x2 \in Poly /\ y2 \in Poly
  <2>1. Comb(2, z, -1, ZeroPoly) \in Poly
    BY <1>1, SumsClosed
  <2> QED
    BY <1>1, <2>1, SumsClosed
<1> HIDE DEF e, s, z
<1>5. ASSUME NEW k \in Coefs PROVE x1[k] = s[k] /\ x2[k] = y2[k]
  <2>1. PICK ek \in Int, sk \in Int, zk \in Int : ek = e[k] /\ sk = s[k] /\ zk = z[k]
    BY <1>1, EntryOf
  <2>2. ZeroPoly[k] = 0
    BY EntryOf
  <2>3. x1[k] = 1 * sk + (-1) * 0
    BY <2>1, <2>2, EntryOf
  <2>4. Comb(2, z, -1, ZeroPoly)[k] = 2 * zk + (-1) * 0
    BY <2>1, <2>2, EntryOf
  <2>5. x2[k] = 1 * Comb(2, z, -1, ZeroPoly)[k] + (-1) * ek /\ y2[k] = 2 * zk + (-1) * ek
    BY <2>1, EntryOf
  <2> HIDE DEF x1, x2, y2
  <2> QED
    BY <2>1, <2>3, <2>4, <2>5
<1> HIDE DEF x1, x2, y2
<1>6. x1 = s /\ x2 = y2
  BY <1>1, <1>4, <1>5, EntryOf
<1> QED
  BY <1>3, <1>6 DEF e, s, z, y2

\* The host's registers hold polynomials of the first kind.
LEMMA HostRegisters ==
  ASSUME 2 \in Coefs, NEW V, SecondKind(V, Degree)
  PROVE  \A n \in 2 .. Degree : /\ Forward[n + 1].w = FirstKind(V[n], V[n - 1])
                                /\ Forward[n + 1].u = FirstKind(V[n - 1], V[n - 2])
PROOF
<1>0. Degree \in Nat /\ 2 <= Degree
  BY CoefficientsAssumption DEF Coefs
<1>1. /\ V \in [0 .. Degree -> Poly] /\ V[0] = ZeroPoly /\ V[1] = Monomial(0)
      /\ \A i \in 2 .. Degree : V[i] = Comb(2, Shift(V[i - 1]), -1, V[i - 2])
  BY DEF SecondKind
<1> DEFINE Good(n) == /\ Forward[n + 1].w = FirstKind(V[n], V[n - 1])
                      /\ Forward[n + 1].u = FirstKind(V[n - 1], V[n - 2])
           T == {n \in 2 .. Degree : ~Good(n)}
<1>2. SUFFICES ASSUME T # {} PROVE FALSE
  OBVIOUS
<1>3. PICK n \in T : \A y \in T : n <= y
  <2>1. T \subseteq Nat
    OBVIOUS
  <2> HIDE DEF T
  <2> QED
    BY <1>2, <2>1, LeastOf, Zenon
<1>4. n \in 2 .. Degree /\ ~Good(n)
  OBVIOUS
<1>5. n # 2
  <2>1. SUFFICES ASSUME n = 2 PROVE FALSE
    OBVIOUS
  <2>2. V[2] = Comb(2, Shift(V[1]), -1, V[0])
    <3>1. 2 \in 2 .. Degree /\ 2 - 1 = 1 /\ 2 - 2 = 0
      BY <1>0
    <3> QED
      BY <1>1, <3>1
  <2>3. Forward[3].w = Comb(2, Shift(Shift(Monomial(0))), -1, Monomial(0))
        /\ Forward[3].u = Shift(Monomial(0))
    BY ForwardIs DEF HostFirst
  <2>4. FirstKind(V[2], V[1]) = Forward[3].w /\ FirstKind(V[1], V[0]) = Forward[3].u
    BY <1>1, <2>2, <2>3, FirstKindFirst
  <2>5. n + 1 = 3 /\ n - 1 = 1 /\ n - 2 = 0
    BY <2>1
  <2> QED
    BY <1>4, <2>1, <2>4, <2>5
<1>6. PICK m \in 2 .. Degree :
        /\ m = n - 1 /\ n - 2 = m - 1 /\ m + 1 = n /\ n + 1 \in 4 .. Degree + 1 /\ (n + 1) - 1 = n
        /\ m - 1 \in 0 .. Degree /\ m - 2 \in 0 .. Degree /\ m \in 0 .. Degree /\ ~(n <= m)
  BY <1>0, <1>4, <1>5
<1>7. Good(m)
  BY <1>3, <1>6
<1>8. Forward[n + 1] = HostStep(Gc[n], Forward[n])
  BY <1>6, ForwardIs
<1>9. Forward[n + 1].w = Comb(2, Shift(Forward[n].w), -1, Forward[n].u) /\ Forward[n + 1].u = Forward[n].w
  BY <1>8 DEF HostStep
<1>10. Forward[n].w = FirstKind(V[m], V[m - 1]) /\ Forward[n].u = FirstKind(V[m - 1], V[m - 2])
  BY <1>6, <1>7
<1>11. V[m] = Comb(2, Shift(V[m - 1]), -1, V[m - 2]) /\ V[n] = Comb(2, Shift(V[m]), -1, V[m - 1])
  <2>1. V[n] = Comb(2, Shift(V[n - 1]), -1, V[n - 2])
    BY <1>1, <1>4
  <2> QED
    BY <1>1, <1>6, <2>1
<1>12. V[m - 1] \in Poly /\ V[m - 2] \in Poly /\ V[m] \in Poly /\ V[n] \in Poly
  <2>1. n \in 0 .. Degree
    BY <1>4
  <2> QED
    BY <1>1, <1>6, <2>1
<1>13. PICK p0 \in Poly, p1 \in Poly, p2 \in Poly, p3 \in Poly :
         p0 = V[m - 2] /\ p1 = V[m - 1] /\ p2 = V[m] /\ p3 = V[n]
  BY <1>12
<1>14. Comb(2, Shift(FirstKind(p2, p1)), -1, FirstKind(p1, p0)) = FirstKind(p3, p2)
  BY <1>11, <1>13, FirstKindNext
<1>15. Forward[n + 1].w = FirstKind(V[n], V[m]) /\ Forward[n + 1].u = FirstKind(V[m], V[m - 1])
  BY <1>9, <1>10, <1>13, <1>14
<1> QED
  BY <1>4, <1>6, <1>15

\* A sum without the last coefficient.
Less(b, g, v) == Comb(1, b, -1, Times(g, v))

\* A shifted one, and their entries.
LEMMA LessOf ==
  ASSUME NEW b \in Poly, NEW g \in Int, NEW v \in Poly
  PROVE  /\ Less(b, g, v) \in Poly /\ Shift(Less(b, g, v)) = Less(Shift(b), g, Shift(v))
         /\ \A k \in Coefs : Less(b, g, v)[k] = b[k] - g * v[k]
PROOF
<1>1. Times(g, v) \in Poly /\ Shift(b) \in Poly /\ Shift(v) \in Poly
  BY SumsClosed
<1>2. Shift(Times(g, v)) = Times(g, Shift(v))
  BY ShiftOfSum DEF Times
<1>3. Less(b, g, v) \in Poly /\ Shift(Less(b, g, v)) = Less(Shift(b), g, Shift(v))
  <2>1. PICK t \in Poly : t = Times(g, v)
    BY <1>1
  <2>2. Comb(1, b, -1, t) \in Poly
    BY <2>1, SumsClosed
  <2>3. Shift(Comb(1, b, -1, t)) = Comb(1, Shift(b), -1, Shift(t))
    BY ShiftOfSum
  <2>4. Less(b, g, v) = Comb(1, b, -1, t) /\ Less(Shift(b), g, Shift(v)) = Comb(1, Shift(b), -1, Shift(t))
    BY <1>2, <2>1 DEF Less
  <2> QED
    BY <2>2, <2>3, <2>4
<1>4. ASSUME NEW k \in Coefs PROVE Less(b, g, v)[k] = b[k] - g * v[k]
  <2>1. PICK x \in Int, y \in Int : x = b[k] /\ y = v[k]
    BY EntryOf
  <2>2. Times(g, v)[k] = g * y + 0 * y
    BY <2>1, EntryOf DEF Times
  <2>3. Less(b, g, v)[k] = 1 * x + (-1) * Times(g, v)[k]
    BY <2>1, EntryOf DEF Less
  <2>4. PICK z \in Int : z = g * y
    OBVIOUS
  <2> QED
    BY <2>1, <2>2, <2>3, <2>4
<1> QED
  BY <1>3, <1>4

\* The entries of the sums.
LEMMA SumEntries ==
  ASSUME NEW p \in Poly, NEW q \in Poly, NEW k \in Coefs
  PROVE  /\ FirstKind(p, q)[k] = Shift(p)[k] - q[k]
         /\ Comb(2, Shift(p), -1, q)[k] = 2 * Shift(p)[k] - q[k]
         /\ Plus(p, q)[k] = p[k] + q[k]
         /\ p[k] \in Int /\ q[k] \in Int /\ Shift(p)[k] \in Int /\ Shift(q)[k] \in Int
PROOF
<1>1. PICK x \in Int, y \in Int, s \in Int, t \in Int :
        x = p[k] /\ y = q[k] /\ s = Shift(p)[k] /\ t = Shift(q)[k]
  <2>1. Shift(p) \in Poly /\ Shift(q) \in Poly
    BY SumsClosed
  <2> QED
    BY <2>1, EntryOf, Zenon
<1>2. FirstKind(p, q)[k] = 1 * s + (-1) * y /\ Comb(2, Shift(p), -1, q)[k] = 2 * s + (-1) * y
      /\ Plus(p, q)[k] = 1 * x + 1 * y
  BY <1>1, EntryOf DEF FirstKind, Plus
<1> QED
  BY <1>1, <1>2

\* The coefficients of a multiple, and of a sum with one.
LEMMA MultipleEntries ==
  ASSUME NEW p \in Poly, NEW q \in Poly, NEW h \in Int, NEW k \in Coefs
  PROVE  /\ Times(h, p)[k] = h * p[k]
         /\ Comb(1, p, h, q)[k] = p[k] + h * q[k]
PROOF
<1>1. PICK x \in Int, y \in Int : x = p[k] /\ y = q[k]
  BY EntryOf
<1>2. Times(h, p)[k] = h * x + 0 * x /\ Comb(1, p, h, q)[k] = 1 * x + h * y
  BY <1>1, EntryOf DEF Times
<1>3. PICK hx \in Int : hx = h * x
  OBVIOUS
<1>4. h * x + 0 * x = h * x
  BY <1>3
<1>5. 1 * x + h * y = x + h * y
  OBVIOUS
<1> QED
  BY <1>1, <1>2, <1>4, <1>5

\* A step of Clenshaw, without the last coefficient.
LEMMA LessStep ==
  ASSUME NEW b1 \in Poly, NEW b2 \in Poly, NEW v1 \in Poly, NEW v2 \in Poly, NEW g \in Int, NEW h \in Int,
         NEW b0, b0 = Plus(Comb(2, Shift(b1), -1, b2), Times(h, Monomial(0))),
         NEW v0, v0 = Comb(2, Shift(v1), -1, v2)
  PROVE  Less(b0, g, v0)
           = Plus(Comb(2, Shift(Less(b1, g, v1)), -1, Less(b2, g, v2)), Times(h, Monomial(0)))
PROOF
<1> DEFINE t == Times(h, Monomial(0))
           c == Comb(2, Shift(b1), -1, b2)
           d1 == Less(b1, g, v1)
           d2 == Less(b2, g, v2)
           r == Comb(2, Shift(d1), -1, d2)
           x == Less(b0, g, v0)
           y == Plus(r, t)
<1>1. /\ t \in Poly /\ Shift(b1) \in Poly /\ Shift(v1) \in Poly /\ c \in Poly /\ v0 \in Poly
      /\ d1 \in Poly /\ d2 \in Poly /\ Shift(d1) = Less(Shift(b1), g, Shift(v1)) /\ Monomial(0) \in Poly
  <2>1. Monomial(0) \in Poly /\ Shift(b1) \in Poly /\ Shift(v1) \in Poly
    BY SumsClosed
  <2>2. t \in Poly /\ c \in Poly /\ v0 \in Poly
    BY <2>1, SumsClosed
  <2>3. d1 \in Poly /\ d2 \in Poly /\ Shift(d1) = Less(Shift(b1), g, Shift(v1))
    BY LessOf
  <2> QED
    BY <2>1, <2>2, <2>3
<1> HIDE DEF t, c, d1, d2
<1>2. b0 \in Poly /\ r \in Poly
  <2>1. Shift(d1) \in Poly
    BY <1>1, SumsClosed
  <2> QED
    BY <1>1, <2>1, SumsClosed DEF t, c
<1> HIDE DEF r
<1>3. x \in Poly /\ y \in Poly
  BY <1>1, <1>2, SumsClosed, LessOf
<1>4. ASSUME NEW k \in Coefs PROVE x[k] = y[k]
  <2>1. PICK p1 \in Int, p2 \in Int, q1 \in Int, q2 \in Int, tk \in Int :
          p1 = Shift(b1)[k] /\ p2 = b2[k] /\ q1 = Shift(v1)[k] /\ q2 = v2[k] /\ tk = t[k]
    BY <1>1, EntryOf, Zenon
  <2>2. x[k] = b0[k] - g * v0[k] /\ d2[k] = p2 - g * q2 /\ Shift(d1)[k] = p1 - g * q1
    <3>1. Less(b0, g, v0)[k] = b0[k] - g * v0[k]
      BY <1>1, <1>2, LessOf
    <3>2. d2[k] = b2[k] - g * v2[k]
      BY LessOf DEF d2
    <3>3. Less(Shift(b1), g, Shift(v1))[k] = Shift(b1)[k] - g * Shift(v1)[k]
      BY <1>1, LessOf
    <3> QED
      BY <1>1, <2>1, <3>1, <3>2, <3>3
  <2>3. c[k] = 2 * p1 - p2 /\ v0[k] = 2 * q1 - q2
    BY <2>1, SumEntries DEF c
  <2>4. r[k] = 2 * Shift(d1)[k] - d2[k]
    BY <1>1, SumEntries DEF r
  <2>5. y[k] = r[k] + tk
    BY <1>1, <1>2, <2>1, SumEntries
  <2>6. b0[k] = c[k] + tk
    <3>1. b0 = Plus(c, t)
      BY DEF c, t
    <3>2. Plus(c, t)[k] = 1 * c[k] + 1 * t[k]
      BY EntryOf DEF Plus
    <3>3. PICK ck \in Int : ck = c[k]
      BY <1>1, EntryOf
    <3> QED
      BY <2>1, <3>1, <3>2, <3>3
  <2>7. PICK g1 \in Int, g2 \in Int : g1 = g * q1 /\ g2 = g * q2 /\ g * (2 * q1 - q2) = 2 * g1 - g2
    <3>1. g * q1 \in Int /\ g * q2 \in Int /\ g * (2 * q1 - q2) = 2 * (g * q1) - (g * q2)
      OBVIOUS
    <3> QED
      BY <3>1
  <2> HIDE DEF x, y
  <2> QED
    BY <2>1, <2>2, <2>3, <2>4, <2>5, <2>6, <2>7
<1> HIDE DEF x, y
<1>5. x = y
  BY <1>3, <1>4, EntryOf
<1> QED
  BY <1>5 DEF x, y, r, d1, d2, t

\* The last step.
LEMMA LessEnd ==
  ASSUME NEW b1 \in Poly, NEW b2 \in Poly, NEW v1 \in Poly, NEW v2 \in Poly, NEW g \in Int, NEW t \in Poly
  PROVE  Plus(FirstKind(b1, b2), t)
           = Comb(1, Plus(FirstKind(Less(b1, g, v1), Less(b2, g, v2)), t), g, FirstKind(v1, v2))
PROOF
<1> DEFINE c == FirstKind(b1, b2)
           d1 == Less(b1, g, v1)
           d2 == Less(b2, g, v2)
           r == FirstKind(d1, d2)
           s == Plus(r, t)
           f == FirstKind(v1, v2)
           x == Plus(c, t)
           y == Comb(1, s, g, f)
<1>1. /\ Shift(b1) \in Poly /\ Shift(v1) \in Poly /\ c \in Poly /\ f \in Poly
      /\ d1 \in Poly /\ d2 \in Poly /\ Shift(d1) = Less(Shift(b1), g, Shift(v1))
  BY SumsClosed, LessOf DEF FirstKind
<1> HIDE DEF c, d1, d2, f
<1>2. r \in Poly
  <2>1. Shift(d1) \in Poly
    BY <1>1, SumsClosed
  <2> QED
    BY <1>1, <2>1, SumsClosed DEF FirstKind
<1> HIDE DEF r
<1>3. s \in Poly /\ x \in Poly
  BY <1>1, <1>2, SumsClosed
<1> HIDE DEF s
<1>4. y \in Poly
  BY <1>1, <1>3, SumsClosed
<1>5. ASSUME NEW k \in Coefs PROVE x[k] = y[k]
  <2>1. PICK p1 \in Int, p2 \in Int, q1 \in Int, q2 \in Int, tk \in Int :
          p1 = Shift(b1)[k] /\ p2 = b2[k] /\ q1 = Shift(v1)[k] /\ q2 = v2[k] /\ tk = t[k]
    BY <1>1, EntryOf, Zenon
  <2>2. d2[k] = p2 - g * q2 /\ Shift(d1)[k] = p1 - g * q1
    <3>1. d2[k] = b2[k] - g * v2[k]
      BY LessOf DEF d2
    <3>2. Less(Shift(b1), g, Shift(v1))[k] = Shift(b1)[k] - g * Shift(v1)[k]
      BY <1>1, LessOf
    <3> QED
      BY <1>1, <2>1, <3>1, <3>2
  <2>3. c[k] = p1 - p2 /\ f[k] = q1 - q2
    BY <2>1, SumEntries DEF c, f
  <2>4. r[k] = Shift(d1)[k] - d2[k]
    BY <1>1, SumEntries DEF r
  <2>5. s[k] = r[k] + tk
    BY <1>2, <2>1, SumEntries DEF s
  <2>6. x[k] = c[k] + tk
    BY <1>1, <2>1, SumEntries
  <2>7. y[k] = s[k] + g * f[k]
    BY <1>1, <1>3, MultipleEntries
  <2>8. PICK g1 \in Int, g2 \in Int : g1 = g * q1 /\ g2 = g * q2 /\ g * (q1 - q2) = g1 - g2
    <3>1. g * q1 \in Int /\ g * q2 \in Int /\ g * (q1 - q2) = (g * q1) - (g * q2)
      OBVIOUS
    <3> QED
      BY <3>1
  <2> HIDE DEF x, y
  <2> QED
    BY <2>1, <2>2, <2>3, <2>4, <2>5, <2>6, <2>7, <2>8
<1> HIDE DEF x, y
<1>6. x = y
  BY <1>3, <1>4, <1>5, EntryOf
<1> QED
  BY <1>6 DEF x, y, c, s, r, d1, d2, f

\* Less of nothing.
LEMMA LessNothing ==
  ASSUME NEW g \in Int
  PROVE  /\ Less(ZeroPoly, g, ZeroPoly) = ZeroPoly
         /\ Less(Plus(Comb(2, Shift(ZeroPoly), -1, ZeroPoly), Times(g, Monomial(0))), g, Monomial(0)) = ZeroPoly
PROOF
<1> DEFINE t == Times(g, Monomial(0))
           c == Comb(2, Shift(ZeroPoly), -1, ZeroPoly)
           b == Plus(c, t)
           x == Less(ZeroPoly, g, ZeroPoly)
           y == Less(b, g, Monomial(0))
<1>1. ZeroPoly \in Poly /\ Monomial(0) \in Poly /\ Shift(ZeroPoly) = ZeroPoly /\ t \in Poly /\ c \in Poly
  <2>1. ZeroPoly \in Poly /\ Monomial(0) \in Poly /\ Shift(ZeroPoly) = ZeroPoly
    BY SumsClosed, PolyZero
  <2> QED
    BY <2>1, SumsClosed
<1>2. \A k \in Coefs : c[k] = 0 /\ t[k] = g * Monomial(0)[k] /\ ZeroPoly[k] = 0 /\ Monomial(0)[k] \in Int
  <2>1. SUFFICES ASSUME NEW k \in Coefs
                 PROVE  c[k] = 0 /\ t[k] = g * Monomial(0)[k] /\ ZeroPoly[k] = 0 /\ Monomial(0)[k] \in Int
    OBVIOUS
  <2>2. c[k] = 2 * ZeroPoly[k] + (-1) * ZeroPoly[k] /\ ZeroPoly[k] = 0
    BY <1>1, EntryOf
  <2>3. t[k] = g * Monomial(0)[k] /\ Monomial(0)[k] \in Int
    BY <1>1, MultipleEntries, EntryOf
  <2> QED
    BY <2>2, <2>3
<1> HIDE DEF t, c
<1>3. b \in Poly /\ \A k \in Coefs : b[k] = g * Monomial(0)[k]
  <2>1. b \in Poly
    BY <1>1, SumsClosed
  <2>2. ASSUME NEW k \in Coefs PROVE b[k] = g * Monomial(0)[k]
    <3>1. b[k] = 1 * c[k] + 1 * t[k]
      BY EntryOf DEF Plus
    <3>2. PICK z \in Int : z = g * Monomial(0)[k]
      BY <1>2
    <3> QED
      BY <1>2, <3>1, <3>2
  <2> QED
    BY <2>1, <2>2
<1> HIDE DEF b
<1>4. x \in Poly /\ y \in Poly
  BY <1>1, <1>3, LessOf
<1>5. ASSUME NEW k \in Coefs PROVE x[k] = ZeroPoly[k] /\ y[k] = ZeroPoly[k]
  <2>1. x[k] = ZeroPoly[k] - g * ZeroPoly[k] /\ y[k] = b[k] - g * Monomial(0)[k]
    BY <1>1, <1>3, LessOf
  <2>2. PICK z \in Int : z = g * Monomial(0)[k]
    BY <1>2
  <2>3. x[k] = 0
    BY <1>2, <2>1
  <2>4. y[k] = 0
    BY <1>3, <2>1, <2>2
  <2> QED
    BY <1>2, <2>3, <2>4
<1> HIDE DEF x, y
<1>6. x = ZeroPoly /\ y = ZeroPoly
  BY <1>1, <1>4, <1>5, EntryOf
<1> QED
  BY <1>6 DEF x, y, b, c, t

\* The sums to degree n are those to the degree below and the last polynomial.
LEMMA ClenshawDown ==
  ASSUME NEW n \in 2 .. Degree, 2 \in Coefs, NEW b, Clenshaw(b, n), NEW V, SecondKind(V, Degree)
  PROVE  \E c : /\ Clenshaw(c, n - 1)
                /\ ClenshawEnd(b) = Comb(1, ClenshawEnd(c), Gc[n], FirstKind(V[n], V[n - 1]))
PROOF
<1>0. /\ Degree \in Nat /\ n \in Nat /\ n <= Degree /\ n \in Coefs /\ 0 \in Coefs
      /\ \A k \in 1 .. n : k \in Coefs
  BY CoefficientsAssumption DEF Coefs
<1>1. PICK g \in Int : g = Gc[n]
  BY <1>0, SumsClosed
<1>2. /\ V \in [0 .. Degree -> Poly] /\ V[0] = ZeroPoly /\ V[1] = Monomial(0)
      /\ \A i \in 2 .. Degree : V[i] = Comb(2, Shift(V[i - 1]), -1, V[i - 2])
  BY DEF SecondKind
<1>3. /\ b \in [1 .. n + 2 -> Poly] /\ b[n + 1] = ZeroPoly /\ b[n + 2] = ZeroPoly
      /\ \A k \in 1 .. n : b[k] = Plus(Comb(2, Shift(b[k + 1]), -1, b[k + 2]), Times(Gc[k], Monomial(0)))
  BY DEF Clenshaw
<1> DEFINE c == [k \in 1 .. n + 1 |-> Less(b[k], g, V[n + 1 - k])]
<1>4. \A k \in 1 .. n + 1 : c[k] = Less(b[k], g, V[n + 1 - k])
  OBVIOUS
<1>5. ASSUME NEW k \in 1 .. n + 1 PROVE b[k] \in Poly /\ V[n + 1 - k] \in Poly
  <2>1. k \in 1 .. n + 2 /\ n + 1 - k \in 0 .. Degree
    BY <1>0
  <2> QED
    BY <1>2, <1>3, <2>1, Zenon
<1>6. c \in [1 .. n + 1 -> Poly]
  BY <1>1, <1>5, LessOf
<1> HIDE DEF c
<1>7. c[n + 1] = ZeroPoly
  <2>1. n + 1 \in 1 .. n + 1 /\ n + 1 - (n + 1) = 0
    BY <1>0
  <2> QED
    BY <1>1, <1>2, <1>3, <1>4, <2>1, LessNothing
<1>8. c[n] = ZeroPoly
  <2>1. n \in 1 .. n + 1 /\ n + 1 - n = 1 /\ n \in 1 .. n
    BY <1>0
  <2>2. b[n] = Plus(Comb(2, Shift(ZeroPoly), -1, ZeroPoly), Times(g, Monomial(0)))
    BY <1>1, <1>3, <2>1
  <2>3. c[n] = Less(b[n], g, Monomial(0))
    BY <1>2, <1>4, <2>1
  <2> QED
    BY <1>1, <2>2, <2>3, LessNothing
<1>9. ASSUME NEW k \in 1 .. n - 1
      PROVE  c[k] = Plus(Comb(2, Shift(c[k + 1]), -1, c[k + 2]), Times(Gc[k], Monomial(0)))
  <2>1. PICK i \in 2 .. Degree :
          /\ i = n + 1 - k /\ i - 1 = n + 1 - (k + 1) /\ i - 2 = n + 1 - (k + 2)
          /\ k \in 1 .. n /\ k \in 1 .. n + 1 /\ k + 1 \in 1 .. n + 1 /\ k + 2 \in 1 .. n + 1
          /\ k \in Coefs
    BY <1>0
  <2>2. PICK h \in Int : h = Gc[k]
    BY <2>1, SumsClosed
  <2>3. PICK b1 \in Poly, b2 \in Poly, v1 \in Poly, v2 \in Poly :
          b1 = b[k + 1] /\ b2 = b[k + 2] /\ v1 = V[i - 1] /\ v2 = V[i - 2]
    BY <1>5, <2>1
  <2>4. PICK b0 : b0 = b[k]
    OBVIOUS
  <2>5. PICK v0 : v0 = V[i]
    OBVIOUS
  <2>6. b0 = Plus(Comb(2, Shift(b1), -1, b2), Times(h, Monomial(0)))
    BY <1>3, <2>1, <2>2, <2>3, <2>4
  <2>7. v0 = Comb(2, Shift(v1), -1, v2)
    BY <1>2, <2>3, <2>5
  <2>8. Less(b0, g, v0)
          = Plus(Comb(2, Shift(Less(b1, g, v1)), -1, Less(b2, g, v2)), Times(h, Monomial(0)))
    BY <2>6, <2>7, LessStep
  <2>9. c[k] = Less(b0, g, v0) /\ c[k + 1] = Less(b1, g, v1) /\ c[k + 2] = Less(b2, g, v2)
    BY <1>4, <2>1, <2>3, <2>4, <2>5
  <2> QED
    BY <2>2, <2>8, <2>9
<1>10. Clenshaw(c, n - 1)
  <2>1. PICK m \in Nat : m = n - 1
    BY <1>0
  <2>2. m + 1 = n /\ m + 2 = n + 1
    BY <1>0, <2>1
  <2> QED
    BY <1>6, <1>7, <1>8, <1>9, <2>1, <2>2 DEF Clenshaw
<1>11. ClenshawEnd(b) = Comb(1, ClenshawEnd(c), Gc[n], FirstKind(V[n], V[n - 1]))
  <2>1. 1 \in 1 .. n + 1 /\ 2 \in 1 .. n + 1 /\ n + 1 - 1 = n /\ n + 1 - 2 = n - 1
    BY <1>0
  <2>2. PICK b1 \in Poly, b2 \in Poly, v1 \in Poly, v2 \in Poly :
          b1 = b[1] /\ b2 = b[2] /\ v1 = V[n] /\ v2 = V[n - 1]
    BY <1>5, <2>1
  <2>3. PICK t \in Poly : t = Times(Gc[0], Monomial(0))
    BY <1>0, SumsClosed
  <2>4. c[1] = Less(b1, g, v1) /\ c[2] = Less(b2, g, v2)
    BY <1>4, <2>1, <2>2
  <2>5. ClenshawEnd(b) = Plus(FirstKind(b1, b2), t)
    BY <2>2, <2>3 DEF ClenshawEnd, FirstKind
  <2>6. ClenshawEnd(c) = Plus(FirstKind(c[1], c[2]), t)
    BY <2>3 DEF ClenshawEnd, FirstKind
  <2>7. Plus(FirstKind(b1, b2), t)
           = Comb(1, Plus(FirstKind(Less(b1, g, v1), Less(b2, g, v2)), t), g, FirstKind(v1, v2))
    BY LessEnd
  <2> QED
    BY <1>1, <2>2, <2>4, <2>5, <2>6, <2>7
<1> QED
  BY <1>10, <1>11

\* The sums to degree one.
LEMMA ClenshawOne ==
  ASSUME 1 \in Coefs, NEW b, Clenshaw(b, 1)
  PROVE  ClenshawEnd(b) = Comb(Gc[0], Monomial(0), Gc[1], Shift(Monomial(0)))
PROOF
<1> DEFINE e == Monomial(0)
           s == Shift(e)
           o == Shift(ZeroPoly)
<1>0. 0 \in Coefs
  BY CoefficientsAssumption DEF Coefs
<1>1. PICK g \in Int, h \in Int : g = Gc[1] /\ h = Gc[0]
  BY <1>0, SumsClosed
<1>2. e \in Poly /\ s \in Poly /\ ZeroPoly \in Poly /\ o = ZeroPoly
  BY SumsClosed, PolyZero
<1>3. b[2] = ZeroPoly /\ b[1] = Plus(Comb(2, o, -1, ZeroPoly), Times(g, e))
  <2>1. 1 \in 1 .. 1 /\ 1 + 1 = 2 /\ 1 + 2 = 3
    OBVIOUS
  <2>2. b[2] = ZeroPoly /\ b[3] = ZeroPoly
    BY <2>1 DEF Clenshaw
  <2>3. b[1] = Plus(Comb(2, Shift(b[2]), -1, b[3]), Times(Gc[1], Monomial(0)))
    BY <2>1 DEF Clenshaw
  <2> QED
    BY <1>1, <2>2, <2>3
<1> HIDE DEF e
<1> DEFINE t == Times(g, e)
           c == Comb(2, ZeroPoly, -1, ZeroPoly)
<1>4. t \in Poly /\ c \in Poly
  BY <1>2, SumsClosed
<1>5. Plus(c, t) = t
  <2>1. \A k \in Coefs : c[k] = 0
    <3>1. \A k \in Coefs : c[k] = 2 * ZeroPoly[k] + (-1) * ZeroPoly[k] /\ ZeroPoly[k] = 0
      BY EntryOf
    <3> QED
      BY <3>1
  <2> HIDE DEF c
  <2>2. c = ZeroPoly
    BY <1>2, <1>4, <2>1, EntryOf
  <2> QED
    BY <1>4, <2>2, PolyZero
<1>6. b[1] = t
  BY <1>2, <1>3, <1>5
<1>7. Shift(t) = Times(g, s)
  BY <1>2, ShiftOfSum DEF Times
<1> DEFINE y == Comb(h, e, g, s)
           f == FirstKind(t, ZeroPoly)
           z == Times(h, e)
           x == Plus(f, z)
<1>8. ClenshawEnd(b) = x
  BY <1>1, <1>3, <1>6 DEF ClenshawEnd, FirstKind, e
<1> HIDE DEF s, t
<1>9. x \in Poly /\ y \in Poly /\ f \in Poly /\ z \in Poly
  <2>1. Shift(t) \in Poly
    BY <1>4, SumsClosed
  <2>2. f \in Poly /\ z \in Poly /\ y \in Poly
    BY <1>2, <2>1, SumsClosed DEF FirstKind
  <2> HIDE DEF f, z
  <2> QED
    BY <2>2, SumsClosed
<1>10. ASSUME NEW k \in Coefs PROVE x[k] = y[k]
  <2>1. PICK ek \in Int, sk \in Int : ek = e[k] /\ sk = s[k]
    BY <1>2, EntryOf
  <2>2. Times(g, s)[k] = g * sk
    BY <1>2, <2>1, MultipleEntries
  <2>3. f[k] = 1 * Shift(t)[k] + (-1) * ZeroPoly[k] /\ ZeroPoly[k] = 0
    BY EntryOf DEF FirstKind
  <2>4. z[k] = h * ek
    BY <1>2, <2>1, MultipleEntries
  <2>5. x[k] = 1 * f[k] + 1 * z[k]
    BY EntryOf DEF Plus
  <2>6. y[k] = h * ek + g * sk
    BY <2>1, EntryOf
  <2>7. PICK he \in Int, gs \in Int : he = h * ek /\ gs = g * sk
    OBVIOUS
  <2> HIDE DEF x, y, z, f
  <2> QED
    BY <1>7, <2>2, <2>3, <2>4, <2>5, <2>6, <2>7
<1> HIDE DEF x, y
<1>11. x = y
  BY <1>9, <1>10, EntryOf
<1> QED
  BY <1>1, <1>8, <1>11 DEF y, s, e

\* What the host has to degree n.
HostSum(n) ==
  IF n = 1 THEN Comb(Gc[0], Monomial(0), Gc[1], Shift(Monomial(0))) ELSE Forward[n + 1].x

\* The sums of Clenshaw are those of the host.
LEMMA ClenshawIsForward ==
  ASSUME 2 \in Coefs
  PROVE  \A n \in 1 .. Degree : \A b : Clenshaw(b, n) => ClenshawEnd(b) = HostSum(n)
PROOF
<1>0. Degree \in Nat /\ 2 <= Degree /\ 1 \in Coefs
  BY CoefficientsAssumption DEF Coefs
<1>1. PICK V : SecondKind(V, Degree)
  BY <1>0, SecondKindIs
<1> DEFINE Good(n) == \A b : Clenshaw(b, n) => ClenshawEnd(b) = HostSum(n)
           T == {n \in 1 .. Degree : ~Good(n)}
<1>2. SUFFICES ASSUME T # {} PROVE FALSE
  OBVIOUS
<1>3. PICK n \in T : \A y \in T : n <= y
  <2>1. T \subseteq Nat
    OBVIOUS
  <2> HIDE DEF T
  <2> QED
    BY <1>2, <2>1, LeastOf, Zenon
<1>4. n \in 1 .. Degree /\ ~Good(n)
  OBVIOUS
<1>5. n # 1
  <2>1. SUFFICES ASSUME n = 1 PROVE FALSE
    OBVIOUS
  <2>2. Good(1)
    BY <1>0, ClenshawOne DEF HostSum
  <2> QED
    BY <1>4, <2>1, <2>2
<1>6. PICK m \in 1 .. Degree : m = n - 1 /\ m + 1 = n /\ ~(n <= m) /\ n \in 2 .. Degree
  BY <1>0, <1>4, <1>5
<1>7. Good(m)
  BY <1>3, <1>6
<1>8. HostSum(n) = Comb(1, HostSum(m), Gc[n], FirstKind(V[n], V[n - 1]))
  <2>1. Forward[n + 1].w = FirstKind(V[n], V[n - 1])
    BY <1>1, <1>6, HostRegisters
  <2>2. HostSum(n) = Forward[n + 1].x
    BY <1>5 DEF HostSum
  <2>3. CASE m = 1
    <3>1. n = 2 /\ n + 1 = 3
      BY <1>6, <2>3
    <3>2. Forward[3] = HostFirst
      BY ForwardIs
    <3>3. Forward[3].x = Comb(1, Comb(Gc[0], Monomial(0), Gc[1], Shift(Monomial(0))), Gc[2], Forward[3].w)
      BY <3>2 DEF HostFirst
    <3> QED
      BY <2>1, <2>2, <2>3, <3>1, <3>3 DEF HostSum
  <2>4. CASE m # 1
    <3>1. n + 1 \in 4 .. Degree + 1 /\ (n + 1) - 1 = n
      BY <1>0, <1>6, <2>4
    <3>2. Forward[n + 1] = HostStep(Gc[n], Forward[n])
      BY <3>1, ForwardIs
    <3>3. Forward[n + 1].x = Comb(1, Forward[n].x, Gc[n], Forward[n + 1].w)
      BY <3>2 DEF HostStep
    <3>4. HostSum(m) = Forward[n].x
      BY <1>6, <2>4 DEF HostSum
    <3> QED
      BY <2>1, <2>2, <3>3, <3>4
  <2> QED
    BY <2>3, <2>4
<1>9. ASSUME NEW b, Clenshaw(b, n) PROVE ClenshawEnd(b) = HostSum(n)
  <2>1. PICK c : /\ Clenshaw(c, n - 1)
                 /\ ClenshawEnd(b) = Comb(1, ClenshawEnd(c), Gc[n], FirstKind(V[n], V[n - 1]))
    BY <1>1, <1>6, <1>9, ClenshawDown
  <2>2. ClenshawEnd(c) = HostSum(m)
    BY <1>6, <1>7, <2>1
  <2> QED
    BY <1>8, <2>1, <2>2
<1> QED
  BY <1>4, <1>9

\* The forms of the sums in the kernels.
LEMMA KernelSums ==
  ASSUME NEW p \in Poly, NEW q \in Poly, NEW t \in Poly, NEW a \in Int
  PROVE  /\ Plus(Comb(2, Shift(ZeroPoly), -1, ZeroPoly), t) = t
         /\ Comb(2, p, -1, ZeroPoly) = Times(2, p)
         /\ Plus(Times(a, p), Times(-1, q)) = Comb(a, p, -1, q)
PROOF
<1>1. ZeroPoly \in Poly /\ Shift(ZeroPoly) = ZeroPoly
  BY SumsClosed, PolyZero
<1>2. Comb(2, ZeroPoly, -1, ZeroPoly) = ZeroPoly
  <2> DEFINE c == Comb(2, ZeroPoly, -1, ZeroPoly)
  <2>1. \A k \in Coefs : c[k] = 2 * ZeroPoly[k] + (-1) * ZeroPoly[k] /\ ZeroPoly[k] = 0
    BY EntryOf
  <2>2. c \in Poly
    BY <1>1, SumsClosed
  <2> HIDE DEF c
  <2>3. \A k \in Coefs : c[k] = ZeroPoly[k]
    BY <2>1
  <2>4. c = ZeroPoly
    BY <1>1, <2>2, <2>3, EntryOf
  <2> QED
    BY <2>4 DEF c
<1>3. Plus(ZeroPoly, t) = t
  BY PolyZero
<1>4. Comb(2, p, -1, ZeroPoly) = Times(2, p)
  <2> DEFINE x == Comb(2, p, -1, ZeroPoly)
             y == Times(2, p)
  <2>1. x \in Poly /\ y \in Poly
    BY <1>1, SumsClosed
  <2>2. ASSUME NEW k \in Coefs PROVE x[k] = y[k]
    <3>1. PICK z \in Int : z = p[k]
      BY EntryOf
    <3>2. x[k] = 2 * z + (-1) * ZeroPoly[k] /\ ZeroPoly[k] = 0
      BY <3>1, EntryOf
    <3>3. y[k] = 2 * z + 0 * z
      BY <3>1, EntryOf DEF Times
    <3> HIDE DEF x, y
    <3> QED
      BY <3>2, <3>3
  <2> HIDE DEF x, y
  <2>3. x = y
    BY <2>1, <2>2, EntryOf
  <2> QED
    BY <2>3 DEF x, y
<1>5. Plus(Times(a, p), Times(-1, q)) = Comb(a, p, -1, q)
  <2> DEFINE u == Times(a, p)
             v == Times(-1, q)
             x == Plus(u, v)
             y == Comb(a, p, -1, q)
  <2>1. u \in Poly /\ v \in Poly /\ y \in Poly
    BY SumsClosed
  <2>2. ASSUME NEW k \in Coefs PROVE u[k] = a * p[k] /\ v[k] = (-1) * q[k]
    BY MultipleEntries
  <2> HIDE DEF u, v
  <2>3. x \in Poly
    BY <2>1, SumsClosed
  <2>4. ASSUME NEW k \in Coefs PROVE x[k] = y[k]
    <3>1. PICK pk \in Int, qk \in Int : pk = p[k] /\ qk = q[k]
      BY EntryOf
    <3>2. x[k] = 1 * u[k] + 1 * v[k]
      BY EntryOf DEF Plus
    <3>3. y[k] = a * pk + (-1) * qk
      BY <3>1, EntryOf
    <3>4. PICK z \in Int : z = a * pk
      OBVIOUS
    <3>5. u[k] = z /\ v[k] = (-1) * qk
      BY <2>2, <3>1, <3>4
    <3> HIDE DEF x, y
    <3> QED
      BY <3>2, <3>3, <3>4, <3>5
  <2> HIDE DEF x, y
  <2>5. x = y
    BY <2>1, <2>3, <2>4, EntryOf
  <2> QED
    BY <2>5 DEF x, y, u, v
<1> QED
  BY <1>1, <1>2, <1>3, <1>4, <1>5

\* The host adds up gc[k] T_k(A') in ascending order (applyFilter), the device runs
\* Clenshaw's recurrence downwards (filterSubBlock): for every degree and all coefficients
\* they are the same polynomial of A'.
THEOREM ClenshawIsTheFilter ==
  ASSUME NEW np \in 2 .. Degree
  PROVE  /\ \E b : Clenshaw(b, np)
         /\ \A b : Clenshaw(b, np) => ClenshawEnd(b) = Filter(np)
PROOF
<1>1. Degree \in Nat
  BY CoefficientsAssumption
<1>2. 2 \in Coefs /\ np \in Coefs /\ np # 0 /\ np \in 1 .. Degree /\ np # 1
  BY <1>1 DEF Coefs
<1>3. \E b : Clenshaw(b, np)
  BY <1>2, ClenshawIs
<1>4. HostSum(np) = Filter(np)
  BY <1>2 DEF HostSum, Filter
<1>5. \A b : Clenshaw(b, np) => ClenshawEnd(b) = HostSum(np)
  BY <1>2, ClenshawIsForward
<1> QED
  BY <1>3, <1>4, <1>5

(***************************************************************************)
(* The filter: the kernels on one slot.                                    *)
(***************************************************************************)

\* What the slot and the registers hold before step kk.
Registers(k, np, b, kk) ==
  [z \in {X(k), U, W} |->
     IF z = X(k) THEN Monomial(0) ELSE IF z = B1(np, kk) THEN b[kk + 1] ELSE b[kk + 2]]

\* The filter of a block of columns, in slot k, with the sums b.
FilterOf(c, l, w, k, b) ==
  /\ ColumnsOK(c) /\ c.op = "filter" /\ c.np \in 2 .. Degree
  /\ l \in Nat /\ l * ctx.nb < c.m /\ w = Least(ctx.nb, c.m - l * ctx.nb)
  /\ k = l % NSLOT /\ Clenshaw(b, c.np)

\* The buffers of a filter.
LEMMA RegistersAre ==
  ASSUME NEW k \in Slots
  PROVE  /\ X(k) # U /\ X(k) # W /\ U # W /\ X(k) \in Scratch /\ U \in Scratch /\ W \in Scratch
         /\ U # None /\ W # None
         /\ \A c, i : c.op = "filter" /\ i \in Nat =>
              ColSlots(c)[i % NSLOT] \notin {U, W} /\ ColSlots(c)[i % NSLOT] = X(i % NSLOT)
PROOF
<1>1. X(k) # U /\ X(k) # W /\ U # W
  BY DEF X, U, W
<1>2. X(k) \in Scratch /\ U \in Scratch /\ W \in Scratch
  BY DEF Scratch, Slots, NSLOT
<1>3. U # None /\ W # None
  BY <1>2, NoneAssumption DEF Buffers
<1>4. ASSUME NEW c, NEW i \in Nat, c.op = "filter"
      PROVE  ColSlots(c)[i % NSLOT] \notin {U, W} /\ ColSlots(c)[i % NSLOT] = X(i % NSLOT)
  <2>1. ColSlots(c)[i % NSLOT] = X(i % NSLOT)
    BY <1>4, SlotsOfColumns
  <2>2. \A z : X(z) # U /\ X(z) # W
    BY DEF X, U, W
  <2> QED
    BY <2>1, <2>2
<1> QED
  BY <1>1, <1>2, <1>3, <1>4

\* Before step kk of a filter of degree np, x holds b[kk + 1] and y holds b[kk + 2].
FilterStep(np, kk) == np \in Nat /\ kk \in Nat /\ kk + 2 <= np
InTurn(np, b, k, kk, h, x, y) ==
  /\ {x, y} = {U, W} /\ x # y
  /\ DOMAIN h = {X(k), x, y} /\ DOMAIN h \subseteq Scratch
  /\ h[X(k)] = Monomial(0) /\ h[x] = b[kk + 1] /\ h[y] = b[kk + 2]
  /\ b[kk + 1] \in Poly /\ b[kk + 2] \in Poly /\ Monomial(0) \in Poly

\* The registers take turns.
LEMMA RegistersTurn ==
  ASSUME NEW np, NEW kk, FilterStep(np, kk), kk # 0
  PROVE  B1(np, kk - 1) = B2(np, kk) /\ B2(np, kk - 1) = B1(np, kk)
PROOF
<1>1. PICK z \in Nat : z = np - kk /\ np - (kk - 1) = z + 1
  <2>1. np - kk \in Nat /\ np - (kk - 1) = (np - kk) + 1
    BY DEF FilterStep
  <2> QED
    BY <2>1
<1>2. z % 2 = 1 <=> (z + 1) % 2 # 1
  BY <1>1
<1> QED
  BY <1>1, <1>2 DEF B1, B2

\* The registers of Clenshaw's recurrence take turns in U and W.
LEMMA RegistersOf ==
  ASSUME NEW np, NEW kk, FilterStep(np, kk), NEW b, Clenshaw(b, np), NEW k \in Slots
  PROVE  InTurn(np, b, k, kk, Registers(k, np, b, kk), B1(np, kk), B2(np, kk))
PROOF
<1> DEFINE h == Registers(k, np, b, kk)
<1>1. {B1(np, kk), B2(np, kk)} = {U, W} /\ B1(np, kk) # B2(np, kk)
  BY RegistersAre DEF B1, B2
<1>2. DOMAIN h = {X(k), U, W}
  BY DEF Registers
<1>3. DOMAIN h = {X(k), B1(np, kk), B2(np, kk)} /\ DOMAIN h \subseteq Scratch
  BY <1>1, <1>2, RegistersAre
<1>4. X(k) # B1(np, kk) /\ X(k) # B2(np, kk)
  BY <1>1, RegistersAre
<1>5. \A z \in {X(k), U, W} : h[z] = IF z = X(k) THEN Monomial(0) ELSE IF z = B1(np, kk) THEN b[kk + 1] ELSE b[kk + 2]
  BY DEF Registers
<1>6. h[X(k)] = Monomial(0) /\ h[B1(np, kk)] = b[kk + 1] /\ h[B2(np, kk)] = b[kk + 2]
  BY <1>1, <1>2, <1>3, <1>4, <1>5
<1>7. b[kk + 1] \in Poly /\ b[kk + 2] \in Poly /\ Monomial(0) \in Poly
  <2>1. kk + 1 \in 1 .. np + 2 /\ kk + 2 \in 1 .. np + 2
    BY DEF FilterStep
  <2> QED
    BY <2>1, SumsClosed DEF Clenshaw
<1> QED
  BY <1>1, <1>3, <1>6, <1>7 DEF InTurn

\* One step of Clenshaw.
LEMMA FilterStepFits ==
  ASSUME NEW c, NEW l, NEW w, NEW k \in Slots, NEW b, FilterOf(c, l, w, k, b), NEW j \in Nat, NEW p,
         NEW kk \in Nat \ {0}, kk + 2 <= c.np, NEW x, x = B1(c.np, kk), NEW y, y = B2(c.np, kk),
         NEW op, op = Chebfd(x, 2, y, -1, y, X(k), Gc[kk], w)
  PROVE  Fits(ColDesc(c, j, l, Registers(k, c.np, b, kk), p), op,
              ColDesc(c, j, l, Registers(k, c.np, b, kk - 1), p))
PROOF
<1>0. PICK np \in Nat : np = c.np
  BY CoefficientsAssumption DEF FilterOf
<1> DEFINE h == Registers(k, np, b, kk)
           h2 == Registers(k, np, b, kk - 1)
           s == X(k)
<1>1. /\ ColumnsOK(c) /\ c.op = "filter" /\ l \in Nat /\ l * ctx.nb < c.m
      /\ w = Least(ctx.nb, c.m - l * ctx.nb) /\ Clenshaw(b, np)
      /\ kk \in Coefs /\ kk \in 1 .. np
  BY <1>0, CoefficientsAssumption DEF FilterOf, Coefs
<1>2. /\ {x, y} = {U, W} /\ x # y
      /\ DOMAIN h = {s, x, y} /\ DOMAIN h \subseteq Scratch
      /\ h[s] = Monomial(0) /\ h[x] = b[kk + 1] /\ h[y] = b[kk + 2]
      /\ b[kk + 1] \in Poly /\ b[kk + 2] \in Poly /\ Monomial(0) \in Poly
      /\ B1(np, kk - 1) = y /\ B2(np, kk - 1) = x
  <2>1. FilterStep(np, kk) /\ kk # 0
    BY <1>0 DEF FilterStep
  <2>2. InTurn(np, b, k, kk, h, x, y)
    BY <1>0, <1>1, <2>1, RegistersOf
  <2>3. B1(np, kk - 1) = B2(np, kk) /\ B2(np, kk - 1) = B1(np, kk)
    BY <2>1, RegistersTurn
  <2> HIDE DEF h
  <2> QED
    BY <1>0, <2>2, <2>3 DEF InTurn
<1>3. PICK k2 \in Nat : k2 = kk - 1 /\ k2 + 1 = kk /\ k2 + 2 = kk + 1 /\ k2 + 2 <= np
  BY <1>0, <1>1
<1>4. DOMAIN h2 = {s, x, y} /\ h2[s] = Monomial(0) /\ h2[y] = b[kk] /\ h2[x] = b[kk + 1]
  <2>1. FilterStep(np, k2)
    BY <1>3 DEF FilterStep
  <2>2. InTurn(np, b, k, k2, h2, B1(np, k2), B2(np, k2))
    BY <1>1, <1>3, <2>1, RegistersOf
  <2> HIDE DEF h2
  <2> QED
    BY <1>2, <1>3, <2>2 DEF InTurn
<1>5. x \in Scratch /\ y \in Scratch /\ s \in Scratch /\ y # None /\ s # x /\ s # y
  BY <1>2, RegistersAre
<1>6. Gc[kk] \in Int
  BY <1>1, SumsClosed
<1> HIDE DEF h, h2, s
<1>7. PICK g : g = Plus(Plus(Times(2, Shift(h[x])), Times(-1, h[y])), Times(Gc[kk], h[s]))
  OBVIOUS
<1>8. g = b[kk]
  <2>1. PICK p1 \in Poly, p2 \in Poly : p1 = Shift(b[kk + 1]) /\ p2 = b[kk + 2]
    BY <1>2, SumsClosed
  <2>2. Plus(Times(2, p1), Times(-1, p2)) = Comb(2, p1, -1, p2)
    BY <2>1, KernelSums
  <2>3. b[kk] = Plus(Comb(2, p1, -1, p2), Times(Gc[kk], Monomial(0)))
    BY <1>1, <2>1 DEF Clenshaw
  <2> QED
    BY <1>2, <1>7, <2>1, <2>2, <2>3
<1>9. op = Chebfd(x, 2, y, -1, y, s, Gc[kk], w)
  BY DEF s
<1>10. Gives(ColDesc(c, j, l, h, p), op, y, g)
  <2>1. h[x] \in Poly /\ h[y] \in Poly /\ h[s] \in Poly /\ x \in DOMAIN h /\ y \in DOMAIN h /\ s \in DOMAIN h
    BY <1>2
  <2> QED
    BY <1>1, <1>2, <1>5, <1>6, <1>7, <1>9, <2>1, SecondGives
<1>11. \A i \in j .. l - 1 : y # ColSlots(c)[i % NSLOT]
  <2>1. \A i \in j .. l - 1 : i \in Nat
    BY <1>1
  <2> QED
    BY <1>1, <1>2, <2>1, RegistersAre
<1>12. \A z \in DOMAIN h2 : \/ z = y /\ h2[z] = g
                            \/ z # y /\ z \in DOMAIN h /\ h2[z] = h[z]
  BY <1>2, <1>4, <1>5, <1>8
<1>13. Fits(ColDesc(c, j, l, h, p), op, ColDesc(c, j, l, h2, p))
  BY <1>1, <1>2, <1>10, <1>11, <1>12, WorkFits
<1> QED
  BY <1>0, <1>13 DEF h, h2

\* The first two sums.
LEMMA FilterStartLeads ==
  ASSUME NEW c, NEW l, NEW w, NEW k \in Slots, NEW b, FilterOf(c, l, w, k, b), NEW j \in Nat, NEW p,
         NEW np, np = c.np, NEW n2, n2 = np - 2,
         NEW x, x = Kernel("axpby3", {X(k)}, {U}, [x |-> X(k), a |-> Gc[np], y |-> U]),
         NEW y, y = Chebfd(U, 2, None, 0, W, X(k), Gc[np - 1], w)
  PROVE  Leads(<<x, y>>, ColDesc(c, j, l, Loaded(k), p),
               ColDesc(c, j, l, Registers(k, np, b, n2), p))
PROOF
<1> DEFINE s == X(k)
           h == Loaded(k)
           h1 == [z \in {s, U} |-> IF z = s THEN Monomial(0) ELSE b[np]]
           h2 == Registers(k, np, b, n2)
<1>1. /\ ColumnsOK(c) /\ c.op = "filter" /\ l \in Nat /\ l * ctx.nb < c.m
      /\ w = Least(ctx.nb, c.m - l * ctx.nb) /\ Clenshaw(b, np) /\ np \in Nat /\ np >= 2
      /\ np \in Coefs /\ np - 1 \in Coefs /\ n2 \in Nat /\ FilterStep(np, n2)
  <2>1. np \in 2 .. Degree /\ Degree \in Nat
    BY CoefficientsAssumption DEF FilterOf
  <2>2. /\ np \in Nat /\ np >= 2 /\ np \in Coefs /\ np - 1 \in Coefs /\ n2 \in Nat /\ n2 + 2 <= np
    BY <2>1 DEF Coefs
  <2> QED
    BY <2>2 DEF FilterOf, FilterStep
<1>2. /\ s # U /\ s # W /\ U # W /\ s \in Scratch /\ U \in Scratch /\ W \in Scratch /\ U # None /\ W # None
  BY RegistersAre
<1>3. /\ DOMAIN h = {s} /\ h[s] = Monomial(0) /\ DOMAIN h1 = {s, U} /\ h1[s] = Monomial(0) /\ h1[U] = b[np]
  BY <1>2 DEF Loaded
<1>4. Monomial(0) \in Poly /\ Gc[np] \in Int /\ Gc[np - 1] \in Int /\ ZeroPoly \in Poly
  BY <1>1, SumsClosed
<1>5. b[np] = Times(Gc[np], Monomial(0)) /\ b[np] \in Poly
  <2>1. np \in 1 .. np /\ np \in 1 .. np + 2
    BY <1>1
  <2>2. b[np] = Plus(Comb(2, Shift(ZeroPoly), -1, ZeroPoly), Times(Gc[np], Monomial(0)))
    BY <1>1, <2>1, Zenon DEF Clenshaw
  <2>3. PICK t \in Poly : t = Times(Gc[np], Monomial(0))
    BY <1>4, SumsClosed
  <2>4. Plus(Comb(2, Shift(ZeroPoly), -1, ZeroPoly), t) = t
    BY <1>4, KernelSums
  <2> QED
    BY <2>2, <2>3, <2>4
<1>6. b[np - 1] = Plus(Times(2, Shift(b[np])), Times(Gc[np - 1], Monomial(0)))
  <2>1. PICK z \in 1 .. np : z = np - 1 /\ z + 1 = np /\ z + 2 = np + 1
    BY <1>1
  <2>2. b[z] = Plus(Comb(2, Shift(b[np]), -1, ZeroPoly), Times(Gc[z], Monomial(0)))
    BY <1>1, <2>1, Zenon DEF Clenshaw
  <2>3. PICK t \in Poly : t = Shift(b[np])
    BY <1>5, SumsClosed
  <2>4. Comb(2, t, -1, ZeroPoly) = Times(2, t)
    BY <1>4, KernelSums
  <2> QED
    BY <2>1, <2>2, <2>3, <2>4
<1>7. DOMAIN h2 = {s, U, W} /\ h2[s] = Monomial(0) /\ h2[W] = b[np - 1] /\ h2[U] = b[np]
  <2>1. InTurn(np, b, k, n2, Registers(k, np, b, n2), B1(np, n2), B2(np, n2))
    BY <1>1, RegistersOf
  <2>2. B1(np, n2) = W /\ B2(np, n2) = U
    <3>1. np - n2 = 2 /\ 2 % 2 # 1
      BY <1>1
    <3> QED
      BY <3>1 DEF B1, B2
  <2>3. n2 + 1 = np - 1 /\ n2 + 2 = np
    BY <1>1
  <2> HIDE DEF h2
  <2>4. InTurn(np, b, k, n2, h2, W, U)
    BY <2>1, <2>2 DEF h2
  <2> QED
    BY <2>3, <2>4 DEF InTurn
<1>8. \A i \in j .. l - 1 : U # ColSlots(c)[i % NSLOT] /\ W # ColSlots(c)[i % NSLOT]
  <2>1. \A i \in j .. l - 1 : i \in Nat
    BY <1>1
  <2> QED
    BY <1>1, <2>1, RegistersAre
<1>9. x = Kernel("axpby3", {s}, {U}, [x |-> s, a |-> Gc[np], y |-> U])
      /\ y = Chebfd(U, 2, None, 0, W, s, Gc[np - 1], w)
  OBVIOUS
<1> HIDE DEF s, h, h1, h2
<1>10. Fits(ColDesc(c, j, l, h, p), x, ColDesc(c, j, l, h1, p))
  <2>1. PICK g : g = Times(Gc[np], h[s])
    OBVIOUS
  <2>2. Gives(ColDesc(c, j, l, h, p), x, U, g)
    <3>1. s \in DOMAIN h /\ h[s] \in Poly
      BY <1>3, <1>4
    <3> QED
      BY <1>1, <1>2, <1>4, <1>9, <2>1, <3>1, MultipleGives
  <2>3. \A z \in DOMAIN h1 : \/ z = U /\ h1[z] = g
                             \/ z # U /\ z \in DOMAIN h /\ h1[z] = h[z]
    BY <1>2, <1>3, <1>5, <2>1
  <2>4. DOMAIN h \subseteq Scratch
    BY <1>2, <1>3
  <2> QED
    BY <1>1, <1>8, <2>2, <2>3, <2>4, WorkFits
<1>11. Fits(ColDesc(c, j, l, h1, p), y, ColDesc(c, j, l, h2, p))
  <2>1. PICK g : g = Plus(Times(2, Shift(h1[U])), Times(Gc[np - 1], h1[s]))
    OBVIOUS
  <2>2. Gives(ColDesc(c, j, l, h1, p), y, W, g)
    <3>1. s \in DOMAIN h1 /\ h1[s] \in Poly /\ U \in DOMAIN h1 /\ h1[U] \in Poly
      BY <1>3, <1>4, <1>5
    <3> QED
      BY <1>1, <1>2, <1>4, <1>9, <2>1, <3>1, FirstGives
  <2>3. \A z \in DOMAIN h2 : \/ z = W /\ h2[z] = g
                             \/ z # W /\ z \in DOMAIN h1 /\ h2[z] = h1[z]
    BY <1>2, <1>3, <1>6, <1>7, <2>1
  <2>4. DOMAIN h1 \subseteq Scratch
    BY <1>2, <1>3
  <2> QED
    BY <1>1, <1>8, <2>2, <2>3, <2>4, WorkFits
<1>12. Leads(<<x, y>>, ColDesc(c, j, l, h, p), ColDesc(c, j, l, h2, p))
  BY <1>10, <1>11, LeadsTwo
<1> QED
  BY <1>12 DEF h, h2

\* The last kernel leaves the filtered columns in the slot.
LEMMA FilterEndFits ==
  ASSUME NEW c, NEW l, NEW w, NEW k \in Slots, NEW b, FilterOf(c, l, w, k, b),
         NEW j \in Nat, l <= j + 1, NEW p, p = ClenshawEnd(b), NEW np, np = c.np,
         NEW x, x = B1(np, 0), NEW y, y = B2(np, 0), NEW op, op = Chebfd(x, 1, y, -1, X(k), X(k), Gc[0], w)
  PROVE  Fits(ColDesc(c, j, l, Registers(k, np, b, 0), p), op, ColDesc(c, j, l + 1, NoColumns, p))
PROOF
<1> DEFINE h == Registers(k, np, b, 0)
           s == X(k)
<1>1. /\ ColumnsOK(c) /\ c.op = "filter" /\ l \in Nat /\ l * ctx.nb < c.m /\ k = l % NSLOT
      /\ w = Least(ctx.nb, c.m - l * ctx.nb) /\ Clenshaw(b, np) /\ FilterStep(np, 0) /\ 0 \in Coefs
  BY CoefficientsAssumption DEF FilterOf, Coefs, FilterStep
<1>2. InTurn(np, b, k, 0, h, x, y)
  <2>1. InTurn(np, b, k, 0, h, B1(np, 0), B2(np, 0))
    BY <1>1, RegistersOf
  <2> HIDE DEF h
  <2> QED
    BY <2>1
<1>3. s = ColSlots(c)[l % NSLOT] /\ s \in Scratch /\ s # U /\ s # W /\ U # None /\ W # None
  BY <1>1, RegistersAre
<1>4. Gc[0] \in Int
  BY <1>1, SumsClosed
<1>5. op = Chebfd(x, 1, y, -1, s, s, Gc[0], w)
  OBVIOUS
<1>6. /\ {x, y} = {U, W} /\ x # y /\ x \in DOMAIN h /\ y \in DOMAIN h /\ s \in DOMAIN h
      /\ DOMAIN h \subseteq Scratch
      /\ h[s] = Monomial(0) /\ h[x] = b[1] /\ h[y] = b[2] /\ b[1] \in Poly /\ b[2] \in Poly
      /\ Monomial(0) \in Poly
  <2> HIDE DEF h
  <2>1. 0 + 1 = 1 /\ 0 + 2 = 2
    OBVIOUS
  <2> QED
    BY <1>2, <2>1 DEF InTurn
<1> HIDE DEF h, s
<1>7. PICK g : g = Plus(Plus(Times(1, Shift(h[x])), Times(-1, h[y])), Times(Gc[0], h[s]))
  OBVIOUS
<1>8. g = p
  <2>1. PICK p1 \in Poly, p2 \in Poly : p1 = Shift(b[1]) /\ p2 = b[2]
    BY <1>6, SumsClosed
  <2>2. Plus(Times(1, p1), Times(-1, p2)) = Comb(1, p1, -1, p2)
    BY <2>1, KernelSums
  <2> QED
    BY <1>6, <1>7, <2>1, <2>2 DEF ClenshawEnd
<1>9. Gives(ColDesc(c, j, l, h, p), op, s, g)
  <2>1. x \in Scratch /\ y \in Scratch /\ x # s /\ y # None /\ h[x] \in Poly /\ h[y] \in Poly /\ h[s] \in Poly
    BY <1>3, <1>6
  <2> QED
    BY <1>1, <1>3, <1>4, <1>5, <1>6, <1>7, <2>1, SecondGives
<1>10. Fits(ColDesc(c, j, l, h, p), op, ColDesc(c, j, l + 1, NoColumns, p))
  BY <1>1, <1>3, <1>8, <1>9, FinishFits
<1> QED
  BY <1>10 DEF h

\* The kernels of a block take its columns to the filtered ones.
LEMMA FilterKernelsLead ==
  ASSUME NEW c, NEW l, NEW w, NEW k \in Slots, NEW b, FilterOf(c, l, w, k, b),
         NEW j \in Nat, l <= j + 1, NEW p, p = ClenshawEnd(b)
  PROVE  Leads(FilterSubBlock(c.np, k, w), ColDesc(c, j, l, Loaded(k), p),
               ColDesc(c, j, l + 1, NoColumns, p))
PROOF
<1>0. PICK np \in Nat : np = c.np /\ np >= 2 /\ np - 2 \in Nat
  BY CoefficientsAssumption DEF FilterOf
<1> DEFINE n == np - 2
           x1 == Kernel("axpby3", {X(k)}, {U}, [x |-> X(k), a |-> Gc[np], y |-> U])
           x2 == Chebfd(U, 2, None, 0, W, X(k), Gc[np - 1], w)
           mid == [i \in 1 .. n |->
                     LET kk == np - 1 - i
                     IN Chebfd(B1(np, kk), 2, B2(np, kk), -1, B2(np, kk), X(k), Gc[kk], w)]
           x3 == Chebfd(B1(np, 0), 1, B2(np, 0), -1, X(k), X(k), Gc[0], w)
           d0 == ColDesc(c, j, l, Loaded(k), p)
           D == [i \in 0 .. n |-> ColDesc(c, j, l, Registers(k, np, b, n - i), p)]
           d3 == ColDesc(c, j, l + 1, NoColumns, p)
<1>1. FilterSubBlock(np, k, w) = <<x1, x2>> \o mid \o <<x3>>
  BY Zenon DEF FilterSubBlock
<1>2. D[0] = ColDesc(c, j, l, Registers(k, np, b, n), p) /\ D[n] = ColDesc(c, j, l, Registers(k, np, b, 0), p)
  BY <1>0
<1>3. \A i \in 1 .. n : mid[i] = Chebfd(B1(np, np - 1 - i), 2, B2(np, np - 1 - i), -1, B2(np, np - 1 - i),
                                          X(k), Gc[np - 1 - i], w)
  OBVIOUS
<1>4. \A i \in 0 .. n : D[i] = ColDesc(c, j, l, Registers(k, np, b, n - i), p)
  OBVIOUS
<1>5. IsProgram(mid) /\ Len(mid) = n
  <2> DEFINE S == {mid[i] : i \in 1 .. n}
  <2>1. mid \in [1 .. n -> S]
    OBVIOUS
  <2> HIDE DEF mid, S
  <2>2. mid \in Seq(S) /\ Len(mid) = n
    BY <1>0, <2>1, LengthOf, Zenon
  <2> QED
    BY <2>2, Zenon DEF IsProgram
<1>6. Leads(<<x1, x2>>, d0, D[0])
  <2> HIDE DEF x1, x2, D, d0
  <2>1. Leads(<<x1, x2>>, ColDesc(c, j, l, Loaded(k), p), ColDesc(c, j, l, Registers(k, np, b, n), p))
    BY <1>0, FilterStartLeads DEF x1, x2
  <2> QED
    BY <1>2, <2>1 DEF d0
<1> HIDE DEF mid, D
<1>7. ASSUME NEW i \in 1 .. n PROVE Fits(D[i - 1], mid[i], D[i])
  <2>1. PICK kk \in Nat \ {0} : kk = np - 1 - i /\ n - (i - 1) = kk /\ n - i = kk - 1 /\ kk + 2 <= np
                                /\ i - 1 \in 0 .. n /\ i \in 0 .. n
    BY <1>0
  <2>2. D[i - 1] = ColDesc(c, j, l, Registers(k, np, b, kk), p)
    BY <1>4, <2>1
  <2>3. D[i] = ColDesc(c, j, l, Registers(k, np, b, kk - 1), p)
    BY <1>4, <2>1
  <2>4. PICK op : op = Chebfd(B1(np, kk), 2, B2(np, kk), -1, B2(np, kk), X(k), Gc[kk], w)
    OBVIOUS
  <2>5. mid[i] = op
    BY <1>3, <2>1, <2>4
  <2>6. Fits(ColDesc(c, j, l, Registers(k, c.np, b, kk), p), op,
              ColDesc(c, j, l, Registers(k, c.np, b, kk - 1), p))
    BY <1>0, <2>1, <2>4, FilterStepFits, Zenon
  <2> QED
    BY <1>0, <2>2, <2>3, <2>5, <2>6
<1>8. Leads(mid, D[0], D[n])
  <2>1. Proved(mid, D)
    BY <1>5, <1>7 DEF Proved
  <2> QED
    BY <1>5, <2>1 DEF Leads
<1>9. Leads(<<x3>>, D[n], d3)
  <2>1. Fits(ColDesc(c, j, l, Registers(k, np, b, 0), p), x3, ColDesc(c, j, l + 1, NoColumns, p))
    <3>1. PICK x : x = B1(np, 0)
      OBVIOUS
    <3>2. PICK y : y = B2(np, 0)
      OBVIOUS
    <3>3. x3 = Chebfd(x, 1, y, -1, X(k), X(k), Gc[0], w)
      BY <3>1, <3>2
    <3> HIDE DEF x3
    <3> QED
      BY <1>0, <3>1, <3>2, <3>3, FilterEndFits
  <2>2. Fits(D[n], x3, d3)
    BY <1>2, <2>1
  <2> HIDE DEF x3, d3
  <2> QED
    BY <2>2, LeadsOne
<1> HIDE DEF x1, x2, x3, d0, d3, n
<1>10. Leads(<<x1, x2>> \o mid, d0, D[n])
  BY <1>6, <1>8, LeadsOn
<1>11. Leads((<<x1, x2>> \o mid) \o <<x3>>, d0, d3)
  BY <1>9, <1>10, LeadsOn
<1> QED
  BY <1>0, <1>1, <1>11 DEF d0, d3

\* The filter: what the kernels leave is the polynomial of the host recurrence.
LEMMA FilterLeads ==
  ASSUME NEW c, ColumnsOK(c), c.op = "filter", c.np \in 2 .. Degree
  PROVE  Leads(FilterEntry(c), ColDesc(c, 0, 0, NoColumns, Filter(c.np)),
               ColDesc(c, Ceil(c.m, ctx.nb), Ceil(c.m, ctx.nb), NoColumns, Filter(c.np)))
PROOF
<1> DEFINE outBuf == [k \in Slots |-> X(k)]
           fn == [k \in Slots |-> [w \in 1 .. ctx.nb |-> FilterSubBlock(c.np, k, w)]]
           p == Filter(c.np)
<1>1. FilterEntry(c) = ColBlockPipeline(Y, c.m, Y, outBuf, fn)
  BY Zenon DEF FilterEntry
<1>2. ColArray(c) = Y /\ outBuf = ColSlots(c)
  BY DEF ColArray, ColSlots, InSlot
<1>3. \A k \in Slots : \A w \in 1 .. ctx.nb : fn[k][w] = FilterSubBlock(c.np, k, w)
  BY Zenon
<1>4. c.np \in Coefs /\ c.np # 0 /\ c.np \in 1 .. Degree /\ c.np # 1 /\ 2 \in Coefs /\ c.np \in Nat
  BY CoefficientsAssumption DEF Coefs
<1>5. PICK b : Clenshaw(b, c.np)
  BY <1>4, ClenshawIs
<1>6. p = ClenshawEnd(b)
  <2>1. ClenshawEnd(b) = HostSum(c.np)
    BY <1>4, <1>5, ClenshawIsForward
  <2>2. HostSum(c.np) = Forward[c.np + 1].x
    BY <1>4 DEF HostSum
  <2> QED
    BY <2>1, <2>2 DEF Filter
<1> HIDE DEF fn, outBuf, p
<1>7. ASSUME NEW i \in Nat, NEW w \in 1 .. ctx.nb, i * ctx.nb < c.m, w = Least(ctx.nb, c.m - i * ctx.nb)
      PROVE  Leads(fn[i % NSLOT][w], ColDesc(c, Largest(i - 1, 0), i, Loaded(i % NSLOT), p),
                   ColDesc(c, Largest(i - 1, 0), i + 1, NoColumns, p))
  <2>1. PICK k \in Slots, j \in Nat : k = i % NSLOT /\ j = Largest(i - 1, 0) /\ i <= j + 1
    BY SlotOf, OneBehind, Zenon
  <2>2. fn[k][w] = FilterSubBlock(c.np, k, w)
    BY <1>3
  <2>3. FilterOf(c, i, w, k, b)
    BY <1>5, <1>7, <2>1 DEF FilterOf
  <2>4. Leads(FilterSubBlock(c.np, k, w), ColDesc(c, j, i, Loaded(k), p), ColDesc(c, j, i + 1, NoColumns, p))
    BY <1>6, <2>1, <2>3, FilterKernelsLead
  <2> QED
    BY <2>1, <2>2, <2>4
<1>8. Leads(ColBlockPipeline(Y, c.m, ColArray(c), outBuf, fn), ColDesc(c, 0, 0, NoColumns, p),
               ColDesc(c, Ceil(c.m, ctx.nb), Ceil(c.m, ctx.nb), NoColumns, p))
  BY <1>2, <1>7, ColPassLeads
<1> QED
  BY <1>1, <1>2, <1>8 DEF p

(***************************************************************************)
(* Passes over rows: one operation at a time.                              *)
(***************************************************************************)

RowDesc(c, j, l, h, g, b, a) ==
  [pass |-> "rows", c |-> c, dr |-> j, ld |-> l, has |-> h, groups |-> g, mat |-> b, acc |-> a]
NoRows == [b \in {} |-> Y]

RowsOK(c) ==
  /\ ContextOK /\ ctx.NS \in Nat /\ c.op \in {"gram", "update", "ritz"} /\ c.m \in 1 .. ctx.NS
  /\ c.op = "update" => c.out \in 1 .. c.m
  /\ c.id \in Nat

\* What a claim says.
LEMMA HoldsRows ==
  ASSUME NEW c, NEW j, NEW l, NEW h, NEW g, NEW b, NEW a, NEW m
  PROVE  Holds(m, RowDesc(c, j, l, h, g, b, a)) <=>
           /\ Calm(m)
           /\ InRows(m, c, j) /\ NewRows(m, c, j) /\ OutRows(m, c, j, l)
           /\ LoadedRows(m, c, l, h) /\ PartRows(m, c, l, g)
           /\ b => m[B] = MatrixOf(c)
           /\ a => m[SumIn(c)] = SetToBag(TermsTo(c, l))
PROOF
<1> DEFINE d == RowDesc(c, j, l, h, g, b, a)
<1>1. /\ d.pass = "rows" /\ d.c = c /\ d.dr = j /\ d.ld = l /\ d.has = h /\ d.groups = g
      /\ d.mat = b /\ d.acc = a
  BY DEF RowDesc
<1> HIDE DEF d
<1>2. Holds(m, d) <=> Calm(m) /\ RowsPass(m, d)
  BY <1>1 DEF Holds
<1>3. RowsPass(m, d) <=>
           /\ InRows(m, c, j) /\ NewRows(m, c, j) /\ OutRows(m, c, j, l)
           /\ LoadedRows(m, c, l, h) /\ PartRows(m, c, l, g)
           /\ b => m[B] = MatrixOf(c)
           /\ a => m[SumIn(c)] = SetToBag(TermsTo(c, l))
  BY <1>1 DEF RowsPass
<1> QED
  BY <1>2, <1>3 DEF d

\* The buffers of a pass over rows.
LEMMA RowBuffers ==
  /\ Y \in Buffers /\ AY \in Buffers /\ B \in Buffers /\ G \in Buffers /\ Res2 \in Buffers
  /\ Partial \in Buffers /\ Result \in Buffers
  /\ Y \in Sized /\ AY \in Sized /\ Y \notin Scratch /\ AY \notin Scratch
  /\ {B, G, Res2, Partial, Result} \cap Sized = {}
  /\ Y # AY /\ B # G /\ B # Res2 /\ B # Partial /\ Partial # G /\ Partial # Res2 /\ Partial # Result
  /\ \A k \in Slots : {RA(k), RB(k), RO(k)} \subseteq Chunks
  /\ Chunks \subseteq Sized /\ Chunks \subseteq Buffers /\ Chunks \cap Scratch = {}
  /\ \A k : {RA(k), RB(k), RO(k)} \cap {Y, AY, B, G, Res2, Partial, Result} = {}
  /\ \A k, i : RA(k) # RB(i) /\ RA(k) # RO(i) /\ RB(k) # RO(i)
  /\ \A k, i : k # i => RO(k) # RO(i)
  /\ \A c : RowArrays(c) \subseteq {Y, AY} /\ Y \in RowArrays(c) /\ Second(c) \in RowArrays(c)
  /\ \A c : SumIn(c) \in {G, Res2}
PROOF
<1>1. /\ Y \in Buffers /\ AY \in Buffers /\ B \in Buffers /\ G \in Buffers /\ Res2 \in Buffers
      /\ Partial \in Buffers /\ Result \in Buffers
  BY DEF Buffers, HostArrays
<1>2. /\ Y \in Sized /\ AY \in Sized /\ Y \notin Scratch /\ AY \notin Scratch
      /\ {B, G, Res2, Partial, Result} \cap Sized = {}
  BY DEF Sized, Scratch, HostArrays, Chunks, Y, AY, B, G, Res2, Partial, Result, X, U, W, RA, RB, RO
<1>3. Y # AY /\ B # G /\ B # Res2 /\ B # Partial /\ Partial # G /\ Partial # Res2 /\ Partial # Result
  BY DEF Y, AY, B, G, Res2, Partial, Result
<1>4. \A k \in Slots : {RA(k), RB(k), RO(k)} \subseteq Chunks
  BY DEF Slots, NSLOT, Chunks
<1>5. Chunks \subseteq Sized /\ Chunks \subseteq Buffers
  BY DEF Sized, Buffers
<1>6. Chunks \cap Scratch = {}
  BY DEF Chunks, Scratch, X, U, W, RA, RB, RO
<1>7. \A k : {RA(k), RB(k), RO(k)} \cap {Y, AY, B, G, Res2, Partial, Result} = {}
  BY DEF Y, AY, B, G, Res2, Partial, Result, RA, RB, RO
<1>8. \A k, i : RA(k) # RB(i) /\ RA(k) # RO(i) /\ RB(k) # RO(i)
  BY DEF RA, RB, RO
<1>9. \A k, i : k # i => RO(k) # RO(i)
  BY DEF RO
<1>10. \A c : RowArrays(c) \subseteq {Y, AY} /\ Y \in RowArrays(c) /\ Second(c) \in RowArrays(c)
  BY DEF RowArrays, Second
<1>11. \A c : SumIn(c) \in {G, Res2}
  BY DEF SumIn
<1> QED
  BY <1>1, <1>2, <1>3, <1>4, <1>5, <1>6, <1>7, <1>8, <1>9, <1>10, <1>11

\* A step that changes one buffer leaves what is said of the others.
OtherThan(m, n, y) == \A b \in Buffers : b # y => n[b] = m[b]

\* What is said of rows does not speak of the buffer that changed.
LEMMA RowsLeft ==
  ASSUME NEW m, NEW n, NEW y, OtherThan(m, n, y), NEW c
  PROVE  /\ y \notin {Y, AY} => \A j : InRows(m, c, j) => InRows(n, c, j)
         /\ y # Y => \A j : NewRows(m, c, j) => NewRows(n, c, j)
         /\ (\A k \in Slots : y # RO(k)) => \A j, l : OutRows(m, c, j, l) => OutRows(n, c, j, l)
         /\ \A l, h : DOMAIN h \subseteq Buffers /\ y \notin DOMAIN h /\ LoadedRows(m, c, l, h) =>
                        LoadedRows(n, c, l, h)
         /\ y # Partial => \A l, g : PartRows(m, c, l, g) => PartRows(n, c, l, g)
         /\ y # B => n[B] = m[B]
         /\ y # SumIn(c) => n[SumIn(c)] = m[SumIn(c)]
PROOF
<1>0. \A b : n[b] = m[b] => /\ \A q, k, a, id, r : RowIs(m, b, q, k, a, id, r) => RowIs(n, b, q, k, a, id, r)
                            /\ \A q, r : NewRow(m, b, q, c, r) => NewRow(n, b, q, c, r)
  BY DEF RowIs, NewRow
<1>1. ASSUME y \notin {Y, AY}, NEW j, InRows(m, c, j) PROVE InRows(n, c, j)
  <2>1. \A a \in RowArrays(c) : n[a] = m[a]
    BY <1>1, RowBuffers DEF OtherThan
  <2> QED
    BY <1>0, <1>1, <2>1 DEF InRows
<1>2. ASSUME y # Y, NEW j, NewRows(m, c, j) PROVE NewRows(n, c, j)
  <2>1. n[Y] = m[Y]
    BY <1>2, RowBuffers DEF OtherThan
  <2> QED
    BY <1>0, <1>2, <2>1 DEF NewRows
<1>3. ASSUME \A k \in Slots : y # RO(k), NEW j, NEW l, OutRows(m, c, j, l) PROVE OutRows(n, c, j, l)
  <2>1. \A i, q : OfChunk(i, q) => n[RO(i % NSLOT)] = m[RO(i % NSLOT)]
    <3>1. SUFFICES ASSUME NEW i, NEW q, OfChunk(i, q) PROVE n[RO(i % NSLOT)] = m[RO(i % NSLOT)]
      OBVIOUS
    <3>2. PICK k \in Slots : k = i % NSLOT
      BY <3>1, SlotOf DEF OfChunk
    <3>3. RO(k) \in Buffers /\ RO(k) # y
      BY <1>3, RowBuffers
    <3> QED
      BY <3>2, <3>3 DEF OtherThan
  <2> QED
    BY <1>0, <1>3, <2>1 DEF OutRows
<1>4. ASSUME NEW l, NEW h, DOMAIN h \subseteq Buffers, y \notin DOMAIN h, LoadedRows(m, c, l, h)
      PROVE  LoadedRows(n, c, l, h)
  <2>1. \A b \in DOMAIN h : n[b] = m[b]
    BY <1>4 DEF OtherThan
  <2> QED
    BY <1>0, <1>4, <2>1 DEF LoadedRows
<1>5. ASSUME y # Partial, NEW l, NEW g, PartRows(m, c, l, g) PROVE PartRows(n, c, l, g)
  <2>1. n[Partial] = m[Partial]
    BY <1>5, RowBuffers DEF OtherThan
  <2> QED
    BY <1>5, <2>1 DEF PartRows
<1>6. y # B => n[B] = m[B]
  BY RowBuffers DEF OtherThan
<1>7. y # SumIn(c) => n[SumIn(c)] = m[SumIn(c)]
  BY RowBuffers DEF OtherThan
<1> QED
  BY <1>1, <1>2, <1>3, <1>4, <1>5, <1>6, <1>7

\* A copy of one run of entries.
LEMMA CopyOfRun ==
  ASSUME NEW dst, NEW src, NEW doff \in Nat, NEW soff \in Nat, NEW w \in Nat \ {0},
         NEW op, op = Copy(dst, doff, w, src, soff, w, w, 1), NEW m, NEW i \in Nat
  PROVE  CopyValue(m, op, i) = IF i \in doff .. doff + w - 1 THEN m[src][soff + (i - doff)] ELSE m[dst][i]
PROOF
<1> DEFINE rel == i - doff
<1>1. /\ op.src = src /\ op.soff = soff /\ op.spitch = w /\ op.dst = dst
      /\ op.doff = doff /\ op.dpitch = w /\ op.w = w /\ op.h = 1
  BY DEF Copy
<1>2. CopyValue(m, op, i) =
        IF rel >= 0 /\ rel \div w < 1 /\ rel % w < w
        THEN m[src][soff + (rel \div w) * w + (rel % w)] ELSE m[dst][i]
  BY <1>1 DEF CopyValue
<1>3. rel \in Int /\ (rel >= 0 <=> i >= doff) /\ (rel < w <=> i < doff + w)
  OBVIOUS
<1>4. CASE rel < 0
  <2>1. i \notin doff .. doff + w - 1 /\ ~(rel >= 0)
    BY <1>3, <1>4
  <2> HIDE DEF rel
  <2> QED
    BY <1>2, <2>1
<1>5. CASE rel >= 0 /\ rel < w
  <2>1. i \in doff .. doff + w - 1
    BY <1>3, <1>5
  <2>2. rel \div w = 0 /\ rel % w = rel
    <3>1. PICK x \in 0 .. w - 1 : x = rel
      BY <1>3, <1>5
    <3>2. 0 * w = 0 /\ 0 + x = x
      BY <3>1
    <3>3. ((0 * w) + x) \div w = 0 /\ ((0 * w) + x) % w = x
      BY CellOf, Zenon
    <3>4. x \div w = 0 /\ x % w = x
      BY <3>2, <3>3
    <3> HIDE DEF rel
    <3> QED
      BY <3>1, <3>4
  <2> HIDE DEF rel
  <2>3. soff + (0 * w) + rel = soff + rel
    BY <1>3
  <2>4. CopyValue(m, op, i) = m[src][soff + (0 * w) + rel]
    BY <1>2, <1>5, <2>2
  <2>5. CopyValue(m, op, i) = m[src][soff + rel]
    BY <2>3, <2>4
  <2> QED
    BY <2>1, <2>5 DEF rel
<1>6. CASE rel >= 0 /\ ~(rel < w)
  <2>1. i \notin doff .. doff + w - 1
    BY <1>3, <1>6
  <2>2. ~(rel \div w < 1)
    <3>1. PICK x \in Nat : x = rel /\ ~(x < w)
      BY <1>3, <1>6
    <3>2. PICK q \in Nat, d \in 0 .. w - 1 : q = x \div w /\ d = x % w /\ x = (w * q) + d
      BY Division, Zenon
    <3>3. q # 0
      <4>1. q = 0 => w * q = 0
        OBVIOUS
      <4> QED
        BY <3>1, <3>2, <4>1
    <3> HIDE DEF rel
    <3> QED
      BY <3>1, <3>2, <3>3
  <2> HIDE DEF rel
  <2> QED
    BY <1>2, <2>1, <2>2
<1> QED
  BY <1>3, <1>4, <1>5, <1>6

\* Cell x of row q of a chunk.
LEMMA ChunkCellIn ==
  ASSUME ContextOK, ctx.NS \in Nat, NEW k \in 1 .. ctx.NS, NEW q \in 0 .. ctx.chunkRows - 1, NEW x \in 0 .. k - 1
  PROVE  (q * k) + x \in ChunkCells
PROOF
<1>1. ctx.chunkRows \in Nat /\ k \in Nat \ {0} /\ q \in Nat
  BY DEF ContextOK
<1>2. (q * k) + x \in 0 .. (ctx.chunkRows * k) - 1
  BY <1>1, CellWithin
<1>3. k * ctx.chunkRows <= ctx.NS * ctx.chunkRows
  BY <1>1, TimesGrows
<1>4. ctx.chunkRows * k <= ctx.chunkRows * ctx.NS
  <2>1. ctx.chunkRows * k = k * ctx.chunkRows /\ ctx.chunkRows * ctx.NS = ctx.NS * ctx.chunkRows
    BY <1>1
  <2> QED
    BY <1>3, <2>1
<1>5. ctx.chunkRows * k \in Nat /\ ctx.chunkRows * ctx.NS \in Nat
  BY <1>1
<1> QED
  BY <1>2, <1>4, <1>5 DEF ChunkCells

\* The rows of a chunk are rows of the block.
LEMMA RowInChunk ==
  ASSUME ContextOK, NEW l \in Nat, NEW rows, rows = Least(ctx.chunkRows, ctx.vecRows - l * ctx.chunkRows)
  PROVE  /\ \A q : OfChunk(l, q) => /\ q \in 0 .. rows - 1 /\ q \in Nat /\ q \in 0 .. ctx.chunkRows - 1
                                    /\ (l * ctx.chunkRows) + q \in Rows
         /\ \A q \in 0 .. rows - 1 : OfChunk(l, q)
         /\ l * ctx.chunkRows < ctx.vecRows => rows \in 1 .. ctx.chunkRows
PROOF
<1>1. PICK a \in Nat : a = l * ctx.chunkRows
  BY DEF ContextOK
<1>2. ctx.chunkRows \in Nat \ {0} /\ ctx.vecRows \in Nat \ {0}
  BY DEF ContextOK
<1>3. \A q : OfChunk(l, q) <=> q \in 0 .. ctx.chunkRows - 1 /\ a + q < ctx.vecRows
  BY <1>1 DEF OfChunk
<1>4. rows = Least(ctx.chunkRows, ctx.vecRows - a)
  BY <1>1
<1>5. \A q : OfChunk(l, q) => q \in 0 .. rows - 1 /\ q \in Nat /\ q \in 0 .. ctx.chunkRows - 1 /\ a + q \in Rows
  BY <1>2, <1>3, <1>4 DEF Least, Rows
<1>6. \A q \in 0 .. rows - 1 : OfChunk(l, q)
  BY <1>2, <1>3, <1>4 DEF Least
<1>7. a < ctx.vecRows => rows \in 1 .. ctx.chunkRows
  BY <1>2, <1>4 DEF Least
<1> QED
  BY <1>1, <1>5, <1>6, <1>7

\* A chunk of rows is loaded.
LEMMA RowLoadFits ==
  ASSUME NEW c, RowsOK(c), NEW l \in Nat, l * ctx.chunkRows < ctx.vecRows,
         NEW j \in Nat, c.op = "update" => j <= l,
         NEW k \in Slots, NEW dst \in {RA(k), RB(k)}, NEW a \in RowArrays(c),
         NEW h, DOMAIN h \subseteq Chunks, NEW h2, DOMAIN h2 = DOMAIN h \cup {dst}, h2[dst] = a,
         \A z \in DOMAIN h : z # dst /\ h2[z] = h[z],
         NEW rows, rows = Least(ctx.chunkRows, ctx.vecRows - l * ctx.chunkRows),
         NEW op, op = Copy(dst, 0, rows * c.m, a, (l * ctx.chunkRows) * c.m, rows * c.m, rows * c.m, 1),
         NEW g, NEW b, NEW s
  PROVE  Fits(RowDesc(c, j, l, h, g, b, s), op, RowDesc(c, j, l, h2, g, b, s))
PROOF
<1> DEFINE d == RowDesc(c, j, l, h, g, b, s)
           e == RowDesc(c, j, l, h2, g, b, s)
<1>0. ContextOK /\ ctx.NS \in Nat /\ ctx.chunkRows \in Nat \ {0} /\ ctx.vecRows \in Nat /\ c.m \in Nat \ {0}
      /\ c.m \in 1 .. ctx.NS
  BY DEF RowsOK, ContextOK
<1>1. /\ dst \in Chunks /\ dst \in Sized /\ dst \in Buffers /\ dst \notin Scratch
      /\ dst \notin {Y, AY, B, G, Res2, Partial, Result}
      /\ (\A i \in Slots : dst # RO(i)) /\ dst \notin DOMAIN h /\ DOMAIN h \subseteq Buffers
      /\ a \in Buffers /\ a \in {Y, AY}
  BY RowBuffers, Zenon
<1>2. PICK r0 \in Nat : r0 = l * ctx.chunkRows
  BY <1>0
<1>3. rows \in 1 .. ctx.chunkRows
  BY <1>0, RowInChunk
<1>4. PICK w \in Nat \ {0}, at \in Nat : w = rows * c.m /\ at = r0 * c.m
  BY <1>0, <1>3
<1>5. op = Copy(dst, 0, w, a, at, w, w, 1)
  BY <1>2, <1>4
<1>6. /\ Local(op)
      /\ \A m : Memory(m) => With(Step(m, op), m, dst, [i \in DOMAIN m[dst] |-> CopyValue(m, op, i)])
  BY <1>1, <1>5, CopyDoes
<1>7. SUFFICES ASSUME NEW m, Holds(m, d) PROVE Holds(Step(m, op), e)
  BY <1>6 DEF Fits, d, e
<1> DEFINE n == Step(m, op)
           v == [i \in DOMAIN m[dst] |-> CopyValue(m, op, i)]
<1>8. /\ Calm(m)
      /\ InRows(m, c, j) /\ NewRows(m, c, j) /\ OutRows(m, c, j, l)
      /\ LoadedRows(m, c, l, h) /\ PartRows(m, c, l, g)
      /\ b => m[B] = MatrixOf(c)
      /\ s => m[SumIn(c)] = SetToBag(TermsTo(c, l))
  BY <1>7, HoldsRows
<1>9. With(n, m, dst, v) /\ DOMAIN v = DOMAIN m[dst] /\ DOMAIN m[dst] = ChunkCells
  BY <1>1, <1>6, <1>8 DEF Calm
<1>10. \A i \in ChunkCells : v[i] = CopyValue(m, op, i)
  BY <1>9
<1> HIDE DEF v, n
<1>11. Calm(n)
  BY <1>1, <1>8, <1>9, CalmKept, ZenonT(30)
<1>12. n[dst] = v /\ OtherThan(m, n, dst)
  BY <1>9 DEF With, OtherThan
<1>13. ASSUME NEW q, OfChunk(l, q) PROVE RowIs(n, dst, q, c.m, a, c.id, r0 + q)
  <2>1. q \in 0 .. rows - 1 /\ q \in Nat /\ q \in 0 .. ctx.chunkRows - 1 /\ r0 + q \in Rows
    BY <1>0, <1>2, <1>13, RowInChunk
  <2>2. RowIs(m, a, r0 + q, c.m, a, c.id, r0 + q)
    <3>1. c.op = "update" => j * ctx.chunkRows <= r0 + q
      <4>1. c.op = "update" => j * ctx.chunkRows <= r0
        BY <1>0, <1>2, TimesGrows
      <4>2. j * ctx.chunkRows \in Nat
        BY <1>0
      <4> QED
        BY <2>1, <4>1, <4>2
    <3> QED
      BY <1>8, <2>1, <3>1 DEF InRows
  <2>3. SUFFICES ASSUME NEW x \in 0 .. c.m - 1 PROVE n[dst][(q * c.m) + x].name = <<a, c.id, r0 + q, x>>
    BY DEF RowIs
  <2>4. m[a][((r0 + q) * c.m) + x].name = <<a, c.id, r0 + q, x>>
    BY <2>2 DEF RowIs
  <2>5. PICK i \in Nat : i = (q * c.m) + x
    BY <1>0, <2>1
  <2>6. i \in ChunkCells
    BY <1>0, <2>1, <2>5, ChunkCellIn
  <2>7. i \in 0 .. w - 1
    BY <1>0, <1>3, <1>4, <2>1, <2>5, CellWithin
  <2>8. at + i = ((r0 + q) * c.m) + x
    <3>1. (r0 + q) * c.m = (r0 * c.m) + (q * c.m)
      BY <1>0, <2>1
    <3>2. r0 * c.m \in Nat /\ q * c.m \in Nat
      BY <1>0, <2>1
    <3> QED
      BY <1>4, <2>5, <3>1, <3>2
  <2>9. CopyValue(m, op, i) = m[a][at + i]
    <3>1. i \in 0 .. 0 + w - 1 /\ i - 0 = i /\ 0 \in Nat
      BY <2>7
    <3>2. CopyValue(m, op, i) = IF i \in 0 .. 0 + w - 1 THEN m[a][at + (i - 0)] ELSE m[dst][i]
      BY <1>5, <3>1, CopyOfRun
    <3> QED
      BY <3>1, <3>2
  <2> QED
    BY <1>10, <1>12, <2>4, <2>5, <2>6, <2>8, <2>9
<1>14. LoadedRows(n, c, l, h2)
  <2>1. LoadedRows(n, c, l, h)
    BY <1>1, <1>8, <1>12, RowsLeft
  <2> SUFFICES ASSUME NEW z \in DOMAIN h2, NEW q, OfChunk(l, q)
               PROVE  RowIs(n, z, q, c.m, h2[z], c.id, (l * ctx.chunkRows) + q)
    BY DEF LoadedRows
  <2>2. CASE z = dst
    BY <1>2, <1>13, <2>2
  <2>3. CASE z # dst
    BY <2>1, <2>3 DEF LoadedRows
  <2> QED
    BY <2>2, <2>3
<1>15. InRows(n, c, j) /\ NewRows(n, c, j) /\ OutRows(n, c, j, l) /\ PartRows(n, c, l, g)
       /\ n[B] = m[B] /\ n[SumIn(c)] = m[SumIn(c)]
  <2>1. dst # SumIn(c)
    BY <1>1, RowBuffers
  <2> QED
    BY <1>1, <1>8, <1>12, <2>1, RowsLeft
<1> QED
  BY <1>8, <1>11, <1>14, <1>15, HoldsRows DEF n, e

\* The update kernel.
Updated(m, a, o, k, out, rows) ==
  [i \in DOMAIN m[o] |->
     IF i < rows * out
     THEN Value(Dot(m, RowOf(m, a, i \div out, k), i % out), Monomial(0)) ELSE m[o][i]]

\* It writes the rows of the chunk and keeps the rest.
LEMMA UpdateDoes ==
  ASSUME NEW a \in Buffers, NEW o \in Buffers, NEW k, NEW out, NEW rows,
         NEW op, op = Kernel("update", {a, B}, {o}, [a |-> a, m |-> k, o |-> o, out |-> out, rows |-> rows])
  PROVE  /\ Local(op)
         /\ \A m : Memory(m) =>
              With(Step(m, op), m, o, Updated(m, a, o, k, out, rows))
PROOF
<1>1. /\ op.do = "update" /\ op.on = "compute" /\ op.reads = {a, B} /\ op.writes = {o}
      /\ op.args.a = a /\ op.args.m = k /\ op.args.o = o /\ op.args.out = out /\ op.args.rows = rows
  BY DEF Kernel
<1>2. Replaces(op, o)
  BY <1>1, RowBuffers, Zenon DEF Replaces, Data, Streams
<1> DEFINE F(n, i) == IF i < rows * out
                      THEN Value(Dot(n, RowOf(n, a, i \div out, k), i % out), Monomial(0)) ELSE n[o][i]
<1>3. \A n : Written(n, op) = [i \in DOMAIN n[o] |-> F(n, i)]
  BY <1>1, ZenonT(30) DEF Written
<1>4. ASSUME NEW n, NEW z, Agree(n, z, op) PROVE Written(n, op) = Written(z, op)
  <2>1. n[a] = z[a] /\ n[o] = z[o] /\ n[B] = z[B]
    BY <1>1, <1>4, Zenon DEF Agree, Touched
  <2>2. \A r : RowOf(n, a, r, k) = RowOf(z, a, r, k)
    BY <2>1 DEF RowOf
  <2>3. \A row, x : Dot(n, row, x) = Dot(z, row, x)
    BY <2>1 DEF Dot
  <2>4. \A i : F(n, i) = F(z, i)
    BY <2>1, <2>2, <2>3
  <2> HIDE DEF F
  <2>5. Written(z, op) = [i \in DOMAIN z[o] |-> F(z, i)]
    BY <1>3, Zenon
  <2>6. Written(z, op) = [i \in DOMAIN n[o] |-> F(n, i)]
    BY <2>1, <2>4, <2>5
  <2> QED
    BY <1>3, <2>6
<1>5. Local(op)
  BY <1>2, <1>4, LocalIf
<1>6. ASSUME NEW m, Memory(m) PROVE With(Step(m, op), m, o, Written(m, op))
  BY <1>2, <1>5, <1>6, ReplacesOne
<1>7. \A n : Written(n, op) = Updated(n, a, o, k, out, rows)
  <2>1. \A n : Updated(n, a, o, k, out, rows) = [i \in DOMAIN n[o] |-> F(n, i)]
    BY Zenon DEF Updated
  <2> HIDE DEF F
  <2>2. SUFFICES ASSUME NEW n PROVE Written(n, op) = Updated(n, a, o, k, out, rows)
    OBVIOUS
  <2>3. Written(n, op) = [i \in DOMAIN n[o] |-> F(n, i)]
    BY <1>3, Zenon
  <2> QED
    BY <2>1, <2>3, Zenon
<1> QED
  BY <1>5, <1>6, <1>7

\* A row by its names.
LEMMA RowNamed ==
  ASSUME NEW m, NEW b, NEW q \in Nat, NEW n \in Nat, NEW a, NEW id, NEW r, RowIs(m, b, q, n, a, id, r)
  PROVE  RowOf(m, b, q, n) = NamesOf(a, id, r, n)
PROOF
<1>1. PICK z \in Nat : z = q * n
  OBVIOUS
<1>2. ASSUME NEW j \in 1 .. n PROVE m[b][z + j - 1].name = <<a, id, r, j - 1>>
  <2>1. PICK x \in 0 .. n - 1 : x = j - 1 /\ z + x = z + j - 1
    <3>1. j - 1 \in 0 .. n - 1 /\ z + (j - 1) = z + j - 1
      OBVIOUS
    <3> QED
      BY <3>1
  <2>2. m[b][z + x].name = <<a, id, r, x>>
    BY <1>1 DEF RowIs
  <2> QED
    BY <2>1, <2>2
<1>3. RowOf(m, b, q, n) = [j \in 1 .. n |-> m[b][z + j - 1].name]
  BY <1>1 DEF RowOf
<1> QED
  BY <1>2, <1>3 DEF NamesOf

\* A matrix is no absence of one.
LEMMA MatrixIs ==
  ASSUME NEW c, c.m \in Nat, c.id \in Nat, c.op = "update" => c.out \in Nat
  PROVE  MatrixOf(c) # None
PROOF
<1>1. MatrixOf(c) \in Matrices
  BY DEF MatrixOf, Matrices
<1> QED
  BY <1>1, NoneAssumption

\* The claims of an update.
UpdDesc(c, j, l, h) == RowDesc(c, j, l, h, <<>>, TRUE, FALSE)

\* What they say.
LEMMA HoldsUpdate ==
  ASSUME NEW c, NEW j, NEW l, NEW h, NEW m
  PROVE  Holds(m, UpdDesc(c, j, l, h)) <=>
           /\ Calm(m)
           /\ InRows(m, c, j) /\ NewRows(m, c, j) /\ OutRows(m, c, j, l)
           /\ LoadedRows(m, c, l, h) /\ m[B] = MatrixOf(c)
PROOF
<1> DEFINE d == UpdDesc(c, j, l, h)
<1>1. /\ d.pass = "rows" /\ d.c = c /\ d.dr = j /\ d.ld = l /\ d.has = h /\ d.groups = <<>>
      /\ d.mat = TRUE /\ d.acc = FALSE
  BY DEF UpdDesc, RowDesc
<1> HIDE DEF d
<1>2. Holds(m, d) <=> Calm(m) /\ RowsPass(m, d)
  BY <1>1 DEF Holds
<1>3. PartRows(m, c, l, <<>>)
  BY DEF PartRows
<1>4. RowsPass(m, d) <=>
           /\ InRows(m, c, j) /\ NewRows(m, c, j) /\ OutRows(m, c, j, l)
           /\ LoadedRows(m, c, l, h) /\ m[B] = MatrixOf(c)
  BY <1>1, <1>3 DEF RowsPass
<1> QED
  BY <1>2, <1>4 DEF d

\* The rows of a chunk are multiplied by B.
LEMMA UpdateFits ==
  ASSUME NEW c, RowsOK(c), c.op = "update", NEW l \in Nat, l * ctx.chunkRows < ctx.vecRows,
         NEW j \in Nat, l <= j + 1, NEW k \in Slots, k = l % NSLOT,
         NEW h, RA(k) \in DOMAIN h, h[RA(k)] = Y,
         NEW rows, rows = Least(ctx.chunkRows, ctx.vecRows - l * ctx.chunkRows),
         NEW op, op = Kernel("update", {RA(k), B}, {RO(k)},
                             [a |-> RA(k), m |-> c.m, o |-> RO(k), out |-> c.out, rows |-> rows])
  PROVE  Fits(UpdDesc(c, j, l, h), op, UpdDesc(c, j, l + 1, NoRows))
PROOF
<1> DEFINE d == UpdDesc(c, j, l, h)
           e == UpdDesc(c, j, l + 1, NoRows)
<1>0. ContextOK /\ ctx.NS \in Nat /\ ctx.chunkRows \in Nat \ {0} /\ ctx.vecRows \in Nat /\ c.m \in Nat \ {0}
      /\ c.m \in 1 .. ctx.NS /\ c.out \in 1 .. c.m /\ c.out \in Nat \ {0} /\ c.id \in Nat /\ c.out \in 1 .. ctx.NS
  BY DEF RowsOK, ContextOK
<1> DEFINE a == RA(k)
           o == RO(k)
<1>1. /\ o \in Chunks /\ o \in Sized /\ o \in Buffers /\ o \notin Scratch
      /\ o \notin {Y, AY, B, G, Res2, Partial, Result}
      /\ a \in Buffers /\ a # o
  BY RowBuffers, Zenon
<1>2. PICK r0 \in Nat : r0 = l * ctx.chunkRows
  BY <1>0
<1>3. rows \in 1 .. ctx.chunkRows
  BY <1>0, RowInChunk
<1>4. PICK mr : mr = MatrixOf(c) /\ mr # None
  BY <1>0, MatrixIs
<1>5. op = Kernel("update", {a, B}, {o}, [a |-> a, m |-> c.m, o |-> o, out |-> c.out, rows |-> rows])
  OBVIOUS
<1>6. h[a] = Y /\ a \in DOMAIN h /\ \A z : z = RO(k) <=> z = o
  OBVIOUS
<1> HIDE DEF a, o
<1>7. /\ Local(op)
      /\ \A m : Memory(m) => With(Step(m, op), m, o, Updated(m, a, o, c.m, c.out, rows))
  <2>1. PICK kk, out : kk = c.m /\ out = c.out
    OBVIOUS
  <2>2. op = Kernel("update", {a, B}, {o}, [a |-> a, m |-> kk, o |-> o, out |-> out, rows |-> rows])
    BY <1>5, <2>1
  <2>3. /\ Local(op)
        /\ \A m : Memory(m) => With(Step(m, op), m, o, Updated(m, a, o, kk, out, rows))
    BY <1>1, <2>2, UpdateDoes, ZenonT(30)
  <2> QED
    BY <2>1, <2>3, Zenon
<1>8. SUFFICES ASSUME NEW m, Holds(m, d) PROVE Holds(Step(m, op), e)
  BY <1>7, Zenon DEF Fits, d, e
<1> DEFINE n == Step(m, op)
           v == Updated(m, a, o, c.m, c.out, rows)
           F(i) == IF i < rows * c.out
                   THEN Value(Dot(m, RowOf(m, a, i \div c.out, c.m), i % c.out), Monomial(0)) ELSE m[o][i]
<1>9. /\ Calm(m)
      /\ InRows(m, c, j) /\ NewRows(m, c, j) /\ OutRows(m, c, j, l)
      /\ LoadedRows(m, c, l, h) /\ m[B] = mr
  BY <1>4, <1>8, HoldsUpdate
<1>10. With(n, m, o, v) /\ DOMAIN v = DOMAIN m[o] /\ DOMAIN m[o] = ChunkCells
  <2>1. DOMAIN m[o] = ChunkCells /\ Memory(m)
    BY <1>1, <1>9 DEF Calm
  <2>2. With(n, m, o, v)
    BY <1>7, <2>1, Zenon
  <2>3. DOMAIN v = DOMAIN m[o]
    BY DEF Updated
  <2> QED
    BY <2>1, <2>2, <2>3
<1>11. \A i \in ChunkCells : v[i] = F(i)
  BY <1>10 DEF Updated
<1> HIDE DEF v, n, F
<1>12. Calm(n)
  BY <1>1, <1>9, <1>10, CalmKept, ZenonT(30)
<1>13. n[o] = v /\ OtherThan(m, n, o)
  BY <1>10 DEF With, OtherThan
<1>14. ASSUME NEW q, OfChunk(l, q) PROVE NewRow(n, o, q, c, r0 + q)
  <2>1. q \in 0 .. rows - 1 /\ q \in Nat /\ q \in 0 .. ctx.chunkRows - 1 /\ r0 + q \in Rows
    BY <1>0, <1>2, <1>14, RowInChunk
  <2>2. RowIs(m, a, q, c.m, Y, c.id, r0 + q)
    BY <1>2, <1>6, <1>9, <1>14 DEF LoadedRows
  <2>3. RowOf(m, a, q, c.m) = NamesOf(Y, c.id, r0 + q, c.m)
    BY <1>0, <2>1, <2>2, RowNamed
  <2>4. SUFFICES ASSUME NEW x \in 0 .. c.out - 1 PROVE n[o][(q * c.out) + x] = NewEntry(c, r0 + q, x)
    BY DEF NewRow
  <2>5. PICK i \in Nat : i = (q * c.out) + x
    BY <1>0, <2>1
  <2>6. i \in ChunkCells
    BY <1>0, <2>1, <2>5, ChunkCellIn
  <2>7. i \in 0 .. (rows * c.out) - 1 /\ rows * c.out \in Nat
    <3>1. rows \in Nat /\ rows * c.out \in Nat
      BY <1>0, <1>3
    <3>2. (q * c.out) + x \in 0 .. (rows * c.out) - 1
      BY <1>0, <2>1, <3>1, CellWithin
    <3> QED
      BY <2>5, <3>1, <3>2
  <2>8. i \div c.out = q /\ i % c.out = x
    BY <1>0, <2>1, <2>5, CellOf, Zenon
  <2>9. F(i) = Value(Dot(m, RowOf(m, a, q, c.m), x), Monomial(0))
    <3>1. i < rows * c.out
      BY <2>7
    <3> QED
      BY <2>8, <3>1 DEF F
  <2>10. PICK row : row = NamesOf(Y, c.id, r0 + q, c.m)
    OBVIOUS
  <2>11. Dot(m, row, x) = <<"dot", row, mr, x>>
    BY <1>4, <1>9 DEF Dot
  <2>12. NewEntry(c, r0 + q, x) = Value(<<"dot", row, mr, x>>, Monomial(0))
    BY <1>4, <2>10 DEF NewEntry
  <2>13. n[o][i] = F(i)
    BY <1>11, <1>13, <2>6
  <2> QED
    BY <2>3, <2>5, <2>9, <2>10, <2>11, <2>12, <2>13
<1>15. OutRows(n, c, j, l + 1)
  <2>1. SUFFICES ASSUME NEW i, NEW q, OfChunk(i, q), j <= i, i < l + 1
                 PROVE  NewRow(n, RO(i % NSLOT), q, c, (i * ctx.chunkRows) + q)
    BY DEF OutRows
  <2>2. i \in Nat
    BY <2>1 DEF OfChunk
  <2>3. CASE i = l
    BY <1>2, <1>6, <1>14, <2>1, <2>3
  <2>4. CASE i # l
    <3>1. i < l /\ i + 1 = l
      BY <2>1, <2>2, <2>4
    <3>2. NewRow(m, RO(i % NSLOT), q, c, (i * ctx.chunkRows) + q)
      BY <1>9, <2>1, <3>1 DEF OutRows
    <3>3. i % NSLOT # k /\ i % NSLOT \in Slots
      BY <2>2, <3>1 DEF NSLOT, Slots
    <3>4. RO(i % NSLOT) # o /\ RO(i % NSLOT) \in Buffers
      BY <1>6, <3>3, RowBuffers, Zenon
    <3>5. n[RO(i % NSLOT)] = m[RO(i % NSLOT)]
      BY <1>13, <3>4 DEF OtherThan
    <3> QED
      BY <3>2, <3>5 DEF NewRow
  <2> QED
    BY <2>3, <2>4
<1>16. InRows(n, c, j) /\ NewRows(n, c, j) /\ n[B] = m[B]
  BY <1>1, <1>9, <1>13, RowsLeft
<1>17. LoadedRows(n, c, l + 1, NoRows)
  BY DEF LoadedRows, NoRows
<1> QED
  BY <1>4, <1>9, <1>12, <1>15, <1>16, <1>17, HoldsUpdate DEF n, e

\* Chunks of rows end where the next ones begin.
LEMMA NextChunk ==
  ASSUME ContextOK, NEW j \in Nat, NEW r0, r0 = j * ctx.chunkRows
  PROVE  (j + 1) * ctx.chunkRows = r0 + ctx.chunkRows /\ r0 \in Nat
PROOF
  BY DEF ContextOK

\* A chunk of new rows goes back to the host: in place, behind the rows still to be read.
LEMMA RowDrainFits ==
  ASSUME NEW c, RowsOK(c), c.op = "update", NEW j \in Nat, NEW l \in Nat, j < l,
         j * ctx.chunkRows < ctx.vecRows, NEW h, DOMAIN h \subseteq Chunks, NEW k, k = j % NSLOT,
         NEW r0, r0 = j * ctx.chunkRows, NEW rows, rows = Least(ctx.chunkRows, ctx.vecRows - r0),
         NEW op, op = Copy(Y, r0 * c.out, rows * c.out, RO(k), 0, rows * c.out, rows * c.out, 1)
  PROVE  Fits(UpdDesc(c, j, l, h), op, UpdDesc(c, j + 1, l, h))
PROOF
<1> DEFINE d == UpdDesc(c, j, l, h)
           e == UpdDesc(c, j + 1, l, h)
<1>0. ContextOK /\ ctx.NS \in Nat /\ ctx.chunkRows \in Nat \ {0} /\ ctx.vecRows \in Nat \ {0}
      /\ c.m \in Nat \ {0}
      /\ c.m \in 1 .. ctx.NS /\ c.out \in 1 .. c.m /\ c.out \in Nat \ {0} /\ c.out \in 1 .. ctx.NS
      /\ RowArrays(c) = {Y}
  BY DEF RowsOK, ContextOK, RowArrays
<1>1. /\ Y \in Sized /\ Y \in Buffers /\ Y \notin Scratch /\ Y \notin {B, Partial}
      /\ Y \notin DOMAIN h /\ DOMAIN h \subseteq Buffers /\ Y \in HostArrays
      /\ \A i \in Slots : Y # RO(i)
  <2>1. Y \in Sized /\ Y \in Buffers /\ Y \notin Scratch /\ Y \notin {B, Partial} /\ Y \in HostArrays
    BY RowBuffers DEF HostArrays
  <2>2. Chunks \subseteq Buffers /\ Y \notin Chunks
    <3>1. Y \notin Chunks
      BY DEF Chunks, Y, RA, RB, RO
    <3> QED
      BY <3>1, RowBuffers
  <2>3. \A i \in Slots : Y # RO(i)
    BY RowBuffers, Zenon
  <2> QED
    BY <2>1, <2>2, <2>3
<1>2. r0 \in Nat /\ (j + 1) * ctx.chunkRows = r0 + ctx.chunkRows /\ j + 1 \in Nat
  BY <1>0, NextChunk
<1>3. rows \in 1 .. ctx.chunkRows /\ k \in Slots /\ RO(k) \in Buffers
  BY <1>0, RowInChunk, SlotOf, RowBuffers
<1>4. PICK w \in Nat \ {0}, at \in Nat : w = rows * c.out /\ at = r0 * c.out
  BY <1>0, <1>2, <1>3
<1>5. op = Copy(Y, at, w, RO(k), 0, w, w, 1)
  BY <1>4
<1>6. /\ Local(op)
      /\ \A m : Memory(m) => With(Step(m, op), m, Y, [i \in DOMAIN m[Y] |-> CopyValue(m, op, i)])
  BY <1>1, <1>3, <1>5, CopyDoes
<1>7. SUFFICES ASSUME NEW m, Holds(m, d) PROVE Holds(Step(m, op), e)
  BY <1>6 DEF Fits, d, e
<1> DEFINE n == Step(m, op)
           v == [i \in DOMAIN m[Y] |-> CopyValue(m, op, i)]
<1>8. /\ Calm(m)
      /\ InRows(m, c, j) /\ NewRows(m, c, j) /\ OutRows(m, c, j, l)
      /\ LoadedRows(m, c, l, h) /\ m[B] = MatrixOf(c)
  BY <1>7, HoldsUpdate
<1>9. With(n, m, Y, v) /\ DOMAIN v = DOMAIN m[Y] /\ DOMAIN m[Y] = HostCells
  BY <1>1, <1>6, <1>8 DEF Calm
<1>10. \A i \in HostCells : v[i] = CopyValue(m, op, i)
  BY <1>9
<1> HIDE DEF v, n
<1>11. Calm(n)
  BY <1>1, <1>8, <1>9, CalmKept, ZenonT(30)
<1>12. n[Y] = v /\ OtherThan(m, n, Y)
  BY <1>9 DEF With, OtherThan
<1>13. \A i \in HostCells : i \in Nat =>
         n[Y][i] = IF i \in at .. at + w - 1 THEN m[RO(k)][0 + (i - at)] ELSE m[Y][i]
  <2> SUFFICES ASSUME NEW i \in HostCells, i \in Nat
               PROVE  n[Y][i] = IF i \in at .. at + w - 1 THEN m[RO(k)][0 + (i - at)] ELSE m[Y][i]
    OBVIOUS
  <2>1. CopyValue(m, op, i) = IF i \in at .. at + w - 1 THEN m[RO(k)][0 + (i - at)] ELSE m[Y][i]
    <3>1. 0 \in Nat
      OBVIOUS
    <3> QED
      BY <1>5, <3>1, CopyOfRun
  <2> QED
    BY <1>10, <1>12, <2>1
\* The run ends where the next chunk would be written.
<1>14. at + w <= (r0 + ctx.chunkRows) * c.out
  <2>1. rows * c.out <= ctx.chunkRows * c.out
    BY <1>0, <1>3, TimesGrows
  <2>2. (r0 + ctx.chunkRows) * c.out = (r0 * c.out) + (ctx.chunkRows * c.out)
    BY <1>0, <1>2
  <2>3. PICK x1 \in Nat, x2 \in Nat : x1 = r0 * c.out /\ x2 = ctx.chunkRows * c.out
    BY <1>0, <1>2
  <2> QED
    BY <1>4, <2>1, <2>2, <2>3
<1>15. InRows(n, c, j + 1)
  <2>1. SUFFICES ASSUME NEW r \in Rows, r0 + ctx.chunkRows <= r PROVE RowIs(n, Y, r, c.m, Y, c.id, r)
    BY <1>0, <1>2 DEF InRows
  <2>2. r \in Nat /\ r0 <= r
    BY <1>0, <1>2, <2>1 DEF Rows
  <2>3. RowIs(m, Y, r, c.m, Y, c.id, r)
    BY <1>0, <1>8, <2>2 DEF InRows
  <2>4. SUFFICES ASSUME NEW x \in 0 .. c.m - 1 PROVE n[Y][(r * c.m) + x] = m[Y][(r * c.m) + x]
    BY <2>3, Zenon DEF RowIs
  <2>5. PICK i \in Nat : i = (r * c.m) + x
    BY <1>0, <2>2
  <2>6. i \in HostCells
    BY <1>0, <2>5, HostCellIn
  <2>7. ~(i < at + w)
    <3>1. (r0 + ctx.chunkRows) * c.out <= r * c.out
      BY <1>0, <1>2, <2>1, <2>2, TimesGrows
    <3>2. r * c.out <= r * c.m
      <4>1. c.out * r <= c.m * r
        BY <1>0, <2>2, TimesGrows
      <4>2. c.out * r = r * c.out /\ c.m * r = r * c.m
        BY <1>0, <2>2
      <4> QED
        BY <4>1, <4>2
    <3>3. PICK x1 \in Nat, x2 \in Nat, x3 \in Nat :
            x1 = (r0 + ctx.chunkRows) * c.out /\ x2 = r * c.out /\ x3 = r * c.m
      BY <1>0, <1>2, <2>2
    <3> QED
      BY <1>14, <2>5, <3>1, <3>2, <3>3
  <2>8. i \notin at .. at + w - 1
    BY <2>7
  <2> QED
    BY <1>13, <2>5, <2>6, <2>8
<1>16. NewRows(n, c, j + 1)
  <2>1. SUFFICES ASSUME NEW r \in Rows, r < r0 + ctx.chunkRows, NEW x \in 0 .. c.out - 1
                 PROVE  n[Y][(r * c.out) + x] = NewEntry(c, r, x)
    BY <1>2 DEF NewRows, NewRow
  <2>2. r \in Nat /\ r \in 0 .. ctx.vecRows - 1
    BY <1>0 DEF Rows
  <2>3. PICK i \in Nat : i = (r * c.out) + x
    BY <1>0, <2>2
  <2>4. i \in HostCells
    BY <1>0, <2>3, HostCellIn
  <2>5. CASE r < r0
    <3>1. NewRow(m, Y, r, c, r)
      BY <1>8, <2>5 DEF NewRows
    <3>2. m[Y][i] = NewEntry(c, r, x)
      BY <2>3, <3>1 DEF NewRow
    <3>3. i < at
      <4>1. i \in 0 .. (r0 * c.out) - 1
        <5>1. r \in 0 .. r0 - 1
          BY <1>2, <2>2, <2>5
        <5> QED
          BY <1>0, <1>2, <2>3, <5>1, CellWithin
      <4> QED
        BY <1>4, <4>1
    <3>4. i \notin at .. at + w - 1
      BY <3>3
    <3> QED
      BY <1>13, <2>3, <2>4, <3>2, <3>4
  <2>6. CASE ~(r < r0)
    <3>1. PICK q \in 0 .. rows - 1 : q \in Nat /\ r = r0 + q
      <4>1. r - r0 \in 0 .. rows - 1 /\ r = r0 + (r - r0)
        BY <1>0, <1>2, <2>1, <2>2, <2>6 DEF Least
      <4> QED
        BY <4>1
    <3>2. OfChunk(j, q)
      BY <1>0, <3>1, RowInChunk
    <3>3. NewRow(m, RO(k), q, c, r)
      BY <1>8, <3>1, <3>2 DEF OutRows
    <3>4. PICK y \in Nat : y = (q * c.out) + x
      BY <1>0, <3>1
    <3>5. m[RO(k)][y] = NewEntry(c, r, x)
      BY <3>3, <3>4 DEF NewRow
    <3>6. y \in 0 .. w - 1
      BY <1>0, <1>3, <1>4, <3>1, <3>4, CellWithin
    <3>7. i = at + y
      <4>1. r * c.out = (r0 * c.out) + (q * c.out)
        BY <1>0, <1>2, <3>1
      <4>2. r0 * c.out \in Nat /\ q * c.out \in Nat
        BY <1>0, <1>2, <3>1
      <4> QED
        BY <1>4, <2>3, <3>4, <4>1, <4>2
    <3>8. i \in at .. at + w - 1 /\ 0 + (i - at) = y
      BY <3>6, <3>7
    <3> QED
      BY <1>13, <2>3, <2>4, <3>5, <3>8
  <2> QED
    BY <2>5, <2>6
<1>17. OutRows(n, c, j + 1, l)
  <2>1. OutRows(n, c, j, l)
    BY <1>1, <1>8, <1>12, RowsLeft
  <2>2. \A i, q : OfChunk(i, q) /\ j + 1 <= i => j <= i
    BY DEF OfChunk
  <2> QED
    BY <2>1, <2>2 DEF OutRows
<1>18. LoadedRows(n, c, l, h) /\ n[B] = m[B]
  <2>1. Y # B
    BY <1>1
  <2>2. LoadedRows(n, c, l, h)
    BY <1>1, <1>8, <1>12, RowsLeft, Zenon
  <2> QED
    BY <1>12, <2>1, <2>2, RowBuffers DEF OtherThan
<1> QED
  BY <1>8, <1>11, <1>15, <1>16, <1>17, <1>18, HoldsUpdate DEF n, e

\* The kernel of partial sums.
Parted(m, a, b, with, groups, k) ==
  [z \in 1 .. Largest(Len(groups), Len(m[Partial])) |->
     IF z <= Len(groups)
     THEN {<<RowOf(m, a, r, k), RowOf(m, b, r, k), {m[x] : x \in with}>> : r \in groups[z]}
     ELSE m[Partial][z]]

\* It writes one set of terms for every group of rows.
LEMMA PartialDoes ==
  ASSUME NEW a \in Buffers, NEW b \in Buffers, NEW with, with \subseteq Buffers, NEW groups, NEW k, NEW el,
         NEW op, op = Kernel("partial", {a, b} \cup with, {Partial},
                             [a |-> a, b |-> b, with |-> with, groups |-> groups, m |-> k, elems |-> el])
  PROVE  /\ Local(op)
         /\ \A m : Memory(m) => With(Step(m, op), m, Partial, Parted(m, a, b, with, groups, k))
PROOF
<1>1. /\ op.do = "partial" /\ op.on = "compute" /\ op.reads = {a, b} \cup with /\ op.writes = {Partial}
      /\ op.args.a = a /\ op.args.b = b /\ op.args.with = with /\ op.args.groups = groups /\ op.args.m = k
  BY DEF Kernel
<1>2. Replaces(op, Partial)
  BY <1>1, RowBuffers, Zenon DEF Replaces, Data, Streams
<1>3. \A n : Written(n, op) = Parted(n, a, b, with, groups, k)
  <2> TAKE n
  <2>1. Written(n, op) =
          [z \in 1 .. Largest(Len(op.args.groups), Len(n[Partial])) |->
            IF z <= Len(op.args.groups)
            THEN {<<RowOf(n, op.args.a, r, op.args.m), RowOf(n, op.args.b, r, op.args.m),
                    {n[x] : x \in op.args.with}>> : r \in op.args.groups[z]}
            ELSE n[Partial][z]]
    BY <1>1, Zenon DEF Written
  <2>2. Parted(n, op.args.a, op.args.b, op.args.with, op.args.groups, op.args.m) = Written(n, op)
    BY <2>1 DEF Parted
  <2> QED
    BY <1>1, <2>2, Zenon
<1>4. ASSUME NEW n, NEW z, Agree(n, z, op) PROVE Written(n, op) = Written(z, op)
  <2>1. n[a] = z[a] /\ n[b] = z[b] /\ n[Partial] = z[Partial] /\ \A x \in with : n[x] = z[x]
    BY <1>1, <1>4, Zenon DEF Agree, Touched
  <2>2. \A r : RowOf(n, a, r, k) = RowOf(z, a, r, k) /\ RowOf(n, b, r, k) = RowOf(z, b, r, k)
    BY <2>1 DEF RowOf
  <2>3. {n[x] : x \in with} = {z[x] : x \in with}
    BY <2>1
  <2>4. Parted(n, a, b, with, groups, k) = Parted(z, a, b, with, groups, k)
    <3>1. PICK v, p : v = {n[x] : x \in with} /\ v = {z[x] : x \in with} /\ p = n[Partial] /\ p = z[Partial]
      BY <2>1, <2>3, Zenon
    <3> DEFINE T(m, r) == <<RowOf(m, a, r, k), RowOf(m, b, r, k), v>>
               P(m, i) == {T(m, r) : r \in groups[i]}
    <3>2. \A r : T(n, r) = T(z, r)
      BY <2>2
    <3>3. \A i : P(n, i) = P(z, i)
      <4> HIDE DEF T
      <4> QED
        BY <3>2
    <3>4. /\ Parted(n, a, b, with, groups, k) =
               [i \in 1 .. Largest(Len(groups), Len(p)) |-> IF i <= Len(groups) THEN P(n, i) ELSE p[i]]
          /\ Parted(z, a, b, with, groups, k) =
               [i \in 1 .. Largest(Len(groups), Len(p)) |-> IF i <= Len(groups) THEN P(z, i) ELSE p[i]]
      BY <3>1, Zenon DEF Parted
    <3> HIDE DEF P
    <3> QED
      BY <3>3, <3>4
  <2> QED
    BY <1>3, <2>4
<1>5. Local(op)
  BY <1>2, <1>4, LocalIf
<1>6. ASSUME NEW m, Memory(m) PROVE With(Step(m, op), m, Partial, Written(m, op))
  BY <1>2, <1>5, <1>6, ReplacesOne
<1> QED
  BY <1>3, <1>5, <1>6

\* The kernel that adds them up.
LEMMA AccumDoes ==
  ASSUME NEW acc \in {G, Res2}, NEW k,
         NEW op, op = Kernel("accum", {Partial, acc}, {acc}, [n |-> k, acc |-> acc])
  PROVE  /\ Local(op)
         /\ \A m : Memory(m) => With(Step(m, op), m, acc, Sums(m, m[acc], k))
PROOF
<1>1. /\ op.do = "accum" /\ op.on = "compute" /\ op.reads = {Partial, acc} /\ op.writes = {acc}
      /\ op.args.acc = acc /\ op.args.n = k
  BY DEF Kernel
<1>2. Replaces(op, acc)
  BY <1>1, RowBuffers, Zenon DEF Replaces, Data, Streams
<1>3. \A n : Written(n, op) = Sums(n, n[acc], k)
  BY <1>1, Zenon DEF Written
<1>4. ASSUME NEW n, NEW z, Agree(n, z, op) PROVE Written(n, op) = Written(z, op)
  <2>1. n[acc] = z[acc] /\ n[Partial] = z[Partial]
    BY <1>1, <1>4 DEF Agree, Touched
  <2>2. \A bag : Sums(n, bag, k) = Sums(z, bag, k)
    BY <2>1 DEF Sums
  <2> QED
    BY <1>3, <2>1, <2>2
<1>5. Local(op)
  BY <1>2, <1>4, LocalIf
<1>6. ASSUME NEW m, Memory(m) PROVE With(Step(m, op), m, acc, Written(m, op))
  BY <1>2, <1>5, <1>6, ReplacesOne
<1> QED
  BY <1>3, <1>5, <1>6

\* The sum is set to nothing.
LEMMA MemsetDoes ==
  ASSUME NEW op, op = Kernel("memset", {}, {G}, [acc |-> G])
  PROVE  /\ Local(op)
         /\ \A m : Memory(m) => With(Step(m, op), m, G, EmptyBag)
PROOF
<1>1. op.do = "memset" /\ op.on = "compute" /\ op.reads = {} /\ op.writes = {G}
  BY DEF Kernel
<1>2. Replaces(op, G)
  BY <1>1, RowBuffers, Zenon DEF Replaces, Data, Streams
<1>3. \A n : Written(n, op) = EmptyBag
  BY <1>1 DEF Written
<1>4. ASSUME NEW n, NEW z, Agree(n, z, op) PROVE Written(n, op) = Written(z, op)
  BY <1>3
<1>5. Local(op)
  BY <1>2, <1>4, LocalIf
<1>6. ASSUME NEW m, Memory(m) PROVE With(Step(m, op), m, G, Written(m, op))
  BY <1>2, <1>5, <1>6, ReplacesOne
<1> QED
  BY <1>3, <1>5, <1>6

\* A value in one buffer.
LEMMA WithOne ==
  ASSUME NEW m, Memory(m), NEW y \in Buffers, NEW v, NEW n, n = [m EXCEPT ![y] = v]
  PROVE  With(n, m, y, v)
PROOF
<1>1. m = [b \in Buffers |-> m[b]]
  BY DEF Memory
<1>2. n = [b \in Buffers |-> IF b = y THEN v ELSE m[b]]
  BY <1>1
<1>3. n = [b \in Buffers |-> n[b]] /\ \A b \in Buffers : n[b] = IF b = y THEN v ELSE m[b]
  BY <1>2, Zenon
<1> QED
  BY <1>3 DEF With, Memory

\* The host's own copies.
LEMMA LegacyDoes ==
  ASSUME NEW y \in Buffers, NEW v, NEW op, op = Legacy(y, v)
  PROVE  /\ Local(op)
         /\ \A m : Memory(m) => With(Step(m, op), m, y, v)
PROOF
<1>1. op.do = "legacy" /\ op.on = "legacy" /\ op.dst = y /\ op.value = v
  BY DEF Legacy
<1>2. ~Data(op) /\ HostWork(op)
  BY <1>1 DEF Data, Streams, HostWork
<1>3. Local(op)
  BY <1>1, <1>2 DEF Local
<1>4. \A m : Step(m, op) = [m EXCEPT ![y] = v]
  BY <1>1, <1>2 DEF Step
<1>5. ASSUME NEW m, Memory(m) PROVE With(Step(m, op), m, y, v)
  BY <1>4, <1>5, WithOne
<1> QED
  BY <1>3, <1>5

\* The sum is copied to the host.
LEMMA ReadBackDoes ==
  ASSUME NEW y \in Buffers, NEW x \in Buffers, NEW op, op = ReadBack(y, x)
  PROVE  /\ Local(op)
         /\ \A m : Memory(m) => With(Step(m, op), m, y, m[x])
PROOF
<1>1. op.do = "readback" /\ op.on = "legacy" /\ op.dst = y /\ op.src = x
  BY DEF ReadBack
<1>2. ~Data(op) /\ HostWork(op)
  BY <1>1 DEF Data, Streams, HostWork
<1>3. Local(op)
  BY <1>1, <1>2 DEF Local
<1>4. \A m : Step(m, op) = [m EXCEPT ![y] = m[x]]
  BY <1>1, <1>2 DEF Step
<1>5. ASSUME NEW m, Memory(m) PROVE With(Step(m, op), m, y, m[x])
  BY <1>4, <1>5, WithOne
<1> QED
  BY <1>3, <1>5

\* What some parts hold together.
AllParts(part, k) == UNION {part[z] : z \in 1 .. k}

\* A bag that holds a set once, and parts that hold each more element once.
LEMMA BagGrows ==
  ASSUME NEW S, NEW n \in Nat, NEW part,
         \A z \in 1 .. n : part[z] \cap S = {},
         \A z, y \in 1 .. n : z # y => part[z] \cap part[y] = {},
         NEW m, m[Partial] = part
  PROVE  Sums(m, SetToBag(S), n) = SetToBag(S \cup AllParts(part, n))
PROOF
<1> DEFINE bag == SetToBag(S)
           T == S \cup UNION {part[z] : z \in 1 .. n}
           In(e) == {z \in 1 .. n : e \in part[z]}
<1>1. DOMAIN bag = S /\ \A e \in S : bag[e] = 1
  BY DEF SetToBag
<1>2. Sums(m, bag, n) = [e \in T |-> (IF e \in S THEN bag[e] ELSE 0) + Cardinality(In(e))]
  BY <1>1 DEF Sums, BagToSet, BagIn
<1>3. ASSUME NEW e \in S PROVE In(e) = {}
  OBVIOUS
<1>4. ASSUME NEW e \in T, e \notin S PROVE \E z : In(e) = {z}
  <2>1. PICK z \in 1 .. n : e \in part[z]
    BY <1>4
  <2>2. \A y \in 1 .. n : e \in part[y] => y = z
    BY <2>1
  <2> QED
    BY <2>1, <2>2
<1> HIDE DEF In, T, bag
<1>5. ASSUME NEW e \in T PROVE (IF e \in S THEN bag[e] ELSE 0) + Cardinality(In(e)) = 1
  <2>1. CASE e \in S
    <3>1. Cardinality(In(e)) = 0
      BY <1>3, <2>1, FS_EmptySet
    <3> QED
      BY <1>1, <2>1, <3>1
  <2>2. CASE e \notin S
    <3>1. PICK z : In(e) = {z}
      BY <1>4, <2>2
    <3>2. Cardinality(In(e)) = 1
      BY <3>1, FS_Singleton, Zenon
    <3> QED
      BY <2>2, <3>2
  <2> QED
    BY <2>1, <2>2
<1>6. Sums(m, bag, n) = [e \in T |-> 1]
  BY <1>2, <1>5
<1> QED
  BY <1>6 DEF SetToBag, bag, T, AllParts

\* The claims of a pass that sums.
SumDesc(c, l, h, g) == RowDesc(c, 0, l, h, g, c.op = "ritz", TRUE)
SumsOK(c) == RowsOK(c) /\ c.op \in {"gram", "ritz"}

\* What such a claim says.
LEMMA HoldsSums ==
  ASSUME NEW c, c.op \in {"gram", "ritz"}, NEW l, NEW h, NEW g, NEW m
  PROVE  Holds(m, SumDesc(c, l, h, g)) <=>
           /\ Calm(m)
           /\ InRows(m, c, 0) /\ LoadedRows(m, c, l, h) /\ PartRows(m, c, l, g)
           /\ c.op = "ritz" => m[B] = MatrixOf(c)
           /\ m[SumIn(c)] = SetToBag(TermsTo(c, l))
PROOF
<1> DEFINE d == SumDesc(c, l, h, g)
<1>1. /\ d.pass = "rows" /\ d.c = c /\ d.dr = 0 /\ d.ld = l /\ d.has = h /\ d.groups = g
      /\ d.mat = (c.op = "ritz") /\ d.acc = TRUE
  BY DEF SumDesc, RowDesc
<1> HIDE DEF d
<1>2. Holds(m, d) <=> Calm(m) /\ RowsPass(m, d)
  BY <1>1 DEF Holds
<1>3. NewRows(m, c, 0) /\ OutRows(m, c, 0, l)
  BY DEF NewRows, OutRows
<1>4. RowsPass(m, d) <=>
           /\ InRows(m, c, 0) /\ LoadedRows(m, c, l, h) /\ PartRows(m, c, l, g)
           /\ c.op = "ritz" => m[B] = MatrixOf(c)
           /\ m[SumIn(c)] = SetToBag(TermsTo(c, l))
  BY <1>1, <1>3, Zenon DEF RowsPass
<1> QED
  BY <1>2, <1>4 DEF d

\* Parts of a chunk of rows: each row in one of them.
Parts(l, g) ==
  /\ IsProgram(g)
  /\ \A z \in 1 .. Len(g) : \A q \in g[z] : OfChunk(l, q)
  /\ \A q : OfChunk(l, q) => \E z \in 1 .. Len(g) : q \in g[z]
  /\ \A z, y \in 1 .. Len(g) : z # y => g[z] \cap g[y] = {}

\* The partial sums are a sequence.
TermsOf(m, a, b, with, k, S) == {<<RowOf(m, a, r, k), RowOf(m, b, r, k), {m[x] : x \in with}>> : r \in S}
ByGroup(v, m, a, b, with, g, k) ==
  IsProgram(v) /\ \A z \in 1 .. Len(g) : v[z] = TermsOf(m, a, b, with, k, g[z])

\* Each holds the terms of its group.
LEMMA PartedIs ==
  ASSUME NEW m, IsProgram(m[Partial]), NEW a, NEW b, NEW with, NEW g, IsProgram(g), NEW k
  PROVE  ByGroup(Parted(m, a, b, with, g, k), m, a, b, with, g, k)
PROOF
<1> DEFINE v == Parted(m, a, b, with, g, k)
           P(z) == {<<RowOf(m, a, r, k), RowOf(m, b, r, k), {m[x] : x \in with}>> : r \in g[z]}
<1>0. \A z : P(z) = TermsOf(m, a, b, with, k, g[z])
  BY Zenon DEF TermsOf
<1>1. PICK n, e : n = Len(g) /\ e = Largest(n, Len(m[Partial]))
  BY Zenon
<1>2. n \in Nat /\ e \in Nat /\ n <= e
  BY <1>1, ProgramLength DEF Largest
<1>3. v = [z \in 1 .. e |-> IF z <= n THEN P(z) ELSE m[Partial][z]]
  BY <1>1 DEF Parted
<1> HIDE DEF v, P
<1>4. DOMAIN v = 1 .. e /\ \A z \in 1 .. n : v[z] = P(z)
  BY <1>2, <1>3
<1>5. v \in [1 .. e -> {v[z] : z \in 1 .. e}]
  BY <1>3, <1>4
<1>6. v \in Seq({v[z] : z \in 1 .. e})
  BY <1>2, <1>5, LengthOf
<1>7. IsProgram(v)
  BY <1>6, Zenon DEF IsProgram
<1> QED
  BY <1>0, <1>1, <1>4, <1>7 DEF v, ByGroup

\* The terms of a chunk are put together.
LEMMA PartialSumsFit ==
  ASSUME NEW c, SumsOK(c), NEW l \in Nat,
         NEW h, DOMAIN h \subseteq Chunks, NEW a \in DOMAIN h, NEW b \in DOMAIN h,
         h[a] = Y, h[b] = Second(c), NEW g, Parts(l, g),
         NEW with, with = IF c.op = "ritz" THEN {B} ELSE {}, NEW el,
         NEW op, op = Kernel("partial", {a, b} \cup with, {Partial},
                             [a |-> a, b |-> b, with |-> with, groups |-> g, m |-> c.m, elems |-> el])
  PROVE  Fits(SumDesc(c, l, h, <<>>), op, SumDesc(c, l, h, g))
PROOF
<1>0. ContextOK /\ ctx.NS \in Nat /\ c.m \in Nat /\ c.op \in {"gram", "ritz"}
  BY DEF SumsOK, RowsOK
<1>1. /\ a \in Buffers /\ b \in Buffers /\ Partial \in Buffers /\ Partial \notin Sized
      /\ DOMAIN h \subseteq Buffers /\ Partial \notin DOMAIN h
      /\ Partial \notin {Y, AY} /\ Partial # B /\ Partial # SumIn(c)
      /\ with \subseteq Buffers
  <2>1. Partial \notin {Y, AY}
    BY DEF Partial, Y, AY
  <2>2. a \in Buffers /\ b \in Buffers /\ Partial \in Buffers /\ Partial \notin Sized
      /\ DOMAIN h \subseteq Buffers /\ Partial \notin DOMAIN h
    BY RowBuffers
  <2>3. Partial # B /\ Partial # SumIn(c) /\ with \subseteq Buffers
    BY RowBuffers
  <2> QED
    BY <2>1, <2>2, <2>3
<1>2. PICK k, u : k = c.m /\ u = Second(c)
  OBVIOUS
<1>3. /\ Local(op)
      /\ \A m : Memory(m) => With(Step(m, op), m, Partial, Parted(m, a, b, with, g, k))
  <2>1. op = Kernel("partial", {a, b} \cup with, {Partial},
                    [a |-> a, b |-> b, with |-> with, groups |-> g, m |-> k, elems |-> el])
    BY <1>2
  <2> QED
    BY <1>1, <2>1, PartialDoes, Zenon
<1>4. SUFFICES ASSUME NEW m, Holds(m, SumDesc(c, l, h, <<>>)) PROVE Holds(Step(m, op), SumDesc(c, l, h, g))
  BY <1>3, Zenon DEF Fits
<1> DEFINE n == Step(m, op)
           v == Parted(m, a, b, with, g, k)
<1>5. /\ Calm(m)
      /\ InRows(m, c, 0) /\ LoadedRows(m, c, l, h)
      /\ c.op = "ritz" => m[B] = MatrixOf(c)
      /\ m[SumIn(c)] = SetToBag(TermsTo(c, l))
  BY <1>0, <1>4, HoldsSums
<1>6. /\ IsProgram(v)
      /\ \A z \in 1 .. Len(g) :
           v[z] = TermsOf(m, a, b, with, k, g[z])
  <2>1. IsProgram(m[Partial]) /\ IsProgram(g)
    BY <1>5 DEF Calm, Parts
  <2>2. ByGroup(v, m, a, b, with, g, k)
    BY <2>1, PartedIs
  <2> QED
    BY <2>2, Zenon DEF ByGroup
<1>7. With(n, m, Partial, v)
  BY <1>3, <1>5, Zenon DEF Calm
<1> HIDE DEF n, v
<1>8. Calm(n)
  BY <1>1, <1>5, <1>6, <1>7, CalmOtherwise, ZenonT(30)
<1>9. n[Partial] = v /\ OtherThan(m, n, Partial)
  BY <1>7 DEF With, OtherThan
<1>10. \A q : OfChunk(l, q) => <<RowOf(m, a, q, k), RowOf(m, b, q, k), {m[x] : x \in with}>> =
                                  TermOf(c, (l * ctx.chunkRows) + q)
  <2>1. SUFFICES ASSUME NEW q, OfChunk(l, q)
                 PROVE  <<RowOf(m, a, q, k), RowOf(m, b, q, k), {m[x] : x \in with}>> =
                          TermOf(c, (l * ctx.chunkRows) + q)
    OBVIOUS
  <2>2. PICK r : r = (l * ctx.chunkRows) + q
    OBVIOUS
  <2>3. q \in Nat
    BY <2>1 DEF OfChunk
  <2>4. RowIs(m, a, q, k, Y, c.id, r) /\ RowIs(m, b, q, k, u, c.id, r)
    BY <1>2, <1>5, <2>1, <2>2 DEF LoadedRows
  <2>5. RowOf(m, a, q, k) = NamesOf(Y, c.id, r, k) /\ RowOf(m, b, q, k) = NamesOf(u, c.id, r, k)
    BY <1>0, <1>2, <2>3, <2>4, RowNamed
  <2>6. {m[x] : x \in with} = IF c.op = "ritz" THEN {MatrixOf(c)} ELSE {}
    BY <1>5
  <2> QED
    BY <1>2, <2>2, <2>5, <2>6 DEF TermOf
<1>11. PartRows(n, c, l, g)
  <2>1. SUFFICES ASSUME NEW z \in 1 .. Len(g)
                 PROVE  n[Partial][z] = {TermOf(c, (l * ctx.chunkRows) + q) : q \in g[z]}
    BY DEF PartRows
  <2>2. \A q \in g[z] : OfChunk(l, q)
    BY DEF Parts
  <2> DEFINE F(q) == <<RowOf(m, a, q, k), RowOf(m, b, q, k), {m[x] : x \in with}>>
             T(q) == TermOf(c, (l * ctx.chunkRows) + q)
  <2>3. n[Partial][z] = {F(q) : q \in g[z]}
    <3>1. n[Partial][z] = TermsOf(m, a, b, with, k, g[z])
      BY <1>6, <1>9, Zenon
    <3> QED
      BY <3>1, Zenon DEF TermsOf
  <2>4. \A q \in g[z] : F(q) = T(q)
    BY <1>10, <2>2, Zenon
  <2> HIDE DEF F, T
  <2>5. {F(q) : q \in g[z]} = {T(q) : q \in g[z]}
    BY <2>4
  <2> QED
    BY <2>3, <2>5, Zenon DEF T
<1>12. InRows(n, c, 0) /\ LoadedRows(n, c, l, h) /\ n[B] = m[B] /\ n[SumIn(c)] = m[SumIn(c)]
  BY <1>1, <1>5, <1>9, RowsLeft
<1> QED
  BY <1>0, <1>5, <1>8, <1>11, <1>12, HoldsSums DEF n

\* No two rows have the same term.
LEMMA TermsApart ==
  ASSUME NEW c, c.m \in Nat \ {0}, NEW r, NEW s, TermOf(c, r) = TermOf(c, s)
  PROVE  r = s
PROOF
<1>1. PICK k : k = c.m
  OBVIOUS
<1>2. 1 \in 1 .. k
  BY <1>1
<1>3. NamesOf(Y, c.id, r, k) = NamesOf(Y, c.id, s, k)
  <2>1. \A x : TermOf(c, x)[1] = NamesOf(Y, c.id, x, k)
    BY <1>1 DEF TermOf
  <2> QED
    BY <2>1
<1>4. \A x : NamesOf(Y, c.id, x, k)[1] = <<Y, c.id, x, 1 - 1>>
  BY <1>2 DEF NamesOf
<1>5. <<Y, c.id, r, 1 - 1>> = <<Y, c.id, s, 1 - 1>>
  BY <1>3, <1>4
<1> QED
  BY <1>5

\* The terms up to a chunk, and of the chunk.
LEMMA TermsGrow ==
  ASSUME ContextOK, NEW c, NEW l \in Nat, NEW g, Parts(l, g),
         NEW part, \A z \in 1 .. Len(g) : part[z] = {TermOf(c, (l * ctx.chunkRows) + q) : q \in g[z]}
  PROVE  TermsTo(c, l + 1) = TermsTo(c, l) \cup AllParts(part, Len(g))
PROOF
<1>0. ctx.chunkRows \in Nat \ {0} /\ ctx.vecRows \in Nat
  BY DEF ContextOK
<1>1. PICK r0 \in Nat : r0 = l * ctx.chunkRows
  BY <1>0
<1>2. (l + 1) * ctx.chunkRows = r0 + ctx.chunkRows
  BY <1>1, NextChunk, Zenon
<1>3. /\ TermsTo(c, l + 1) = {TermOf(c, r) : r \in {z \in Rows : z < r0 + ctx.chunkRows}}
      /\ TermsTo(c, l) = {TermOf(c, r) : r \in {z \in Rows : z < r0}}
  BY <1>1, <1>2, Zenon DEF TermsTo
<1>4. \A z \in 1 .. Len(g) : \A q \in g[z] : r0 + q \in {y \in Rows : y < r0 + ctx.chunkRows}
  <2>1. SUFFICES ASSUME NEW z \in 1 .. Len(g), NEW q \in g[z] PROVE r0 + q \in Rows /\ r0 + q < r0 + ctx.chunkRows
    OBVIOUS
  <2>2. OfChunk(l, q)
    BY DEF Parts
  <2>3. q \in 0 .. ctx.chunkRows - 1 /\ r0 + q < ctx.vecRows
    BY <1>1, <2>2 DEF OfChunk
  <2> QED
    BY <1>0, <2>3 DEF Rows
<1>5. ASSUME NEW r \in Rows, r < r0 + ctx.chunkRows, ~(r < r0)
      PROVE  \E z \in 1 .. Len(g) : \E q \in g[z] : r = r0 + q
  <2>1. PICK q \in Int : q = r - r0
    BY <1>5 DEF Rows
  <2>2. q \in 0 .. ctx.chunkRows - 1 /\ r0 + q < ctx.vecRows /\ r = r0 + q
    BY <1>0, <1>5, <2>1 DEF Rows
  <2>3. OfChunk(l, q)
    BY <1>1, <2>2 DEF OfChunk
  <2>4. \E z \in 1 .. Len(g) : q \in g[z]
    BY <2>3 DEF Parts
  <2> QED
    BY <2>2, <2>4
<1> DEFINE T(r) == TermOf(c, r)
           All == {T(r) : r \in {z \in Rows : z < r0 + ctx.chunkRows}}
           Old == {T(r) : r \in {z \in Rows : z < r0}}
           New(z) == {T(r0 + q) : q \in g[z]}
<1>6. \A z \in 1 .. Len(g) : part[z] = New(z)
  BY <1>1
<1>7. \A r \in Rows : r < r0 => r < r0 + ctx.chunkRows
  BY <1>0 DEF Rows
<1> HIDE DEF T
<1>8. All \subseteq Old \cup UNION {New(z) : z \in 1 .. Len(g)}
  <2>1. SUFFICES ASSUME NEW r \in Rows, r < r0 + ctx.chunkRows
                 PROVE  T(r) \in Old \cup UNION {New(z) : z \in 1 .. Len(g)}
    OBVIOUS
  <2>2. CASE r < r0
    BY <2>2
  <2>3. CASE ~(r < r0)
    <3>1. PICK z \in 1 .. Len(g) : \E q \in g[z] : r = r0 + q
      BY <1>5, <2>1, <2>3
    <3>2. T(r) \in New(z)
      BY <3>1
    <3> QED
      BY <3>2
  <2> QED
    BY <2>2, <2>3
<1>9. Old \subseteq All
  BY <1>7
<1>10. \A z \in 1 .. Len(g) : New(z) \subseteq All
  BY <1>4
<1>11. All = Old \cup UNION {New(z) : z \in 1 .. Len(g)}
  <2> HIDE DEF All, Old, New
  <2> QED
    BY <1>8, <1>9, <1>10
<1>12. {part[z] : z \in 1 .. Len(g)} = {New(z) : z \in 1 .. Len(g)}
  <2> HIDE DEF New
  <2> QED
    BY <1>6
<1> QED
  BY <1>3, <1>11, <1>12, Zenon DEF T, AllParts

\* The terms of a chunk are new, and no two parts share one.
LEMMA TermsDiffer ==
  ASSUME ContextOK, NEW c, c.m \in Nat \ {0}, NEW l \in Nat, NEW g, Parts(l, g),
         NEW part, \A z \in 1 .. Len(g) : part[z] = {TermOf(c, (l * ctx.chunkRows) + q) : q \in g[z]}
  PROVE  /\ \A z \in 1 .. Len(g) : part[z] \cap TermsTo(c, l) = {}
         /\ \A z, y \in 1 .. Len(g) : z # y => part[z] \cap part[y] = {}
PROOF
<1>0. ctx.chunkRows \in Nat \ {0}
  BY DEF ContextOK
<1>1. PICK r0 \in Nat : r0 = l * ctx.chunkRows
  BY <1>0
<1>2. \A z \in 1 .. Len(g) : \A q \in g[z] : q \in Nat
  BY DEF Parts, OfChunk
<1>3. ASSUME NEW z \in 1 .. Len(g), NEW t \in part[z] PROVE \E q \in g[z] : t = TermOf(c, r0 + q)
  <2>1. t \in {TermOf(c, r0 + q) : q \in g[z]}
    BY <1>1, <1>3
  <2> QED
    BY <2>1
<1>4. ASSUME NEW t \in TermsTo(c, l) PROVE \E r \in Rows : r < r0 /\ t = TermOf(c, r)
  <2>1. t \in {TermOf(c, r) : r \in {z \in Rows : z < r0}}
    BY <1>1, <1>4, Zenon DEF TermsTo
  <2> QED
    BY <2>1
<1>5. ASSUME NEW z \in 1 .. Len(g), NEW t, t \in part[z], t \in TermsTo(c, l) PROVE FALSE
  <2>1. PICK q \in g[z] : t = TermOf(c, r0 + q)
    BY <1>3, <1>5
  <2>2. PICK r \in Rows : r < r0 /\ t = TermOf(c, r)
    BY <1>4, <1>5
  <2>3. PICK s : s = r0 + q
    OBVIOUS
  <2>4. s = r
    BY <2>1, <2>2, <2>3, TermsApart
  <2> QED
    BY <1>2, <2>2, <2>3, <2>4 DEF Rows
<1>6. ASSUME NEW z \in 1 .. Len(g), NEW y \in 1 .. Len(g), z # y, NEW t, t \in part[z], t \in part[y] PROVE FALSE
  <2>1. PICK q \in g[z] : t = TermOf(c, r0 + q)
    BY <1>3, <1>6
  <2>2. PICK p \in g[y] : t = TermOf(c, r0 + p)
    BY <1>3, <1>6
  <2>3. PICK s, r : s = r0 + q /\ r = r0 + p
    OBVIOUS
  <2>4. s = r
    BY <2>1, <2>2, <2>3, TermsApart
  <2>5. q = p
    BY <1>2, <2>3, <2>4
  <2> QED
    BY <1>6, <2>5 DEF Parts
<1> QED
  BY <1>5, <1>6

\* The terms of a chunk are added up.
LEMMA AccumFits ==
  ASSUME NEW c, SumsOK(c), NEW l \in Nat, NEW h, NEW g, Parts(l, g),
         NEW acc, acc = SumIn(c), NEW k, k = Len(g),
         NEW op, op = Kernel("accum", {Partial, acc}, {acc}, [n |-> k, acc |-> acc])
  PROVE  Fits(SumDesc(c, l, h, g), op, SumDesc(c, l + 1, NoRows, <<>>))
PROOF
<1>0. ContextOK /\ c.m \in Nat \ {0} /\ c.op \in {"gram", "ritz"}
  BY DEF SumsOK, RowsOK
<1>1. /\ acc \in Buffers /\ acc \in {G, Res2} /\ acc \notin Sized /\ acc # Partial /\ acc # B /\ acc \notin {Y, AY}
  <2>1. acc \in {G, Res2}
    BY RowBuffers
  <2>2. \A x \in {G, Res2} : x \in Buffers /\ x \notin Sized /\ x # Partial /\ x # B
    BY RowBuffers
  <2>3. \A x \in {G, Res2} : x \notin {Y, AY}
    BY DEF G, Res2, Y, AY
  <2> QED
    BY <2>1, <2>2, <2>3
<1>2. /\ Local(op)
      /\ \A m : Memory(m) => With(Step(m, op), m, acc, Sums(m, m[acc], k))
  BY <1>1, AccumDoes, Zenon
<1>3. SUFFICES ASSUME NEW m, Holds(m, SumDesc(c, l, h, g)) PROVE Holds(Step(m, op), SumDesc(c, l + 1, NoRows, <<>>))
  BY <1>2, Zenon DEF Fits
<1> DEFINE n == Step(m, op)
           v == Sums(m, m[acc], k)
<1>4. /\ Calm(m)
      /\ InRows(m, c, 0) /\ PartRows(m, c, l, g)
      /\ c.op = "ritz" => m[B] = MatrixOf(c)
      /\ m[acc] = SetToBag(TermsTo(c, l))
  BY <1>0, <1>3, HoldsSums
<1>5. With(n, m, acc, v)
  BY <1>2, <1>4, Zenon DEF Calm
<1>6. v = SetToBag(TermsTo(c, l + 1))
  <2>1. PICK part : part = m[Partial]
    OBVIOUS
  <2>2. \A z \in 1 .. Len(g) : part[z] = {TermOf(c, (l * ctx.chunkRows) + q) : q \in g[z]}
    BY <1>4, <2>1 DEF PartRows
  <2>3. /\ \A z \in 1 .. k : part[z] \cap TermsTo(c, l) = {}
        /\ \A z, y \in 1 .. k : z # y => part[z] \cap part[y] = {}
    BY <1>0, <2>2, TermsDiffer
  <2>4. TermsTo(c, l + 1) = TermsTo(c, l) \cup AllParts(part, k)
    BY <1>0, <2>2, TermsGrow
  <2>5. k \in Nat
    BY ProgramLength DEF Parts
  <2>6. PICK S : S = TermsTo(c, l)
    OBVIOUS
  <2>7. Sums(m, SetToBag(S), k) = SetToBag(S \cup AllParts(part, k))
    <3>1. \A z \in 1 .. k : part[z] \cap S = {}
      BY <2>3, <2>6
    <3> HIDE DEF v
    <3> QED
      BY <2>1, <2>3, <2>5, <3>1, BagGrows, Zenon
  <2> QED
    BY <1>4, <2>4, <2>6, <2>7, Zenon
<1> HIDE DEF n, v
<1>7. Calm(n)
  BY <1>1, <1>4, <1>5, CalmOtherwise, ZenonT(30)
<1>8. n[acc] = v /\ OtherThan(m, n, acc)
  BY <1>5 DEF With, OtherThan
<1>9. InRows(n, c, 0) /\ n[B] = m[B]
  BY <1>1, <1>4, <1>8, RowsLeft
<1>10. LoadedRows(n, c, l + 1, NoRows) /\ PartRows(n, c, l + 1, <<>>)
  BY DEF LoadedRows, NoRows, PartRows
<1> QED
  BY <1>0, <1>4, <1>6, <1>7, <1>8, <1>9, <1>10, HoldsSums DEF n

\* The pieces of size b hold all of a, and there is one if there is something.
LEMMA CeilCovers ==
  ASSUME NEW a \in Nat, NEW b \in Nat \ {0}
  PROVE  /\ Ceil(a, b) \in Nat /\ a <= Ceil(a, b) * b
         /\ a > 0 => Ceil(a, b) \in Nat \ {0}
PROOF
<1> DEFINE c == a + b - 1
           q == c \div b
<1>1. c \in Nat /\ c = a + b - 1
  OBVIOUS
<1> HIDE DEF c
<1>2. q \in Nat /\ c % b \in 0 .. b - 1 /\ c = b * q + (c % b)
  BY <1>1, Division, Zenon
<1> HIDE DEF q
<1>3. b * q = q * b /\ b * q \in Nat
  BY <1>2
<1>4. a <= q * b
  BY <1>1, <1>2, <1>3
<1>5. a > 0 => q # 0
  BY <1>4
<1> QED
  BY <1>2, <1>4, <1>5 DEF q, c, Ceil

\* Rows cut into pieces of one size: each is in one piece.
Pieces(rows, n, per) == [z \in 1 .. n |-> {r \in 0 .. rows - 1 : (z - 1) * per <= r /\ r < z * per}]

\* They are disjoint and miss no row.
LEMMA PiecesAre ==
  ASSUME NEW rows \in Nat, NEW n \in Nat, NEW per \in Nat \ {0}, rows <= n * per
  PROVE  /\ IsProgram(Pieces(rows, n, per)) /\ Len(Pieces(rows, n, per)) = n
         /\ \A z \in 1 .. n : Pieces(rows, n, per)[z] \subseteq 0 .. rows - 1
         /\ \A r \in 0 .. rows - 1 : \E z \in 1 .. n : r \in Pieces(rows, n, per)[z]
         /\ \A z, y \in 1 .. n : z # y => Pieces(rows, n, per)[z] \cap Pieces(rows, n, per)[y] = {}
PROOF
<1> DEFINE P(z) == {r \in 0 .. rows - 1 : (z - 1) * per <= r /\ r < z * per}
           g == Pieces(rows, n, per)
           S == {P(z) : z \in 1 .. n}
<1>1. g = [z \in 1 .. n |-> P(z)]
  BY Zenon DEF Pieces
<1>2. \A z \in 1 .. n : P(z) \subseteq 0 .. rows - 1
  OBVIOUS
<1>3. ASSUME NEW r \in 0 .. rows - 1 PROVE \E z \in 1 .. n : r \in P(z)
  <2>1. PICK q \in Nat, d \in Nat : q = r \div per /\ d < per /\ r = (per * q) + d
    <3>1. r \in Nat
      OBVIOUS
    <3>2. r \div per \in Nat /\ r % per \in 0 .. per - 1 /\ r = (per * (r \div per)) + (r % per)
      BY <3>1, Division, Zenon
    <3> QED
      BY <3>2
  <2>2. per * q = q * per /\ q * per \in Nat /\ (q + 1) * per = (q * per) + per
    BY <2>1
  <2>3. q < n
    <3>1. CASE n <= q
      <4>1. n * per <= q * per
        BY <2>1, <3>1, TimesGrows
      <4>2. n * per \in Nat /\ r \in Nat /\ r < rows
        OBVIOUS
      <4> QED
        BY <2>1, <2>2, <4>1, <4>2
    <3> QED
      BY <2>1, <3>1
  <2>4. q * per <= r /\ r < (q + 1) * per
    BY <2>1, <2>2
  <2>5. q + 1 \in 1 .. n /\ (q + 1) - 1 = q
    BY <2>1, <2>3
  <2>6. r \in P(q + 1)
    BY <2>4, <2>5
  <2> HIDE DEF P
  <2> QED
    BY <2>5, <2>6
<1>4. ASSUME NEW z \in 1 .. n, NEW y \in 1 .. n, z < y PROVE P(z) \cap P(y) = {}
  <2>1. z \in Nat /\ y - 1 \in Nat /\ z <= y - 1
    BY <1>4
  <2>2. z * per <= (y - 1) * per /\ z * per \in Int /\ (y - 1) * per \in Int
    BY <2>1, TimesGrows
  <2>3. PICK u \in Int, w \in Int : u = z * per /\ w = (y - 1) * per /\ u <= w
    BY <2>2
  <2>4. \A r \in P(z) : r \in Int /\ r < u
    BY <2>3
  <2>5. \A r \in P(y) : w <= r
    BY <2>3
  <2> HIDE DEF P
  <2> QED
    BY <2>3, <2>4, <2>5
<1>5. g \in [1 .. n -> S]
  BY <1>1, Zenon
<1> HIDE DEF P, S
<1>6. g \in Seq(S) /\ Len(g) = n
  <2> HIDE DEF g
  <2> QED
    BY <1>5, LengthOf
<1>7. IsProgram(g)
  BY <1>6, Zenon DEF IsProgram
<1>8. \A z, y \in 1 .. n : z # y => P(z) \cap P(y) = {}
  <2>1. SUFFICES ASSUME NEW z \in 1 .. n, NEW y \in 1 .. n, z # y PROVE P(z) \cap P(y) = {}
    OBVIOUS
  <2>2. z < y \/ y < z
    BY <2>1
  <2> QED
    BY <1>4, <2>2
<1>9. \A z \in 1 .. n : g[z] = P(z)
  BY <1>1
<1> HIDE DEF g
<1>10. \A z \in 1 .. n : g[z] \subseteq 0 .. rows - 1
  BY <1>2, <1>9
<1>11. \A r \in 0 .. rows - 1 : \E z \in 1 .. n : r \in g[z]
  BY <1>3, <1>9
<1>12. \A z, y \in 1 .. n : z # y => g[z] \cap g[y] = {}
  BY <1>8, <1>9
<1> QED
  BY <1>6, <1>7, <1>10, <1>11, <1>12 DEF g

\* The groups of a chunk are parts of it.
LEMMA PiecesArePartsOf ==
  ASSUME ContextOK, NEW l \in Nat, NEW rows, rows = Least(ctx.chunkRows, ctx.vecRows - l * ctx.chunkRows),
         l * ctx.chunkRows < ctx.vecRows,
         NEW n \in Nat, NEW per \in Nat \ {0}, rows <= n * per
  PROVE  Parts(l, Pieces(rows, n, per))
PROOF
<1>1. rows \in Nat /\ \A q : OfChunk(l, q) <=> q \in 0 .. rows - 1
  <2>1. ctx.chunkRows \in Nat
    BY DEF ContextOK
  <2>2. rows \in 1 .. ctx.chunkRows
    BY RowInChunk
  <2>3. \A q : OfChunk(l, q) => q \in 0 .. rows - 1
    BY RowInChunk
  <2>4. \A q \in 0 .. rows - 1 : OfChunk(l, q)
    BY RowInChunk
  <2> QED
    BY <2>1, <2>2, <2>3, <2>4
<1> DEFINE g == Pieces(rows, n, per)
<1>3. /\ IsProgram(g) /\ Len(g) = n
      /\ \A z \in 1 .. n : g[z] \subseteq 0 .. rows - 1
      /\ \A r \in 0 .. rows - 1 : \E z \in 1 .. n : r \in g[z]
      /\ \A z, y \in 1 .. n : z # y => g[z] \cap g[y] = {}
  BY <1>1, PiecesAre, Zenon
<1> HIDE DEF g
<1>4. Parts(l, g)
  BY <1>1, <1>3, Zenon DEF Parts
<1> QED
  BY <1>4 DEF g

\* Those of the Gram kernel, and those of the residual kernel.
LEMMA GroupsFit ==
  ASSUME ContextOK, NEW l \in Nat, NEW rows, rows = Least(ctx.chunkRows, ctx.vecRows - l * ctx.chunkRows),
         l * ctx.chunkRows < ctx.vecRows, NEW m \in Nat
  PROVE  Parts(l, GramGroups(rows, m)) /\ Parts(l, RitzGroups(rows))
PROOF
<1>1. rows \in Nat \ {0}
  <2>1. ctx.chunkRows \in Nat
    BY DEF ContextOK
  <2>2. rows \in 1 .. ctx.chunkRows
    BY RowInChunk
  <2> QED
    BY <2>1, <2>2
<1>2. GramTile \in Nat \ {0} /\ ResRows \in Nat \ {0} /\ GramSubs(m) \in Nat \ {0}
  BY TilingAssumption, GramSubsOK
<1> DEFINE tiles == Ceil(rows, GramTile)
           nSub == Largest(1, Least(GramSubs(m), tiles))
           cut == Ceil(tiles, nSub)
           perSub == cut * GramTile
           nRes == Ceil(rows, ResRows)
<1>3. tiles \in Nat \ {0} /\ rows <= tiles * GramTile
  BY <1>1, <1>2, CeilCovers
<1>4. nRes \in Nat \ {0} /\ rows <= nRes * ResRows
  BY <1>1, <1>2, CeilCovers
<1>5. GramGroups(rows, m) = Pieces(rows, nSub, perSub)
  BY Zenon DEF GramGroups, Pieces
<1>6. RitzGroups(rows) = Pieces(rows, nRes, ResRows)
  BY Zenon DEF RitzGroups, Pieces
<1> HIDE DEF tiles, nRes
<1>7. nSub \in Nat \ {0}
  BY <1>2, <1>3 DEF Largest, Least
<1> HIDE DEF nSub
<1>8. cut \in Nat \ {0} /\ tiles <= cut * nSub
  BY <1>3, <1>7, CeilCovers
<1> HIDE DEF cut
<1>9. perSub \in Nat \ {0} /\ rows <= nSub * perSub
  <2>1. tiles * GramTile <= (cut * nSub) * GramTile
    <3>1. cut * nSub \in Nat
      BY <1>7, <1>8
    <3> QED
      BY <1>2, <1>3, <1>8, <3>1, TimesGrows
  <2>2. (cut * nSub) * GramTile = nSub * perSub
    BY <1>2, <1>7, <1>8
  <2>3. perSub \in Nat \ {0} /\ nSub * perSub \in Nat /\ tiles * GramTile \in Nat
    BY <1>2, <1>3, <1>7, <1>8
  <2> QED
    BY <1>1, <1>3, <2>1, <2>2, <2>3
<1> HIDE DEF perSub
<1>10. Parts(l, Pieces(rows, nSub, perSub))
  BY <1>7, <1>9, PiecesArePartsOf
<1>11. Parts(l, Pieces(rows, nRes, ResRows))
  BY <1>2, <1>4, PiecesArePartsOf
<1> QED
  BY <1>5, <1>6, <1>10, <1>11

\* The claim a pass over rows begins with.
GivenDesc(c) == RowDesc(c, 0, 0, NoRows, <<>>, FALSE, FALSE)

\* It says the host has what it was given.
LEMMA HoldsGiven ==
  ASSUME NEW c, ContextOK, NEW m
  PROVE  /\ Holds(m, GivenDesc(c)) <=> Calm(m) /\ InRows(m, c, 0)
         /\ Holds(m, UpdDesc(c, 0, 0, NoRows)) <=> Calm(m) /\ InRows(m, c, 0) /\ m[B] = MatrixOf(c)
PROOF
<1>1. NewRows(m, c, 0) /\ OutRows(m, c, 0, 0)
  <2>1. 0 * ctx.chunkRows = 0 /\ \A r \in Rows : ~(r < 0)
    BY DEF ContextOK, Rows
  <2>2. \A i, q : OfChunk(i, q) => i \in Nat
    BY DEF OfChunk
  <2>3. \A i, q : OfChunk(i, q) => ~(0 <= i /\ i < 0)
    BY <2>2
  <2> QED
    BY <2>1, <2>3 DEF NewRows, OutRows
<1>2. LoadedRows(m, c, 0, NoRows) /\ PartRows(m, c, 0, <<>>)
  BY DEF LoadedRows, NoRows, PartRows
<1>3. Holds(m, GivenDesc(c)) <=> Calm(m) /\ InRows(m, c, 0)
  <2> DEFINE d == GivenDesc(c)
  <2>1. /\ d.pass = "rows" /\ d.c = c /\ d.dr = 0 /\ d.ld = 0 /\ d.has = NoRows /\ d.groups = <<>>
        /\ d.mat = FALSE /\ d.acc = FALSE
    BY DEF GivenDesc, RowDesc
  <2> HIDE DEF d
  <2>2. Holds(m, d) <=> Calm(m) /\ RowsPass(m, d)
    BY <2>1 DEF Holds
  <2>3. RowsPass(m, d) <=> InRows(m, c, 0)
    BY <1>1, <1>2, <2>1 DEF RowsPass
  <2> QED
    BY <2>2, <2>3 DEF d
<1> QED
  BY <1>1, <1>2, <1>3, HoldsUpdate

\* There is no term before the first chunk.
LEMMA NoTerms ==
  ASSUME ContextOK, NEW c
  PROVE  TermsTo(c, 0) = {}
PROOF
<1>1. 0 * ctx.chunkRows = 0 /\ {z \in Rows : z < 0} = {}
  BY DEF ContextOK, Rows
<1> QED
  BY <1>1 DEF TermsTo

\* The sum of a Gram matrix begins with nothing.
LEMMA MemsetFits ==
  ASSUME NEW c, SumsOK(c), c.op = "gram", NEW op, op = Kernel("memset", {}, {G}, [acc |-> G])
  PROVE  Fits(GivenDesc(c), op, SumDesc(c, 0, NoRows, <<>>))
PROOF
<1>0. ContextOK
  BY DEF SumsOK, RowsOK
<1>1. G \in Buffers /\ G \notin Sized /\ G # Partial /\ G # B /\ G \notin {Y, AY} /\ SumIn(c) = G
  <2>1. G \notin {Y, AY} /\ SumIn(c) = G
    BY DEF SumIn, G, Y, AY
  <2> QED
    BY <2>1, RowBuffers
<1>2. /\ Local(op)
      /\ \A m : Memory(m) => With(Step(m, op), m, G, EmptyBag)
  BY MemsetDoes
<1>3. SUFFICES ASSUME NEW m, Holds(m, GivenDesc(c)) PROVE Holds(Step(m, op), SumDesc(c, 0, NoRows, <<>>))
  BY <1>2, Zenon DEF Fits
<1> DEFINE n == Step(m, op)
<1>4. Calm(m) /\ InRows(m, c, 0)
  BY <1>0, <1>3, HoldsGiven
<1>5. With(n, m, G, EmptyBag)
  BY <1>2, <1>4 DEF Calm
<1> HIDE DEF n
<1>6. Calm(n)
  BY <1>1, <1>4, <1>5, CalmOtherwise, ZenonT(30)
<1>7. n[G] = EmptyBag /\ OtherThan(m, n, G)
  BY <1>5 DEF With, OtherThan
<1>8. InRows(n, c, 0)
  BY <1>1, <1>4, <1>7, RowsLeft
<1>9. LoadedRows(n, c, 0, NoRows) /\ PartRows(n, c, 0, <<>>)
  BY DEF LoadedRows, NoRows, PartRows
<1>10. n[SumIn(c)] = SetToBag(TermsTo(c, 0))
  BY <1>0, <1>1, <1>7, NoTerms DEF EmptyBag
<1> QED
  BY <1>6, <1>8, <1>9, <1>10, HoldsSums DEF n

\* The matrix of an update, or the eigenvectors, are uploaded.
LEMMA MatrixFits ==
  ASSUME NEW c, RowsOK(c), NEW v, v = MatrixOf(c), NEW op, op = Legacy(B, v)
  PROVE  Fits(GivenDesc(c), op, UpdDesc(c, 0, 0, NoRows))
PROOF
<1>0. ContextOK
  BY DEF RowsOK
<1>1. B \in Buffers /\ B \notin Sized /\ B # Partial /\ B \notin {Y, AY}
  <2>1. B \notin {Y, AY}
    BY DEF B, Y, AY
  <2> QED
    BY <2>1, RowBuffers
<1>2. /\ Local(op)
      /\ \A m : Memory(m) => With(Step(m, op), m, B, v)
  BY <1>1, LegacyDoes
<1>3. SUFFICES ASSUME NEW m, Holds(m, GivenDesc(c)) PROVE Holds(Step(m, op), UpdDesc(c, 0, 0, NoRows))
  BY <1>2 DEF Fits
<1> DEFINE n == Step(m, op)
<1>4. Calm(m) /\ InRows(m, c, 0)
  BY <1>0, <1>3, HoldsGiven
<1>5. With(n, m, B, v)
  BY <1>2, <1>4 DEF Calm
<1> HIDE DEF n
<1>6. Calm(n)
  BY <1>1, <1>4, <1>5, CalmOtherwise, ZenonT(30)
<1>7. n[B] = v /\ OtherThan(m, n, B)
  BY <1>5 DEF With, OtherThan
<1>8. InRows(n, c, 0)
  BY <1>1, <1>4, <1>7, RowsLeft
<1> QED
  BY <1>0, <1>6, <1>7, <1>8, HoldsGiven DEF n

\* The sum of the residuals begins with nothing.
LEMMA NoSumFits ==
  ASSUME NEW c, SumsOK(c), c.op = "ritz", NEW op, op = Legacy(Res2, EmptyBag)
  PROVE  Fits(UpdDesc(c, 0, 0, NoRows), op, SumDesc(c, 0, NoRows, <<>>))
PROOF
<1>0. ContextOK
  BY DEF SumsOK, RowsOK
<1>1. Res2 \in Buffers /\ Res2 \notin Sized /\ Res2 # Partial /\ Res2 # B /\ Res2 \notin {Y, AY} /\ SumIn(c) = Res2
  <2>1. Res2 \notin {Y, AY} /\ SumIn(c) = Res2
    BY DEF SumIn, Res2, Y, AY
  <2> QED
    BY <2>1, RowBuffers
<1>2. /\ Local(op)
      /\ \A m : Memory(m) => With(Step(m, op), m, Res2, EmptyBag)
  <2>1. PICK v : v = EmptyBag
    OBVIOUS
  <2>2. op = Legacy(Res2, v)
    BY <2>1
  <2>3. Local(op) /\ \A m : Memory(m) => With(Step(m, op), m, Res2, v)
    BY <1>1, <2>2, LegacyDoes
  <2> QED
    BY <2>1, <2>3
<1>3. SUFFICES ASSUME NEW m, Holds(m, UpdDesc(c, 0, 0, NoRows)) PROVE Holds(Step(m, op), SumDesc(c, 0, NoRows, <<>>))
  BY <1>2 DEF Fits
<1> DEFINE n == Step(m, op)
<1>4. Calm(m) /\ InRows(m, c, 0) /\ m[B] = MatrixOf(c)
  BY <1>0, <1>3, HoldsGiven
<1>5. With(n, m, Res2, EmptyBag)
  BY <1>2, <1>4 DEF Calm
<1> HIDE DEF n
<1>6. Calm(n)
  BY <1>1, <1>4, <1>5, CalmOtherwise, ZenonT(30)
<1>7. n[Res2] = EmptyBag /\ OtherThan(m, n, Res2)
  BY <1>5 DEF With, OtherThan
<1>8. InRows(n, c, 0) /\ n[B] = m[B]
  BY <1>1, <1>4, <1>7, RowsLeft
<1>9. LoadedRows(n, c, 0, NoRows) /\ PartRows(n, c, 0, <<>>)
  BY DEF LoadedRows, NoRows, PartRows
<1>10. n[SumIn(c)] = SetToBag(TermsTo(c, 0))
  BY <1>0, <1>1, <1>7, NoTerms DEF EmptyBag
<1> QED
  BY <1>4, <1>6, <1>8, <1>9, <1>10, HoldsSums DEF n

\* The sum is read back.
ResultDesc(c) == [pass |-> "result", c |-> c]

\* What the device summed is what the host reads.
LEMMA ReadBackFits ==
  ASSUME NEW c, SumsOK(c), c.op = "ritz" => c.out \in Nat \ {0},
         NEW n, n = Ceil(ctx.vecRows, ctx.chunkRows),
         NEW acc, acc = SumIn(c), NEW op, op = ReadBack(Result, acc)
  PROVE  Fits(SumDesc(c, n, NoRows, <<>>), op, ResultDesc(c))
PROOF
<1>0. ContextOK /\ c.op \in {"gram", "ritz"}
  BY DEF SumsOK, RowsOK
<1>1. Result \in Buffers /\ Result \notin Sized /\ Result # Partial /\ acc \in Buffers
  BY RowBuffers
<1>2. /\ Local(op)
      /\ \A m : Memory(m) => With(Step(m, op), m, Result, m[acc])
  BY <1>1, ReadBackDoes
<1>3. SUFFICES ASSUME NEW m, Holds(m, SumDesc(c, n, NoRows, <<>>)) PROVE Holds(Step(m, op), ResultDesc(c))
  BY <1>2 DEF Fits
<1> DEFINE n2 == Step(m, op)
<1>4. Calm(m) /\ m[acc] = SetToBag(TermsTo(c, n))
  BY <1>0, <1>3, HoldsSums
<1>5. TermsTo(c, n) = {TermOf(c, r) : r \in Rows}
  <2>1. ctx.vecRows \in Nat /\ n \in Nat /\ ctx.vecRows <= n * ctx.chunkRows /\ ctx.chunkRows \in Nat
    BY <1>0, CeilCovers DEF ContextOK
  <2>2. PICK e \in Nat : e = n * ctx.chunkRows
    BY <2>1
  <2>3. {z \in Rows : z < e} = Rows
    BY <2>1, <2>2 DEF Rows
  <2> QED
    BY <2>2, <2>3, Zenon DEF TermsTo
<1>6. With(n2, m, Result, m[acc])
  BY <1>2, <1>4 DEF Calm
<1> HIDE DEF n2
<1>7. Calm(n2)
  BY <1>1, <1>4, <1>6, CalmOtherwise, ZenonT(30)
<1>8. n2[Result] = SetToBag({TermOf(c, r) : r \in Rows})
  BY <1>4, <1>5, <1>6 DEF With
<1>9. ~(c.op = "ritz" /\ c.out < 1)
  OBVIOUS
<1>10. n2[Result] = Summed(c)
  BY <1>8, <1>9 DEF Summed
<1> DEFINE d == ResultDesc(c)
<1>11. d.pass = "result" /\ d.c = c
  BY DEF ResultDesc
<1> HIDE DEF d
<1>12. Holds(n2, d)
  BY <1>7, <1>10, <1>11 DEF Holds
<1> QED
  BY <1>12 DEF d, n2

(***************************************************************************)
(* Passes over rows: the chunks of a program.                              *)
(***************************************************************************)

\* The arrays of a pass over rows, and the claims before chunk i, with its slot free, and
\* with the rows of h loaded.
WithSecond(c) == c.op = "ritz" \/ (c.op = "gram" /\ c.useB)
SecondArray(c) == IF WithSecond(c) THEN AY ELSE None
OutArray(c) == IF c.op = "update" THEN Y ELSE None
OutWidth(c) == IF c.op = "update" THEN c.out ELSE 0
BackAt(c, i) == IF c.op = "update" THEN Largest(i - NSLOT, 0) ELSE 0
RowMid(c, i, h) == RowDesc(c, BackAt(c, i + 1), i, h, <<>>, c.op # "gram", c.op # "update")
RowAt(c, i) == RowDesc(c, BackAt(c, i), i, NoRows, <<>>, c.op # "gram", c.op # "update")
HasRows(c, k) == [z \in IF WithSecond(c) THEN {RA(k), RB(k)} ELSE {RA(k)} |-> IF z = RA(k) THEN Y ELSE AY]

\* These claims are those of the updates and of the sums.
LEMMA RowClaims ==
  ASSUME NEW c, RowsOK(c), NEW i \in Nat, NEW h
  PROVE  /\ c.op = "update" => /\ RowMid(c, i, h) = UpdDesc(c, Largest((i + 1) - NSLOT, 0), i, h)
                               /\ RowAt(c, i) = UpdDesc(c, Largest(i - NSLOT, 0), i, NoRows)
         /\ c.op # "update" => /\ RowMid(c, i, h) = SumDesc(c, i, h, <<>>)
                               /\ RowAt(c, i) = SumDesc(c, i, NoRows, <<>>)
PROOF
<1>1. c.op \in {"gram", "update", "ritz"}
  BY DEF RowsOK
<1>2. CASE c.op = "update"
  <2>1. (c.op # "gram") = TRUE /\ (c.op # "update") = FALSE
    BY <1>2
  <2>2. BackAt(c, i + 1) = Largest((i + 1) - NSLOT, 0) /\ BackAt(c, i) = Largest(i - NSLOT, 0)
    <3>1. \A x \in Nat : BackAt(c, x) = Largest(x - NSLOT, 0)
      BY <1>2, Zenon DEF BackAt
    <3>2. BackAt(c, i + 1) = Largest((i + 1) - NSLOT, 0)
      BY <3>1
    <3> QED
      BY <3>1, <3>2
  <2> QED
    BY <1>2, <2>1, <2>2, Zenon DEF RowMid, RowAt, UpdDesc
<1>3. CASE c.op # "update"
  <2>1. (c.op # "gram") = (c.op = "ritz") /\ (c.op # "update") = TRUE
    BY <1>1, <1>3
  <2>2. BackAt(c, i + 1) = 0 /\ BackAt(c, i) = 0
    BY <1>3 DEF BackAt
  <2> QED
    BY <1>3, <2>1, <2>2, Zenon DEF RowMid, RowAt, SumDesc
<1> QED
  BY <1>2, <1>3

\* The rows of a chunk are loaded.
LEMMA RowLoadsLead ==
  ASSUME NEW c, RowsOK(c), NEW l \in Nat, l * ctx.chunkRows < ctx.vecRows,
         NEW j \in Nat, c.op = "update" => j <= l, NEW k \in Slots,
         NEW rows, rows = Least(ctx.chunkRows, ctx.vecRows - l * ctx.chunkRows),
         NEW load, load = << Copy(RA(k), 0, rows * c.m, Y, (l * ctx.chunkRows) * c.m, rows * c.m, rows * c.m, 1) >>,
         NEW more, more = IF SecondArray(c) # None
                          THEN << Copy(RB(k), 0, rows * c.m, SecondArray(c), (l * ctx.chunkRows) * c.m,
                                       rows * c.m, rows * c.m, 1) >> ELSE <<>>,
         NEW b, NEW s
  PROVE  Leads(load \o more, RowDesc(c, j, l, NoRows, <<>>, b, s), RowDesc(c, j, l, HasRows(c, k), <<>>, b, s))
PROOF
<1> DEFINE op == Copy(RA(k), 0, rows * c.m, Y, (l * ctx.chunkRows) * c.m, rows * c.m, rows * c.m, 1)
           op2 == Copy(RB(k), 0, rows * c.m, AY, (l * ctx.chunkRows) * c.m, rows * c.m, rows * c.m, 1)
           ha == [z \in {RA(k)} |-> Y]
           d0 == RowDesc(c, j, l, NoRows, <<>>, b, s)
           d1 == RowDesc(c, j, l, ha, <<>>, b, s)
           d2 == RowDesc(c, j, l, HasRows(c, k), <<>>, b, s)
<1>1. AY # None /\ RA(k) \in Chunks /\ RB(k) \in Chunks /\ RA(k) # RB(k) /\ Y \in RowArrays(c)
  BY RowBuffers, NoneAssumption
<1>2. PICK g : g = <<>>
  OBVIOUS
<1>3. Fits(d0, op, d1)
  <2> DEFINE h == NoRows
             dst == RA(k)
  <2>1. DOMAIN h \subseteq Chunks /\ DOMAIN ha = DOMAIN h \cup {dst} /\ ha[dst] = Y
        /\ \A z \in DOMAIN h : z # dst /\ ha[z] = h[z]
    BY DEF NoRows
  <2>2. op = Copy(dst, 0, rows * c.m, Y, (l * ctx.chunkRows) * c.m, rows * c.m, rows * c.m, 1)
    OBVIOUS
  <2>3. dst \in {RA(k), RB(k)}
    OBVIOUS
  <2> HIDE DEF h, ha, op, dst
  <2>4. Fits(RowDesc(c, j, l, h, g, b, s), op, RowDesc(c, j, l, ha, g, b, s))
    BY <1>1, <2>1, <2>2, <2>3, RowLoadFits, Zenon
  <2> QED
    BY <1>2, <2>4 DEF h
<1>4. load = <<op>>
  OBVIOUS
<1>5. CASE WithSecond(c)
  <2>1. more = <<op2>> /\ AY \in RowArrays(c)
    BY <1>1, <1>5 DEF SecondArray, WithSecond, RowArrays
  <2>2. Fits(d1, op2, d2)
    <3> DEFINE hb == HasRows(c, k)
               dst == RB(k)
    <3>1. DOMAIN ha \subseteq Chunks /\ DOMAIN hb = DOMAIN ha \cup {dst} /\ hb[dst] = AY
          /\ \A z \in DOMAIN ha : z # dst /\ hb[z] = ha[z]
      BY <1>1, <1>5 DEF HasRows
    <3>2. op2 = Copy(dst, 0, rows * c.m, AY, (l * ctx.chunkRows) * c.m, rows * c.m, rows * c.m, 1)
      OBVIOUS
    <3>3. dst \in {RA(k), RB(k)}
      OBVIOUS
    <3> HIDE DEF hb, ha, op2, dst
    <3>4. Fits(RowDesc(c, j, l, ha, g, b, s), op2, RowDesc(c, j, l, hb, g, b, s))
      BY <2>1, <3>1, <3>2, <3>3, RowLoadFits, Zenon
    <3> QED
      BY <1>2, <3>4 DEF hb
  <2> HIDE DEF op, op2, d0, d1, d2
  <2>3. Leads(<<op>>, d0, d1) /\ Leads(<<op2>>, d1, d2)
    BY <1>3, <2>2, LeadsOne
  <2>4. Leads(<<op>> \o <<op2>>, d0, d2)
    BY <2>3, LeadsOn
  <2> QED
    BY <1>4, <2>1, <2>4 DEF d0, d2
<1>6. CASE ~WithSecond(c)
  <2>1. more = <<>>
    BY <1>6 DEF SecondArray
  <2>2. d2 = d1
    BY <1>6 DEF HasRows
  <2> HIDE DEF op, d0, d1, d2
  <2>3. Leads(<<op>>, d0, d1) /\ Leads(<<>>, d1, d1)
    BY <1>3, LeadsOne, LeadsNone
  <2>4. Leads(<<op>> \o <<>>, d0, d1)
    BY <2>3, LeadsOn
  <2> QED
    BY <1>4, <2>1, <2>2, <2>4, Zenon DEF d0, d2
<1> QED
  BY <1>5, <1>6

\* A drain of rows.
LEMMA RowDrainLeads ==
  ASSUME NEW c, RowsOK(c), c.op = "update", NEW j \in Nat, NEW l \in Nat, j < l,
         j * ctx.chunkRows < ctx.vecRows
  PROVE  Leads(DrainRowChunk(j, Y, c.out), UpdDesc(c, j, l, NoRows), UpdDesc(c, j + 1, l, NoRows))
PROOF
<1> DEFINE k == j % NSLOT
           r0 == j * ctx.chunkRows
           rows == Least(ctx.chunkRows, ctx.vecRows - r0)
           w1 == Wait("copy", <<"computeDone", k>>)
           op == Copy(Y, r0 * c.out, rows * c.out, RO(k), 0, rows * c.out, rows * c.out, 1)
           d == UpdDesc(c, j, l, NoRows)
           e == UpdDesc(c, j + 1, l, NoRows)
<1>1. DrainRowChunk(j, Y, c.out) = <<w1, op>>
  BY Zenon DEF DrainRowChunk
<1>2. Fits(d, w1, d)
  BY MarksOf, Zenon
<1>3. DOMAIN NoRows \subseteq Chunks
  BY DEF NoRows
<1> HIDE DEF op, w1
<1>4. Fits(UpdDesc(c, j, l, NoRows), op, UpdDesc(c, j + 1, l, NoRows))
  <2>1. op = Copy(Y, r0 * c.out, rows * c.out, RO(k), 0, rows * c.out, rows * c.out, 1)
    BY DEF op
  <2> HIDE DEF k, r0, rows
  <2>2. k = j % NSLOT /\ r0 = j * ctx.chunkRows /\ rows = Least(ctx.chunkRows, ctx.vecRows - r0)
    BY DEF k, r0, rows
  <2> QED
    BY <1>3, <2>1, <2>2, RowDrainFits
<1> HIDE DEF d, e
<1>5. Leads(<<w1, op>>, d, e)
  BY <1>2, <1>4, LeadsTwo DEF d, e
<1> QED
  BY <1>1, <1>5 DEF d, e

\* The slot of a chunk is free.
LEMMA RowFreed ==
  ASSUME NEW c, RowsOK(c), NEW i \in Nat, i * ctx.chunkRows < ctx.vecRows,
         NEW drain, drain = IF OutArray(c) # None /\ i >= NSLOT
                            THEN DrainRowChunk(i - NSLOT, OutArray(c), OutWidth(c)) ELSE <<>>
  PROVE  Leads(drain, RowAt(c, i), RowMid(c, i, NoRows))
PROOF
<1>0. ctx.chunkRows \in Nat /\ ctx.vecRows \in Nat /\ Y # None
  BY RowBuffers, NoneAssumption DEF RowsOK, ContextOK
<1>1. PICK a \in Nat, b \in Nat :
        /\ a = Largest(i - NSLOT, 0) /\ b = Largest((i + 1) - NSLOT, 0)
        /\ (i >= NSLOT => a = i - NSLOT /\ b = a + 1 /\ a < i)
        /\ (~(i >= NSLOT) => a = 0 /\ b = 0)
  <2>1. /\ Largest(i - NSLOT, 0) \in Nat /\ Largest((i + 1) - NSLOT, 0) \in Nat
        /\ (i >= NSLOT => /\ Largest(i - NSLOT, 0) = i - NSLOT
                          /\ Largest((i + 1) - NSLOT, 0) = Largest(i - NSLOT, 0) + 1
                          /\ Largest(i - NSLOT, 0) < i)
        /\ (~(i >= NSLOT) => Largest(i - NSLOT, 0) = 0 /\ Largest((i + 1) - NSLOT, 0) = 0)
    BY DEF Largest, NSLOT
  <2> QED
    BY <2>1
<1>2. CASE c.op = "update" /\ i >= NSLOT
  <2>1. a * ctx.chunkRows < ctx.vecRows
    <3>1. a * ctx.chunkRows <= i * ctx.chunkRows
      BY <1>0, <1>1, <1>2, TimesGrows
    <3>2. a * ctx.chunkRows \in Nat /\ i * ctx.chunkRows \in Nat
      BY <1>0
    <3> QED
      BY <1>0, <3>1, <3>2
  <2>2. Leads(DrainRowChunk(a, Y, c.out), UpdDesc(c, a, i, NoRows), UpdDesc(c, a + 1, i, NoRows))
    BY <1>1, <1>2, <2>1, RowDrainLeads
  <2>3. drain = DrainRowChunk(a, Y, c.out)
    BY <1>0, <1>1, <1>2 DEF OutArray, OutWidth
  <2>4. RowAt(c, i) = UpdDesc(c, a, i, NoRows) /\ RowMid(c, i, NoRows) = UpdDesc(c, a + 1, i, NoRows)
    BY <1>1, <1>2, RowClaims
  <2> QED
    BY <2>2, <2>3, <2>4
<1>3. CASE ~(c.op = "update" /\ i >= NSLOT)
  <2>1. drain = <<>>
    BY <1>3 DEF OutArray
  <2>2. RowAt(c, i) = RowMid(c, i, NoRows)
    <3>1. CASE c.op = "update"
      BY <1>1, <1>3, <3>1, RowClaims
    <3>2. CASE c.op # "update"
      BY <3>2, RowClaims
    <3> QED
      BY <3>1, <3>2
  <2> QED
    BY <2>1, <2>2, LeadsNone
<1> QED
  BY <1>2, <1>3

\* A chunk of rows is loaded and computed, and for an update the chunk two before goes back.
LEMMA RowChunkLeads ==
  ASSUME NEW c, RowsOK(c), NEW i \in Nat, i * ctx.chunkRows < ctx.vecRows,
         NEW rows, rows = Least(ctx.chunkRows, ctx.vecRows - i * ctx.chunkRows),
         NEW Bh, Bh = SecondArray(c), NEW outH, outH = OutArray(c), NEW ldOut, ldOut = OutWidth(c), NEW fn,
         Leads(fn[i % NSLOT][rows], RowMid(c, i, HasRows(c, i % NSLOT)), RowAt(c, i + 1))
  PROVE  Leads(RowChunk(i, Y, Bh, c.m, outH, ldOut, fn), RowAt(c, i), RowAt(c, i + 1))
PROOF
<1> DEFINE k == i % NSLOT
           w1 == Wait("copy", <<"computeDone", k>>)
           drain == IF outH # None /\ i >= NSLOT THEN DrainRowChunk(i - NSLOT, outH, ldOut) ELSE <<>>
           load == << Copy(RA(k), 0, rows * c.m, Y, (i * ctx.chunkRows) * c.m, rows * c.m, rows * c.m, 1) >>
           load2 == << Copy(RB(k), 0, rows * c.m, Bh, (i * ctx.chunkRows) * c.m, rows * c.m, rows * c.m, 1) >>
           more == IF Bh # None THEN load2 ELSE <<>>
           ks == fn[k][rows]
           d0 == RowAt(c, i)
           d1 == RowMid(c, i, NoRows)
           d2 == RowMid(c, i, HasRows(c, k))
           d3 == RowAt(c, i + 1)
<1>1. RowChunk(i, Y, Bh, c.m, outH, ldOut, fn) = <<w1>> \o drain \o load \o more \o OnSlot(k, ks)
  BY Zenon DEF RowChunk
<1>2. Leads(<<w1>>, d0, d0)
  <2> HIDE DEF w1, d0
  <2>1. Fits(d0, w1, d0)
    BY MarksOf DEF w1
  <2> QED
    BY <2>1, LeadsOne
<1>3. Leads(drain, d0, d1)
  <2>1. drain = IF OutArray(c) # None /\ i >= NSLOT
                THEN DrainRowChunk(i - NSLOT, OutArray(c), OutWidth(c)) ELSE <<>>
    OBVIOUS
  <2> HIDE DEF drain
  <2> QED
    BY <2>1, RowFreed
<1>4. Leads(load \o more, d1, d2)
  <2>1. k \in Slots
    BY SlotOf
  <2>2. BackAt(c, i + 1) \in Nat /\ (c.op = "update" => BackAt(c, i + 1) <= i)
    BY DEF BackAt, Largest, NSLOT
  <2>3. PICK j \in Nat : j = BackAt(c, i + 1) /\ (c.op = "update" => j <= i)
    BY <2>2
  <2>4. PICK b, s : b = (c.op # "gram") /\ s = (c.op # "update")
    OBVIOUS
  <2>5. d1 = RowDesc(c, j, i, NoRows, <<>>, b, s) /\ d2 = RowDesc(c, j, i, HasRows(c, k), <<>>, b, s)
    BY <2>3, <2>4 DEF RowMid
  <2>6. more = IF SecondArray(c) # None
               THEN << Copy(RB(k), 0, rows * c.m, SecondArray(c), (i * ctx.chunkRows) * c.m,
                            rows * c.m, rows * c.m, 1) >> ELSE <<>>
    OBVIOUS
  <2>7. load = << Copy(RA(k), 0, rows * c.m, Y, (i * ctx.chunkRows) * c.m, rows * c.m, rows * c.m, 1) >>
    OBVIOUS
  <2> HIDE DEF load, more, k, d1, d2
  <2>8. Leads(load \o more, RowDesc(c, j, i, NoRows, <<>>, b, s), RowDesc(c, j, i, HasRows(c, k), <<>>, b, s))
    BY <2>1, <2>3, <2>6, <2>7, RowLoadsLead
  <2> QED
    BY <2>5, <2>8
<1>5. Leads(OnSlot(k, ks), d2, d3)
  <2>1. Leads(ks, d2, d3)
    OBVIOUS
  <2> HIDE DEF k, ks, d2, d3
  <2> QED
    BY <2>1, OnSlotLeads
<1> HIDE DEF d0, d1, d2, d3, w1, k, ks, drain, load, more
<1>6. Leads(<<w1>> \o drain, d0, d1)
  BY <1>2, <1>3, LeadsOn
<1>7. Leads((<<w1>> \o drain) \o (load \o more), d0, d2)
  BY <1>4, <1>6, LeadsOn
<1>8. Leads(((<<w1>> \o drain) \o (load \o more)) \o OnSlot(k, ks), d0, d3)
  BY <1>5, <1>7, LeadsOn
<1>9. (<<w1>> \o drain) \o (load \o more) = <<w1>> \o drain \o load \o more
  <2>1. IsProgram(<<w1>> \o drain)
    BY <1>6 DEF Leads, Proved
  <2>2. IsProgram(load) /\ IsProgram(more)
    <3>1. IsProgram(load)
      BY OneStep DEF load
    <3>2. IsProgram(more)
      <4> HIDE DEF load2
      <4>1. IsProgram(load2) /\ IsProgram(<<>>)
        BY OneStep, NoStep DEF load2
      <4> QED
        BY <4>1 DEF more
    <3> QED
      BY <3>1, <3>2
  <2> DEFINE a == <<w1>> \o drain
  <2> HIDE DEF a
  <2>3. IsProgram(a)
    BY <2>1 DEF a
  <2>4. PICK S, T, V : a \in Seq(S) /\ load \in Seq(T) /\ more \in Seq(V)
    BY <2>2, <2>3, Zenon DEF IsProgram
  <2>5. a \in Seq(S \cup T \cup V) /\ load \in Seq(S \cup T \cup V) /\ more \in Seq(S \cup T \cup V)
    BY <2>4
  <2>6. a \o (load \o more) = a \o load \o more
    BY <2>5
  <2> QED
    BY <2>6 DEF a
<1> QED
  BY <1>1, <1>8, <1>9, Zenon DEF d0, d3

\* The claim behind a pass over n chunks.
RowDone(c, n) == IF c.op = "update" THEN UpdDesc(c, n, n, NoRows) ELSE SumDesc(c, n, NoRows, <<>>)

\* The last drains of a pass over rows.
LEMMA LastRowDrainsLead ==
  ASSUME NEW c, RowsOK(c), c.op = "update", NEW n \in Nat, \A i \in 0 .. n - 1 : i * ctx.chunkRows < ctx.vecRows,
         NEW drain, \A i \in 0 .. n - 1 : drain[i] = DrainRowChunk(i, Y, c.out)
  PROVE  Leads(LastDrains(n, drain), UpdDesc(c, Largest(n - NSLOT, 0), n, NoRows), UpdDesc(c, n, n, NoRows))
PROOF
<1> DEFINE first == Largest(n - NSLOT, 0)
           m == n - first
           s == [j \in 1 .. m |-> drain[first + j - 1]]
           at == [j \in 0 .. m |-> UpdDesc(c, first + j, n, NoRows)]
           S == {s[j] : j \in 1 .. m}
<1>1. first \in Nat /\ m \in Nat /\ first + m = n
  BY DEF Largest, NSLOT
<1>2. LastDrains(n, drain) = FlattenSeq(s)
  BY Zenon DEF LastDrains
<1>3. at[0] = UpdDesc(c, Largest(n - NSLOT, 0), n, NoRows)
  <2>1. at[0] = UpdDesc(c, first + 0, n, NoRows)
    BY <1>1
  <2>2. first + 0 = Largest(n - NSLOT, 0)
    BY <1>1
  <2> QED
    BY <2>1, <2>2
<1> HIDE DEF m, first
<1>4. at[m] = UpdDesc(c, n, n, NoRows)
  BY <1>1
<1>5. ASSUME NEW j \in 1 .. m PROVE Leads(s[j], at[j - 1], at[j])
  <2>1. PICK i \in 0 .. n - 1 :
          i \in Nat /\ i < n /\ i = first + j - 1 /\ i = first + (j - 1) /\ first + j = i + 1 /\ j - 1 \in 0 .. m
    BY <1>1
  <2>2. s[j] = DrainRowChunk(i, Y, c.out)
    BY <2>1
  <2>3. at[j - 1] = UpdDesc(c, i, n, NoRows)
    BY <2>1
  <2>4. at[j] = UpdDesc(c, i + 1, n, NoRows)
    <3>1. at[j] = UpdDesc(c, first + j, n, NoRows)
      BY <1>1
    <3> QED
      BY <2>1, <3>1
  <2>5. Leads(DrainRowChunk(i, Y, c.out), UpdDesc(c, i, n, NoRows), UpdDesc(c, i + 1, n, NoRows))
    BY <2>1, RowDrainLeads
  <2> QED
    BY <2>2, <2>3, <2>4, <2>5
<1>6. s \in [1 .. m -> S]
  OBVIOUS
<1> HIDE DEF s, at, S
<1>7. Leads(FlattenSeq(s), at[0], at[m])
  BY <1>1, <1>5, <1>6, LeadsAll, Zenon
<1> QED
  BY <1>2, <1>3, <1>4, <1>7

\* A whole pass over rows.
LEMMA RowPassLeads ==
  ASSUME NEW c, RowsOK(c), NEW Bh, Bh = SecondArray(c), NEW outH, outH = OutArray(c),
         NEW ldOut, ldOut = OutWidth(c), NEW fn,
         \A i \in Nat : \A rows \in ChunkSizes :
           i * ctx.chunkRows < ctx.vecRows /\ rows = Least(ctx.chunkRows, ctx.vecRows - i * ctx.chunkRows) =>
             Leads(fn[i % NSLOT][rows], RowMid(c, i, HasRows(c, i % NSLOT)), RowAt(c, i + 1))
  PROVE  Leads(RowChunkPipeline(Y, Bh, c.m, outH, ldOut, fn),
               RowAt(c, 0), RowDone(c, Ceil(ctx.vecRows, ctx.chunkRows)))
PROOF
<1> DEFINE n == Ceil(ctx.vecRows, ctx.chunkRows)
           chunk == [j \in 1 .. n |-> RowChunk(j - 1, Y, Bh, c.m, outH, ldOut, fn)]
           drain == [i \in 0 .. n - 1 |-> DrainRowChunk(i, outH, ldOut)]
           last == IF outH # None THEN LastDrains(n, drain) ELSE <<>>
           at == [j \in 0 .. n |-> RowAt(c, j)]
           S == {chunk[j] : j \in 1 .. n}
<1>1. ctx.vecRows \in Nat /\ ctx.chunkRows \in Nat \ {0} /\ Y # None
  BY RowBuffers, NoneAssumption DEF RowsOK, ContextOK
<1>2. /\ n \in Nat
      /\ \A i \in 0 .. n - 1 : Least(ctx.chunkRows, ctx.vecRows - i * ctx.chunkRows)
                                 \in 1 .. Least(ctx.chunkRows, ctx.vecRows)
  BY <1>1, CeilBound
<1> HIDE DEF n
<1>3. ASSUME NEW i \in 0 .. n - 1 PROVE i * ctx.chunkRows < ctx.vecRows /\ i * ctx.chunkRows \in Nat
  <2>1. i \in Nat /\ i * ctx.chunkRows \in Nat
    BY <1>1, <1>2
  <2>2. PICK a \in Nat : a = i * ctx.chunkRows
    BY <2>1
  <2>3. Least(ctx.chunkRows, ctx.vecRows - a) >= 1
    BY <1>1, <1>2, <2>2 DEF Least
  <2> QED
    BY <1>1, <2>2, <2>3 DEF Least
<1>4. at[0] = RowAt(c, 0) /\ at[n] = RowAt(c, n)
  BY <1>2
<1>5. ASSUME NEW j \in 1 .. n PROVE Leads(chunk[j], at[j - 1], at[j])
  <2>1. PICK i \in 0 .. n - 1 : i \in Nat /\ i = j - 1 /\ i + 1 = j /\ j - 1 \in 0 .. n /\ j \in 0 .. n
    BY <1>2
  <2>2. chunk[j] = RowChunk(i, Y, Bh, c.m, outH, ldOut, fn) /\ at[j - 1] = RowAt(c, i) /\ at[j] = RowAt(c, i + 1)
    BY <2>1
  <2>3. PICK rows : rows = Least(ctx.chunkRows, ctx.vecRows - i * ctx.chunkRows)
    OBVIOUS
  <2>4. rows \in ChunkSizes /\ i * ctx.chunkRows < ctx.vecRows
    BY <1>2, <1>3, <2>3 DEF ChunkSizes
  <2>5. Leads(fn[i % NSLOT][rows], RowMid(c, i, HasRows(c, i % NSLOT)), RowAt(c, i + 1))
    BY <2>1, <2>3, <2>4
  <2>6. Leads(RowChunk(i, Y, Bh, c.m, outH, ldOut, fn), RowAt(c, i), RowAt(c, i + 1))
    BY <2>1, <2>3, <2>4, <2>5, RowChunkLeads
  <2> QED
    BY <2>2, <2>6
<1>6. chunk \in [1 .. n -> S]
  OBVIOUS
<1>7. RowChunkPipeline(Y, Bh, c.m, outH, ldOut, fn) = FlattenSeq(chunk) \o last \o EndPass("rowPass")
  BY Zenon DEF RowChunkPipeline, n
<1>8. Leads(last, RowAt(c, n), RowDone(c, n))
  <2>1. CASE c.op = "update"
    <3>1. outH = Y /\ ldOut = c.out
      BY <2>1 DEF OutArray, OutWidth
    <3>2. \A i \in 0 .. n - 1 : drain[i] = DrainRowChunk(i, Y, c.out)
      BY <3>1
    <3>3. last = LastDrains(n, drain)
      BY <1>1, <3>1
    <3>4. RowAt(c, n) = UpdDesc(c, Largest(n - NSLOT, 0), n, NoRows) /\ RowDone(c, n) = UpdDesc(c, n, n, NoRows)
      BY <1>2, <2>1, RowClaims DEF RowDone
    <3> HIDE DEF drain
    <3>5. Leads(LastDrains(n, drain), UpdDesc(c, Largest(n - NSLOT, 0), n, NoRows), UpdDesc(c, n, n, NoRows))
      BY <1>2, <1>3, <2>1, <3>2, LastRowDrainsLead
    <3> QED
      BY <3>3, <3>4, <3>5
  <2>2. CASE c.op # "update"
    <3>1. last = <<>>
      BY <2>2 DEF OutArray
    <3>2. RowAt(c, n) = RowDone(c, n)
      BY <1>2, <2>2, RowClaims DEF RowDone
    <3> QED
      BY <3>1, <3>2, LeadsNone
  <2> QED
    BY <2>1, <2>2
<1> HIDE DEF chunk, drain, S, at, last
<1>9. Leads(FlattenSeq(chunk), at[0], at[n])
  BY <1>2, <1>5, <1>6, LeadsAll, Zenon
<1>10. Leads(FlattenSeq(chunk) \o last, at[0], RowDone(c, n))
  BY <1>4, <1>8, <1>9, LeadsOn
<1>11. Leads(EndPass("rowPass"), RowDone(c, n), RowDone(c, n))
  BY EndLeads
<1>12. Leads((FlattenSeq(chunk) \o last) \o EndPass("rowPass"), at[0], RowDone(c, n))
  BY <1>10, <1>11, LeadsOn
<1> QED
  BY <1>4, <1>7, <1>12 DEF n

(***************************************************************************)
(* Passes over rows: the entries.                                          *)
(***************************************************************************)

\* The two kernels of a sum.
LEMMA ReduceLeads ==
  ASSUME NEW c, SumsOK(c), NEW l \in Nat, NEW k \in Slots, NEW b, b = IF WithSecond(c) THEN RB(k) ELSE RA(k),
         NEW g, Parts(l, g), NEW width, NEW with, with = IF c.op = "ritz" THEN {B} ELSE {},
         NEW acc, acc = SumIn(c)
  PROVE  Leads(Reduce(RA(k), b, g, c.m, width, with, acc),
               SumDesc(c, l, HasRows(c, k), <<>>), SumDesc(c, l + 1, NoRows, <<>>))
PROOF
<1> DEFINE a == RA(k)
           h == HasRows(c, k)
           el == Len(g) * width
           nn == Len(g)
           x == Kernel("partial", {a, b} \cup with, {Partial},
                       [a |-> a, b |-> b, with |-> with, groups |-> g, m |-> c.m, elems |-> el])
           y == Kernel("accum", {Partial, acc}, {acc}, [n |-> nn, acc |-> acc])
<1>1. Reduce(a, b, g, c.m, width, with, acc) = <<x, y>>
  BY Zenon DEF Reduce
<1>2. DOMAIN h \subseteq Chunks /\ a \in DOMAIN h /\ b \in DOMAIN h /\ h[a] = Y /\ h[b] = Second(c)
  <2>1. RA(k) \in Chunks /\ RB(k) \in Chunks /\ RA(k) # RB(k)
    BY RowBuffers
  <2>2. Second(c) = IF WithSecond(c) THEN AY ELSE Y
    BY Zenon DEF Second, WithSecond
  <2> QED
    BY <2>1, <2>2 DEF HasRows
<1> HIDE DEF a, h, el, nn
<1>3. Fits(SumDesc(c, l, h, <<>>), x, SumDesc(c, l, h, g))
  <2>1. x = Kernel("partial", {a, b} \cup with, {Partial},
                       [a |-> a, b |-> b, with |-> with, groups |-> g, m |-> c.m, elems |-> el])
    OBVIOUS
  <2> HIDE DEF x
  <2> QED
    BY <1>2, <2>1, PartialSumsFit, Zenon
<1>4. Fits(SumDesc(c, l, h, g), y, SumDesc(c, l + 1, NoRows, <<>>))
  <2>1. y = Kernel("accum", {Partial, acc}, {acc}, [n |-> nn, acc |-> acc]) /\ nn = Len(g)
    BY DEF nn
  <2> HIDE DEF y
  <2> QED
    BY <2>1, AccumFits
<1> HIDE DEF x, y
<1>5. Leads(<<x, y>>, SumDesc(c, l, h, <<>>), SumDesc(c, l + 1, NoRows, <<>>))
  BY <1>3, <1>4, LeadsTwo
<1> QED
  BY <1>1, <1>5 DEF a, h

\* The Gram matrix.
LEMMA GramLeads ==
  ASSUME NEW c, SumsOK(c), c.op = "gram"
  PROVE  Leads(GramEntry(c), GivenDesc(c), ResultDesc(c))
PROOF
<1>0. RowsOK(c) /\ ContextOK /\ c.m \in Nat
  BY DEF SumsOK, RowsOK
<1> DEFINE n == Ceil(ctx.vecRows, ctx.chunkRows)
           x == Ensure(GramSubs(c.m) * c.m * c.m)
           y == Kernel("memset", {}, {G}, [acc |-> G])
           z == ReadBack(Result, G)
           fn == [k \in Slots |-> [rows \in ChunkSizes |->
                    Reduce(RA(k), IF c.useB THEN RB(k) ELSE RA(k),
                           GramGroups(rows, c.m), c.m, c.m * c.m, {}, G)]]
           Bh == IF c.useB THEN AY ELSE None
           p == RowChunkPipeline(Y, Bh, c.m, None, 0, fn)
<1>1. GramEntry(c) = <<x, y>> \o p \o <<z>>
  BY Zenon DEF GramEntry
<1>2. Fits(GivenDesc(c), x, GivenDesc(c))
  BY MarksOf
<1>3. Fits(GivenDesc(c), y, SumDesc(c, 0, NoRows, <<>>))
  BY MemsetFits, Zenon
<1>4. Bh = SecondArray(c) /\ OutArray(c) = None /\ OutWidth(c) = 0 /\ SumIn(c) = G
      /\ (c.useB <=> WithSecond(c))
  BY DEF SecondArray, WithSecond, OutArray, OutWidth, SumIn
<1>5. ASSUME NEW i \in Nat, NEW rows \in ChunkSizes, i * ctx.chunkRows < ctx.vecRows,
             rows = Least(ctx.chunkRows, ctx.vecRows - i * ctx.chunkRows)
      PROVE  Leads(fn[i % NSLOT][rows], RowMid(c, i, HasRows(c, i % NSLOT)), RowAt(c, i + 1))
  <2>1. PICK k \in Slots : k = i % NSLOT
    BY SlotOf
  <2>2. PICK b : b = IF WithSecond(c) THEN RB(k) ELSE RA(k)
    OBVIOUS
  <2>3. fn[k][rows] = Reduce(RA(k), b, GramGroups(rows, c.m), c.m, c.m * c.m, {}, G)
    BY <1>4, <2>2
  <2> HIDE DEF fn
  <2>4. Parts(i, GramGroups(rows, c.m))
    BY <1>0, <1>5, GroupsFit
  <2>5. PICK g : g = GramGroups(rows, c.m)
    OBVIOUS
  <2>6. PICK width, with, acc : width = c.m * c.m /\ with = {} /\ acc = G
    BY Zenon
  <2>7. with = (IF c.op = "ritz" THEN {B} ELSE {}) /\ acc = SumIn(c) /\ Parts(i, g)
    BY <1>4, <2>4, <2>5, <2>6
  <2>8. Leads(Reduce(RA(k), b, g, c.m, width, with, acc),
              SumDesc(c, i, HasRows(c, k), <<>>), SumDesc(c, i + 1, NoRows, <<>>))
    BY <2>2, <2>7, ReduceLeads, Zenon
  <2>9. RowMid(c, i, HasRows(c, k)) = SumDesc(c, i, HasRows(c, k), <<>>)
    BY <1>0, RowClaims
  <2>10. RowAt(c, i + 1) = SumDesc(c, i + 1, NoRows, <<>>)
    BY <1>0, RowClaims
  <2> QED
    BY <2>1, <2>3, <2>5, <2>6, <2>8, <2>9, <2>10
<1>6. Leads(p, RowAt(c, 0), RowDone(c, n))
  <2> HIDE DEF fn, Bh
  <2>1. PICK outH, ldOut : outH = None /\ ldOut = 0
    OBVIOUS
  <2>2. outH = OutArray(c) /\ ldOut = OutWidth(c)
    BY <1>4, <2>1
  <2>3. Leads(RowChunkPipeline(Y, Bh, c.m, outH, ldOut, fn), RowAt(c, 0), RowDone(c, n))
    BY <1>0, <1>4, <1>5, <2>2, RowPassLeads
  <2> QED
    BY <2>1, <2>3
<1>7. RowAt(c, 0) = SumDesc(c, 0, NoRows, <<>>) /\ RowDone(c, n) = SumDesc(c, n, NoRows, <<>>)
  BY <1>0, RowClaims DEF RowDone
<1>8. Fits(SumDesc(c, n, NoRows, <<>>), z, ResultDesc(c))
  <2> HIDE DEF z
  <2>1. z = ReadBack(Result, SumIn(c)) /\ (c.op = "ritz" => c.out \in Nat \ {0})
    BY <1>4 DEF z
  <2> QED
    BY <2>1, ReadBackFits
<1> HIDE DEF x, y, z, p, n
<1>9. Leads(<<x, y>>, GivenDesc(c), RowAt(c, 0))
  BY <1>2, <1>3, <1>7, LeadsTwo
<1>10. Leads(<<x, y>> \o p, GivenDesc(c), RowDone(c, n))
  BY <1>6, <1>9, LeadsOn
<1>11. Leads(<<z>>, RowDone(c, n), ResultDesc(c))
  BY <1>7, <1>8, LeadsOne
<1>12. Leads((<<x, y>> \o p) \o <<z>>, GivenDesc(c), ResultDesc(c))
  BY <1>10, <1>11, LeadsOn
<1> QED
  BY <1>1, <1>12

\* The block update.
LEMMA UpdateLeads ==
  ASSUME NEW c, RowsOK(c), c.op = "update"
  PROVE  Leads(UpdateEntry(c), GivenDesc(c), RowDone(c, Ceil(ctx.vecRows, ctx.chunkRows)))
PROOF
<1> DEFINE n == Ceil(ctx.vecRows, ctx.chunkRows)
           x == Legacy(B, <<"B", c.id, c.m, c.out>>)
           K(k, rows) == Kernel("update", {RA(k), B}, {RO(k)},
                                [a |-> RA(k), m |-> c.m, o |-> RO(k), out |-> c.out, rows |-> rows])
           fn == [k \in Slots |-> [rows \in ChunkSizes |-> << K(k, rows) >>]]
           p == RowChunkPipeline(Y, None, c.m, Y, c.out, fn)
<1>1. UpdateEntry(c) = <<x>> \o p
  BY Zenon DEF UpdateEntry
<1>2. Fits(GivenDesc(c), x, UpdDesc(c, 0, 0, NoRows))
  <2>1. x = Legacy(B, MatrixOf(c))
    BY DEF MatrixOf
  <2> HIDE DEF x
  <2> QED
    BY <2>1, MatrixFits
<1>3. SecondArray(c) = None /\ OutArray(c) = Y /\ OutWidth(c) = c.out /\ ~WithSecond(c)
  BY DEF SecondArray, WithSecond, OutArray, OutWidth
<1>4. ASSUME NEW i \in Nat, NEW rows \in ChunkSizes, i * ctx.chunkRows < ctx.vecRows,
             rows = Least(ctx.chunkRows, ctx.vecRows - i * ctx.chunkRows)
      PROVE  Leads(fn[i % NSLOT][rows], RowMid(c, i, HasRows(c, i % NSLOT)), RowAt(c, i + 1))
  <2>1. PICK k \in Slots : k = i % NSLOT
    BY SlotOf
  <2>2. fn[k][rows] = <<K(k, rows)>>
    OBVIOUS
  <2> HIDE DEF fn
  <2>3. PICK j \in Nat : j = Largest((i + 1) - NSLOT, 0) /\ i <= j + 1
    <3>1. Largest((i + 1) - NSLOT, 0) \in Nat /\ i <= Largest((i + 1) - NSLOT, 0) + 1
      BY DEF Largest, NSLOT
    <3> QED
      BY <3>1
  <2> DEFINE h == HasRows(c, k)
             op == K(k, rows)
  <2>4. RA(k) \in DOMAIN h /\ h[RA(k)] = Y
    BY DEF HasRows
  <2>5. op = Kernel("update", {RA(k), B}, {RO(k)},
                    [a |-> RA(k), m |-> c.m, o |-> RO(k), out |-> c.out, rows |-> rows])
    OBVIOUS
  <2> HIDE DEF h, op
  <2>6. Fits(UpdDesc(c, j, i, h), op, UpdDesc(c, j, i + 1, NoRows))
    BY <1>4, <2>1, <2>3, <2>4, <2>5, UpdateFits
  <2>7. Leads(<<op>>, UpdDesc(c, j, i, h), UpdDesc(c, j, i + 1, NoRows))
    BY <2>6, LeadsOne
  <2>8. RowMid(c, i, h) = UpdDesc(c, j, i, h)
    BY <2>3, RowClaims
  <2>9. RowAt(c, i + 1) = UpdDesc(c, j, i + 1, NoRows)
    BY <2>3, RowClaims
  <2> QED
    BY <2>1, <2>2, <2>7, <2>8, <2>9 DEF h, op
<1>5. Leads(p, RowAt(c, 0), RowDone(c, n))
  <2> HIDE DEF fn
  <2>1. PICK Bh, outH, ldOut : Bh = None /\ outH = Y /\ ldOut = c.out
    OBVIOUS
  <2>2. Bh = SecondArray(c) /\ outH = OutArray(c) /\ ldOut = OutWidth(c)
    BY <1>3, <2>1
  <2>3. Leads(RowChunkPipeline(Y, Bh, c.m, outH, ldOut, fn), RowAt(c, 0), RowDone(c, n))
    BY <1>4, <2>2, RowPassLeads
  <2> QED
    BY <2>1, <2>3
<1>6. RowAt(c, 0) = UpdDesc(c, 0, 0, NoRows)
  <2>1. Largest(0 - NSLOT, 0) = 0
    BY DEF Largest, NSLOT
  <2> QED
    BY <2>1, RowClaims
<1> HIDE DEF x, p, n
<1>7. Leads(<<x>>, GivenDesc(c), RowAt(c, 0))
  BY <1>2, <1>6, LeadsOne
<1>8. Leads(<<x>> \o p, GivenDesc(c), RowDone(c, n))
  BY <1>5, <1>7, LeadsOn
<1> QED
  BY <1>1, <1>8 DEF n

\* Two steps and a third.
LEMMA ThreeSteps ==
  ASSUME NEW u, NEW v, NEW w
  PROVE  <<u, v>> \o <<w>> = <<u, v, w>>
PROOF
<1> DEFINE S == {u, v, w}
           a == <<u, v>>
           b == <<w>>
           c == a \o b
           d == <<u, v, w>>
<1>1. a \in Seq(S) /\ b \in Seq(S) /\ d \in Seq(S) /\ Len(a) = 2 /\ Len(b) = 1 /\ Len(d) = 3
  OBVIOUS
<1>2. a[1] = u /\ a[2] = v /\ b[1] = w /\ d[1] = u /\ d[2] = v /\ d[3] = w
  OBVIOUS
<1> HIDE DEF a, b, d, S
<1>3. c \in Seq(S \cup S) /\ Len(c) = 3 /\ (\A i \in 1 .. 2 : c[i] = a[i]) /\ \A i \in 1 .. 1 : c[2 + i] = b[i]
  BY <1>1, Joined
<1>4. c[1] = d[1] /\ c[2] = d[2] /\ c[2 + 1] = d[3]
  BY <1>2, <1>3
<1> HIDE DEF c
<1>5. c \in [1 .. 3 -> S] /\ d \in [1 .. 3 -> S]
  <2>1. S \cup S = S
    OBVIOUS
  <2> QED
  BY <1>1, <1>3, <2>1
<1>6. \A i \in 1 .. 3 : c[i] = d[i]
  BY <1>4
<1>7. c = d
  BY <1>5, <1>6
<1> QED
  BY <1>7 DEF a, b, c, d

\* The residuals of the Ritz pairs, of one pair or more.
LEMMA RitzLeads ==
  ASSUME NEW c, SumsOK(c), c.op = "ritz", c.out \in Nat \ {0}
  PROVE  Leads(RitzEntry(c), GivenDesc(c), ResultDesc(c))
PROOF
<1>0. RowsOK(c) /\ ContextOK /\ c.m \in Nat
  BY DEF SumsOK, RowsOK
<1> DEFINE n == Ceil(ctx.vecRows, ctx.chunkRows)
           x == Ensure(Ceil(ctx.chunkRows, ResRows) * c.out)
           y == Legacy(B, <<"evec", c.id, c.m, c.m>>)
           y2 == Legacy(Res2, EmptyBag)
           z == ReadBack(Result, Res2)
           fn == [k \in Slots |-> [rows \in ChunkSizes |->
                    Reduce(RA(k), RB(k), RitzGroups(rows), c.m, c.out, {B}, Res2)]]
           p == RowChunkPipeline(Y, AY, c.m, None, 0, fn)
<1>1. RitzEntry(c) = <<x, y, y2>> \o p \o <<z>>
  <2>1. ~(c.out < 1)
    OBVIOUS
  <2> QED
    BY <2>1, Zenon DEF RitzEntry
<1>2. Fits(GivenDesc(c), x, GivenDesc(c))
  BY MarksOf
<1>3. Fits(GivenDesc(c), y, UpdDesc(c, 0, 0, NoRows))
  <2>1. y = Legacy(B, MatrixOf(c))
    BY DEF MatrixOf
  <2> HIDE DEF y
  <2> QED
    BY <1>0, <2>1, MatrixFits
<1>4. Fits(UpdDesc(c, 0, 0, NoRows), y2, SumDesc(c, 0, NoRows, <<>>))
  BY NoSumFits
<1>5. AY = SecondArray(c) /\ OutArray(c) = None /\ OutWidth(c) = 0 /\ SumIn(c) = Res2 /\ WithSecond(c)
  BY DEF SecondArray, WithSecond, OutArray, OutWidth, SumIn
<1>6. ASSUME NEW i \in Nat, NEW rows \in ChunkSizes, i * ctx.chunkRows < ctx.vecRows,
             rows = Least(ctx.chunkRows, ctx.vecRows - i * ctx.chunkRows)
      PROVE  Leads(fn[i % NSLOT][rows], RowMid(c, i, HasRows(c, i % NSLOT)), RowAt(c, i + 1))
  <2>1. PICK k \in Slots : k = i % NSLOT
    BY SlotOf
  <2>2. PICK b : b = IF WithSecond(c) THEN RB(k) ELSE RA(k)
    OBVIOUS
  <2>3. fn[k][rows] = Reduce(RA(k), b, RitzGroups(rows), c.m, c.out, {B}, Res2)
    BY <1>5, <2>2
  <2> HIDE DEF fn
  <2>4. Parts(i, RitzGroups(rows))
    BY <1>0, <1>6, GroupsFit
  <2>5. PICK g : g = RitzGroups(rows)
    OBVIOUS
  <2>6. PICK width, with, acc : width = c.out /\ with = {B} /\ acc = Res2
    BY Zenon
  <2>7. with = (IF c.op = "ritz" THEN {B} ELSE {}) /\ acc = SumIn(c) /\ Parts(i, g)
    BY <1>5, <2>4, <2>5, <2>6
  <2>8. Leads(Reduce(RA(k), b, g, c.m, width, with, acc),
              SumDesc(c, i, HasRows(c, k), <<>>), SumDesc(c, i + 1, NoRows, <<>>))
    BY <2>2, <2>7, ReduceLeads, Zenon
  <2>9. RowMid(c, i, HasRows(c, k)) = SumDesc(c, i, HasRows(c, k), <<>>)
    BY <1>0, RowClaims
  <2>10. RowAt(c, i + 1) = SumDesc(c, i + 1, NoRows, <<>>)
    BY <1>0, RowClaims
  <2> QED
    BY <2>1, <2>3, <2>5, <2>6, <2>8, <2>9, <2>10
<1>7. Leads(p, RowAt(c, 0), RowDone(c, n))
  <2> HIDE DEF fn
  <2>1. PICK Bh, outH, ldOut : Bh = AY /\ outH = None /\ ldOut = 0
    OBVIOUS
  <2>2. Bh = SecondArray(c) /\ outH = OutArray(c) /\ ldOut = OutWidth(c)
    BY <1>5, <2>1
  <2>3. Leads(RowChunkPipeline(Y, Bh, c.m, outH, ldOut, fn), RowAt(c, 0), RowDone(c, n))
    BY <1>0, <1>6, <2>2, RowPassLeads
  <2> QED
    BY <2>1, <2>3
<1>8. RowAt(c, 0) = SumDesc(c, 0, NoRows, <<>>) /\ RowDone(c, n) = SumDesc(c, n, NoRows, <<>>)
  BY <1>0, RowClaims DEF RowDone
<1>9. Fits(SumDesc(c, n, NoRows, <<>>), z, ResultDesc(c))
  <2> HIDE DEF z
  <2>1. z = ReadBack(Result, SumIn(c))
    BY <1>5 DEF z
  <2> QED
    BY <2>1, ReadBackFits
<1> HIDE DEF x, y, y2, z, p, n
<1>10. Leads(<<x, y>>, GivenDesc(c), UpdDesc(c, 0, 0, NoRows)) /\ Leads(<<y2>>, UpdDesc(c, 0, 0, NoRows), RowAt(c, 0))
  BY <1>2, <1>3, <1>4, <1>8, LeadsOne, LeadsTwo
<1>11. Leads(<<x, y>> \o <<y2>>, GivenDesc(c), RowAt(c, 0))
  BY <1>10, LeadsOn
<1>12. <<x, y>> \o <<y2>> = <<x, y, y2>>
  BY ThreeSteps
<1>13. Leads(<<x, y, y2>> \o p, GivenDesc(c), RowDone(c, n))
  BY <1>7, <1>11, <1>12, LeadsOn, Zenon
<1>14. Leads(<<z>>, RowDone(c, n), ResultDesc(c))
  BY <1>8, <1>9, LeadsOne
<1>15. Leads((<<x, y, y2>> \o p) \o <<z>>, GivenDesc(c), ResultDesc(c))
  BY <1>13, <1>14, LeadsOn
<1> QED
  BY <1>1, <1>15

(***************************************************************************)
(* The entries, from the call to the return.                               *)
(***************************************************************************)

\* A call the assumptions allow.
CallMade(c) ==
  /\ c.op \in Passes /\ c.m \in 1 .. ctx.NS /\ c.out \in Nat /\ c.np \in 2 .. Degree
  /\ c.useB \in BOOLEAN /\ c.id \in Nat
  /\ c.op = "update" => c.out \in 1 .. c.m
MemoryMade == ContextOK /\ ctx.NS \in Nat

\* What is true of memory when an entry is called and when it returns.
Goal(c) == IF c.op = "filter" THEN Filter(c.np) ELSE SpmmvGoal
Start(c) ==
  IF c.op \in {"filter", "spmmv"} THEN ColDesc(c, 0, 0, NoColumns, Goal(c))
  ELSE IF c.op = "ritz" /\ c.out < 1 THEN ResultDesc(c) ELSE GivenDesc(c)
Finish(c) ==
  IF c.op \in {"filter", "spmmv"}
  THEN ColDesc(c, Ceil(c.m, ctx.nb), Ceil(c.m, ctx.nb), NoColumns, Goal(c))
  ELSE IF c.op = "update" THEN RowDone(c, Ceil(ctx.vecRows, ctx.chunkRows)) ELSE ResultDesc(c)

\* Every entry leads from the one to the other, one operation after the other.
LEMMA EntryLeads ==
  ASSUME MemoryMade, NEW c, CallMade(c)
  PROVE  Leads(Program(c), Start(c), Finish(c))
PROOF
<1>1. c.op \in Passes
  BY DEF CallMade
<1>2. CASE c.op = "filter"
  <2>1. Program(c) = FilterEntry(c) /\ Goal(c) = Filter(c.np)
    BY <1>2 DEF Program, Goal
  <2>2. ColumnsOK(c) /\ c.np \in 2 .. Degree
    BY <1>2 DEF MemoryMade, CallMade, ColumnsOK
  <2>3. Leads(FilterEntry(c), ColDesc(c, 0, 0, NoColumns, Filter(c.np)),
               ColDesc(c, Ceil(c.m, ctx.nb), Ceil(c.m, ctx.nb), NoColumns, Filter(c.np)))
    BY <1>2, <2>2, FilterLeads
  <2> QED
    BY <1>2, <2>1, <2>3 DEF Start, Finish
<1>3. CASE c.op = "spmmv"
  <2>1. Program(c) = SpmmvEntry(c) /\ Goal(c) = SpmmvGoal
    BY <1>3 DEF Program, Goal
  <2>2. ColumnsOK(c)
    BY <1>3 DEF MemoryMade, CallMade, ColumnsOK
  <2>3. Leads(SpmmvEntry(c), ColDesc(c, 0, 0, NoColumns, SpmmvGoal),
               ColDesc(c, Ceil(c.m, ctx.nb), Ceil(c.m, ctx.nb), NoColumns, SpmmvGoal))
    BY <1>3, <2>2, SpmmvLeads
  <2> QED
    BY <1>3, <2>1, <2>3 DEF Start, Finish
<1>4. c.op \in {"gram", "update", "ritz"} => RowsOK(c)
  BY DEF MemoryMade, CallMade, RowsOK
<1>5. CASE c.op = "gram"
  <2>1. Program(c) = GramEntry(c)
    BY <1>5 DEF Program
  <2>2. SumsOK(c)
    BY <1>4, <1>5 DEF SumsOK
  <2> QED
    BY <1>5, <2>1, <2>2, GramLeads DEF Start, Finish
<1>6. CASE c.op = "update"
  <2>1. Program(c) = UpdateEntry(c)
    BY <1>6 DEF Program
  <2>2. Leads(UpdateEntry(c), GivenDesc(c), RowDone(c, Ceil(ctx.vecRows, ctx.chunkRows)))
    BY <1>4, <1>6, UpdateLeads
  <2> QED
    BY <1>6, <2>1, <2>2 DEF Start, Finish
<1>7. CASE c.op = "ritz"
  <2>1. Program(c) = RitzEntry(c)
    BY <1>7 DEF Program
  <2>2. SumsOK(c) /\ c.out \in Nat
    BY <1>4, <1>7 DEF SumsOK, CallMade
  <2>3. CASE c.out < 1
    <3>1. RitzEntry(c) = <<>>
      BY <2>3 DEF RitzEntry
    <3>2. Leads(<<>>, ResultDesc(c), ResultDesc(c))
      BY LeadsNone
    <3> QED
      BY <1>7, <2>1, <2>3, <3>1, <3>2 DEF Start, Finish
  <2>4. CASE ~(c.out < 1)
    <3>1. c.out \in Nat \ {0}
      BY <2>2, <2>4
    <3>2. Leads(RitzEntry(c), GivenDesc(c), ResultDesc(c))
      BY <1>7, <2>2, <3>1, RitzLeads
    <3> QED
      BY <1>7, <2>1, <2>4, <3>2 DEF Start, Finish
  <2> QED
    BY <2>3, <2>4
<1> QED
  BY <1>1, <1>2, <1>3, <1>5, <1>6, <1>7 DEF Passes

\* A program with the claims that hold along it.
Described(p, D, c) ==
  Proved(p, D) /\ D[0] = Start(c) /\ D[Len(p)] = Finish(c) /\ LocalProgram(p) /\ InOrder(p) /\ Closed(p)

\* Every entry's program has them.
LEMMA ProgramDescribed ==
  ASSUME MemoryMade, NEW c, CallMade(c)
  PROVE  \E D : Described(Program(c), D, c)
PROOF
<1>1. Leads(Program(c), Start(c), Finish(c))
  BY EntryLeads
<1>2. SoundProgram(Program(c))
  <2>1. CallOK(c)
    <3>1. c.m \in Nat \ {0} /\ c.np \in Nat \ {0, 1}
      BY CoefficientsAssumption DEF CallMade, MemoryMade
    <3> QED
      BY <3>1 DEF CallMade, CallOK, Passes
  <2> QED
    BY <2>1, EveryProgramIsSound DEF MemoryMade
<1>3. PICK p, s, e : p = Program(c) /\ s = Start(c) /\ e = Finish(c)
  BY Zenon
<1>4. PICK D : Proved(p, D) /\ D[0] = s /\ D[Len(p)] = e
  BY <1>1, <1>3 DEF Leads
<1>5. InOrder(p) /\ Closed(p)
  <2>1. PICK shared, most : Guarded(p, shared, most) /\ Closed(p)
    BY <1>2, <1>3, Zenon DEF SoundProgram
  <2> QED
    BY <2>1, GuardedIsOrdered
<1>6. LocalProgram(p)
  BY <1>4 DEF Proved, Fits, LocalProgram
<1>7. Described(p, D, c)
  BY <1>3, <1>4, <1>5, <1>6 DEF Described
<1> QED
  BY <1>3, <1>7

\* While the context stays, so does what is said of memory.
LEMMA StepSame ==
  ASSUME UNCHANGED ctx
  PROVE  \A m, op : Step(m, op)' = Step(m, op)
PROOF
<1>1. ASSUME NEW m, NEW op PROVE Written(m, op)' = Written(m, op)
  BY DEF Written, CopyValue, ChebfdValue, Product, ColumnOf, Rows, InColumns, RowOf, Dot, Sums
<1>2. ASSUME NEW m, NEW op PROVE Step(m, op)' = Step(m, op)
  BY <1>1, Zenon DEF Step
<1> QED
  BY <1>2

\* The memory of a run is the same.
LEMMA SerialSame ==
  ASSUME UNCHANGED ctx, NEW p, NEW n, NEW q, NEW at, NEW M, NEW m, Serial(p, n, q, at, M, m)
  PROVE  Serial(p, n, q, at, M, m)'
PROOF
<1>1. \A v, op : Step(v, op)' = Step(v, op)
  BY StepSame
<1>2. RunTo(p, n, M)'
  BY <1>1 DEF Serial, RunTo, Memory
<1>3. Settled(p, n, q, at)' /\ InMemory(p, n, q, at, M, m)'
  BY DEF Serial, Settled, InMemory, Cut, Pending, Changes, HostWork
<1> QED
  BY <1>2, <1>3 DEF Serial, Memory

\* What is said of a memory is the same.
LEMMA CalmSame ==
  ASSUME UNCHANGED ctx, NEW m
  PROVE  Calm(m)' <=> Calm(m)
PROOF
<1>1. Cells' = Cells /\ HostCells' = HostCells /\ ChunkCells' = ChunkCells
  BY DEF Cells, HostCells, ChunkCells
<1> QED
  BY <1>1 DEF Calm, Memory

\* Claims are of memory and the context alone.
LEMMA HoldsSame ==
  ASSUME UNCHANGED ctx, NEW m, NEW d, Holds(m, d)
  PROVE  Holds(m, d)'
PROOF
<1>1. Calm(m)' <=> Calm(m)
  BY CalmSame
<1>2. Rows' = Rows
  BY DEF Rows
<1>3. \A b, n, x, id, col, p : Column(m, b, n, x, id, col, p)' <=> Column(m, b, n, x, id, col, p)
  BY <1>2 DEF Column
<1>4. \A c, i, x : OfBlock(c, i, x)' <=> OfBlock(c, i, x)
  BY DEF OfBlock
<1>5. ColumnPass(m, d)' <=> ColumnPass(m, d)
  BY <1>3, <1>4 DEF ColumnPass
<1>6. \A i, q : OfChunk(i, q)' <=> OfChunk(i, q)
  BY DEF OfChunk
<1>7. \A c, n : TermsTo(c, n)' = TermsTo(c, n)
  BY <1>2 DEF TermsTo
<1>8. \A c : Summed(c)' = Summed(c)
  BY <1>2 DEF Summed
<1>9. \A c, j : (InRows(m, c, j)' <=> InRows(m, c, j)) /\ (NewRows(m, c, j)' <=> NewRows(m, c, j))
  BY <1>2 DEF InRows, NewRows
<1>10. \A c, j, l : OutRows(m, c, j, l)' <=> OutRows(m, c, j, l)
  BY <1>6 DEF OutRows
<1>11. \A c, l, h : LoadedRows(m, c, l, h)' <=> LoadedRows(m, c, l, h)
  BY <1>6 DEF LoadedRows
<1>12. \A c, l, g : PartRows(m, c, l, g)' <=> PartRows(m, c, l, g)
  BY DEF PartRows
<1>13. RowsPass(m, d)' <=> RowsPass(m, d)
  BY <1>7, <1>9, <1>10, <1>11, <1>12 DEF RowsPass
<1> QED
  BY <1>1, <1>5, <1>8, <1>13 DEF Holds

\* And so are the programs.
LEMMA ProgramSame ==
  ASSUME UNCHANGED ctx
  PROVE  \A c : Program(c)' = Program(c)
PROOF
<1>1. ASSUME NEW c PROVE Program(c)' = Program(c)
  BY SMT DEF Program, FilterEntry, ColBlockPipeline, ColBlock, DrainColBlock, LastDrains,
     FilterSubBlock, SpmmvEntry, GramEntry, UpdateEntry, RitzEntry, RowChunkPipeline, RowChunk,
     DrainRowChunk, ChunkSizes
<1> QED
  BY <1>1

(***************************************************************************)
(* The memory while the program runs.                                      *)
(***************************************************************************)

\* The host is at place n of the program p of the call c; the memory is what the streams
\* have made of it.
Midway(p, n, at, M, c) ==
  /\ p = Program(c) /\ n \in 0 .. Len(p) /\ todo = Rest(p, n)
  /\ Ordered(p, n, queue, at, recorded, done)
  /\ Serial(p, n, queue, at, M, mem) /\ Holds(M[0], Start(c))

\* Between two entries memory is calm; in one it is that of its operations, one at a time.
MemInv ==
  /\ call = None => (mem = <<>> /\ ctx = None) \/ Calm(mem)
  /\ call # None => /\ CallMade(call) /\ call.id = calls
                    /\ \E p, n, at, M : Midway(p, n, at, M, call)

\* The program under way.
Within(p, n, D, at, M, c) ==
  /\ c = call /\ call # None /\ CallMade(c) /\ c.id = calls /\ ctx # None /\ MemoryMade
  /\ IsProgram(p) /\ Len(p) \in Nat /\ n \in Nat
  /\ Described(p, D, c) /\ Midway(p, n, at, M, c)
  /\ \A x \in 1 .. Len(p) : WellMade(p[x]) /\ Local(p[x])

\* The invariants say where in the program the entry is.
LEMMA MidwayIn ==
  ASSUME StreamInv, MemInv, call # None
  PROVE  \E p, n, D, at, M, c : Within(p, n, D, at, M, c)
PROOF
<1>1. PICK c : c = call
  OBVIOUS
<1>2. PICK p, n, at, M : Midway(p, n, at, M, c)
  BY <1>1, Zenon DEF MemInv
<1>3. ctx # None /\ MemoryMade
  BY DEF StreamInv, ContextMade, MemoryMade, ContextOK
<1>4. CallMade(c) /\ c.id = calls
  BY <1>1 DEF MemInv
<1>5. p = Program(c)
  BY <1>2 DEF Midway
<1>6. PICK D : Described(p, D, c)
  BY <1>3, <1>4, <1>5, ProgramDescribed, Zenon
<1>7. IsProgram(p)
  BY <1>6 DEF Described, Proved
<1>8. Len(p) \in Nat /\ n \in Nat
  BY <1>2, <1>7, ProgramLength DEF Midway
<1>9. \A x \in 1 .. Len(p) : Local(p[x])
  BY <1>6 DEF Described, LocalProgram
<1>10. \A x \in 1 .. Len(p) : WellMade(p[x])
  <2>1. CallOK(c)
    <3>1. c.m \in Nat \ {0} /\ c.np \in Nat \ {0, 1}
      BY <1>3, <1>4, CoefficientsAssumption DEF CallMade, MemoryMade
    <3> QED
      BY <1>4, <3>1 DEF CallMade, CallOK, Passes
  <2>2. SoundProgram(p)
    BY <1>3, <1>5, <2>1, EveryProgramIsSound DEF MemoryMade
  <2> QED
    BY <2>2 DEF SoundProgram, Guarded, GuardedAt
<1>11. Within(p, n, D, at, M, c)
  BY <1>1, <1>2, <1>3, <1>4, <1>6, <1>7, <1>8, <1>9, <1>10 DEF Within
<1> QED
  BY <1>11, Zenon

\* The program goes on, or the streams do.
LEMMA MemoryOn ==
  ASSUME NEW p, NEW n, NEW D, NEW at, NEW M, NEW c, Within(p, n, D, at, M, c),
         ctx' = ctx, call' = call, calls' = calls, NEW n2 \in 0 .. Len(p), todo' = Rest(p, n2),
         NEW a2, NEW M2, M2[0] = M[0], NEW q2, q2 = queue', NEW m2, m2 = mem',
         Ordered(p, n2, queue', a2, recorded', done'), Serial(p, n2, q2, a2, M2, m2)
  PROVE  MemInv'
PROOF
<1>1. Serial(p, n2, q2, a2, M2, m2)'
  BY SerialSame
<1>2. Serial(p, n2, queue, a2, M2, mem)'
  BY <1>1 DEF Serial, Settled, InMemory, Cut, Pending
<1>3. PICK v, d : v = M2[0] /\ d = Start(c)
  OBVIOUS
<1>4. Holds(v, d)
  BY <1>3 DEF Within, Midway
<1>5. Holds(v, d)'
  BY <1>4, HoldsSame
<1>6. Holds(M2[0], Start(c))'
  BY <1>3, <1>5
<1>7. Program(c)' = Program(c)
  BY ProgramSame
<1>8. p = Program(c)
  BY DEF Within, Midway
<1>9. Midway(p, n2, a2, M2, c)'
  BY <1>2, <1>6, <1>7, <1>8 DEF Midway
<1>10. CallMade(c)'
  BY DEF Within, CallMade
<1>11. ctx # None /\ call # None /\ call = c /\ c.id = calls
  BY DEF Within
<1>12. CallMade(call)' /\ \E r, k, b, N : Midway(r, k, b, N, call)'
  <2>1. call' = c
    BY <1>11
  <2>2. CallMade(call)'
    BY <1>10, <2>1
  <2>3. Midway(p, n2, a2, M2, call)'
    BY <1>9, <2>1
  <2> QED
    BY <2>2, <2>3, Zenon
<1>13. call' # None => /\ CallMade(call)' /\ call'.id = calls'
                       /\ \E r, k, b, N : Midway(r, k, b, N, call)'
  BY <1>11, <1>12, Zenon
<1>14. (call = None => (mem = <<>> /\ ctx = None) \/ Calm(mem))'
  BY <1>11
<1> QED
  BY <1>13, <1>14, Zenon DEF MemInv

\* The next call of the host.
LEMMA NextCall ==
  ASSUME NEW p, NEW n, NEW D, NEW at, NEW M, NEW c, Within(p, n, D, at, M, c), todo # <<>>
  PROVE  /\ n \in Nat /\ n + 1 \in 0 .. Len(p) /\ n + 1 \in 1 .. Len(p)
         /\ Head(todo) = p[n + 1] /\ Tail(todo) = Rest(p, n + 1)
         /\ WellMade(p[n + 1]) /\ \A j \in 1 .. n + 1 : Local(p[j])
         /\ Ordered(p, n, queue, at, recorded, done) /\ Serial(p, n, queue, at, M, mem)
         /\ More(p, n, M)[0] = M[0]
PROOF
<1>1. /\ IsProgram(p) /\ Len(p) \in Nat /\ n \in Nat /\ n \in 0 .. Len(p) /\ todo = Rest(p, n)
      /\ Ordered(p, n, queue, at, recorded, done) /\ Serial(p, n, queue, at, M, mem)
      /\ \A x \in 1 .. Len(p) : WellMade(p[x]) /\ Local(p[x])
  BY DEF Within, Midway
<1>2. n # Len(p)
  BY <1>1, RestOf
<1>3. n < Len(p)
  BY <1>1, <1>2
<1>4. Head(todo) = p[n + 1] /\ Tail(todo) = Rest(p, n + 1)
  BY <1>1, <1>3, RestOf
<1>5. n + 1 \in 0 .. Len(p) /\ n + 1 \in 1 .. Len(p) /\ 0 \in 0 .. n
  BY <1>1, <1>3
<1>6. \A j \in 1 .. n + 1 : j \in 1 .. Len(p)
  BY <1>1, <1>3
<1>7. More(p, n, M)[0] = M[0]
  BY <1>1, <1>5, RunMore DEF Serial
<1> QED
  BY <1>1, <1>4, <1>5, <1>6, <1>7

\* An operation is queued: memory is as it was, the run goes on.
LEMMA HostQueuesMemory == StreamInv /\ MemInv /\ HostQueues => MemInv'
PROOF
<1> SUFFICES ASSUME StreamInv, MemInv, HostQueues PROVE MemInv'
  OBVIOUS
<1>1. /\ todo # <<>> /\ Head(todo).on \in Streams /\ todo' = Tail(todo)
      /\ ctx' = ctx /\ call' = call /\ calls' = calls /\ done' = done /\ mem' = mem
  BY Zenon DEF HostQueues
<1>2. call # None
  BY <1>1 DEF StreamInv
<1>3. PICK p, n, D, at, M, c : Within(p, n, D, at, M, c)
  BY <1>2, MidwayIn, Zenon
<1>4. /\ n \in Nat /\ n + 1 \in 0 .. Len(p) /\ n + 1 \in 1 .. Len(p)
      /\ Head(todo) = p[n + 1] /\ Tail(todo) = Rest(p, n + 1)
      /\ WellMade(p[n + 1]) /\ \A j \in 1 .. n + 1 : Local(p[j])
      /\ Ordered(p, n, queue, at, recorded, done) /\ Serial(p, n, queue, at, M, mem)
      /\ More(p, n, M)[0] = M[0]
  BY <1>1, <1>3, NextCall
<1>5. Issued(p[n + 1], queue, recorded, queue', recorded')
  BY <1>4, HostIssues
<1>6. Consistent(recorded, done)
  BY DEF StreamInv, Records
<1>7. PICK q2, r2 : q2 = queue' /\ r2 = recorded'
  BY Zenon
<1>8. PICK s, a2 : s = p[n + 1].on /\ a2 = Placed(at, s, n + 1)
  BY Zenon
<1>9. Issued(p[n + 1], queue, recorded, q2, r2)
  BY <1>5, <1>7
<1>10. Ordered(p, n + 1, q2, a2, r2, done)
  BY <1>4, <1>6, <1>8, <1>9, OrderedAppended
<1>11. s \in Streams
  BY <1>1, <1>4, <1>8
<1>12. PICK item : \A t \in Streams : q2[t] = IF t = s THEN Append(queue[t], item) ELSE queue[t]
  <2>1. PICK it : \A t \in Streams : q2[t] = IF t = p[n + 1].on THEN Append(queue[t], it) ELSE queue[t]
    BY <1>9, Zenon DEF Issued
  <2>2. \A t \in Streams : q2[t] = IF t = s THEN Append(queue[t], it) ELSE queue[t]
    BY <1>8, <2>1
  <2> QED
    BY <2>2
<1>13. \A x : Pending(q2, a2, x) <=> Pending(queue, at, x) \/ x = n + 1
  <2>1. SUFFICES ASSUME NEW x PROVE Pending(q2, Placed(at, s, n + 1), x) <=> Pending(queue, at, x) \/ x = n + 1
    BY <1>8
  <2>2. PICK q, rec, dn : q = queue /\ rec = recorded /\ dn = done
    OBVIOUS
  <2>3. Ordered(p, n, q, at, rec, dn) /\ \A t \in Streams : q2[t] = IF t = s THEN Append(q[t], item) ELSE q[t]
    BY <1>4, <1>12, <2>2
  <2>4. Pending(q2, Placed(at, s, n + 1), x) <=> Pending(q, at, x) \/ x = n + 1
    BY <1>4, <1>11, <2>3, PendingPlaced, Zenon
  <2> QED
    BY <2>2, <2>4
<1>14. \A x \in 1 .. n : Pending(q2, a2, x) <=> Pending(queue, at, x)
  BY <1>4, <1>13
<1>15. ~HostWork(p[n + 1])
  <2>1. p[n + 1].on # "legacy"
    BY <1>1, <1>4 DEF Streams
  <2> QED
    BY <1>4, <2>1 DEF Local
<1>16. Serial(p, n + 1, q2, a2, More(p, n, M), mem)
  BY <1>4, <1>13, <1>14, <1>15, SerialMore
<1>17. Ordered(p, n + 1, queue', a2, recorded', done')
  BY <1>1, <1>7, <1>10
<1>18. PICK m2, N : m2 = mem' /\ N = More(p, n, M)
  BY Zenon
<1>19. Serial(p, n + 1, q2, a2, N, m2)
  BY <1>1, <1>16, <1>18
<1>20. todo' = Rest(p, n + 1) /\ N[0] = M[0]
  BY <1>1, <1>4, <1>18
<1> QED
  BY <1>1, <1>3, <1>4, <1>7, <1>17, <1>18, <1>19, <1>20, MemoryOn

\* The host does something that is not queued.
LEMMA HostKeepsMemory ==
  ASSUME NEW p, NEW n, NEW D, NEW at, NEW M, NEW c, Within(p, n, D, at, M, c), todo # <<>>,
         todo' = Tail(todo), ctx' = ctx, call' = call, calls' = calls, queue' = queue,
         recorded' = recorded, done' = done, p[n + 1].do # "wait",
         \A s \in Streams : p[n + 1].on = s => queue[s] = <<>>,
         NEW m2, m2 = mem', Serial(p, n + 1, queue, at, More(p, n, M), m2)
  PROVE  MemInv'
PROOF
<1>1. /\ n \in Nat /\ n + 1 \in 0 .. Len(p) /\ n + 1 \in 1 .. Len(p)
      /\ Head(todo) = p[n + 1] /\ Tail(todo) = Rest(p, n + 1)
      /\ Ordered(p, n, queue, at, recorded, done) /\ Serial(p, n, queue, at, M, mem)
      /\ More(p, n, M)[0] = M[0]
  BY NextCall
<1>2. Ordered(p, n + 1, queue, at, recorded, done)
  BY <1>1, OrderedKept
<1>3. PICK q2, N : q2 = queue /\ N = More(p, n, M)
  OBVIOUS
<1>4. Ordered(p, n + 1, queue', at, recorded', done')
  BY <1>2
<1>5. Serial(p, n + 1, q2, at, N, m2) /\ q2 = queue' /\ N[0] = M[0] /\ todo' = Rest(p, n + 1)
  BY <1>1, <1>3
<1> QED
  BY <1>1, <1>4, <1>5, MemoryOn

\* The host waits for a stream.
LEMMA HostSyncsMemory == StreamInv /\ MemInv /\ HostSyncs => MemInv'
PROOF
<1> SUFFICES ASSUME StreamInv, MemInv, HostSyncs PROVE MemInv'
  OBVIOUS
<1>1. /\ todo # <<>> /\ Head(todo).do = "sync" /\ queue[Head(todo).on] = <<>> /\ todo' = Tail(todo)
      /\ ctx' = ctx /\ call' = call /\ calls' = calls /\ queue' = queue
      /\ recorded' = recorded /\ done' = done /\ mem' = mem
  BY Zenon DEF HostSyncs
<1>2. call # None
  BY <1>1 DEF StreamInv
<1>3. PICK p, n, D, at, M, c : Within(p, n, D, at, M, c)
  BY <1>2, MidwayIn, Zenon
<1>4. /\ n \in Nat /\ n + 1 \in 0 .. Len(p) /\ n + 1 \in 1 .. Len(p)
      /\ Head(todo) = p[n + 1] /\ Tail(todo) = Rest(p, n + 1)
      /\ WellMade(p[n + 1]) /\ \A j \in 1 .. n + 1 : Local(p[j])
      /\ Ordered(p, n, queue, at, recorded, done) /\ Serial(p, n, queue, at, M, mem)
  BY <1>1, <1>3, NextCall
<1>5. p[n + 1].do = "sync" /\ p[n + 1].do # "wait" /\ \A s \in Streams : p[n + 1].on = s => queue[s] = <<>>
  BY <1>1, <1>4
<1>6. ~HostWork(p[n + 1]) /\ ~Data(p[n + 1])
  BY <1>5 DEF HostWork, Data
<1>7. Serial(p, n + 1, queue, at, More(p, n, M), mem)
  BY <1>4, <1>6, SerialMore
<1>8. PICK m2 : m2 = mem
  OBVIOUS
<1>9. Serial(p, n + 1, queue, at, More(p, n, M), m2) /\ m2 = mem'
  BY <1>1, <1>7, <1>8
<1> QED
  BY <1>1, <1>3, <1>5, <1>9, HostKeepsMemory

\* The host works itself, when nothing is queued if it changes memory.
LEMMA HostWorksMemory == StreamInv /\ MemInv /\ HostWorks => MemInv'
PROOF
<1> SUFFICES ASSUME StreamInv, MemInv, HostWorks PROVE MemInv'
  OBVIOUS
<1> DEFINE op == Head(todo)
<1>1. /\ todo # <<>> /\ op.on = "legacy" /\ todo' = Tail(todo)
      /\ op.do \in {"legacy", "readback"} => Idle
      /\ mem' = CASE op.do = "legacy" -> [mem EXCEPT ![op.dst] = op.value]
                  [] op.do = "readback" -> [mem EXCEPT ![op.dst] = mem[op.src]]
                  [] OTHER -> mem
      /\ ctx' = ctx /\ call' = call /\ calls' = calls /\ queue' = queue
      /\ recorded' = recorded /\ done' = done
  BY Zenon DEF HostWorks
<1>2. call # None
  BY <1>1 DEF StreamInv
<1>3. PICK p, n, D, at, M, c : Within(p, n, D, at, M, c)
  BY <1>2, MidwayIn, Zenon
<1>4. /\ n \in Nat /\ n + 1 \in 0 .. Len(p) /\ n + 1 \in 1 .. Len(p)
      /\ op = p[n + 1] /\ Tail(todo) = Rest(p, n + 1)
      /\ WellMade(p[n + 1]) /\ \A j \in 1 .. n + 1 : Local(p[j])
      /\ Ordered(p, n, queue, at, recorded, done) /\ Serial(p, n, queue, at, M, mem)
  BY <1>1, <1>3, NextCall
<1> HIDE DEF op
<1>5. ~Data(op)
  BY <1>1 DEF Data, Streams
<1>6. mem' = Step(mem, op)
  BY <1>1, <1>5 DEF Step
<1>7. op.do # "wait" /\ \A s \in Streams : op.on = s => queue[s] = <<>>
  BY <1>1, <1>4 DEF WellMade, Streams
<1>8. PICK m2 : m2 = mem'
  BY Zenon
<1>9. Serial(p, n + 1, queue, at, More(p, n, M), m2)
  <2>1. CASE HostWork(op)
    <3>1. \A s \in Streams : queue[s] = <<>>
      BY <1>1, <2>1 DEF HostWork, Idle
    <3>2. \A x : ~Pending(queue, at, x)
      BY <3>1 DEF Pending
    <3>3. Serial(p, n + 1, queue, at, More(p, n, M), Step(mem, p[n + 1]))
      BY <1>4, <3>2, SerialWorked
    <3> QED
      BY <1>4, <1>6, <1>8, <3>3
  <2>2. CASE ~HostWork(op)
    <3>1. Step(mem, op) = mem
      BY <1>5, <2>2 DEF Step, HostWork
    <3>2. Serial(p, n + 1, queue, at, More(p, n, M), mem)
      BY <1>4, <1>5, <2>2, SerialMore
    <3> QED
      BY <1>6, <1>8, <3>1, <3>2
  <2> QED
    BY <2>1, <2>2
<1>10. p[n + 1].do # "wait" /\ \A s \in Streams : p[n + 1].on = s => queue[s] = <<>>
  BY <1>4, <1>7
<1> QED
  BY <1>1, <1>3, <1>8, <1>9, <1>10, HostKeepsMemory, Zenon

\* Where the head of a stream is in the program.
LEMMA HeadAt ==
  ASSUME StreamInv, NEW p, NEW n, NEW D, NEW at, NEW M, NEW c, Within(p, n, D, at, M, c),
         NEW s \in Streams, queue[s] # <<>>
  PROVE  \E z \in 1 .. n : /\ z = at[s][1] /\ Pending(queue, at, z)
                           /\ Stands(Head(queue[s]), p[z]) /\ p[z].on = s /\ p[z].do # "sync"
PROOF
<1>1. Line(p, n, s, queue[s], at[s])
  BY DEF Within, Midway, Ordered
<1>2. Len(queue[s]) \in Nat \ {0} /\ Head(queue[s]) = queue[s][1]
  BY <1>1, HeadAndTail DEF Line
<1>3. 1 \in 1 .. Len(queue[s])
  BY <1>2
<1>4. PICK z : z = at[s][1]
  OBVIOUS
<1>5. z \in 1 .. n /\ Stands(queue[s][1], p[z]) /\ Queueable(p[z], s)
  BY <1>1, <1>3, <1>4 DEF Line
<1>6. Pending(queue, at, z)
  BY <1>3, <1>4 DEF Pending
<1> QED
  BY <1>2, <1>4, <1>5, <1>6 DEF Queueable

\* The head of a stream is done: the memory is still what the streams make of the run.
LEMMA StreamOnMemory ==
  ASSUME StreamInv, MemInv, NEW s \in Streams, queue[s] # <<>>,
         ctx' = ctx, call' = call, calls' = calls, todo' = todo, recorded' = recorded,
         Taken(s, queue, done, queue', done'),
         mem' = IF Head(queue[s]).do \in {"wait", "record"} THEN mem ELSE Step(mem, Head(queue[s]))
  PROVE  MemInv'
PROOF
<1>1. call # None
  BY QueuedInACall
<1>2. PICK p, n, D, at, M, c : Within(p, n, D, at, M, c)
  BY <1>1, MidwayIn, Zenon
<1>3. /\ IsProgram(p) /\ Len(p) \in Nat /\ n \in Nat /\ n \in 0 .. Len(p) /\ todo = Rest(p, n)
      /\ InOrder(p) /\ \A x \in 1 .. Len(p) : WellMade(p[x]) /\ Local(p[x])
      /\ Ordered(p, n, queue, at, recorded, done) /\ Serial(p, n, queue, at, M, mem)
  BY <1>2 DEF Within, Midway, Described
<1>4. PICK z \in 1 .. n : /\ z = at[s][1] /\ Pending(queue, at, z)
                          /\ Stands(Head(queue[s]), p[z]) /\ p[z].on = s /\ p[z].do # "sync"
  BY <1>2, HeadAt
<1>5. PICK q, dn, q2, dn2, a2, m2 : /\ q = queue /\ dn = done /\ q2 = queue' /\ dn2 = done'
                                    /\ a2 = Left(at, s) /\ m2 = mem'
  BY Zenon
<1>6. Taken(s, q, dn, q2, dn2) /\ q[s] # <<>> /\ Ordered(p, n, q, at, recorded, dn)
  BY <1>3, <1>5
<1>7. dn \in [Events -> Nat]
  BY <1>5 DEF StreamInv, Records, Consistent
<1>8. Ordered(p, n, q2, a2, recorded, dn2)
  BY <1>3, <1>5, <1>6, <1>7, OrderedTail
<1>9. \A t \in Streams : q2[t] = IF t = s THEN Tail(q[t]) ELSE q[t]
  BY <1>6 DEF Taken
<1>10. \A x : Pending(q2, a2, x) <=> Pending(q, at, x) /\ x # z
  <2>1. SUFFICES ASSUME NEW x PROVE Pending(q2, Left(at, s), x) <=> Pending(q, at, x) /\ x # at[s][1]
    BY <1>4, <1>5
  <2> QED
    BY <1>3, <1>6, <1>9, PendingLeft
<1>11. Serial(p, n, q, at, M, mem) /\ Pending(q, at, z) /\ \A j \in 1 .. n : Local(p[j])
  BY <1>3, <1>4, <1>5
<1>12. Serial(p, n, q2, a2, M, m2)
  <2> DEFINE head == Head(queue[s])
  <2>1. CASE head.do \in {"wait", "record"}
    <3>1. p[z].do \in {"wait", "record"}
      BY <1>4, <2>1 DEF Stands
    <3>2. ~Data(p[z]) /\ ~HostWork(p[z])
      BY <3>1 DEF Data, HostWork
    <3>3. Serial(p, n, q2, a2, M, mem)
      BY <1>3, <1>10, <1>11, <3>2, SerialMarked
    <3> QED
      BY <1>5, <2>1, <3>3
  <2>2. CASE head.do \notin {"wait", "record"}
    <3>1. p[z].do = head.do
      BY <1>4 DEF Stands
    <3>2. p[z] = head
      BY <1>4, <2>2, <3>1 DEF Stands
    <3>3. Data(p[z])
      BY <1>4, <2>2, <3>1 DEF Data
    <3>4. Serial(p, n, q2, a2, M, Step(mem, p[z]))
      BY <1>3, <1>4, <1>6, <1>10, <1>11, <3>3, SerialDone, Zenon
    <3>5. mem' = Step(mem, p[z])
      BY <2>2, <3>2
    <3> QED
      BY <1>5, <3>4, <3>5
  <2> QED
    BY <2>1, <2>2
<1>13. Ordered(p, n, queue', a2, recorded', done') /\ M[0] = M[0]
  BY <1>5, <1>8
<1> QED
  BY <1>2, <1>3, <1>5, <1>12, <1>13, MemoryOn

\* A wait or a record, and the end of a copy or a kernel.
LEMMA StreamsMemory ==
  ASSUME StreamInv, MemInv, NEW s \in Streams, Marks(s) \/ Ends(s)
  PROVE  MemInv'
PROOF
<1> DEFINE head == Head(queue[s])
<1>1. /\ queue' = [queue EXCEPT ![s] = Tail(@)]
      /\ ctx' = ctx /\ call' = call /\ calls' = calls /\ todo' = todo /\ recorded' = recorded
  BY Zenon DEF Marks, Ends
<1>2. queue = [z \in Streams |-> queue[z]]
  BY DEF StreamInv, Queues
<1>3. \A z \in Streams : queue'[z] = IF z = s THEN Tail(queue[z]) ELSE queue[z]
  BY <1>1, <1>2
<1>4. CASE Marks(s)
  <2>1. /\ queue[s] # <<>> /\ head.do \in {"wait", "record"}
        /\ head.do = "wait" => done[head.event] >= head.count
        /\ done' = IF head.do = "record" THEN [done EXCEPT ![head.event] = head.count] ELSE done
        /\ mem' = mem
    BY <1>4, Zenon DEF Marks
  <2>2. Taken(s, queue, done, queue', done')
    BY <1>3, <2>1 DEF Taken
  <2> QED
    BY <1>1, <2>1, <2>2, StreamOnMemory, Zenon
<1>5. CASE Ends(s)
  <2>1. /\ running[s] /\ done' = done
        /\ mem' = [mem EXCEPT ![Target(head)] = Written(mem, head)]
    BY <1>5, Zenon DEF Ends
  <2>2. queue[s] # <<>> /\ head.do \notin {"wait", "record"}
    BY <2>1 DEF StreamInv, Queues
  <2>3. Taken(s, queue, done, queue', done')
    BY <1>3, <2>1, <2>2 DEF Taken
  <2>4. call # None
    BY <2>2, QueuedInACall
  <2>5. PICK p, n, D, at, M, c : Within(p, n, D, at, M, c)
    BY <2>4, MidwayIn, Zenon
  <2>6. PICK z \in 1 .. n : Stands(head, p[z]) /\ p[z].on = s /\ p[z].do # "sync"
    BY <2>2, <2>5, HeadAt
  <2> HIDE DEF head
  <2>7. Data(head)
    BY <2>2, <2>6 DEF Stands, Data
  <2>8. mem' = Step(mem, head)
    BY <2>1, <2>7 DEF Step
  <2>9. mem' = IF Head(queue[s]).do \in {"wait", "record"} THEN mem ELSE Step(mem, Head(queue[s]))
    BY <2>2, <2>8 DEF head
  <2> QED
    BY <1>1, <2>2, <2>3, <2>9, StreamOnMemory, Zenon
<1> QED
  BY <1>4, <1>5

\* A copy or a kernel begins, or nothing changes.
LEMMA UnchangedMemory ==
  ASSUME StreamInv, MemInv, (\E s \in Streams : Starts(s)) \/ UNCHANGED vars
  PROVE  MemInv'
PROOF
<1>1. /\ ctx' = ctx /\ call' = call /\ calls' = calls /\ todo' = todo /\ queue' = queue
      /\ recorded' = recorded /\ done' = done /\ mem' = mem
  BY DEF Starts, vars
<1>2. CASE call # None
  <2>1. PICK p, n, D, at, M, c : Within(p, n, D, at, M, c)
    BY <1>2, MidwayIn, Zenon
  <2>2. /\ n \in 0 .. Len(p) /\ todo = Rest(p, n)
        /\ Ordered(p, n, queue, at, recorded, done) /\ Serial(p, n, queue, at, M, mem)
    BY <2>1 DEF Within, Midway
  <2>3. PICK q2, m2 : q2 = queue /\ m2 = mem
    OBVIOUS
  <2>4. /\ q2 = queue' /\ m2 = mem' /\ todo' = Rest(p, n) /\ Serial(p, n, q2, at, M, m2)
        /\ Ordered(p, n, queue', at, recorded', done') /\ M[0] = M[0]
    BY <1>1, <2>2, <2>3
  <2> QED
    BY <1>1, <2>1, <2>2, <2>4, MemoryOn
<1>3. CASE call = None
  <2>1. PICK m : m = mem
    OBVIOUS
  <2>2. Calm(m)' <=> Calm(m)
    BY <1>1, CalmSame
  <2>3. (m = <<>> /\ ctx = None) \/ Calm(m)
    BY <1>3, <2>1 DEF MemInv
  <2>4. (m = <<>> /\ ctx' = None) \/ Calm(m)'
    BY <1>1, <2>2, <2>3
  <2>5. mem' = m
    BY <1>1, <2>1
  <2>6. (mem' = <<>> /\ ctx' = None) \/ Calm(mem)'
    BY <2>4, <2>5
  <2> QED
    BY <1>1, <1>3, <2>6 DEF MemInv
<1> QED
  BY <1>2, <1>3

\* When an entry returns, memory is as its program leaves it.
LEMMA AtReturn ==
  ASSUME StreamInv, MemInv, call # None, todo = <<>>
  PROVE  /\ Holds(mem, Finish(call)) /\ Calm(mem) /\ CallMade(call) /\ call.id = calls
         /\ ctx # None /\ MemoryMade
PROOF
<1>1. PICK p, n, D, at, M, c : Within(p, n, D, at, M, c)
  BY MidwayIn, Zenon
<1>2. /\ IsProgram(p) /\ Len(p) \in Nat /\ n \in 0 .. Len(p) /\ Rest(p, n) = <<>>
      /\ Closed(p) /\ Proved(p, D) /\ D[0] = Start(c) /\ D[Len(p)] = Finish(c) /\ LocalProgram(p)
      /\ Ordered(p, n, queue, at, recorded, done) /\ Serial(p, n, queue, at, M, mem)
      /\ Holds(M[0], Start(c))
  BY <1>1 DEF Within, Midway, Described
<1>3. n = Len(p)
  BY <1>2, RestOf
<1>4. \A s \in Streams : queue[s] = <<>>
  BY <1>2, <1>3, ClosedIsIdle
<1>5. \A x : ~Pending(queue, at, x)
  BY <1>4 DEF Pending
<1>6. \A j \in 1 .. n : Local(p[j])
  BY <1>2, <1>3 DEF LocalProgram
<1>7. n \in Nat
  BY <1>2, <1>3
<1>8. mem = M[n]
  BY <1>2, <1>5, <1>6, <1>7, SerialLast, Zenon
<1>9. RunTo(p, n, M) /\ Holds(M[0], D[0])
  BY <1>2 DEF Serial
<1>10. \A j \in 0 .. n : Holds(M[j], D[j])
  BY <1>2, <1>9, RunHolds
<1>11. Holds(M[n], D[n])
  BY <1>7, <1>10
<1>12. Holds(mem, Finish(c)) /\ c = call
  BY <1>1, <1>2, <1>3, <1>8, <1>11 DEF Within
<1>13. Holds(mem, Finish(call)) /\ Calm(mem)
  BY <1>12 DEF Holds
<1> QED
  BY <1>1, <1>13 DEF Within

\* An entry returns.
LEMMA ReturnMemory == StreamInv /\ MemInv /\ Return => MemInv'
PROOF
<1> SUFFICES ASSUME StreamInv, MemInv, Return PROVE MemInv'
  OBVIOUS
<1>1. call # None /\ todo = <<>> /\ call' = None /\ ctx' = ctx /\ mem' = mem
  BY Zenon DEF Return
<1>2. Calm(mem) /\ ctx # None
  BY <1>1, AtReturn
<1>3. PICK m : m = mem
  OBVIOUS
<1>4. Calm(m)'
  <2>1. Calm(m)' <=> Calm(m)
    BY <1>1, CalmSame
  <2> QED
    BY <1>2, <1>3, <2>1
<1>5. Calm(mem)'
  BY <1>1, <1>3, <1>4
<1> QED
  BY <1>1, <1>2, <1>5 DEF MemInv

\* gpu_vstream_free, and the beginning.
LEMMA FreeMemory == StreamInv /\ MemInv /\ VStreamFree => MemInv'
PROOF
<1> SUFFICES ASSUME StreamInv, MemInv, VStreamFree PROVE MemInv'
  OBVIOUS
<1>1. ctx' = None /\ mem' = <<>> /\ call = None /\ call' = call
  BY Zenon DEF VStreamFree
<1> QED
  BY <1>1 DEF MemInv

\* The beginning.
LEMMA InitMemory == Init => MemInv
PROOF
  BY DEF Init, MemInv

\* What gpu_vstream_init leaves in the buffers.
LEMMA FreshOf ==
  ASSUME NEW x, NEW rows
  PROVE  /\ \A b \in Scratch : Fresh(x, rows)[b] = Filled(x.vecRows * x.nb, Zero)
         /\ \A b \in Chunks : Fresh(x, rows)[b] = Filled(rows * x.NS, Poison)
         /\ \A b \in HostArrays : Fresh(x, rows)[b] = Filled(x.vecRows * x.NS, Zero)
         /\ Fresh(x, rows)[Partial] = <<>> /\ Memory(Fresh(x, rows))
PROOF
<1> DEFINE s == Filled(x.vecRows * x.nb, Zero)
           c == Filled(rows * x.NS, Poison)
           h == Filled(x.vecRows * x.NS, Zero)
           F(b) == CASE b \in Scratch -> s [] b \in Chunks -> c [] b \in HostArrays -> h
                     [] b \in {G, Res2, Result} -> EmptyBag [] b = B -> None [] b = Partial -> <<>>
<1>1. Fresh(x, rows) = [b \in Buffers |-> F(b)]
  BY Zenon DEF Fresh
<1>2. /\ Scratch \subseteq Buffers /\ HostArrays \subseteq Buffers /\ Chunks \subseteq Buffers
      /\ Partial \in Buffers /\ Scratch \cap (HostArrays \cup Chunks) = {} /\ HostArrays \cap Chunks = {}
      /\ Scratch \cap {G, Res2, Result, B, Partial} = {} /\ Chunks \cap {G, Res2, Result, B, Partial} = {}
      /\ HostArrays \cap {G, Res2, Result, B, Partial} = {} /\ Partial \notin {G, Res2, Result, B}
  BY DEF Buffers, Scratch, HostArrays, Chunks, Partial, X, RA, RB, RO, U, W, Y, AY, G, Res2, Result, B
<1> HIDE DEF s, c, h
<1>3. ASSUME NEW b \in Scratch PROVE F(b) = s
  BY <1>2
<1>4. ASSUME NEW b \in Chunks PROVE F(b) = c
  BY <1>2
<1>5. ASSUME NEW b \in HostArrays PROVE F(b) = h
  BY <1>2
<1>6. F(Partial) = <<>>
  BY <1>2
<1> HIDE DEF F
<1>7. Memory(Fresh(x, rows))
  <2>1. PICK v : v = Fresh(x, rows)
    OBVIOUS
  <2>2. v = [b \in Buffers |-> F(b)]
    BY <1>1, <2>1
  <2>3. Memory(v)
    BY <2>2 DEF Memory
  <2> QED
    BY <2>1, <2>3
<1> QED
  BY <1>1, <1>2, <1>3, <1>4, <1>5, <1>6, <1>7 DEF s, c, h

\* gpu_vstream_init.
LEMMA VStreamInitMemory == StreamInv /\ MemInv /\ VStreamInit => MemInv'
PROOF
<1> SUFFICES ASSUME StreamInv, MemInv, VStreamInit PROVE MemInv'
  OBVIOUS
<1>1. PICK c \in Contexts :
        LET nb == IF c.nb <= 0 \/ c.nb > c.NS THEN c.NS ELSE c.nb
            rows == ChunkRows(c.vecRows, c.NS, c.chunk)
        IN /\ ctx' = [vecRows |-> c.vecRows, NS |-> c.NS, nb |-> nb, chunkRows |-> rows]
           /\ mem' = Fresh(ctx', rows)
  BY Zenon DEF VStreamInit
<1>2. PICK nb, rows : /\ ctx' = [vecRows |-> c.vecRows, NS |-> c.NS, nb |-> nb, chunkRows |-> rows]
                      /\ mem' = Fresh(ctx', rows)
  BY <1>1, Zenon
<1>3. PICK x, m : x = ctx' /\ m = mem'
  BY Zenon
<1>4. x.chunkRows = rows /\ m = Fresh(x, rows)
  <2>1. ctx'.chunkRows = rows
    BY <1>2
  <2>2. mem' = Fresh(ctx', rows)
    BY <1>2
  <2>3. x.chunkRows = rows
    BY <1>3, <2>1
  <2>4. m = Fresh(x, rows)
    BY <1>3, <2>2, Zenon
  <2> QED
    BY <2>3, <2>4
<1>5. Memory(m)
  BY <1>4, FreshOf
<1>6. /\ Scratch \subseteq Buffers /\ HostArrays \subseteq Buffers /\ Chunks \subseteq Buffers
      /\ Partial \in Buffers /\ Scratch \cap (HostArrays \cup Chunks) = {} /\ HostArrays \cap Chunks = {}
      /\ Partial \notin {G, Res2, Result, B} \cup Scratch \cup HostArrays \cup Chunks
  BY DEF Buffers, Scratch, HostArrays, Chunks, Partial, X, RA, RB, RO, U, W, Y, AY, G, Res2, Result, B
<1>7. /\ \A b \in Scratch : m[b] = Filled(x.vecRows * x.nb, Zero)
      /\ \A b \in Chunks : m[b] = Filled(rows * x.NS, Poison)
      /\ \A b \in HostArrays : m[b] = Filled(x.vecRows * x.NS, Zero)
      /\ m[Partial] = <<>>
  BY <1>4, <1>6, FreshOf
<1>11. \A n, v : DOMAIN Filled(n, v) = 0 .. n - 1 /\ \A i \in 0 .. n - 1 : Filled(n, v)[i] = v
  BY DEF Filled
<1>12. Zero.name # <<"poison">>
  BY NamesApart DEF Zero
<1>13. IsProgram(m[Partial])
  BY <1>7, NoStep
<1>14. Calm(m)'
  <2>1. /\ \A b \in Scratch : DOMAIN m[b] = Cells' /\ \A i \in Cells' : m[b][i].name # <<"poison">>
    BY <1>3, <1>7, <1>11, <1>12 DEF Cells
  <2>2. \A b \in HostArrays : DOMAIN m[b] = HostCells'
    BY <1>3, <1>7, <1>11 DEF HostCells
  <2>3. \A b \in Chunks : DOMAIN m[b] = ChunkCells'
    BY <1>3, <1>4, <1>7, <1>11 DEF ChunkCells
  <2> QED
    BY <1>5, <1>13, <2>1, <2>2, <2>3 DEF Calm, Memory
<1>15. Calm(mem)'
  BY <1>3, <1>14
<1>16. call' = None
  BY DEF StreamInv, VStreamInit
<1> QED
  BY <1>15, <1>16 DEF MemInv

\* The host fills the block of the call c.
Filling(m, c) ==
  [b \in DOMAIN m |->
     IF b \in HostArrays
     THEN [i \in DOMAIN m[b] |->
             IF i < ctx.vecRows * c.m THEN Entry(b, c.id, i \div c.m, i % c.m) ELSE m[b][i]]
     ELSE IF b = Result THEN EmptyBag ELSE m[b]]

\* Every entry of it has its name then.
LEMMA FilledIn ==
  ASSUME MemoryMade, NEW c, CallMade(c), NEW m, Calm(m), NEW n, n = Filling(m, c)
  PROVE  /\ Calm(n) /\ n[Result] = EmptyBag
         /\ \A a \in HostArrays : \A r \in Rows : \A x \in 0 .. c.m - 1 :
              n[a][(r * c.m) + x] = Value(<<a, c.id, r, x>>, Monomial(0))
PROOF
<1>1. DOMAIN m = Buffers
  BY DEF Calm, Memory
<1> DEFINE Cell(b, i) == IF i < ctx.vecRows * c.m THEN Entry(b, c.id, i \div c.m, i % c.m) ELSE m[b][i]
           Array(b) == [i \in DOMAIN m[b] |-> Cell(b, i)]
           Leaves(b) == IF b \in HostArrays THEN Array(b) ELSE IF b = Result THEN EmptyBag ELSE m[b]
<1>2. n = [b \in Buffers |-> Leaves(b)]
  BY <1>1 DEF Filling
<1>3. /\ Scratch \subseteq Buffers /\ HostArrays \subseteq Buffers /\ Chunks \subseteq Buffers
      /\ Partial \in Buffers /\ Scratch \cap HostArrays = {} /\ Chunks \cap HostArrays = {}
      /\ Result \in Buffers /\ Result \notin Scratch \cup HostArrays \cup Chunks /\ Result # Partial
      /\ Partial \notin HostArrays
  BY DEF Buffers, Scratch, HostArrays, Chunks, Partial, X, RA, RB, RO, U, W, Y, AY, G, Res2, Result, B
<1>4. ASSUME NEW b \in HostArrays PROVE Leaves(b) = Array(b)
  OBVIOUS
<1>5. ASSUME NEW b \in Scratch \cup Chunks \cup {Partial} PROVE Leaves(b) = m[b]
  BY <1>3
<1>6. Leaves(Result) = EmptyBag
  BY <1>3
<1> HIDE DEF Leaves
<1>7. /\ Memory(n) /\ \A b \in Buffers : n[b] = Leaves(b)
  BY <1>2 DEF Memory
<1>8. \A b \in HostArrays : n[b] = Array(b)
  BY <1>3, <1>4, <1>7
<1>9. \A b \in Scratch \cup Chunks \cup {Partial} : n[b] = m[b]
  BY <1>3, <1>5, <1>7
<1>10. n[Result] = EmptyBag
  BY <1>3, <1>6, <1>7
<1>11. Calm(n)
  <2>1. \A b \in HostArrays : DOMAIN n[b] = HostCells
    BY <1>8, Zenon DEF Calm
  <2> HIDE DEF Array
  <2>2. /\ \A b \in Scratch : DOMAIN n[b] = Cells /\ \A i \in Cells : n[b][i].name # <<"poison">>
        /\ \A b \in Chunks : DOMAIN n[b] = ChunkCells
        /\ IsProgram(n[Partial])
    BY <1>9 DEF Calm
  <2> QED
    BY <1>7, <2>1, <2>2 DEF Calm
<1>12. ASSUME NEW a \in HostArrays, NEW r \in Rows, NEW x \in 0 .. c.m - 1
       PROVE  n[a][(r * c.m) + x] = Value(<<a, c.id, r, x>>, Monomial(0))
  <2>1. PICK i : i = (r * c.m) + x
    OBVIOUS
  <2>2. PICK k : k = c.m
    OBVIOUS
  <2>3. k \in 1 .. ctx.NS /\ k \in Nat \ {0} /\ ctx.NS \in Nat /\ ContextOK /\ x \in 0 .. k - 1
    BY <2>2 DEF MemoryMade, CallMade
  <2>4. ctx.vecRows \in Nat /\ r \in 0 .. ctx.vecRows - 1 /\ r \in Nat
    BY <2>3 DEF ContextOK, Rows
  <2>5. (r * k) + x \in HostCells
    BY <2>3, HostCellIn
  <2>6. (r * k) + x \in 0 .. (ctx.vecRows * k) - 1
    BY <2>3, <2>4, CellWithin
  <2>7. (r * k) + x \in Nat /\ ((r * k) + x) \div k = r /\ ((r * k) + x) % k = x
    BY <2>3, <2>4, CellOf
  <2>8. ctx.vecRows * k \in Nat
    BY <2>3, <2>4
  <2>9. i < ctx.vecRows * c.m /\ i \div c.m = r /\ i % c.m = x /\ i \in DOMAIN m[a]
    <3>1. i = (r * k) + x
      BY <2>1, <2>2
    <3>2. DOMAIN m[a] = HostCells
      BY DEF Calm
    <3> QED
      BY <2>2, <2>5, <2>6, <2>7, <2>8, <3>1, <3>2
  <2>10. n[a][i] = Cell(a, i)
    BY <1>8, <2>9, Zenon
  <2>11. Cell(a, i) = Entry(a, c.id, r, x)
    BY <2>9
  <2>12. Entry(a, c.id, r, x) = Value(<<a, c.id, r, x>>, Monomial(0))
    BY PolyZero DEF Entry, Value
  <2> QED
    BY <2>1, <2>10, <2>11, <2>12
<1> QED
  BY <1>10, <1>11, <1>12

\* That is what its program starts from.
LEMMA StartHolds ==
  ASSUME MemoryMade, NEW c, CallMade(c), NEW m, Calm(m), NEW n, n = Filling(m, c)
  PROVE  Holds(n, Start(c))
PROOF
<1>1. /\ Calm(n) /\ n[Result] = EmptyBag
      /\ \A a \in HostArrays : \A r \in Rows : \A x \in 0 .. c.m - 1 :
           n[a][(r * c.m) + x] = Value(<<a, c.id, r, x>>, Monomial(0))
  BY FilledIn
<1>2. Y \in HostArrays /\ AY \in HostArrays
  BY DEF HostArrays
<1>3. ContextOK /\ c.m \in Nat
  BY DEF MemoryMade, CallMade
<1>4. CASE c.op \in {"filter", "spmmv"}
  <2>1. ASSUME NEW p PROVE Holds(n, ColDesc(c, 0, 0, NoColumns, p))
    <3> DEFINE d == ColDesc(c, 0, 0, NoColumns, p)
    <3>1. d.pass = "columns" /\ d.c = c /\ d.dr = 0 /\ d.ld = 0 /\ d.has = NoColumns /\ d.res = p
      BY ColDescOf
    <3> HIDE DEF d
    <3>2. DOMAIN NoColumns = {}
      BY DEF NoColumns
    <3>3. ASSUME NEW i, NEW x, OfBlock(c, i, x)
          PROVE  Column(n, Y, c.m, (i * ctx.nb) + x, c.id, (i * ctx.nb) + x, Monomial(0)) /\ ~(i < 0)
      <4>1. i \in Nat /\ (i * ctx.nb) + x \in 0 .. c.m - 1
        BY <1>3, <3>3 DEF OfBlock, ContextOK
      <4>2. PICK y \in 0 .. c.m - 1 : y = (i * ctx.nb) + x
        BY <4>1
      <4>3. Column(n, Y, c.m, y, c.id, y, Monomial(0))
        BY <1>1, <1>2 DEF Column
      <4> QED
        BY <4>1, <4>2, <4>3
    <3>4. ColumnPass(n, d)
      BY <3>1, <3>2, <3>3 DEF ColumnPass
    <3>5. Holds(n, d)
      BY <1>1, <3>1, <3>4 DEF Holds
    <3> QED
      BY <3>5 DEF d
  <2> QED
    BY <1>4, <2>1 DEF Start
<1>5. CASE c.op = "ritz" /\ c.out < 1
  <2> DEFINE d == ResultDesc(c)
  <2>1. d.pass = "result" /\ d.c = c
    BY DEF ResultDesc
  <2> HIDE DEF d
  <2>2. n[Result] = Summed(c)
    BY <1>1, <1>5 DEF Summed
  <2>3. Holds(n, d)
    BY <1>1, <2>1, <2>2 DEF Holds
  <2> QED
    BY <1>5, <2>3 DEF Start, d
<1>6. CASE c.op \notin {"filter", "spmmv"} /\ ~(c.op = "ritz" /\ c.out < 1)
  <2>1. ASSUME NEW a \in HostArrays, NEW r \in Rows PROVE RowIs(n, a, r, c.m, a, c.id, r)
    <3>1. SUFFICES ASSUME NEW j \in 0 .. c.m - 1 PROVE n[a][(r * c.m) + j].name = <<a, c.id, r, j>>
      BY DEF RowIs
    <3>2. PICK z : z = <<a, c.id, r, j>>
      BY Zenon
    <3>3. n[a][(r * c.m) + j] = Value(z, Monomial(0))
      BY <1>1, <3>2
    <3>4. Value(z, Monomial(0)).name = z
      BY ValueOf, PolyZero
    <3> QED
      BY <3>2, <3>3, <3>4
  <2>2. RowArrays(c) \subseteq HostArrays
    BY <1>2 DEF RowArrays
  <2>3. InRows(n, c, 0)
    BY <2>1, <2>2 DEF InRows
  <2>4. Holds(n, GivenDesc(c))
    BY <1>1, <1>3, <2>3, HoldsGiven
  <2> QED
    BY <1>6, <2>4 DEF Start
<1> QED
  BY <1>4, <1>5, <1>6

\* The start of an entry.
LEMMA EnterMemory == StreamInv /\ MemInv /\ Enter => MemInv'
PROOF
<1> SUFFICES ASSUME StreamInv, MemInv, Enter PROVE MemInv'
  OBVIOUS
<1>1. PICK c \in Calls(ctx.NS) :
        /\ call' = [op |-> c.op, m |-> c.m, out |-> c.out, np |-> c.np, useB |-> c.useB,
                    id |-> calls + 1]
        /\ calls' = calls + 1
        /\ mem' = [b \in DOMAIN mem |->
                    IF b \in HostArrays
                    THEN [i \in DOMAIN mem[b] |->
                            IF i < ctx.vecRows * c.m
                            THEN Entry(b, calls', i \div c.m, i % c.m) ELSE mem[b][i]]
                    ELSE IF b = Result THEN EmptyBag ELSE mem[b]]
  BY Zenon DEF Enter
<1>2. ctx # None /\ call = None /\ ctx' = ctx /\ queue' = queue
      /\ recorded' = recorded /\ done' = done /\ todo' = Program(call')
  BY Zenon DEF Enter
<1>3. c \in [op : Passes, m : 1 .. ctx.NS, out : Nat, np : 2 .. Degree, useB : BOOLEAN]
      /\ (c.op = "update" => c.out \in 1 .. c.m)
  <2>1. PICK x \in Contexts : ctx.NS = x.NS
    BY <1>2 DEF StreamInv, ContextMade
  <2> QED
    BY <2>1, CallsAssumption
<1>4. calls \in Nat /\ ctx.NS \in Nat
  BY <1>2, CallsAssumption DEF StreamInv, Counters, ContextMade
<1>5. PICK k : k = call'
  BY Zenon
<1>6. /\ k.op = c.op /\ k.m = c.m /\ k.out = c.out /\ k.np = c.np /\ k.useB = c.useB /\ k.id = calls + 1
  BY <1>1, <1>5
<1>7. CallMade(k) /\ k.id = calls'
  <2>1. /\ c.op \in Passes /\ c.m \in 1 .. ctx.NS /\ c.out \in Nat /\ c.np \in 2 .. Degree
        /\ c.useB \in BOOLEAN /\ (c.op = "update" => c.out \in 1 .. c.m)
    BY <1>3
  <2> QED
    BY <1>1, <1>4, <1>6, <2>1 DEF CallMade
<1>8. MemoryMade
  BY <1>2 DEF StreamInv, ContextMade, MemoryMade, ContextOK
<1>9. Calm(mem)
  BY <1>2 DEF MemInv
<1>10. PICK m, n : m = mem /\ n = mem'
  BY Zenon
<1>11. n = Filling(m, k)
  <2>1. k.m = c.m /\ k.id = calls'
    BY <1>6, <1>7
  <2>2. mem' = Filling(mem, k)
    BY <1>1, <2>1 DEF Filling
  <2> QED
    BY <1>10, <2>2
<1>12. Calm(m)
  BY <1>9, <1>10
<1>13. Holds(n, Start(k)) /\ Calm(n)
  BY <1>7, <1>8, <1>11, <1>12, StartHolds, FilledIn
<1>14. PICK p, M, at, d : p = Program(k) /\ M = [j \in {0} |-> n] /\ at = [s \in Streams |-> <<>>] /\ d = Start(k)
  BY Zenon
<1>15. M[0] = n /\ \A s \in Streams : at[s] = <<>>
  BY <1>14
<1>16. \A s \in Streams : queue[s] = <<>>
  BY <1>2 DEF StreamInv, Idle
<1>17. Ordered(p, 0, queue, at, recorded, done)
  <2>1. \A s \in Streams : Line(p, 0, s, queue[s], at[s])
    BY <1>15, <1>16, EmptyLine
  <2>2. \A s \in Streams : Counted(queue[s], recorded, done)
    BY <1>16, NoStep DEF Counted
  <2>3. \A s, t \in Streams : Held(p, 0, queue[s], queue[t], t, at[s], at[t])
    BY <1>15, <1>16, NoStep DEF Held
  <2> QED
    BY <2>1, <2>2, <2>3 DEF Ordered
<1>18. PICK D : Described(p, D, k)
  BY <1>7, <1>8, <1>14, ProgramDescribed, Zenon
<1>19. IsProgram(p) /\ Len(p) \in Nat
  BY <1>18, ProgramLength DEF Described, Proved
<1>20. 0 \in 0 .. Len(p) /\ Rest(p, 0) = p /\ 0 \in Nat
  BY <1>19, RestOf
<1>21. PICK q : q = queue
  OBVIOUS
<1>22. Serial(p, 0, q, at, M, n)
  <2>1. Memory(n)
    BY <1>13 DEF Calm
  <2> QED
    BY <1>15, <2>1, SerialFirst
<1>23. Midway(p, 0, at, M, k)'
  <2>1. Serial(p, 0, q, at, M, n)'
    BY <1>2, <1>22, SerialSame
  <2>2. Serial(p, 0, queue, at, M, mem)'
    BY <1>2, <1>10, <1>21, <2>1 DEF Serial, Settled, InMemory, Cut, Pending
  <2>3. Holds(n, d)'
    BY <1>2, <1>13, <1>14, HoldsSame
  <2>4. Holds(M[0], Start(k))'
    BY <1>14, <1>15, <2>3
  <2>5. Program(k)' = p
    BY <1>2, <1>14, ProgramSame
  <2>6. todo' = Rest(p, 0)
    BY <1>2, <1>5, <1>14, <1>20
  <2>7. Ordered(p, 0, queue', at, recorded', done')
    BY <1>2, <1>17
  <2> QED
    BY <1>20, <2>2, <2>4, <2>5, <2>6, <2>7 DEF Midway
<1>24. CallMade(k)'
  BY <1>2, <1>7 DEF CallMade
<1>25. CallMade(call)' /\ call'.id = calls' /\ \E r, j, b, N : Midway(r, j, b, N, call)'
  <2>1. CallMade(call)' /\ call'.id = calls'
    BY <1>5, <1>7, <1>24
  <2>2. Midway(p, 0, at, M, call)'
    BY <1>5, <1>23
  <2> QED
    BY <2>1, <2>2, Zenon
<1>26. call' # None
  <2>1. c.m \in Nat /\ c.np \in Nat /\ calls + 1 \in Nat
    BY <1>3, <1>4, CoefficientsAssumption
  <2>2. call' \in [op : Passes, m : Nat, out : Nat, np : Nat, useB : BOOLEAN, id : Nat]
    BY <1>1, <1>3, <2>1
  <2> QED
    BY <2>2, CallsAssumption
<1> QED
  BY <1>25, <1>26, Zenon DEF MemInv

\* In every reachable state memory is what the queued operations make of the program
\* (gpu_vstream_filter, _spmmv, _gram, _update and _ritz), one after the other.
THEOREM MemoryInvariant == Spec => []MemInv
PROOF
<1>1. Init => MemInv
  BY InitMemory
<1>2. StreamInv /\ MemInv /\ [Next]_vars => MemInv'
  <2> SUFFICES ASSUME StreamInv, MemInv, [Next]_vars PROVE MemInv'
    OBVIOUS
  <2>1. CASE Host
    BY <2>1, VStreamInitMemory, EnterMemory, HostQueuesMemory, HostSyncsMemory, HostWorksMemory,
       ReturnMemory, FreeMemory DEF Host
  <2>2. CASE \E s \in Streams : Stream(s)
    BY <2>2, StreamsMemory, UnchangedMemory DEF Stream
  <2>3. CASE UNCHANGED vars
    BY <2>3, UnchangedMemory
  <2> QED
    BY <2>1, <2>2, <2>3 DEF Next, Finished
<1> QED
  BY <1>1, <1>2, StreamInvariant, PTL DEF Spec

\* No cell of a calm column block is what the allocator left.
LEMMA CalmIsFinite ==
  ASSUME NEW m, Calm(m), NEW b \in Scratch, NEW i \in DOMAIN m[b]
  PROVE  m[b][i] # Poison
PROOF
<1>1. m[b][i].name # <<"poison">>
  BY DEF Calm
<1>2. Poison.name = <<"poison">>
  BY DEF Poison
<1> QED
  BY <1>1, <1>2

\* The column buffers stay finite (gpu_vstream_init zeroes them "so the full-width axpby
\* stays finite"): no kernel ever finds, or leaves, there what the allocator left, in
\* the columns beyond a partial block too, at any moment of any pass.
THEOREM ScratchStaysFinite == Spec => []ScratchFinite
PROOF
<1>1. ASSUME StreamInv, MemInv PROVE ScratchFinite
  <2>1. SUFFICES ASSUME NEW b \in Scratch, b \in DOMAIN mem, NEW i \in DOMAIN mem[b]
                 PROVE  mem[b][i] # Poison
    BY DEF ScratchFinite
  <2>2. CASE call = None
    <3>1. mem # <<>>
      BY <2>1
    <3>2. Calm(mem)
      BY <1>1, <2>2, <3>1 DEF MemInv
    <3> QED
      BY <2>1, <3>2, CalmIsFinite
  <2>3. CASE call # None
    <3>1. PICK p, n, D, at, M, c : Within(p, n, D, at, M, c)
      BY <1>1, <2>3, MidwayIn, Zenon
    <3>2. /\ IsProgram(p) /\ InOrder(p) /\ n \in 0 .. Len(p) /\ Len(p) \in Nat
          /\ Ordered(p, n, queue, at, recorded, done) /\ Serial(p, n, queue, at, M, mem)
          /\ Proved(p, D) /\ D[0] = Start(c) /\ LocalProgram(p) /\ Holds(M[0], Start(c))
      BY <3>1 DEF Within, Midway, Described
    <3>3. \A j \in 1 .. n : Local(p[j])
      BY <3>2 DEF LocalProgram
    <3>4. b \in Buffers
      BY DEF Scratch, Buffers
    <3>5. PICK x \in 0 .. n : mem[b] = M[x][b]
      BY <3>2, <3>3, <3>4, SomewhereInTheRun
    <3>6. RunTo(p, n, M) /\ Holds(M[0], D[0])
      BY <3>2 DEF Serial
    <3>7. \A j \in 0 .. n : Holds(M[j], D[j])
      BY <3>2, <3>6, RunHolds
    <3>8. Holds(M[x], D[x])
      BY <3>5, <3>7
    <3>9. Calm(M[x])
      BY <3>8 DEF Holds
    <3>10. PICK m : m = M[x]
      OBVIOUS
    <3>11. m[b][i] # Poison
      BY <2>1, <3>5, <3>9, <3>10, CalmIsFinite
    <3> QED
      BY <3>5, <3>10, <3>11
  <2> QED
    BY <2>2, <2>3
<1> QED
  BY <1>1, StreamInvariant, MemoryInvariant, PTL

-----------------------------------------------------------------------------
(* What an entry has done when it returns.                                 *)

\* A pass over the column blocks that is complete has been through every column.
LEMMA EveryColumn ==
  ASSUME MemoryMade, NEW m, NEW c, c.m \in Nat \ {0}, NEW p,
         NEW n, n = Ceil(c.m, ctx.nb), ColumnPass(m, ColDesc(c, n, n, NoColumns, p)),
         NEW x \in 0 .. c.m - 1
  PROVE  /\ Column(m, ColArray(c), c.m, x, c.id, x, p)
         /\ c.op = "spmmv" => Column(m, Y, c.m, x, c.id, x, Monomial(0))
PROOF
<1>1. PICK w, b : w = c.m /\ b = ctx.nb
  OBVIOUS
<1>2. b \in Nat \ {0} /\ w \in Nat \ {0} /\ x \in Nat /\ x < w
  BY <1>1 DEF MemoryMade, ContextOK
<1>3. n \in Nat /\ w <= n * b
  BY <1>1, <1>2, CeilCovers
<1>4. PICK i, y : i = x \div b /\ y = x % b
  OBVIOUS
<1>5. i \in Nat /\ y \in 0 .. b - 1 /\ x = b * i + y
  BY <1>2, <1>4, Division, Zenon
<1>6. x = (i * b) + y
  BY <1>2, <1>5, SMT
<1>7. i < n
  <2>1. SUFFICES ASSUME ~(i < n) PROVE FALSE
    OBVIOUS
  <2>2. n <= i
    BY <1>3, <1>5, <2>1
  <2>3. n * b <= i * b
    BY <1>2, <1>3, <1>5, <2>2, TimesGrows
  <2>4. PICK nb, ib : nb = n * b /\ ib = i * b
    OBVIOUS
  <2>5. nb \in Nat /\ ib \in Nat
    BY <1>2, <1>3, <1>5, <2>4
  <2> QED
    BY <1>2, <1>3, <1>5, <1>6, <2>3, <2>4, <2>5
<1>8. OfBlock(c, i, y)
  BY <1>1, <1>2, <1>5, <1>6 DEF OfBlock
<1>9. PICK d : d = ColDesc(c, n, n, NoColumns, p)
  OBVIOUS
<1>10. d.c = c /\ d.dr = n /\ d.res = p
  BY <1>9 DEF ColDesc
<1>11. ColumnPass(m, d)
  BY <1>9
<1>12. Column(m, ColArray(c), c.m, (i * ctx.nb) + y, c.id, (i * ctx.nb) + y, p)
  BY <1>7, <1>8, <1>10, <1>11 DEF ColumnPass
<1>13. c.op = "spmmv" => Column(m, Y, c.m, (i * ctx.nb) + y, c.id, (i * ctx.nb) + y, Monomial(0))
  BY <1>8, <1>10, <1>11 DEF ColumnPass
<1> QED
  BY <1>1, <1>6, <1>12, <1>13

\* An entry of the given block is what the caller had there.
LEMMA GivenValue ==
  ASSUME NEW a, NEW t, NEW r, NEW x
  PROVE  /\ Entry(a, t, r, x).name = <<a, t, r, x>>
         /\ Entry(a, t, r, x) = Value(<<a, t, r, x>>, Monomial(0))
PROOF
<1>1. Monomial(0) # Zero.p
  BY PolyZero
<1> QED
  BY <1>1 DEF Entry, Value

\* The names of a row of the given block.
LEMMA GivenNames ==
  ASSUME NEW a, NEW r, NEW c, c = call, c.id = calls
  PROVE  GivenRow(a, r) = NamesOf(a, c.id, r, c.m)
PROOF
<1>1. \A j \in 1 .. c.m : Given(a, r, j - 1).name = <<a, calls, r, j - 1>>
  <2> SUFFICES ASSUME NEW j \in 1 .. c.m PROVE Given(a, r, j - 1).name = <<a, calls, r, j - 1>>
    OBVIOUS
  <2>1. PICK x : x = j - 1
    OBVIOUS
  <2>2. Entry(a, calls, r, x).name = <<a, calls, r, x>>
    BY GivenValue, ZenonT(30)
  <2> QED
    BY <2>1, <2>2 DEF Given
<1> QED
  BY <1>1 DEF GivenRow, NamesOf

\* The passes over column blocks.
LEMMA ColumnsReturn ==
  ASSUME call # None, call.op \in {"filter", "spmmv"}, Holds(mem, Finish(call)),
         CallMade(call), call.id = calls, MemoryMade, todo = <<>>
  PROVE  ResultExact
PROOF
<1>1. PICK c, n, p : c = call /\ n = Ceil(c.m, ctx.nb) /\ p = Goal(c)
  OBVIOUS
<1>2. c.m \in Nat \ {0} /\ c.id = calls
  BY <1>1 DEF CallMade, MemoryMade
<1>3. Finish(c) = ColDesc(c, n, n, NoColumns, p)
  BY <1>1 DEF Finish
<1>4. ColDesc(c, n, n, NoColumns, p).pass = "columns"
  BY DEF ColDesc
<1>5. ColumnPass(mem, ColDesc(c, n, n, NoColumns, p))
  BY <1>1, <1>3, <1>4 DEF Holds
<1>6. ASSUME NEW x \in 0 .. c.m - 1
      PROVE  /\ Column(mem, ColArray(c), c.m, x, c.id, x, p)
             /\ c.op = "spmmv" => Column(mem, Y, c.m, x, c.id, x, Monomial(0))
  BY <1>1, <1>2, <1>5, EveryColumn, Zenon
<1>7. CASE c.op = "filter"
  <2>1. ColArray(c) = Y /\ p = Filter(c.np)
    BY <1>1, <1>7 DEF ColArray, Goal
  <2>2. ASSUME NEW r \in Rows, NEW x \in 0 .. c.m - 1
        PROVE  mem[Y][r * c.m + x] = Value(Given(Y, r, x).name, Filter(c.np))
    <3>1. mem[Y][(r * c.m) + x] = Value(<<Y, calls, r, x>>, Filter(c.np))
      BY <1>2, <1>6, <2>1 DEF Column
    <3>2. Given(Y, r, x).name = <<Y, calls, r, x>>
      BY GivenValue, Zenon DEF Given
    <3> QED
      BY <3>1, <3>2
  <2>3. Block(Y, c.m) = [r \in Rows |-> [x \in 0 .. c.m - 1 |->
                                          Value(Given(Y, r, x).name, Filter(c.np))]]
    BY <2>2 DEF Block
  <2> QED
    BY <1>1, <1>7, <2>3 DEF ResultExact, BlockOf
<1>8. CASE c.op = "spmmv"
  <2>1. ColArray(c) = AY /\ p = Shift(Monomial(0))
    BY <1>1, <1>8 DEF ColArray, Goal, SpmmvGoal
  <2>2. ASSUME NEW r \in Rows, NEW x \in 0 .. c.m - 1
        PROVE  /\ mem[AY][r * c.m + x] = Value(Given(Y, r, x).name, Shift(Monomial(0)))
               /\ mem[Y][r * c.m + x] = Given(Y, r, x)
    <3>1. /\ mem[AY][(r * c.m) + x] = Value(<<Y, calls, r, x>>, Shift(Monomial(0)))
          /\ mem[Y][(r * c.m) + x] = Value(<<Y, calls, r, x>>, Monomial(0))
      BY <1>2, <1>6, <1>8, <2>1 DEF Column
    <3>2. /\ Given(Y, r, x).name = <<Y, calls, r, x>>
          /\ Given(Y, r, x) = Value(<<Y, calls, r, x>>, Monomial(0))
      BY GivenValue DEF Given
    <3> QED
      BY <3>1, <3>2
  <2>3. Block(AY, c.m) = BlockOf(c.m, LAMBDA r, x : Value(Given(Y, r, x).name, Shift(Monomial(0))))
    BY <2>2 DEF Block, BlockOf
  <2>4. Block(Y, c.m) = BlockOf(c.m, LAMBDA r, x : Given(Y, r, x))
    BY <2>2 DEF Block, BlockOf
  <2> QED
    BY <1>1, <1>8, <2>3, <2>4, Zenon DEF ResultExact
<1> QED
  BY <1>1, <1>7, <1>8

\* The block update.
LEMMA UpdateReturns ==
  ASSUME call # None, call.op = "update", Holds(mem, Finish(call)),
         CallMade(call), call.id = calls, MemoryMade, todo = <<>>
  PROVE  ResultExact
PROOF
<1>1. PICK c, n, q : c = call /\ n = Ceil(ctx.vecRows, ctx.chunkRows) /\ q = ctx.chunkRows
  OBVIOUS
<1>2. c.op = "update" /\ c.id = calls
  BY <1>1
<1>3. Finish(c) = UpdDesc(c, n, n, NoRows)
  BY <1>1, <1>2 DEF Finish, RowDone
<1>4. Holds(mem, UpdDesc(c, n, n, NoRows))
  BY <1>1, <1>3
<1>5. NewRows(mem, c, n)
  BY <1>4, HoldsUpdate
<1>6. n \in Nat /\ ctx.vecRows \in Nat /\ q \in Nat /\ ctx.vecRows <= n * q
  BY <1>1, CeilCovers, Zenon DEF MemoryMade, ContextOK
<1>7. ASSUME NEW r \in Rows PROVE r < n * q
  <2>1. PICK nq : nq = n * q
    OBVIOUS
  <2>2. nq \in Nat
    BY <1>6, <2>1
  <2> QED
    BY <1>6, <2>1, <2>2 DEF Rows
<1>8. ASSUME NEW r \in Rows, NEW x \in 0 .. c.out - 1
      PROVE  mem[Y][r * c.out + x] =
               Value(<<"dot", GivenRow(Y, r), <<"B", calls, c.m, c.out>>, x>>, Monomial(0))
  <2>1. NewRow(mem, Y, r, c, r)
    BY <1>1, <1>2, <1>5, <1>7 DEF NewRows
  <2>2. mem[Y][(r * c.out) + x] = NewEntry(c, r, x)
    BY <2>1 DEF NewRow
  <2>3. GivenRow(Y, r) = NamesOf(Y, c.id, r, c.m)
    BY <1>1, <1>2, GivenNames
  <2>4. MatrixOf(c) = <<"B", calls, c.m, c.out>>
    BY <1>2 DEF MatrixOf
  <2> QED
    BY <2>2, <2>3, <2>4 DEF NewEntry
<1>9. Block(Y, c.out) = [r \in Rows |-> [x \in 0 .. c.out - 1 |->
        Value(<<"dot", GivenRow(Y, r), <<"B", calls, c.m, c.out>>, x>>, Monomial(0))]]
  BY <1>8 DEF Block
<1> QED
  BY <1>1, <1>2, <1>9 DEF ResultExact, BlockOf

\* The sums.
LEMMA SumsReturn ==
  ASSUME call # None, call.op \in {"gram", "ritz"}, Holds(mem, Finish(call)),
         CallMade(call), call.id = calls, todo = <<>>
  PROVE  ResultExact
PROOF
<1>1. PICK c : c = call
  OBVIOUS
<1>2. c.id = calls /\ c.op \in {"gram", "ritz"}
  BY <1>1
<1>3. Finish(c) = ResultDesc(c) /\ ResultDesc(c).pass = "result" /\ ResultDesc(c).c = c
  BY <1>2 DEF Finish, ResultDesc
<1>4. mem[Result] = Summed(c)
  BY <1>1, <1>3 DEF Holds
<1>5. \A a, r : GivenRow(a, r) = NamesOf(a, c.id, r, c.m)
  BY <1>1, <1>2, GivenNames
<1>6. CASE c.op = "gram"
  <2>0. PICK s : s = IF c.useB THEN AY ELSE Y
    OBVIOUS
  <2>1. Second(c) = s
    BY <1>6, <2>0 DEF Second
  <2>2. \A r : TermOf(c, r) = <<GivenRow(Y, r), GivenRow(s, r), {}>>
    BY <1>5, <1>6, <2>1 DEF TermOf
  <2>3. {TermOf(c, r) : r \in Rows} = {<<GivenRow(Y, r), GivenRow(s, r), {}>> : r \in Rows}
    BY <2>2, Zenon
  <2>4. mem[Result] = SetToBag({<<GivenRow(Y, r), GivenRow(s, r), {}>> : r \in Rows})
    BY <1>4, <1>6, <2>3, Zenon DEF Summed
  <2>5. mem[Result]
          = SetToBag({<<GivenRow(Y, r), GivenRow(IF c.useB THEN AY ELSE Y, r), {}>> : r \in Rows})
    BY <2>0, <2>4, Zenon
  <2> QED
    BY <1>1, <1>6, <2>5 DEF ResultExact
<1>7. CASE c.op = "ritz"
  <2>1. Second(c) = AY /\ MatrixOf(c) = <<"evec", calls, c.m, c.m>>
    BY <1>2, <1>7 DEF Second, MatrixOf
  <2>2. \A r : TermOf(c, r)
                 = <<GivenRow(Y, r), GivenRow(AY, r), {<<"evec", calls, c.m, c.m>>}>>
    BY <1>5, <1>7, <2>1 DEF TermOf
  <2>3. {TermOf(c, r) : r \in Rows}
          = {<<GivenRow(Y, r), GivenRow(AY, r), {<<"evec", calls, c.m, c.m>>}>> : r \in Rows}
    BY <2>2, Zenon
  <2>4. mem[Result] = IF c.out < 1 THEN EmptyBag
          ELSE SetToBag({<<GivenRow(Y, r), GivenRow(AY, r), {<<"evec", calls, c.m, c.m>>}>> : r \in Rows})
    BY <1>4, <1>7, <2>3, Zenon DEF Summed
  <2> QED
    BY <1>1, <1>7, <2>4 DEF ResultExact
<1> QED
  BY <1>2, <1>6, <1>7

\* When an entry returns the host has exactly what it asked for, for every block, every
\* blocking and every legal run of the two streams: the filter polynomial or A applied
\* to every column, each row summed once into the Gram matrix or the residuals, or every
\* row of the in-place update computed from the row as it was given.
THEOREM ResultsAreExact == Spec => []ResultExact
PROOF
<1>1. ASSUME StreamInv, MemInv PROVE ResultExact
  <2>1. CASE call # None /\ todo = <<>>
    <3>1. /\ Holds(mem, Finish(call)) /\ CallMade(call) /\ call.id = calls /\ MemoryMade
      BY <1>1, <2>1, AtReturn
    <3>2. call.op \in {"filter", "spmmv"} \/ call.op = "update" \/ call.op \in {"gram", "ritz"}
      BY <3>1 DEF CallMade, Passes
    <3> QED
      BY <2>1, <3>1, <3>2, ColumnsReturn, UpdateReturns, SumsReturn
  <2>2. CASE ~(call # None /\ todo = <<>>)
    BY <2>2, Zenon DEF ResultExact
  <2> QED
    BY <2>1, <2>2
<1> QED
  BY <1>1, StreamInvariant, MemoryInvariant, PTL
=============================================================================
