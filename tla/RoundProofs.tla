----------------------------- MODULE RoundProofs -----------------------------
(***************************************************************************)
(* The loops of best() and tasks() do what SyncRound says of them, for     *)
(* every pool, every range of blocks and every size of a request; and the  *)
(* Messages of a round arrive as they were meant, for every size of a byte *)
(* and of a hash.                                                          *)
(***************************************************************************)
EXTENDS SyncRound, Messages, WellFoundedInduction, TLAPS

-----------------------------------------------------------------------------
(* best() *)

\* The peers before i have been looked at: none of them is heavier than the
\* best, and without a best all of them are behind us.
Considered ==
    /\ i \in Nat /\ best \in Nat /\ ownTd \in Nat
    /\ td \in [Peers -> Nat] /\ syncable \in SUBSET Peers
    /\ best # 0 => best \in syncable /\ td[best] >= ownTd /\ Enough
    /\ \A p \in syncable : p < i => IF best = 0 THEN td[p] < ownTd ELSE td[p] <= td[best]
    /\ phase \in {"asking", "synced", "splitting", "fetching"} => best # 0 /\ i > NumPeers
    /\ phase = "nobody" => best = 0 /\ (~Enough \/ i > NumPeers)

\* A round begins before the first peer, with no best.
LEMMA ConsideredInit == Init => Considered
BY SyncRoundAssumption DEF Init, Considered, Peers

\* The best is the best of those that have been looked at, also when one more is.
LEMMA ConsideredStep == Considered /\ [Next]_vars => Considered'
<1> SUFFICES ASSUME Considered, [Next]_vars PROVE Considered'
  OBVIOUS
<1> USE SyncRoundAssumption
<1>1. CASE Consider
  <2> USE DEF Considered
  <2>1. /\ i' = i + 1 /\ phase = "choosing" /\ phase' = phase /\ Enough
        /\ UNCHANGED <<td, syncable, ownTd, forceSync>>
    BY <1>1 DEF Consider, inputV
  <2>2. Enough'
    BY <2>1 DEF Enough
  <2>3. CASE i \in syncable /\ Better(i)
    <3>1. best' = i /\ i # 0 /\ td[i] \in Nat
      BY <1>1, <2>3 DEF Consider, Peers
    <3>2. td[i] >= ownTd
      BY <2>3, <3>1 DEF Better, Peers
    <3>3. ASSUME NEW p \in syncable, p < i + 1 PROVE td[p] <= td[i]
      <4>1. p \in Nat /\ td[p] \in Nat
        BY DEF Peers
      <4>2. CASE p = i
        BY <3>1, <4>2
      <4>3. CASE p < i
        <5>1. CASE best = 0
          BY <3>1, <3>2, <4>1, <4>3, <5>1
        <5>2. CASE best # 0
          <6>1. td[p] <= td[best] /\ td[best] < td[i] /\ td[best] \in Nat
            BY <2>3, <4>3, <5>2 DEF Better, Peers
          <6> QED
            BY <3>1, <4>1, <6>1
        <5> QED
          BY <5>1, <5>2
      <4> QED
        BY <3>3, <4>1, <4>2, <4>3
    <3> QED
      BY <2>1, <2>2, <2>3, <3>1, <3>2, <3>3
  <2>4. CASE ~(i \in syncable /\ Better(i))
    <3>1. best' = best
      BY <1>1, <2>4 DEF Consider
    <3>2. ASSUME NEW p \in syncable, p < i + 1
          PROVE  IF best = 0 THEN td[p] < ownTd ELSE td[p] <= td[best]
      <4>1. p \in Nat /\ td[p] \in Nat
        BY DEF Peers
      <4>2. CASE p = i
        <5>1. ~Better(p)
          BY <2>4, <4>2
        <5>2. CASE best = 0
          BY <4>1, <5>1, <5>2 DEF Better
        <5>3. CASE best # 0
          <6>1. td[best] \in Nat
            BY <5>3 DEF Peers
          <6> QED
            BY <4>1, <5>1, <5>3, <6>1 DEF Better
        <5> QED
          BY <5>2, <5>3
      <4>3. CASE p < i
        BY <4>3
      <4> QED
        BY <3>2, <4>1, <4>2, <4>3
    <3> QED
      BY <2>1, <2>2, <3>1, <3>2
  <2> QED
    BY <2>3, <2>4
<1>2. CASE Chosen
  BY <1>2 DEF Chosen, Considered, inputV, Enough
<1>3. ASSUME NEW h \in 0 .. MaxHeight, NEW h0 \in 0 .. MaxHeight, Latest(h, h0)
      PROVE  Considered'
  BY <1>3 DEF Latest, Considered, inputV, Enough
<1>4. CASE Whole \/ Rest
  BY <1>4 DEF Whole, Rest, Considered, inputV, Enough
<1>5. CASE UNCHANGED vars
  BY <1>5 DEF vars, inputV, Considered, Enough
<1> QED
  BY <1>1, <1>2, <1>3, <1>4, <1>5 DEF Next

\* The peer whose chain a round follows is the heaviest of those that can be
\* followed, and a round with nobody to ask is right not to ask.
THEOREM HeaviestIsAsked == Spec => []BestIsHeaviest
<1>1. Considered => BestIsHeaviest
  <2> SUFFICES ASSUME Considered PROVE BestIsHeaviest
    OBVIOUS
  <2>1. ASSUME NEW p \in syncable, i > NumPeers PROVE p < i
    BY <2>1, SyncRoundAssumption DEF Considered, Peers
  <2> QED
    BY <2>1 DEF Considered, BestIsHeaviest
<1> QED
  BY <1>1, ConsideredInit, ConsideredStep, PTL DEF Spec

-----------------------------------------------------------------------------
(* tasks() *)

\* Where the next task of a list that begins after our height has to begin.
NextFirst(ts) == IF ts = <<>> THEN own + 1 ELSE ts[Len(ts)].first + ts[Len(ts)].count

Tiled(ts) ==
    /\ \A k \in 1 .. Len(ts) : ts[k].count \in 1 .. max
    /\ \A k \in 1 .. Len(ts) :
          ts[k].first = IF k = 1 THEN own + 1 ELSE ts[k - 1].first + ts[k - 1].count

\* A task that begins where the list ends continues it.
LEMMA PushTiles ==
    ASSUME tasks \in Seq(Task), max \in Nat, Tiled(tasks), NEW n \in 1 .. max,
           first \in Nat, first = NextFirst(tasks), Push(n), own' = own, max' = max
    PROVE  /\ tasks' \in Seq(Task) /\ tasks' # <<>> /\ Tiled(tasks)'
           /\ NextFirst(tasks)' = first + n
<1> DEFINE t == [first |-> first, count |-> n]
<1>1. t \in Task /\ t.first = first /\ t.count = n
  BY DEF Task
<1>2. /\ tasks' = Append(tasks, t) /\ tasks' \in Seq(Task)
      /\ Len(tasks') = Len(tasks) + 1 /\ tasks'[Len(tasks) + 1] = t
      /\ \A k \in 1 .. Len(tasks) : tasks'[k] = tasks[k]
  BY <1>1 DEF Push
<1>3. Len(tasks) \in Nat /\ (tasks = <<>> <=> Len(tasks) = 0)
  OBVIOUS
<1> HIDE DEF t
<1>4. ASSUME NEW k \in 1 .. Len(tasks')
      PROVE  /\ tasks'[k].count \in 1 .. max
             /\ tasks'[k].first = IF k = 1 THEN own + 1
                                  ELSE tasks'[k - 1].first + tasks'[k - 1].count
  <2>1. CASE k \in 1 .. Len(tasks)
    <3>1. k # 1 => k - 1 \in 1 .. Len(tasks)
      BY <2>1, <1>3
    <3> QED
      BY <1>2, <2>1, <3>1 DEF Tiled
  <2>2. CASE k = Len(tasks) + 1
    <3>1. tasks'[k].count = n /\ tasks'[k].first = first
      BY <1>1, <1>2, <2>2
    <3>2. k = 1 => first = own + 1
      BY <1>3, <2>2 DEF NextFirst
    <3>3. k # 1 => /\ k - 1 = Len(tasks) /\ Len(tasks) \in 1 .. Len(tasks)
                   /\ first = tasks[k - 1].first + tasks[k - 1].count
      BY <1>3, <2>2 DEF NextFirst
    <3> QED
      BY <1>2, <3>1, <3>2, <3>3
  <2> QED
    BY <1>2, <1>3, <2>1, <2>2
<1>5. Tiled(tasks)'
  BY <1>4 DEF Tiled
<1>6. tasks' # <<>> /\ NextFirst(tasks)' = first + n
  BY <1>1, <1>2, <1>3 DEF NextFirst
<1> QED
  BY <1>2, <1>5, <1>6

\* first is where the list ends, and count is what is missing from there.
SplitInv ==
    /\ tasks \in Seq(Task) /\ max \in Nat \ {0}
    /\ first \in Nat /\ count \in Nat /\ own \in Nat /\ height \in Nat
    /\ Tiled(tasks)
    /\ phase \in {"choosing", "nobody", "asking", "synced"} => tasks = <<>>
    /\ phase = "splitting" =>
          /\ first = NextFirst(tasks) /\ first + count = height + 1
          /\ tasks # <<>> \/ count > 0
    /\ phase = "fetching" => tasks # <<>> /\ NextFirst(tasks) = height + 1

\* The list of tasks grows without a gap or an overlap.
LEMMA SplitStep == SplitInv /\ [Next]_vars => SplitInv'
<1> SUFFICES ASSUME SplitInv, [Next]_vars PROVE SplitInv'
  OBVIOUS
<1> USE SyncRoundAssumption DEF SplitInv
<1>1. CASE Consider
  BY <1>1 DEF Consider, inputV, rangeV, splitV, Tiled
<1>2. CASE Chosen
  BY <1>2 DEF Chosen, inputV, rangeV, splitV, Tiled
<1>3. ASSUME NEW h \in 0 .. MaxHeight, NEW h0 \in 0 .. MaxHeight, Latest(h, h0)
      PROVE  SplitInv'
  <2>1. /\ tasks = <<>> /\ tasks' = tasks /\ max' = max /\ height' = h /\ own' = h0
        /\ h \in Nat /\ h0 \in Nat
    BY <1>3 DEF Latest, inputV
  <2>2. Tiled(tasks)'
    BY <2>1 DEF Tiled
  <2>3. CASE h - h0 <= 0
    BY <1>3, <2>1, <2>2, <2>3 DEF Latest
  <2>4. CASE ~(h - h0 <= 0)
    <3>1. phase' = "splitting" /\ first' = h0 + 1 /\ count' = h - h0
      BY <1>3, <2>4 DEF Latest
    <3>2. NextFirst(tasks)' = h0 + 1
      BY <2>1 DEF NextFirst
    <3>3. count' \in Nat /\ count' > 0
      BY <2>1, <2>4, <3>1
    <3> QED
      BY <2>1, <2>2, <3>1, <3>2, <3>3
  <2> QED
    BY <2>3, <2>4
<1>4. CASE Whole
  <2>1. /\ phase = "splitting" /\ phase' = phase /\ count >= max /\ Push(max)
        /\ first' = first + max /\ count' = count - max
        /\ own' = own /\ height' = height /\ max' = max
    BY <1>4 DEF Whole, inputV, rangeV
  <2>2. /\ tasks' \in Seq(Task) /\ tasks' # <<>> /\ Tiled(tasks)'
        /\ NextFirst(tasks)' = first + max
    BY <2>1, PushTiles
  <2> QED
    BY <2>1, <2>2
<1>5. CASE Rest
  <2>1. /\ phase = "splitting" /\ phase' = "fetching" /\ count < max
        /\ first' = first /\ count' = count
        /\ own' = own /\ height' = height /\ max' = max
    BY <1>5 DEF Rest, inputV, rangeV
  <2>2. CASE count > 0
    <3>1. Push(count)
      BY <1>5, <2>2 DEF Rest
    <3>2. /\ tasks' \in Seq(Task) /\ tasks' # <<>> /\ Tiled(tasks)'
          /\ NextFirst(tasks)' = first + count
      BY <2>1, <2>2, <3>1, PushTiles
    <3> QED
      BY <2>1, <3>2
  <2>3. CASE ~(count > 0)
    <3>1. tasks' = tasks /\ count = 0 /\ tasks # <<>>
      BY <1>5, <2>1, <2>3 DEF Rest
    <3> QED
      BY <2>1, <3>1 DEF Tiled, NextFirst
  <2> QED
    BY <2>2, <2>3
<1>6. CASE UNCHANGED vars
  BY <1>6 DEF vars, inputV, rangeV, splitV, Tiled, NextFirst
<1> QED
  BY <1>1, <1>2, <1>3, <1>4, <1>5, <1>6 DEF Next

\* Whatever the heights and maxPerRequest, the tasks of a fetcher are the
\* missing blocks, cut into consecutive ranges that a request may ask for.
THEOREM TasksAreTheRange == Spec => []TasksTile
<1>1. Init => SplitInv
  BY SyncRoundAssumption DEF Init, SplitInv, Tiled
<1>2. SplitInv => TasksTile
  BY DEF SplitInv, Tiled, NextFirst, TasksTile
<1> QED
  BY <1>1, <1>2, SplitStep, PTL DEF Spec

-----------------------------------------------------------------------------
(* Numbers and their bytes *)

\* Every set of natural numbers that is not empty has a least one.
LEMMA LeastNumber ==
    ASSUME NEW T, T \subseteq Nat, T # {}
    PROVE  \E m \in T : \A k \in T : m <= k
<1>1. PICK m \in T : \A y \in T : ~ (<<y, m>> \in OpToRel(<, Nat))
  BY WFMin, NatLessThanWellFounded
<1>2. ASSUME NEW k \in T PROVE m <= k
  <2> SUFFICES ASSUME k < m PROVE FALSE
    OBVIOUS
  <2> DEFINE p == <<k, m>>
  <2>1. p \in Nat \X Nat /\ p[1] < p[2]
    OBVIOUS
  <2>2. p \in OpToRel(<, Nat)
    BY <2>1 DEF OpToRel
  <2> QED
    BY <1>1, <2>2
<1> QED
  BY <1>2

\* The division that a number is written by.
LEMMA Halving ==
    ASSUME NEW k \in Nat, k >= Base
    PROVE  /\ k \div Base \in Nat /\ k \div Base < k /\ k % Base \in 0 .. (Base - 1)
           /\ k = (k \div Base) * Base + (k % Base)
<1>1. Base \in Nat /\ Base > 1
  BY MessagesAssumption
<1>2. k \div Base \in Nat
  BY <1>1
<1>3. k % Base \in 0 .. (Base - 1)
  BY <1>1
<1>4. k = (k \div Base) * Base + (k % Base)
  BY <1>1
<1>5. k \div Base < k
  BY <1>1
<1> QED BY <1>1, <1>2, <1>3, <1>4, <1>5

\* The equation that the function inside of Bytes(n) solves.
LastDigit(f, k) == IF k < Base THEN <<k>> ELSE Append(f[k \div Base], k % Base)
Digits(n, f) == f = [k \in 0 .. n |-> LastDigit(f, k)]

\* That equation has a solution for every number: for the least number without
\* one, the solutions for the numbers below it would give another.
LEMMA DigitsExist == ASSUME NEW n \in Nat PROVE \E f : Digits(n, f)
<1> DEFINE T == {m \in Nat : ~ \E f : Digits(m, f)}
<1>1. SUFFICES ASSUME T # {} PROVE FALSE
  OBVIOUS
<1>2. PICK m \in T : \A k \in T : m <= k
  BY <1>1, LeastNumber
<1>3. m \in Nat /\ ~ \E f : Digits(m, f)
  BY <1>2
<1>4. PICK f : \A k \in 0 .. (m - 1) : f[k] = LastDigit(f, k)
  <2>1. CASE m = 0
    BY <2>1
  <2>2. CASE m # 0
    <3>1. m - 1 \in Nat /\ ~ (m <= m - 1)
      BY <1>3, <2>2
    <3>2. PICK f : Digits(m - 1, f)
      BY <1>2, <3>1
    <3>3. \A k \in 0 .. (m - 1) : f[k] = LastDigit(f, k)
      BY <3>2 DEF Digits
    <3> QED
      BY <3>3
  <2> QED
    BY <2>1, <2>2
<1> DEFINE g == [k \in 0 .. m |-> LastDigit(f, k)]
<1>5. ASSUME NEW k \in 0 .. m PROVE LastDigit(g, k) = LastDigit(f, k)
  <2>1. CASE k < Base
    BY <2>1 DEF LastDigit
  <2>2. CASE ~(k < Base)
    <3>1. k \in Nat /\ k <= m /\ k >= Base
      BY <1>3, <2>2, MessagesAssumption
    <3>2. k \div Base \in Nat /\ k \div Base < k
      BY <3>1, Halving
    <3>3. k \div Base \in 0 .. (m - 1) /\ k \div Base \in 0 .. m
      BY <1>3, <3>1, <3>2
    <3>4. g[k \div Base] = f[k \div Base]
      BY <1>4, <3>3
    <3> HIDE DEF g
    <3> QED
      BY <3>4 DEF LastDigit
  <2> QED
    BY <2>1, <2>2
<1>6. g = [k \in 0 .. m |-> LastDigit(g, k)]
  <2> HIDE DEF g
  <2>1. [k \in 0 .. m |-> LastDigit(g, k)] = [k \in 0 .. m |-> LastDigit(f, k)]
    BY <1>5
  <2> QED
    BY <2>1 DEF g
<1> QED
  BY <1>3, <1>6 DEF Digits

\* Solutions agree where both are defined.
LEMMA DigitsAgree ==
    ASSUME NEW n \in Nat, NEW m \in Nat, NEW f, Digits(n, f), NEW g, Digits(m, g),
           NEW k \in Nat, k <= n, k <= m
    PROVE  f[k] = g[k]
<1> DEFINE T == {j \in Nat : j <= n /\ j <= m /\ f[j] # g[j]}
<1>1. SUFFICES ASSUME T # {} PROVE FALSE
  OBVIOUS
<1>2. PICK j \in T : \A d \in T : j <= d
  BY <1>1, LeastNumber
<1>3. j \in Nat /\ j <= n /\ j <= m /\ f[j] # g[j]
  BY <1>2
<1>4. f[j] = LastDigit(f, j) /\ g[j] = LastDigit(g, j)
  <2>1. \A d \in 0 .. n : f[d] = LastDigit(f, d)
    BY DEF Digits
  <2>2. \A d \in 0 .. m : g[d] = LastDigit(g, d)
    BY DEF Digits
  <2> QED
    BY <1>3, <2>1, <2>2
<1>5. j >= Base
  BY <1>3, <1>4, MessagesAssumption DEF LastDigit
<1>6. j \div Base \in Nat /\ j \div Base < j
  BY <1>3, <1>5, Halving
<1>7. f[j \div Base] = g[j \div Base]
  BY <1>2, <1>3, <1>6
<1> QED
  BY <1>3, <1>4, <1>7 DEF LastDigit

\* Bytes() solves the equation that defines it.
LEMMA BytesRecursion ==
    ASSUME NEW n \in Nat
    PROVE  Bytes(n) = IF n < Base THEN <<n>> ELSE Append(Bytes(n \div Base), n % Base)
<1> DEFINE fun(m) == CHOOSE f : Digits(m, f)
<1>1. ASSUME NEW m \in Nat PROVE Bytes(m) = fun(m)[m] /\ Digits(m, fun(m))
  <2>1. Digits(m, fun(m))
    BY DigitsExist
  <2>2. Bytes(m) = fun(m)[m]
    BY DEF Bytes, Digits, LastDigit
  <2> QED
    BY <2>1, <2>2
<1> HIDE DEF fun
<1>2. Bytes(n) = LastDigit(fun(n), n)
  BY <1>1 DEF Digits
<1>3. CASE n < Base
  BY <1>2, <1>3 DEF LastDigit
<1>4. CASE ~(n < Base)
  <2>1. n \div Base \in Nat /\ n \div Base < n
    BY <1>4, Halving, MessagesAssumption
  <2>2. fun(n)[n \div Base] = Bytes(n \div Base)
    BY <1>1, <2>1, DigitsAgree
  <2> QED
    BY <1>2, <1>4, <2>2 DEF LastDigit
<1> QED
  BY <1>3, <1>4

\* The equation that the function inside of Value(bytes) solves.
SumAt(s, v, d) == IF d = 0 THEN 0 ELSE v[d - 1] * Base + s[d]
Sums(s, n, v) == v = [d \in 0 .. n |-> SumAt(s, v, d)]

\* That equation has a solution for every number of digits.
LEMMA SumsExist == ASSUME NEW s, NEW n \in Nat PROVE \E v : Sums(s, n, v)
<1> DEFINE T == {m \in Nat : ~ \E v : Sums(s, m, v)}
<1>1. SUFFICES ASSUME T # {} PROVE FALSE
  OBVIOUS
<1>2. PICK m \in T : \A k \in T : m <= k
  BY <1>1, LeastNumber
<1>3. m \in Nat /\ ~ \E v : Sums(s, m, v)
  BY <1>2
<1>4. PICK v : \A d \in 0 .. (m - 1) : v[d] = SumAt(s, v, d)
  <2>1. CASE m = 0
    BY <2>1
  <2>2. CASE m # 0
    <3>1. m - 1 \in Nat /\ ~ (m <= m - 1)
      BY <1>3, <2>2
    <3>2. PICK v : Sums(s, m - 1, v)
      BY <1>2, <3>1
    <3>3. \A d \in 0 .. (m - 1) : v[d] = SumAt(s, v, d)
      BY <3>2 DEF Sums
    <3> QED
      BY <3>3
  <2> QED
    BY <2>1, <2>2
<1> DEFINE w == [d \in 0 .. m |-> SumAt(s, v, d)]
<1>5. ASSUME NEW d \in 0 .. m PROVE SumAt(s, w, d) = SumAt(s, v, d)
  <2>1. CASE d = 0
    BY <2>1 DEF SumAt
  <2>2. CASE d # 0
    <3>1. d - 1 \in 0 .. (m - 1) /\ d - 1 \in 0 .. m
      BY <1>3, <2>2
    <3>2. w[d - 1] = v[d - 1]
      BY <1>4, <3>1
    <3> HIDE DEF w
    <3> QED
      BY <3>2 DEF SumAt
  <2> QED
    BY <2>1, <2>2
<1>6. w = [d \in 0 .. m |-> SumAt(s, w, d)]
  <2> HIDE DEF w
  <2>1. [d \in 0 .. m |-> SumAt(s, w, d)] = [d \in 0 .. m |-> SumAt(s, v, d)]
    BY <1>5
  <2> QED
    BY <2>1 DEF w
<1> QED
  BY <1>3, <1>6 DEF Sums

\* Sequences that begin alike have the same sums there.
LEMMA SumsAgree ==
    ASSUME NEW n \in Nat, NEW m \in Nat, NEW s, NEW t, NEW v, NEW w,
           Sums(s, n, v), Sums(t, m, w), n <= m, \A d \in 1 .. n : s[d] = t[d]
    PROVE  v[n] = w[n]
<1> DEFINE T == {j \in Nat : j <= n /\ v[j] # w[j]}
<1>1. SUFFICES ASSUME T # {} PROVE FALSE
  OBVIOUS
<1>2. PICK j \in T : \A d \in T : j <= d
  BY <1>1, LeastNumber
<1>3. j \in Nat /\ j <= n /\ v[j] # w[j]
  BY <1>2
<1>4. v[j] = SumAt(s, v, j) /\ w[j] = SumAt(t, w, j)
  <2>1. \A d \in 0 .. n : v[d] = SumAt(s, v, d)
    BY DEF Sums
  <2>2. \A d \in 0 .. m : w[d] = SumAt(t, w, d)
    BY DEF Sums
  <2> QED
    BY <1>3, <2>1, <2>2
<1>5. j # 0
  BY <1>3, <1>4 DEF SumAt
<1>6. v[j - 1] = w[j - 1] /\ s[j] = t[j]
  BY <1>2, <1>3, <1>5
<1> QED
  BY <1>3, <1>4, <1>5, <1>6 DEF SumAt

\* One digit more.
LEMMA ValueAppend ==
    ASSUME NEW s \in Seq(Nat), NEW digit \in Nat
    PROVE  Value(Append(s, digit)) = Value(s) * Base + digit
<1> DEFINE fun(t) == CHOOSE v : Sums(t, Len(t), v)
           t == Append(s, digit)
<1>1. ASSUME NEW u \in Seq(Nat) PROVE Value(u) = fun(u)[Len(u)] /\ Sums(u, Len(u), fun(u))
  <2>1. Sums(u, Len(u), fun(u))
    <3>1. Len(u) \in Nat
      OBVIOUS
    <3> QED
      BY <3>1, SumsExist
  <2>2. Value(u) = fun(u)[Len(u)]
    BY DEF Value, Sums, SumAt
  <2> QED
    BY <2>1, <2>2
<1>2. /\ t \in Seq(Nat) /\ Len(t) = Len(s) + 1 /\ t[Len(t)] = digit
      /\ \A d \in 1 .. Len(s) : s[d] = t[d]
  OBVIOUS
<1> HIDE DEF fun, t
<1>3. Len(s) \in Nat
  OBVIOUS
<1>4. fun(t)[Len(s)] = fun(s)[Len(s)]
  <2>1. Sums(s, Len(s), fun(s)) /\ Sums(t, Len(t), fun(t))
    BY <1>1, <1>2
  <2>2. Len(t) \in Nat /\ Len(s) <= Len(t) /\ Len(s) <= Len(s)
    BY <1>2, <1>3
  <2> DEFINE v == fun(s)
             w == fun(t)
             n == Len(s)
             m == Len(t)
  <2> HIDE DEF v, w, n, m
  <2>3. n \in Nat /\ m \in Nat /\ n <= m /\ n <= n
    BY <1>3, <2>2 DEF n, m
  <2>4. Sums(s, n, v) /\ Sums(t, m, w)
    BY <2>1 DEF v, w, n, m
  <2>5. \A d \in 1 .. n : s[d] = t[d]
    BY <1>2 DEF n
  <2>6. v[n] = w[n]
    BY <2>3, <2>4, <2>5, SumsAgree
  <2> QED
    BY <2>6 DEF v, w, n
<1>5. \A d \in 0 .. Len(t) : fun(t)[d] = SumAt(t, fun(t), d)
  BY <1>1, <1>2 DEF Sums
<1>6. fun(t)[Len(t)] = fun(t)[Len(s)] * Base + digit
  BY <1>2, <1>3, <1>5 DEF SumAt
<1>7. Value(t) = Value(s) * Base + digit
  BY <1>1, <1>2, <1>4, <1>6
<1> QED
  BY <1>7 DEF t

\* The number without digits is 0.
LEMMA ValueEmpty == Value(<<>>) = 0
<1>1. PICK v : Sums(<<>>, 0, v)
  BY SumsExist
<1>2. Len(<<>>) = 0
  OBVIOUS
<1>3. Value(<<>>) = (CHOOSE w : Sums(<<>>, 0, w))[0]
  BY <1>2 DEF Value, Sums, SumAt
<1> DEFINE w == CHOOSE w : Sums(<<>>, 0, w)
<1>4. Sums(<<>>, 0, w)
  BY <1>1
<1> HIDE DEF w
<1>5. \A d \in 0 .. 0 : w[d] = SumAt(<<>>, w, d)
  BY <1>4 DEF Sums
<1>6. w[0] = 0
  BY <1>5 DEF SumAt
<1> QED
  BY <1>3, <1>6 DEF w

\* Bytes() and Value() are inverse to each other.
LEMMA ValueOfBytes ==
    ASSUME NEW n \in Nat
    PROVE  Bytes(n) \in Seq(Nat) /\ Value(Bytes(n)) = n
<1> DEFINE Good(m) == Bytes(m) \in Seq(Nat) /\ Value(Bytes(m)) = m
           T == {m \in Nat : ~Good(m)}
<1>1. SUFFICES ASSUME T # {} PROVE FALSE
  OBVIOUS
<1>2. PICK m \in T : \A k \in T : m <= k
  BY <1>1, LeastNumber
<1>3. m \in Nat /\ ~Good(m)
  BY <1>2
<1>4. Base \in Nat /\ Base > 1
  BY MessagesAssumption
<1>5. CASE m < Base
  <2>1. Bytes(m) = Append(<<>>, m) /\ <<>> \in Seq(Nat)
    BY <1>3, <1>5, BytesRecursion
  <2>2. Value(Bytes(m)) = 0 * Base + m
    BY <1>3, <2>1, ValueAppend, ValueEmpty
  <2> QED
    BY <1>3, <1>4, <2>1, <2>2
<1>6. CASE ~(m < Base)
  <2> DEFINE q == m \div Base
             r == m % Base
  <2>1. q \in Nat /\ q < m /\ r \in Nat /\ m = q * Base + r
    <3>1. m >= Base
      BY <1>3, <1>4, <1>6
    <3>2. q \in Nat /\ q < m /\ m = q * Base + r
      BY <1>3, <3>1, Halving
    <3>3. r \in Nat
      BY <1>3, <1>4
    <3> QED
      BY <3>2, <3>3
  <2>2. Good(q)
    BY <1>2, <1>3, <2>1
  <2>3. Bytes(m) = Append(Bytes(q), r)
    BY <1>3, <1>6, BytesRecursion
  <2> HIDE DEF q, r
  <2>4. Value(Append(Bytes(q), r)) = Value(Bytes(q)) * Base + r
    BY <2>1, <2>2, ValueAppend
  <2>5. Append(Bytes(q), r) \in Seq(Nat)
    BY <2>1, <2>2
  <2>6. Value(Bytes(m)) = m
    BY <2>1, <2>2, <2>3, <2>4
  <2> QED
    BY <1>3, <2>3, <2>5, <2>6
<1> QED
  BY <1>5, <1>6

\* Any number comes back from its bytes, 0 from none at all.
LEMMA ValueOfIntBytes == ASSUME NEW n \in Nat PROVE Value(IntBytes(n)) = n
BY ValueOfBytes, ValueEmpty DEF IntBytes

-----------------------------------------------------------------------------
(* Statuses *)

\* The pairs of a status make up the status again.
LEMMA PairsMeanStatus ==
    ASSUME NEW w, w = [key \in DOMAIN w |-> w[key]]
    PROVE  FromPairs(Pairs(w)) = w
<1>1. {pair[1] : pair \in Pairs(w)} = DOMAIN w
  <2>1. ASSUME NEW key \in DOMAIN w PROVE \E pair \in Pairs(w) : pair[1] = key
    <3>1. <<key, w[key]>> \in Pairs(w)
      BY DEF Pairs
    <3> QED
      BY <3>1
  <2>2. ASSUME NEW pair \in Pairs(w) PROVE pair[1] \in DOMAIN w
    BY DEF Pairs
  <2> QED
    BY <2>1, <2>2
<1>2. ASSUME NEW key \in DOMAIN w
      PROVE  (CHOOSE pair \in Pairs(w) : pair[1] = key)[2] = w[key]
  <2>1. <<key, w[key]>> \in Pairs(w) /\ <<key, w[key]>>[1] = key
    BY DEF Pairs
  <2> DEFINE found == CHOOSE pair \in Pairs(w) : pair[1] = key
  <2>2. found \in Pairs(w) /\ found[1] = key
    BY <2>1
  <2> HIDE DEF found
  <2>3. found[2] = w[key]
    BY <2>2 DEF Pairs
  <2> QED
    BY <2>3 DEF found
<1>3. FromPairs(Pairs(w)) = [key \in DOMAIN w |-> w[key]]
  BY <1>1, <1>2 DEF FromPairs
<1> QED
  BY <1>3

\* An eth status survives its encoding.
LEMMA EthStatusKept ==
    ASSUME NEW s \in EthStatuses
    PROVE  DecodeEth(FromPairs(Pairs(EncodeEth(s)))) = s
<1> DEFINE w == EncodeEth(s)
<1>1. w = [key \in DOMAIN w |-> w[key]]
  BY DEF EncodeEth
<1>2. FromPairs(Pairs(w)) = w
  BY <1>1, PairsMeanStatus
<1>3. s.networkId \in Nat /\ s.td \in Nat
  BY MessagesAssumption DEF EthStatuses, Numbers
<1>4. /\ w.networkId = IntBytes(s.networkId) /\ w.td = Bytes(s.td)
      /\ w.bestHash = s.bestHash
  BY DEF EncodeEth
<1> HIDE DEF w
<1>5. DecodeEth(w) = [networkId |-> s.networkId, td |-> s.td, bestHash |-> s.bestHash]
  BY <1>3, <1>4, ValueOfBytes, ValueOfIntBytes DEF DecodeEth
<1> QED
  BY <1>2, <1>5 DEF EthStatuses, w

\* The table of costs survives being a list.
LEMMA CostsKept ==
    ASSUME NEW mrc \in [{"GetBlockHeaders"} -> [base : 0 .. 2, req : 0 .. 2]]
    PROVE  DecodeCosts(EncodeCosts(mrc)) = mrc
<1> DEFINE name == "GetBlockHeaders"
           e == <<IntBytes(2), IntBytes(mrc[name].base), IntBytes(mrc[name].req)>>
<1>1. mrc[name].base \in Nat /\ mrc[name].req \in Nat
  OBVIOUS
<1>2. EncodeCosts(mrc) = {e}
  BY DEF EncodeCosts, Code
<1>3. /\ Value(e[1]) = 2 /\ Value(e[2]) = mrc[name].base /\ Value(e[3]) = mrc[name].req
  BY <1>1, ValueOfIntBytes
<1> HIDE DEF e
<1>4. DOMAIN Code = {name} /\ Code[name] = 2
  BY DEF Code
<1>5. {n \in DOMAIN Code : \E f \in {e} : Value(f[1]) = Code[n]} = {name}
  BY <1>3, <1>4
<1>6. (CHOOSE f \in {e} : Value(f[1]) = Code[name]) = e
  BY <1>3, <1>4
<1>7. DecodeCosts({e}) = [n \in {name} |-> [base |-> Value(e[2]), req |-> Value(e[3])]]
  BY <1>5, <1>6 DEF DecodeCosts
<1>8. DecodeCosts({e}) = [n \in {name} |-> [base |-> mrc[name].base, req |-> mrc[name].req]]
  BY <1>3, <1>7
<1> QED
  BY <1>2, <1>8

\* A les status survives its encoding; what a client leaves out is missing at
\* the other end too.
LEMMA LesStatusKept ==
    ASSUME NEW s \in LesStatuses
    PROVE  LET g == DecodeLes(FromPairs(Pairs(EncodeLes(s)))) IN
           /\ g.headTd = s.headTd /\ g.headNum = s.headNum /\ g.headHash = s.headHash
           /\ g.serveHeaders = (s.flow # Undefined)
           /\ IF s.flow = Undefined THEN g.bl = Undefined /\ g.mrc = <<>>
              ELSE [bl |-> g.bl, mrr |-> g.mrr, mrc |-> g.mrc] = s.flow
<1> DEFINE w == EncodeLes(s)
           g == DecodeLes(w)
<1>1. /\ s.headTd \in Nat /\ s.headNum \in Nat
      /\ s.flow = Undefined \/ s.flow \in Flows
  BY MessagesAssumption DEF LesStatuses, Numbers
<1>2. Value(Bytes(s.headTd)) = s.headTd /\ Value(Bytes(s.headNum)) = s.headNum
  BY <1>1, ValueOfBytes
<1>3. CASE s.flow = Undefined
  <2>1. w = [headTd |-> Bytes(s.headTd), headNum |-> Bytes(s.headNum),
             headHash |-> s.headHash]
    BY <1>3 DEF EncodeLes
  <2>2. w = [key \in DOMAIN w |-> w[key]]
    BY <2>1
  <2>3. FromPairs(Pairs(w)) = w
    BY <2>2, PairsMeanStatus
  <2>4. DOMAIN w = {"headTd", "headNum", "headHash"}
    BY <2>1
  <2>5. /\ w.headTd = Bytes(s.headTd) /\ w.headNum = Bytes(s.headNum)
        /\ w.headHash = s.headHash
    BY <2>1
  <2> HIDE DEF w
  <2>6. /\ g.headTd = s.headTd /\ g.headNum = s.headNum /\ g.headHash = s.headHash
    BY <1>2, <2>5 DEF DecodeLes
  <2>7. g.serveHeaders = FALSE /\ g.bl = Undefined /\ g.mrc = <<>>
    <3>1. ("serveHeaders" \in DOMAIN w) = FALSE
      BY <2>4
    <3>2. "BL" \notin DOMAIN w /\ "MRC" \notin DOMAIN w
      BY <2>4
    <3>3. g.serveHeaders = ("serveHeaders" \in DOMAIN w)
      BY Zenon DEF DecodeLes
    <3>4. g.bl = Undefined /\ g.mrc = <<>>
      BY <3>2 DEF DecodeLes
    <3> QED
      BY <3>1, <3>3, <3>4
  <2> QED
    BY <1>3, <2>3, <2>6, <2>7 DEF w
<1>4. CASE s.flow # Undefined
  <2> DEFINE f == s.flow
  <2>1. w = [headTd |-> Bytes(s.headTd), headNum |-> Bytes(s.headNum),
             headHash |-> s.headHash, serveHeaders |-> IntBytes(1), BL |-> Bytes(f.bl),
             MRR |-> Bytes(f.mrr), MRC |-> EncodeCosts(f.mrc)]
    BY <1>4 DEF EncodeLes
  <2>2. w = [key \in DOMAIN w |-> w[key]]
    BY <2>1
  <2>3. FromPairs(Pairs(w)) = w
    BY <2>2, PairsMeanStatus
  <2>4. DOMAIN w = {"headTd", "headNum", "headHash", "serveHeaders", "BL", "MRR", "MRC"}
    BY <2>1
  <2>5. /\ w.headTd = Bytes(s.headTd) /\ w.headNum = Bytes(s.headNum)
        /\ w.headHash = s.headHash
    BY <2>1
  <2>6. w.BL = Bytes(f.bl) /\ w.MRR = Bytes(f.mrr) /\ w.MRC = EncodeCosts(f.mrc)
    BY <2>1
  <2>8. /\ f.bl \in Nat /\ f.mrr \in Nat
        /\ f.mrc \in [{"GetBlockHeaders"} -> [base : 0 .. 2, req : 0 .. 2]]
        /\ f = [bl |-> f.bl, mrr |-> f.mrr, mrc |-> f.mrc]
    BY <1>1, <1>4 DEF Flows
  <2> HIDE DEF w, f
  <2>9. g.headTd = s.headTd /\ g.headNum = s.headNum /\ g.headHash = s.headHash
    BY <1>2, <2>5 DEF DecodeLes
  <2>10. g.bl = Value(w.BL) /\ g.mrr = Value(w.MRR) /\ g.mrc = DecodeCosts(w.MRC)
    BY <2>4 DEF DecodeLes
  <2>11. g.bl = f.bl /\ g.mrr = f.mrr /\ g.mrc = f.mrc
    BY <2>6, <2>8, <2>10, ValueOfBytes, CostsKept
  <2>12. g.serveHeaders = TRUE
    BY <2>4 DEF DecodeLes
  <2>13. [bl |-> g.bl, mrr |-> g.mrr, mrc |-> g.mrc] = s.flow
    BY <2>8, <2>11 DEF f
  <2> QED
    BY <1>4, <2>3, <2>9, <2>12, <2>13 DEF w
<1> QED
  BY <1>3, <1>4

-----------------------------------------------------------------------------
(* Requests *)

\* A block comes back as the number or the hash that it was told by.
LEMMA BlockKept ==
    ASSUME NEW block \in Blocks
    PROVE  DecodeBlock(EncodeBlock(block)) = block
<1>1. CASE block \in [is : {"number"}, of : Numbers]
  <2>1. block.is = "number" /\ block.of \in Numbers /\ block.of \in Nat
    BY <1>1, MessagesAssumption DEF Numbers
  <2>2. EncodeBlock(block) = Bytes(block.of)
    BY <2>1 DEF EncodeBlock
  <2>3. Bytes(block.of) \in Seq(Nat) /\ Value(Bytes(block.of)) = block.of
    BY <2>1, ValueOfBytes
  <2>4. Len(Bytes(block.of)) # HashLength
    BY <2>1, <2>3, NumbersAreShort, MessagesAssumption
  <2>5. DecodeBlock(Bytes(block.of)) = [is |-> "number", of |-> block.of]
    BY <2>3, <2>4 DEF DecodeBlock
  <2> QED
    BY <1>1, <2>2, <2>5
<1>2. CASE block \in [is : {"hash"}, of : Hashes]
  <2>1. block.is = "hash" /\ block.of \in Hashes
    BY <1>2
  <2>2. EncodeBlock(block) = block.of
    BY <2>1 DEF EncodeBlock
  <2>3. PICK digit \in 0 .. 1 : block.of = [k \in 1 .. HashLength |-> digit]
    BY <2>1 DEF Hashes
  <2>4. block.of \in Seq(0 .. 1) /\ DOMAIN block.of = 1 .. HashLength
    BY <2>3, MessagesAssumption
  <2>5. Len(block.of) = HashLength
    BY <2>4, MessagesAssumption
  <2>6. DecodeBlock(block.of) = [is |-> "hash", of |-> block.of]
    BY <2>5 DEF DecodeBlock
  <2> QED
    BY <1>2, <2>2, <2>6
<1> QED
  BY <1>1, <1>2 DEF Blocks

\* A request is understood as it was meant.
LEMMA RequestKept ==
    ASSUME NEW r \in Requests
    PROVE  DecodeRequest(EncodeRequest(r)) =
               [block |-> r.block, max |-> r.max, skip |-> Default(r.skip),
                reverse |-> Default(r.reverse)]
<1> DEFINE w == EncodeRequest(r)
<1>1. /\ r.block \in Blocks /\ r.max \in Nat
      /\ Default(r.skip) \in Nat /\ Default(r.reverse) \in Nat
  BY MessagesAssumption DEF Requests, Default
<1>2. /\ w[1] = EncodeBlock(r.block) /\ w[2] = IntBytes(r.max)
      /\ w[3] = IntBytes(Default(r.skip)) /\ w[4] = IntBytes(Default(r.reverse))
  BY DEF EncodeRequest
<1> HIDE DEF w
<1>3. DecodeBlock(w[1]) = r.block
  BY <1>1, <1>2, BlockKept
<1>4. /\ Value(w[2]) = r.max /\ Value(w[3]) = Default(r.skip)
      /\ Value(w[4]) = Default(r.reverse)
  BY <1>1, <1>2, ValueOfIntBytes
<1>5. DecodeRequest(w) = [block |-> r.block, max |-> r.max, skip |-> Default(r.skip),
                          reverse |-> Default(r.reverse)]
  BY <1>3, <1>4 DEF DecodeRequest
<1> QED
  BY <1>5 DEF w

-----------------------------------------------------------------------------
(* Messages *)

Sent(t) == stage = "sent" /\ topic = t

\* What is under way is what was said, encoded; what was heard is what was
\* said.  Of a LES request only its number still counts, for the reply.
MessageInv ==
    /\ protocol \in {"eth", "les"} /\ id \in Nat
    /\ Sent("status") =>
          \/ protocol = "eth" /\ said \in EthStatuses /\ wire = Pairs(EncodeEth(said))
          \/ protocol = "les" /\ said \in LesStatuses /\ wire = Pairs(EncodeLes(said))
    /\ Sent("request") =>
          /\ said \in Requests
          /\ wire = IF protocol = "eth" THEN EncodeRequest(said)
                    ELSE <<Bytes(id), EncodeRequest(said)>>
    /\ Sent("reply") => /\ said.bv \in Nat /\ wire = <<Bytes(id), Bytes(said.bv)>>
    /\ Heard("request") /\ protocol = "les" => got.reqId = id
    /\ StatusArrives /\ RequestArrives

\* Every step keeps the invariant.
LEMMA MessageStep == MessageInv /\ [NextMessage]_messageVars => MessageInv'
<1> SUFFICES ASSUME MessageInv, [NextMessage]_messageVars PROVE MessageInv'
  OBVIOUS
<1> USE DEF Sent, Heard
<1>1. CASE TellStatus
  BY <1>1 DEF TellStatus, MessageInv, StatusArrives, RequestArrives
<1>2. CASE HearStatus
  <2>1. /\ stage = "sent" /\ topic = "status" /\ stage' = "received" /\ topic' = topic
        /\ protocol' = protocol /\ said' = said /\ id' = id
        /\ got' = IF protocol = "eth" THEN DecodeEth(FromPairs(wire))
                  ELSE DecodeLes(FromPairs(wire))
    BY <1>2 DEF HearStatus
  <2>2. CASE protocol = "eth"
    <3>1. got' = said
      BY <2>1, <2>2, EthStatusKept DEF MessageInv
    <3> QED
      BY <2>1, <2>2, <3>1 DEF MessageInv, StatusArrives, RequestArrives
  <2>3. CASE protocol = "les"
    <3>1. said \in LesStatuses /\ got' = DecodeLes(FromPairs(Pairs(EncodeLes(said))))
      BY <2>1, <2>3 DEF MessageInv
    <3>2. StatusArrives'
      BY <2>1, <2>3, <3>1, LesStatusKept DEF StatusArrives
    <3> QED
      BY <2>1, <2>3, <3>2 DEF MessageInv, RequestArrives
  <2> QED
    BY <2>2, <2>3 DEF MessageInv
<1>3. CASE Ask
  BY <1>3 DEF Ask, MessageInv, StatusArrives, RequestArrives
<1>4. CASE HearRequest
  <2>1. /\ stage = "sent" /\ topic = "request" /\ stage' = "received" /\ topic' = topic
        /\ protocol' = protocol /\ said' = said /\ id' = id
        /\ got' = IF protocol = "eth" THEN DecodeRequest(wire) ELSE DecodeLesRequest(wire)
    BY <1>4 DEF HearRequest
  <2> DEFINE r == [block |-> said.block, max |-> said.max, skip |-> Default(said.skip),
                   reverse |-> Default(said.reverse)]
  <2>2. said \in Requests /\ DecodeRequest(EncodeRequest(said)) = r
    BY <2>1, RequestKept DEF MessageInv
  <2>3. /\ got'.block = said.block /\ got'.max = said.max
        /\ got'.skip = Default(said.skip) /\ got'.reverse = Default(said.reverse)
        /\ protocol = "les" => got'.reqId = id
    <3>1. CASE protocol = "eth"
      <4>1. got' = r
        BY <2>1, <2>2, <3>1 DEF MessageInv
      <4> QED
        BY <3>1, <4>1
    <3>2. CASE protocol = "les"
      <4>1. wire = <<Bytes(id), EncodeRequest(said)>> /\ id \in Nat
        BY <2>1, <3>2 DEF MessageInv
      <4>2. DecodeRequest(wire[2]) = r /\ Value(wire[1]) = id
        BY <2>2, <4>1, ValueOfBytes
      <4>3. got' = DecodeLesRequest(wire)
        BY <2>1, <3>2
      <4> QED
        BY <4>2, <4>3 DEF DecodeLesRequest
    <3> QED
      BY <3>1, <3>2 DEF MessageInv
  <2> QED
    BY <2>1, <2>3 DEF MessageInv, StatusArrives, RequestArrives
<1>5. CASE Reply
  <2>1. PICK bv \in Numbers : /\ said' = [reqId |-> got.reqId, bv |-> bv]
                              /\ wire' = <<Bytes(got.reqId), Bytes(bv)>>
    BY <1>5 DEF Reply
  <2>2. got.reqId = id /\ bv \in Nat
    BY <1>5, <2>1, MessagesAssumption DEF Reply, MessageInv, Numbers
  <2> QED
    BY <1>5, <2>1, <2>2 DEF Reply, MessageInv, StatusArrives, RequestArrives
<1>6. CASE HearReply
  <2>1. /\ stage = "sent" /\ topic = "reply" /\ stage' = "received" /\ topic' = topic
        /\ protocol' = protocol /\ said' = said /\ id' = id
        /\ got' = [reqId |-> Value(wire[1]), bv |-> Value(wire[2])]
    BY <1>6 DEF HearReply
  <2>2. /\ id \in Nat /\ said.bv \in Nat /\ wire = <<Bytes(id), Bytes(said.bv)>>
    BY <2>1 DEF MessageInv
  <2>3. got'.reqId = id /\ got'.bv = said.bv
    BY <2>1, <2>2, ValueOfBytes
  <2> QED
    BY <2>1, <2>3 DEF MessageInv, StatusArrives, RequestArrives
<1>7. CASE UNCHANGED messageVars
  BY <1>7 DEF messageVars, MessageInv, StatusArrives, RequestArrives
<1> QED
  BY <1>1, <1>2, <1>3, <1>4, <1>5, <1>6, <1>7 DEF NextMessage

\* The invariant holds for ever.
LEMMA MessageInvariant == SpecMessages => []MessageInv
<1>1. InitMessages => MessageInv
  BY DEF InitMessages, MessageInv, Sent, Heard, StatusArrives, RequestArrives
<1> QED
  BY <1>1, MessageStep, PTL DEF SpecMessages

\* For every number of values of a byte and every length of a hash, the
\* status that handshake() decodes is the one that the other node encoded,
\* zeros and missing parts included.
THEOREM StatusIsUnderstood == SpecMessages => []StatusArrives
<1>1. MessageInv => StatusArrives
  BY DEF MessageInv
<1> QED
  BY <1>1, MessageInvariant, PTL

\* For every number of values of a byte and every length of a hash that is
\* longer than a block number, GetBlockHeaders asks for the blocks that were
\* meant, and a LES reply carries the number of the last request.
THEOREM RequestIsUnderstood == SpecMessages => []RequestArrives
<1>1. MessageInv => RequestArrives
  BY DEF MessageInv
<1> QED
  BY <1>1, MessageInvariant, PTL
=============================================================================
