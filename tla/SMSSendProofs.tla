--------------------------- MODULE SMSSendProofs ---------------------------
(***************************************************************************)
(* Proofs about SMSSend, for every number of modems, requests, recipients  *)
(* and parts, every strategy and every setting of the limiter: outgoing    *)
(* messages keep the promise of OutgoingSMS, the account is charged for    *)
(* what was sent and nothing else, and the limiter's windows slide.        *)
(***************************************************************************)
EXTENDS SMSSend, SequenceTheorems, FiniteSetTheorems, TLAPS

LEMMA ConstantTypes ==
  /\ NModems \in Nat /\ NModems >= 1 /\ Parts \in Nat /\ 1 \in 1..Parts
  /\ Span \in Nat /\ NumSpan \in Nat /\ MaxPerSpan \in Nat /\ MaxPerNumber \in Nat
  /\ Cooldown \in Nat /\ MaxNow \in Nat
BY SMSSendAssumption
-----------------------------------------------------------------------------
(* The candidates.  Whatever the strategy, a request tries every modem     *)
(* that was ready, and none of them twice.                                 *)

(* The lists over S without repetition.                                    *)
Lists(S) == {s \in Seq(S) : IsInjective(s)}

(* cs has the members of list, each once.                                  *)
Rearranges(cs, list) ==
  /\ cs \in Lists(Modems) /\ DOMAIN cs = DOMAIN list
  /\ \A j \in DOMAIN list : \E k \in DOMAIN cs : cs[k] = list[j]
  /\ \A k \in DOMAIN cs : \E j \in DOMAIN list : cs[k] = list[j]

LEMMA ReadyIsList ==
  ASSUME NEW ready \in Ready
  PROVE  ready \in Lists(Modems)
<1>1. PICK k \in 0..NModems : ready \in [1..k -> Modems]
  BY DEF Ready
<1>2. k \in Nat
  BY <1>1, ConstantTypes
<1>3. ready \in Seq(Modems)
  BY <1>1, <1>2, SeqDef
<1>4. \A i, j \in DOMAIN ready : i < j => ready[i] < ready[j]
  BY DEF Ready
<1>5. \A i \in 1..k : ready[i] \in Int
  BY <1>1 DEF Modems
<1>6. ASSUME NEW i \in DOMAIN ready, NEW j \in DOMAIN ready, ready[i] = ready[j]
      PROVE  i = j
  <2>1. i \in Int /\ j \in Int /\ ready[i] \in Int
    BY <1>1, <1>2, <1>5
  <2>2. ~(i < j) /\ ~(j < i)
    BY <1>4, <1>6, <2>1
  <2> QED
    BY <2>1, <2>2
<1> QED
  BY <1>3, <1>6 DEF Lists, IsInjective

LEMMA ListFacts ==
  ASSUME NEW S, NEW s \in Lists(S)
  PROVE  /\ s \in Seq(S) /\ Len(s) \in Nat /\ DOMAIN s = 1..Len(s)
         /\ s \in [1..Len(s) -> S]
         /\ \A j, k \in 1..Len(s) : s[j] = s[k] => j = k
         /\ s # <<>> => Len(s) >= 1 /\ 1 \in 1..Len(s) /\ Head(s) = s[1] /\ Head(s) \in S
<1>1. s \in Seq(S) /\ IsInjective(s)
  BY DEF Lists
<1>2. Len(s) \in Nat /\ DOMAIN s = 1..Len(s) /\ s \in [1..Len(s) -> S]
  BY <1>1, LenProperties
<1>3. s # <<>> => Len(s) >= 1 /\ 1 \in 1..Len(s) /\ Head(s) = s[1]
  BY <1>1, <1>2, EmptySeq
<1>4. s # <<>> => Head(s) \in S
  BY <1>2, <1>3
<1> QED
  BY <1>1, <1>2, <1>3, <1>4 DEF IsInjective

(* A list read through a permutation of its places is a rearrangement.     *)
LEMMA Permuted ==
  ASSUME NEW list \in Lists(Modems), NEW p \in [DOMAIN list -> DOMAIN list],
         NEW q \in [DOMAIN list -> DOMAIN list],
         \A j \in DOMAIN list : p[q[j]] = j /\ q[p[j]] = j
  PROVE  Rearranges([j \in DOMAIN list |-> list[p[j]]], list)
<1> DEFINE cs == [j \in DOMAIN list |-> list[p[j]]]
<1>1. Len(list) \in Nat /\ DOMAIN list = 1..Len(list) /\ list \in [1..Len(list) -> Modems]
      /\ \A j, k \in 1..Len(list) : list[j] = list[k] => j = k
  BY ListFacts
<1>2. cs \in [1..Len(list) -> Modems] /\ DOMAIN cs = 1..Len(list)
  BY <1>1
<1>3. cs \in Seq(Modems)
  BY <1>1, <1>2, SeqDef
<1>4. IsInjective(cs)
  BY <1>1 DEF IsInjective
<1>5. \A j \in DOMAIN list : q[j] \in DOMAIN cs /\ cs[q[j]] = list[j]
  OBVIOUS
<1> QED
  BY <1>1, <1>2, <1>3, <1>4, <1>5 DEF Rearranges, Lists

LEMMA Prepended ==
  ASSUME NEW list \in Lists(Modems), NEW k \in DOMAIN list
  PROVE  Rearranges(PrependCandidate(list, k), list)
<1> DEFINE p == [j \in DOMAIN list |-> IF j = 1 THEN k ELSE IF j <= k THEN j - 1 ELSE j]
           q == [j \in DOMAIN list |-> IF j = k THEN 1 ELSE IF j < k THEN j + 1 ELSE j]
<1>1. Len(list) \in Nat /\ DOMAIN list = 1..Len(list)
  BY ListFacts
<1>2. p \in [DOMAIN list -> DOMAIN list] /\ q \in [DOMAIN list -> DOMAIN list]
  BY <1>1
<1>3. ASSUME NEW j \in DOMAIN list
      PROVE  p[q[j]] = j /\ q[p[j]] = j
  BY <1>1
<1>4. PrependCandidate(list, k) = [j \in DOMAIN list |-> list[p[j]]]
  BY DEF PrependCandidate
<1> HIDE DEF p, q
<1> QED
  BY <1>2, <1>3, <1>4, Permuted

LEMMA Rotated ==
  ASSUME NEW list \in Lists(Modems), list # <<>>, NEW index \in Nat
  PROVE  Rearranges(Rotation(list, index), list)
<1> DEFINE n == Len(list)
           start == index % n
           p == [k \in DOMAIN list |-> IF start + k <= n THEN start + k ELSE start + k - n]
           q == [k \in DOMAIN list |-> IF k > start THEN k - start ELSE k + n - start]
<1>1. n \in Nat /\ n >= 1 /\ DOMAIN list = 1..n
  BY ListFacts
<1>2. start \in 0..(n - 1)
  BY <1>1
<1>3. Rotation(list, index) = [k \in DOMAIN list |-> list[p[k]]]
  BY DEF Rotation
<1> HIDE DEF start, n
<1>4. p \in [DOMAIN list -> DOMAIN list] /\ q \in [DOMAIN list -> DOMAIN list]
  BY <1>1, <1>2
<1>5. ASSUME NEW j \in DOMAIN list
      PROVE  p[q[j]] = j /\ q[p[j]] = j
  <2>1. j \in 1..n /\ start \in 0..(n - 1) /\ n \in Nat /\ start \in Int
    BY <1>1, <1>2
  <2>2. p[q[j]] = j
    <3>1. CASE j > start
      <4>1. q[j] = j - start /\ q[j] \in DOMAIN list /\ start + q[j] = j
        BY <1>1, <2>1, <3>1
      <4> HIDE DEF q
      <4> QED
        BY <1>1, <2>1, <4>1
    <3>2. CASE ~(j > start)
      <4>1. q[j] = j + n - start /\ q[j] \in DOMAIN list /\ start + q[j] = j + n
        BY <1>1, <2>1, <3>2
      <4> HIDE DEF q
      <4> QED
        BY <1>1, <2>1, <4>1
    <3> QED
      BY <3>1, <3>2
  <2>3. q[p[j]] = j
    <3>1. CASE start + j <= n
      <4>1. p[j] = start + j /\ p[j] \in DOMAIN list /\ p[j] > start
        BY <1>1, <2>1, <3>1
      <4> HIDE DEF p
      <4> QED
        BY <1>1, <2>1, <4>1
    <3>2. CASE ~(start + j <= n)
      <4>1. p[j] = start + j - n /\ p[j] \in DOMAIN list /\ ~(p[j] > start)
        BY <1>1, <2>1, <3>2
      <4> HIDE DEF p
      <4> QED
        BY <1>1, <2>1, <4>1
    <3> QED
      BY <3>1, <3>2
  <2> QED
    BY <2>2, <2>3
<1> HIDE DEF p, q
<1> QED
  BY <1>3, <1>4, <1>5, Permuted

(* Candidates of every strategy (pool.go Candidates): no ready modem is    *)
(* left out and none is tried twice.                                       *)
THEOREM EveryReadyOnce ==
  ASSUME strategy \in Strategies, rrIndex \in Nat, NEW ready \in Ready, ready # <<>>,
         NEW cs \in OrderCandidates(ready)
  PROVE  Rearranges(cs, ready)
<1>1. ready \in Lists(Modems)
  BY ReadyIsList
<1>2. Len(ready) \in Nat /\ DOMAIN ready = 1..Len(ready) /\ 1 \in DOMAIN ready
  BY <1>1, ListFacts
<1>3. strategy \in {"round-robin", "failover", "best-signal", "operator-match"}
  BY SMSSendAssumption
<1>4. CASE strategy = "failover"
  <2>1. cs = ready
    BY <1>4 DEF OrderCandidates
  <2> QED
    BY <2>1, <1>1 DEF Rearranges
<1>5. CASE strategy = "best-signal"
  <2>1. PICK s \in [DOMAIN ready -> 0..1] : \E k \in PickBestSignal(s) : cs = PrependCandidate(ready, k)
    BY <1>5 DEF OrderCandidates
  <2>2. \A k \in PickBestSignal(s) : k \in DOMAIN ready
    BY <2>1 DEF PickBestSignal
  <2> QED
    BY <1>1, <2>1, <2>2, Prepended
<1>6. CASE strategy = "operator-match"
  <2>1. PICK ms \in SUBSET DOMAIN ready : \E k \in PickOperatorMatch(ms) : cs = PrependCandidate(ready, k)
    BY <1>6 DEF OrderCandidates
  <2>2. \A k \in PickOperatorMatch(ms) : k \in DOMAIN ready
    BY <2>1, <1>2 DEF PickOperatorMatch
  <2> QED
    BY <1>1, <2>1, <2>2, Prepended
<1>7. CASE strategy = "round-robin"
  <2>1. cs = Rotation(ready, rrIndex)
    BY <1>7 DEF OrderCandidates
  <2> QED
    BY <1>1, <2>1, Rotated
<1> QED
  BY <1>3, <1>4, <1>5, <1>6, <1>7
-----------------------------------------------------------------------------
(* The limiter.                                                            *)

LimitTypes ==
  /\ now \in 0..MaxNow
  /\ hist \in [Modems -> SUBSET Entries] /\ passed \in [Modems -> SUBSET Entries]
  /\ numHist \in [Modems -> [Dests -> SUBSET Entries]]
  /\ until \in [Modems -> 0..(MaxNow + Cooldown)]

LimitInv == LimitTypes /\ HistoryKept /\ WindowsSlide

(* The entry a check that passes leaves in the histories.                  *)
Entry(m, d) == [no |-> Cardinality(passed[m]) + 1, at |-> now, to |-> d]

(* The checks of modem m in the interval of length len from t on.          *)
Within(m, t, len) == {e \in passed[m] : e.at >= t /\ e.at <= t + len}

WithinTo(m, t, len, d) == {e \in Within(m, t, len) : e.to = d}

LEMMA WindowsDef ==
  WindowsSlide <=>
    \A m \in Modems, t \in 0..MaxNow :
      /\ MaxPerSpan > 0 => Cardinality(Within(m, t, Span)) <= MaxPerSpan
      /\ MaxPerNumber > 0 => \A d \in Dests : Cardinality(WithinTo(m, t, NumSpan, d)) <= MaxPerNumber
BY DEF WindowsSlide, Within, WithinTo

LEMMA TableUpdate ==
  ASSUME NEW A, NEW B, NEW C, NEW f \in [A -> [B -> C]], NEW a \in A, NEW b \in B, NEW v \in C
  PROVE  [f EXCEPT ![a][b] = v] \in [A -> [B -> C]]
OBVIOUS

LEMMA EntryTypes ==
  ASSUME LimitTypes, NEW m \in Modems
  PROVE  \A e \in passed[m] : e.no \in Nat /\ e.at \in Int /\ e.to \in Dests /\ e \in Entries
<1>1. passed[m] \subseteq Entries
  BY DEF LimitTypes
<1>2. \A e \in Entries : e.no \in Nat /\ e.at \in 0..MaxNow /\ e.to \in Dests
  BY DEF Entries
<1> QED
  BY <1>1, <1>2

(* A set that is below its limit has room for one more.                    *)
LEMMA RoomForOne ==
  ASSUME NEW H, IsFiniteSet(H), NEW W \in SUBSET H, NEW e,
         NEW limit \in Nat, limit > 0, ~Reached(H, limit)
  PROVE  Cardinality(W \cup {e}) <= limit
<1>1. IsFiniteSet(W) /\ Cardinality(W) <= Cardinality(H)
  BY FS_Subset
<1>2. Cardinality(W) \in Nat /\ Cardinality(H) \in Nat
  BY <1>1, FS_CardinalityType
<1>3. Cardinality(W \cup {e}) \in {Cardinality(W), Cardinality(W) + 1}
  BY <1>1, FS_AddElement
<1>4. Cardinality(H) < limit
  BY <1>2 DEF Reached
<1>5. Cardinality(W \cup {e}) \in Nat
  BY <1>1, FS_AddElement, FS_CardinalityType
<1> QED
  BY <1>1, <1>2, <1>3, <1>4, <1>5

LEMMA LimitStutter ==
  ASSUME LimitInv, now' = now, UNCHANGED limitVars
  PROVE  LimitInv'
<1>1. hist' = hist /\ numHist' = numHist /\ until' = until /\ passed' = passed
  BY DEF limitVars
<1>2. LimitTypes'
  BY <1>1 DEF LimitInv, LimitTypes
<1>3. HistoryKept'
  BY <1>1 DEF LimitInv, HistoryKept, Remembered
<1>4. WindowsSlide'
  BY <1>1 DEF LimitInv, WindowsSlide
<1> QED
  BY <1>2, <1>3, <1>4 DEF LimitInv

(* The clock goes on: what it takes into a window was in it before.        *)
LEMMA LimitTick ==
  ASSUME LimitInv, now < MaxNow, now' = now + 1, UNCHANGED limitVars
  PROVE  LimitInv'
<1>1. LimitTypes'
  BY ConstantTypes DEF LimitInv, LimitTypes, limitVars
<1>2. ASSUME NEW m \in Modems PROVE Remembered(m)'
  <2>1. \A e \in passed[m] : e.at \in Int
    BY EntryTypes DEF LimitInv
  <2>2. now \in Int /\ Span \in Int /\ NumSpan \in Int
    BY ConstantTypes DEF LimitInv, LimitTypes
  <2>3. Remembered(m)
    BY DEF LimitInv, HistoryKept
  <2>4. /\ hist' = hist /\ numHist' = numHist /\ passed' = passed /\ now' = now + 1
        /\ IsFiniteSet(passed[m]) /\ hist[m] \subseteq passed[m]
        /\ \A d \in Dests : numHist[m][d] \subseteq {e \in passed[m] : e.to = d}
    BY <2>3 DEF Remembered, limitVars
  <2>5. \A e \in passed[m] :
          /\ e.no <= Cardinality(passed[m]) /\ e.at <= now'
          /\ e.at >= now' - Span => e \in hist[m]
          /\ e.at >= now' - NumSpan => e \in numHist[m][e.to]
    BY <2>1, <2>2, <2>3, <2>4 DEF Remembered
  <2> QED
    BY <2>4, <2>5 DEF Remembered
<1>3. WindowsSlide'
  BY DEF LimitInv, WindowsSlide, limitVars
<1> QED
  BY <1>1, <1>2, <1>3 DEF LimitInv, HistoryKept

LEMMA LimitExceeded ==
  ASSUME LimitInv, NEW m \in Modems, NEW d \in Dests, Exceeded(m, d), now' = now
  PROVE  LimitInv'
<1>1. /\ LimitTypes /\ HistoryKept /\ WindowsSlide /\ passed' = passed
      /\ hist' = [hist EXCEPT ![m] = Recent(hist[m], Span)]
      /\ \/ numHist' = numHist
         \/ numHist' = [numHist EXCEPT ![m][d] = Recent(numHist[m][d], NumSpan)]
      /\ until' = [until EXCEPT ![m] = now + Cooldown]
  BY DEF LimitInv, Exceeded
<1>2. now + Cooldown \in 0..(MaxNow + Cooldown)
  BY <1>1, ConstantTypes DEF LimitTypes
<1>3. LimitTypes'
  <2>1. now' \in 0..MaxNow /\ passed' \in [Modems -> SUBSET Entries]
    BY <1>1 DEF LimitTypes
  <2>2. hist' \in [Modems -> SUBSET Entries]
    BY <1>1 DEF LimitTypes, Recent
  <2>3. numHist' \in [Modems -> [Dests -> SUBSET Entries]]
    <3>1. numHist \in [Modems -> [Dests -> SUBSET Entries]] /\ Recent(numHist[m][d], NumSpan) \subseteq Entries
      BY <1>1 DEF LimitTypes, Recent
    <3>2. [numHist EXCEPT ![m][d] = Recent(numHist[m][d], NumSpan)] \in [Modems -> [Dests -> SUBSET Entries]]
      BY <3>1, TableUpdate
    <3> QED
      BY <1>1, <3>1, <3>2
  <2>4. until' \in [Modems -> 0..(MaxNow + Cooldown)]
    BY <1>1, <1>2 DEF LimitTypes
  <2> QED
    BY <2>1, <2>2, <2>3, <2>4 DEF LimitTypes
<1>4. ASSUME NEW x \in Modems PROVE Remembered(x)'
  <2>1. Remembered(x)
    BY <1>1 DEF HistoryKept
  <2>2. hist'[x] \in {hist[x], Recent(hist[x], Span)}
    BY <1>1 DEF LimitTypes
  <2>3. \A y \in Dests : numHist'[x][y] \in {numHist[x][y], Recent(numHist[x][y], NumSpan)}
    BY <1>1 DEF LimitTypes
  <2>4. \A e \in passed[x] : e.to \in Dests
    BY <1>1, EntryTypes
  <2>5. hist'[x] \subseteq hist[x] /\ \A e \in hist[x] : e.at >= now - Span => e \in hist'[x]
    BY <2>2 DEF Recent
  <2>6. \A y \in Dests : /\ numHist'[x][y] \subseteq numHist[x][y]
                         /\ \A e \in numHist[x][y] : e.at >= now - NumSpan => e \in numHist'[x][y]
    BY <2>3 DEF Recent
  <2> QED
    BY <1>1, <2>1, <2>4, <2>5, <2>6 DEF Remembered
<1>5. WindowsSlide'
  BY <1>1 DEF WindowsSlide
<1> QED
  BY <1>3, <1>4, <1>5 DEF LimitInv, HistoryKept

(* A check that passes: every interval that holds it lies in a window the  *)
(* history still knew, and that had room for it.                           *)
LEMMA LimitAllowed ==
  ASSUME LimitInv, NEW m \in Modems, NEW d \in Dests, Allowed(m, d), now' = now
  PROVE  LimitInv'
<1> DEFINE e == Entry(m, d)
<1>1. /\ LimitTypes /\ HistoryKept /\ WindowsSlide /\ until' = until
      /\ hist' = [hist EXCEPT ![m] = Recent(hist[m], Span) \cup {e}]
      /\ numHist' = [numHist EXCEPT ![m][d] = Recent(numHist[m][d], NumSpan) \cup {e}]
      /\ passed' = [passed EXCEPT ![m] = passed[m] \cup {e}]
      /\ ~Reached(Recent(hist[m], Span), MaxPerSpan)
      /\ ~Reached(Recent(numHist[m][d], NumSpan), MaxPerNumber)
  BY DEF LimitInv, Allowed, Entry
<1>2. Remembered(m) /\ IsFiniteSet(passed[m]) /\ Cardinality(passed[m]) \in Nat
  BY <1>1, FS_CardinalityType DEF HistoryKept, Remembered
<1>3. e.no = Cardinality(passed[m]) + 1 /\ e.at = now /\ e.to = d /\ e \in Entries
  BY <1>1, <1>2 DEF Entry, Entries, LimitTypes
<1>4. now \in Int /\ Span \in Nat /\ NumSpan \in Nat /\ MaxPerSpan \in Nat /\ MaxPerNumber \in Nat
  BY <1>1, ConstantTypes DEF LimitTypes
<1>5. \A x \in passed[m] : x.no \in Nat /\ x.at \in Int /\ x.to \in Dests
  BY <1>1, EntryTypes
<1> HIDE DEF e
<1>6. LimitTypes'
  <2>1. now' \in 0..MaxNow /\ until' \in [Modems -> 0..(MaxNow + Cooldown)]
    BY <1>1 DEF LimitTypes
  <2>2. hist' \in [Modems -> SUBSET Entries] /\ passed' \in [Modems -> SUBSET Entries]
    BY <1>1, <1>3 DEF LimitTypes, Recent
  <2>3. numHist' \in [Modems -> [Dests -> SUBSET Entries]]
    BY <1>1, <1>3 DEF LimitTypes, Recent
  <2> QED
    BY <2>1, <2>2, <2>3 DEF LimitTypes
<1>7. /\ hist'[m] = Recent(hist[m], Span) \cup {e} /\ passed'[m] = passed[m] \cup {e}
      /\ numHist'[m][d] = Recent(numHist[m][d], NumSpan) \cup {e}
      /\ \A y \in Dests \ {d} : numHist'[m][y] = numHist[m][y]
      /\ \A x \in Modems \ {m} : /\ hist'[x] = hist[x] /\ passed'[x] = passed[x]
                                 /\ numHist'[x] = numHist[x]
  BY <1>1 DEF LimitTypes
<1>8. ASSUME NEW x \in Modems PROVE Remembered(x)'
  <2>1. CASE x # m
    <3>1. Remembered(x)
      BY <1>1 DEF HistoryKept
    <3>2. hist'[x] = hist[x] /\ passed'[x] = passed[x] /\ numHist'[x] = numHist[x]
      BY <2>1, <1>7
    <3> QED
      BY <3>1, <3>2 DEF Remembered
  <2>2. CASE x = m
    <3>1. e \notin passed[m]
      BY <1>2, <1>3, <1>5 DEF Remembered
    <3>2. IsFiniteSet(passed'[m]) /\ Cardinality(passed'[m]) = Cardinality(passed[m]) + 1
      BY <1>2, <1>7, <3>1, FS_AddElement
    <3>3. hist'[m] \subseteq passed'[m]
      BY <1>2, <1>7 DEF Remembered, Recent
    <3>4. \A y \in Dests : numHist'[m][y] \subseteq {z \in passed'[m] : z.to = y}
      <4>1. \A z \in Recent(numHist[m][d], NumSpan) : z \in passed'[m] /\ z.to = d
        BY <1>2, <1>7 DEF Remembered, Recent
      <4>2. \A y \in Dests \ {d} : numHist'[m][y] \subseteq {z \in passed'[m] : z.to = y}
        BY <1>2, <1>7 DEF Remembered
      <4> QED
        BY <1>3, <1>7, <4>1, <4>2
    <3>5. ASSUME NEW z \in passed'[m]
          PROVE  /\ z.no <= Cardinality(passed'[m]) /\ z.at <= now
                 /\ z.at >= now - Span => z \in hist'[m]
                 /\ z.at >= now - NumSpan => z \in numHist'[m][z.to]
      <4>1. CASE z = e
        BY <1>2, <1>3, <1>4, <1>7, <3>2, <4>1
      <4>2. CASE z \in passed[m]
        <5>1. z.no <= Cardinality(passed'[m]) /\ z.at <= now
          BY <1>2, <1>5, <3>2, <4>2 DEF Remembered
        <5>2. z.at >= now - Span => z \in hist'[m]
          BY <1>2, <1>7, <4>2 DEF Remembered, Recent
        <5>3. z.at >= now - NumSpan => z \in numHist'[m][z.to]
          BY <1>2, <1>5, <1>7, <4>2 DEF Remembered, Recent
        <5> QED
          BY <5>1, <5>2, <5>3
      <4> QED
        BY <1>7, <4>1, <4>2
    <3> QED
      BY <2>2, <3>2, <3>3, <3>4, <3>5 DEF Remembered
  <2> QED
    BY <2>1, <2>2
<1>9. WindowsSlide'
  <2>1. SUFFICES ASSUME NEW x \in Modems, NEW t \in 0..MaxNow
                 PROVE  /\ MaxPerSpan > 0 => Cardinality(Within(x, t, Span)') <= MaxPerSpan
                        /\ MaxPerNumber > 0 => \A y \in Dests :
                             Cardinality(WithinTo(x, t, NumSpan, y)') <= MaxPerNumber
    BY DEF WindowsSlide, Within, WithinTo
  <2>2. t \in Int
    BY ConstantTypes
  <2>3. /\ MaxPerSpan > 0 => Cardinality(Within(x, t, Span)) <= MaxPerSpan
        /\ MaxPerNumber > 0 => \A y \in Dests : Cardinality(WithinTo(x, t, NumSpan, y)) <= MaxPerNumber
    BY <1>1, WindowsDef
  <2>4. CASE x # m
    <3>1. passed'[x] = passed[x]
      BY <1>7, <2>4
    <3>2. /\ Within(x, t, Span)' = Within(x, t, Span)
          /\ \A y \in Dests : WithinTo(x, t, NumSpan, y)' = WithinTo(x, t, NumSpan, y)
      BY <3>1 DEF Within, WithinTo
    <3> QED
      BY <2>3, <3>2
  <2>5. CASE x = m
    <3>1. ASSUME MaxPerSpan > 0 PROVE Cardinality(Within(x, t, Span)') <= MaxPerSpan
      <4>1. CASE now >= t /\ now <= t + Span
        <5>1. Within(x, t, Span)' = Within(x, t, Span) \cup {e}
          BY <1>3, <1>7, <2>5, <4>1 DEF Within
        <5>2. \A z \in Within(x, t, Span) : z.at >= now - Span
          BY <1>4, <1>5, <2>2, <2>5, <4>1 DEF Within
        <5>3. Within(x, t, Span) \in SUBSET Recent(hist[m], Span)
          BY <1>2, <2>5, <5>2 DEF Within, Recent, Remembered
        <5>4. IsFiniteSet(Recent(hist[m], Span))
          BY <1>2, FS_Subset DEF Recent, Remembered
        <5> QED
          BY <1>1, <1>4, <3>1, <5>1, <5>3, <5>4, RoomForOne
      <4>2. CASE ~(now >= t /\ now <= t + Span)
        <5>1. Within(x, t, Span)' = Within(x, t, Span)
          BY <1>3, <1>7, <2>5, <4>2 DEF Within
        <5> QED
          BY <2>3, <3>1, <5>1
      <4> QED
        BY <4>1, <4>2
    <3>2. ASSUME MaxPerNumber > 0, NEW y \in Dests
          PROVE  Cardinality(WithinTo(x, t, NumSpan, y)') <= MaxPerNumber
      <4>1. CASE now >= t /\ now <= t + NumSpan /\ y = d
        <5>1. WithinTo(x, t, NumSpan, y)' = WithinTo(x, t, NumSpan, y) \cup {e}
          BY <1>3, <1>7, <2>5, <4>1 DEF Within, WithinTo
        <5>2. \A z \in WithinTo(x, t, NumSpan, y) : z.at >= now - NumSpan /\ z.to = d
          BY <1>4, <1>5, <2>2, <2>5, <4>1 DEF Within, WithinTo
        <5>3. WithinTo(x, t, NumSpan, y) \in SUBSET Recent(numHist[m][d], NumSpan)
          BY <1>2, <2>5, <5>2 DEF Within, WithinTo, Recent, Remembered
        <5>4. IsFiniteSet(Recent(numHist[m][d], NumSpan))
          BY <1>2, FS_Subset DEF Recent, Remembered
        <5> QED
          BY <1>1, <1>4, <3>2, <5>1, <5>3, <5>4, RoomForOne
      <4>2. CASE ~(now >= t /\ now <= t + NumSpan /\ y = d)
        <5>1. WithinTo(x, t, NumSpan, y)' = WithinTo(x, t, NumSpan, y)
          BY <1>3, <1>7, <2>5, <4>2 DEF Within, WithinTo
        <5> QED
          BY <2>3, <3>2, <5>1
      <4> QED
        BY <4>1, <4>2
    <3> QED
      BY <3>1, <3>2
  <2> QED
    BY <2>4, <2>5
<1> QED
  BY <1>6, <1>8, <1>9 DEF LimitInv, HistoryKept
-----------------------------------------------------------------------------
(* The items.  Whatever a request does moves one item on, or none.         *)

JobTypes ==
  /\ strategy \in Strategies /\ rrIndex \in Nat
  /\ job \in [Requests -> Jobs]
  /\ \A r \in Requests : job[r].pc \notin {"idle", "done"} => job[r].to # <<>> /\ job[r].cands # <<>>
  /\ out \in [Items -> {"new", "pending", "accepted", "sent", "failed"}]
  /\ whole \in [Items -> SUBSET Modems]
  /\ charged \subseteq Items \X Modems

SendInv == JobTypes /\ JobsFit /\ NewIsUnsent /\ ChargedIsSent

(* Item i goes from one state to another.                                  *)
Turns(i, from, to) == out[i] = from /\ out' = [out EXCEPT ![i] = to]

(* The network takes another copy of item i, through modem m.              *)
CopyBy(i, m) == m \notin whole[i] /\ whole' = [whole EXCEPT ![i] = @ \cup {m}]

ItemMove(i, m) ==
  \/ Turns(i, "new", "pending") /\ UNCHANGED <<whole, charged>>
  \/ out[i] = "pending" /\ CopyBy(i, m) /\ UNCHANGED <<out, charged>>
  \/ Turns(i, "pending", "accepted") /\ CopyBy(i, m) /\ UNCHANGED charged
  \/ Turns(i, "pending", "failed") /\ UNCHANGED <<whole, charged>>
  \/ /\ Turns(i, "accepted", "sent") /\ UNCHANGED whole
     /\ m \in whole[i] /\ charged' = charged \cup {<<i, m>>}

NoMove == UNCHANGED <<out, whole, charged>>

(* What every action of request r amounts to: its goroutine is in state j, *)
(* which fits, and one of its items has moved or none.                     *)
Reaches(r, j) ==
  /\ j \in Jobs /\ job' = [job EXCEPT ![r] = j]
  /\ j.pc \notin {"idle", "done"} => j.to # <<>> /\ j.cands # <<>>
  /\ Fits(r, j, out', whole')
  /\ NoMove \/ \E d \in Dests, m \in Modems : ItemMove(<<r, d>>, m)
  /\ strategy' = strategy /\ rrIndex' \in Nat

(* An item that moves stays in its type; the others stay as they are.      *)
LEMMA ItemMoveTypes ==
  ASSUME JobTypes, NEW i \in Items, NEW m \in Modems, ItemMove(i, m)
  PROVE  /\ out' \in [Items -> {"new", "pending", "accepted", "sent", "failed"}]
         /\ whole' \in [Items -> SUBSET Modems] /\ charged' \subseteq Items \X Modems
         /\ \A k \in Items \ {i} : out'[k] = out[k] /\ whole'[k] = whole[k]
         /\ \A k \in Items \ {i}, x \in Modems : <<k, x>> \in charged' <=> <<k, x>> \in charged
         /\ whole[i] \subseteq whole'[i]
<1>1. /\ out \in [Items -> {"new", "pending", "accepted", "sent", "failed"}]
      /\ whole \in [Items -> SUBSET Modems] /\ charged \subseteq Items \X Modems
  BY DEF JobTypes
<1>2. out' \in [Items -> {"new", "pending", "accepted", "sent", "failed"}]
      /\ \A k \in Items \ {i} : out'[k] = out[k]
  BY <1>1 DEF ItemMove, Turns
<1>3. /\ whole' \in [Items -> SUBSET Modems] /\ whole[i] \subseteq whole'[i]
      /\ \A k \in Items \ {i} : whole'[k] = whole[k]
  BY <1>1 DEF ItemMove, CopyBy
<1>4. /\ charged' \subseteq Items \X Modems
      /\ \A k \in Items \ {i}, x \in Modems : <<k, x>> \in charged' <=> <<k, x>> \in charged
  <2>1. charged' = charged \/ charged' = charged \cup {<<i, m>>}
    BY DEF ItemMove
  <2> QED
    BY <1>1, <2>1
<1> QED
  BY <1>2, <1>3, <1>4

(* Nothing is sent for an item that is new.                                *)
LEMMA ItemMoveNew ==
  ASSUME JobTypes, NewIsUnsent, NEW i \in Items, NEW m \in Modems, ItemMove(i, m)
  PROVE  NewIsUnsent'
<1>1. out'[i] # "new"
  BY DEF ItemMove, Turns, JobTypes
<1>2. \A k \in Items \ {i} : out'[k] = out[k] /\ whole'[k] = whole[k]
  BY ItemMoveTypes
<1> QED
  BY <1>1, <1>2 DEF NewIsUnsent

(* The modems an item is charged to.                                       *)
Charges(i) == {m \in Modems : <<i, m>> \in charged}

LEMMA ChargesDef ==
  ChargedIsSent <=>
    \A i \in Items : /\ Charges(i) \subseteq whole[i]
                     /\ Cardinality(Charges(i)) = IF out[i] = "sent" THEN 1 ELSE 0
BY DEF ChargedIsSent, Charges

LEMMA ModemsFinite ==
  /\ IsFiniteSet(Modems) /\ Cardinality(Modems) = NModems
  /\ \A S \in SUBSET Modems : IsFiniteSet(S) /\ Cardinality(S) \in Nat
<1>1. IsFiniteSet(Modems) /\ Cardinality(Modems) = NModems
  BY FS_Interval, ConstantTypes DEF Modems
<1> QED
  BY <1>1, FS_Subset, FS_CardinalityType

(* An item is charged when it becomes sent, to the modem that sent it.     *)
LEMMA ItemMoveCharged ==
  ASSUME JobTypes, ChargedIsSent, NEW i \in Items, NEW m \in Modems, ItemMove(i, m)
  PROVE  ChargedIsSent'
<1>1. SUFFICES ASSUME NEW k \in Items
               PROVE  /\ Charges(k)' \subseteq whole'[k]
                      /\ Cardinality(Charges(k)') = IF out'[k] = "sent" THEN 1 ELSE 0
  BY DEF ChargedIsSent, Charges
<1>2. /\ Charges(k) \subseteq whole[k]
      /\ Cardinality(Charges(k)) = IF out[k] = "sent" THEN 1 ELSE 0
  BY ChargesDef
<1>3. CASE k # i
  <2>1. out'[k] = out[k] /\ whole'[k] = whole[k]
    BY <1>3, ItemMoveTypes
  <2>2. \A x \in Modems : <<k, x>> \in charged' <=> <<k, x>> \in charged
    BY <1>3, ItemMoveTypes
  <2>3. Charges(k)' = Charges(k)
    BY <2>2 DEF Charges
  <2> QED
    BY <1>2, <2>1, <2>3
<1>4. CASE k = i /\ charged' = charged /\ out[i] # "sent" /\ out'[i] # "sent"
  <2>1. Charges(k)' = Charges(k)
    BY <1>4 DEF Charges
  <2>2. whole[i] \subseteq whole'[i]
    BY ItemMoveTypes
  <2> QED
    BY <1>2, <1>4, <2>1, <2>2
<1>5. CASE k = i /\ Turns(i, "accepted", "sent") /\ UNCHANGED whole
           /\ m \in whole[i] /\ charged' = charged \cup {<<i, m>>}
  <2>1. out[i] = "accepted" /\ out'[i] = "sent"
    BY <1>5 DEF Turns, JobTypes
  <2>2. Charges(i) = {}
    <3>1. Cardinality(Charges(i)) = 0
      BY <1>2, <1>5, <2>1
    <3>2. IsFiniteSet(Charges(i))
      BY ModemsFinite DEF Charges
    <3> QED
      BY <3>1, <3>2, FS_EmptySet
  <2>3. Charges(i)' = {m}
    BY <1>5, <2>2 DEF Charges
  <2> QED
    BY <1>5, <2>1, <2>3, FS_Singleton
<1>6. \/ charged' = charged /\ out[i] # "sent" /\ out'[i] # "sent"
      \/ /\ Turns(i, "accepted", "sent") /\ UNCHANGED whole
         /\ m \in whole[i] /\ charged' = charged \cup {<<i, m>>}
  BY DEF ItemMove, Turns, JobTypes
<1> QED
  BY <1>3, <1>4, <1>5, <1>6

(* The step of one request keeps the invariant.                            *)
LEMMA ReachesKeeps ==
  ASSUME SendInv, NEW r \in Requests, NEW j, Reaches(r, j)
  PROVE  SendInv'
<1>1. /\ JobTypes /\ JobsFit /\ NewIsUnsent /\ ChargedIsSent
      /\ job \in [Requests -> Jobs] /\ j \in Jobs /\ job' = [job EXCEPT ![r] = j]
  BY DEF SendInv, JobTypes, Reaches
<1>2. /\ out' \in [Items -> {"new", "pending", "accepted", "sent", "failed"}]
      /\ whole' \in [Items -> SUBSET Modems] /\ charged' \subseteq Items \X Modems
      /\ NewIsUnsent' /\ ChargedIsSent'
      /\ \A q \in Requests \ {r}, d \in Dests :
           out'[<<q, d>>] = out[<<q, d>>] /\ whole'[<<q, d>>] = whole[<<q, d>>]
  <2>1. CASE NoMove
    BY <1>1, <2>1 DEF NoMove, JobTypes, NewIsUnsent, ChargedIsSent
  <2>2. CASE \E d \in Dests, m \in Modems : ItemMove(<<r, d>>, m)
    <3>1. PICK d \in Dests, m \in Modems : ItemMove(<<r, d>>, m)
      BY <2>2
    <3>2. <<r, d>> \in Items /\ \A q \in Requests \ {r}, x \in Dests : <<q, x>> \in Items \ {<<r, d>>}
      BY DEF Items
    <3>3. NewIsUnsent' /\ ChargedIsSent'
      BY <1>1, <3>1, <3>2, ItemMoveNew, ItemMoveCharged
    <3> QED
      BY <1>1, <3>1, <3>2, <3>3, ItemMoveTypes
  <2> QED
    BY <2>1, <2>2 DEF Reaches
<1>3. JobTypes'
  <2>1. strategy' \in Strategies /\ rrIndex' \in Nat /\ job' \in [Requests -> Jobs]
    BY <1>1 DEF Reaches, JobTypes
  <2>2. \A q \in Requests : job'[q].pc \notin {"idle", "done"} => job'[q].to # <<>> /\ job'[q].cands # <<>>
    BY <1>1 DEF Reaches, JobTypes
  <2> QED
    BY <1>2, <2>1, <2>2 DEF JobTypes
<1>4. ASSUME NEW q \in Requests PROVE Fits(q, job'[q], out', whole')
  <2>1. CASE q = r
    BY <1>1, <2>1 DEF Reaches
  <2>2. CASE q # r
    <3>1. job'[q] = job[q] /\ Fits(q, job[q], out, whole) /\ job[q] \in Jobs
      BY <1>1, <2>2 DEF JobsFit
    <3>2. \A d \in Dests : out'[<<q, d>>] = out[<<q, d>>] /\ whole'[<<q, d>>] = whole[<<q, d>>]
      BY <1>2, <2>2
    <3>3. job[q].to \in Seq(Dests)
      BY <3>1 DEF Jobs
    <3>4. \A k \in DOMAIN job[q].to : job[q].to[k] \in Dests
      BY <3>3, LenProperties, ElementOfSeq
    <3>5. job[q].pc \notin {"idle", "done"} => Head(job[q].to) \in Dests
      BY <1>1, <3>3, HeadTailProperties DEF JobTypes
    <3> QED
      BY <3>1, <3>2, <3>4, <3>5 DEF Fits
  <2> QED
    BY <2>1, <2>2
<1> QED
  BY <1>2, <1>3, <1>4 DEF SendInv, JobsFit
-----------------------------------------------------------------------------
(* The actions of a request.                                               *)

LEMMA TailList ==
  ASSUME NEW S, NEW s \in Lists(S), Len(s) > 1
  PROVE  /\ Tail(s) \in Lists(S) /\ Tail(s) # <<>> /\ Len(Tail(s)) = Len(s) - 1
         /\ DOMAIN Tail(s) = 1..(Len(s) - 1)
         /\ \A k \in 1..(Len(s) - 1) : Tail(s)[k] = s[k + 1]
<1>1. /\ s \in Seq(S) /\ Len(s) \in Nat /\ DOMAIN s = 1..Len(s)
      /\ \A j, k \in 1..Len(s) : s[j] = s[k] => j = k
  BY ListFacts
<1>2. s # <<>>
  BY <1>1, EmptySeq
<1>3. /\ Tail(s) \in Seq(S) /\ Len(Tail(s)) = Len(s) - 1
      /\ \A k \in 1..Len(Tail(s)) : Tail(s)[k] = s[k + 1]
  BY <1>1, <1>2, HeadTailProperties
<1>4. DOMAIN Tail(s) = 1..(Len(s) - 1) /\ Tail(s) # <<>>
  <2>1. DOMAIN Tail(s) = 1..(Len(s) - 1)
    BY <1>3, LenProperties
  <2>2. 1 \in 1..(Len(s) - 1)
    BY <1>1
  <2> QED
    BY <2>1, <2>2
<1>5. IsInjective(Tail(s))
  BY <1>1, <1>3, <1>4 DEF IsInjective
<1> QED
  BY <1>3, <1>4, <1>5 DEF Lists

LEMMA OneList ==
  ASSUME NEW S, NEW x \in S
  PROVE  /\ <<x>> \in Lists(S) /\ <<x>> # <<>> /\ Head(<<x>>) = x
         /\ DOMAIN <<x>> = 1..1 /\ <<x>>[1] = x
BY DEF Lists, IsInjective

(* The fields of a job that works, and of the jobs made from it.           *)
LEMMA Working ==
  ASSUME SendInv, NEW r \in Requests, job[r].pc \notin {"idle", "done"}
  PROVE  /\ job[r] \in Jobs /\ Fits(r, job[r], out, whole)
         /\ job[r].to \in Lists(Dests) /\ job[r].to # <<>>
         /\ job[r].cands \in Lists(Modems) /\ job[r].cands # <<>>
         /\ Head(job[r].to) \in Dests /\ Modem(r) \in Modems /\ Item(r) \in Items
         /\ Head(job[r].to) = job[r].to[1] /\ Modem(r) = job[r].cands[1]
         /\ Len(job[r].to) \in Nat /\ Len(job[r].to) >= 1 /\ DOMAIN job[r].to = 1..Len(job[r].to)
         /\ Len(job[r].cands) \in Nat /\ Len(job[r].cands) >= 1
         /\ DOMAIN job[r].cands = 1..Len(job[r].cands)
         /\ \A k \in DOMAIN job[r].to : k > 1 => job[r].to[k] # Head(job[r].to)
         /\ \A k \in DOMAIN job[r].cands : k > 1 => job[r].cands[k] # Modem(r)
         /\ \A k \in DOMAIN job[r].to : job[r].to[k] \in Dests
<1>1. job[r] \in Jobs /\ Fits(r, job[r], out, whole) /\ job[r].to # <<>> /\ job[r].cands # <<>>
  BY DEF SendInv, JobTypes, JobsFit
<1>2. job[r].to \in Seq(Dests) /\ job[r].cands \in Seq(Modems)
  BY <1>1 DEF Jobs
<1>3. job[r].to \in Lists(Dests) /\ job[r].cands \in Lists(Modems)
  BY <1>1, <1>2 DEF Fits, Lists
<1>4. /\ Len(job[r].to) \in Nat /\ DOMAIN job[r].to = 1..Len(job[r].to)
      /\ Len(job[r].to) >= 1 /\ 1 \in 1..Len(job[r].to)
      /\ Head(job[r].to) = job[r].to[1] /\ Head(job[r].to) \in Dests
      /\ \A i, k \in 1..Len(job[r].to) : job[r].to[i] = job[r].to[k] => i = k
      /\ \A k \in 1..Len(job[r].to) : job[r].to[k] \in Dests
  BY <1>1, <1>3, ListFacts
<1>5. /\ Len(job[r].cands) \in Nat /\ DOMAIN job[r].cands = 1..Len(job[r].cands)
      /\ Len(job[r].cands) >= 1 /\ 1 \in 1..Len(job[r].cands)
      /\ Head(job[r].cands) = job[r].cands[1] /\ Head(job[r].cands) \in Modems
      /\ \A i, k \in 1..Len(job[r].cands) : job[r].cands[i] = job[r].cands[k] => i = k
  BY <1>1, <1>3, ListFacts
<1>6. /\ \A k \in DOMAIN job[r].to : k > 1 => job[r].to[k] # Head(job[r].to)
      /\ \A k \in DOMAIN job[r].cands : k > 1 => job[r].cands[k] # Modem(r)
  BY <1>4, <1>5 DEF Modem
<1> QED
  BY <1>1, <1>3, <1>4, <1>5, <1>6 DEF Modem, Item, Items

LEMMA JobFields ==
  ASSUME NEW j \in Jobs, NEW pc \in {"target", "check", "send", "lost", "record"}
  PROVE  /\ [j EXCEPT !.pc = pc] \in Jobs
         /\ [j EXCEPT !.pc = pc].pc = pc /\ [j EXCEPT !.pc = pc].to = j.to
         /\ [j EXCEPT !.pc = pc].cands = j.cands
BY ConstantTypes DEF Jobs

LEMMA FinishedFits ==
  /\ Finished \in Jobs /\ Finished.pc = "done"
  /\ \A r, o, w : Fits(r, Finished, o, w)
<1>1. Finished \in Jobs /\ Finished.pc = "done" /\ Finished.to = <<>> /\ Finished.cands = <<>>
  BY ConstantTypes, EmptySeq DEF Finished, Jobs
<1>2. DOMAIN <<>> = {}
  OBVIOUS
<1> QED
  BY <1>1, <1>2 DEF Fits, IsInjective

LEMMA PoolRequestReaches ==
  ASSUME SendInv, NEW r \in Requests, NEW d \in Dests, PoolRequest(r, d)
  PROVE  \E j : Reaches(r, j)
<1>1. job[r].pc = "idle" /\ UNCHANGED <<strategy, whole, charged>> /\ JobTypes
  BY DEF PoolRequest, SendInv
<1>2. PICK ready \in Ready :
        IF ready = <<>>
          THEN /\ job' = [job EXCEPT ![r] = Finished]
               /\ UNCHANGED <<out, rrIndex>>
          ELSE /\ \E cs \in OrderCandidates(ready) :
                    job' = [job EXCEPT ![r] = [pc |-> "check", to |-> <<d>>, cands |-> cs, part |-> 1]]
               /\ out' = [out EXCEPT ![<<r, d>>] = "pending"]
               /\ rrIndex' = IF strategy = "round-robin" THEN rrIndex + 1 ELSE rrIndex
  BY DEF PoolRequest
<1>3. CASE ready = <<>>
  <2>1. job' = [job EXCEPT ![r] = Finished] /\ UNCHANGED <<out, rrIndex>>
    BY <1>2, <1>3
  <2>2. NoMove /\ rrIndex' \in Nat /\ strategy' = strategy
    BY <1>1, <2>1 DEF NoMove, JobTypes
  <2>3. Reaches(r, Finished)
    BY <2>1, <2>2, FinishedFits DEF Reaches
  <2> QED
    BY <2>3
<1>4. CASE ready # <<>>
  <2>1. PICK cs \in OrderCandidates(ready) :
          job' = [job EXCEPT ![r] = [pc |-> "check", to |-> <<d>>, cands |-> cs, part |-> 1]]
    BY <1>2, <1>4
  <2>2. out' = [out EXCEPT ![<<r, d>>] = "pending"] /\ rrIndex' \in Nat
    BY <1>1, <1>2, <1>4 DEF JobTypes
  <2>3. Rearranges(cs, ready)
    BY <1>1, <1>4, EveryReadyOnce DEF JobTypes
  <2>4. cs \in Lists(Modems) /\ DOMAIN cs = DOMAIN ready
    BY <2>3 DEF Rearranges
  <2>5. cs # <<>>
    <3>1. ready \in Lists(Modems)
      BY ReadyIsList
    <3>2. 1 \in DOMAIN cs
      BY <1>4, <2>4, <3>1, ListFacts
    <3> QED
      BY <3>2
  <2>6. <<r, d>> \in Items /\ out[<<r, d>>] = "new" /\ whole[<<r, d>>] = {}
    BY <1>1 DEF SendInv, JobsFit, Fits, NewIsUnsent, Items
  <2> DEFINE j == [pc |-> "check", to |-> <<d>>, cands |-> cs, part |-> 1]
  <2>7. j \in Jobs /\ j.pc = "check" /\ j.to = <<d>> /\ j.cands = cs
    BY <2>4, ConstantTypes, OneList DEF Jobs, Lists
  <2>8. out'[<<r, d>>] = "pending" /\ whole'[<<r, d>>] = {}
    BY <1>1, <2>2, <2>6 DEF JobTypes
  <2> HIDE DEF j
  <2>9. Fits(r, j, out', whole')
    BY <2>4, <2>7, <2>8, OneList DEF Fits, Lists
  <2>10. \A m : ItemMove(<<r, d>>, m)
    BY <1>1, <2>2, <2>6 DEF ItemMove, Turns
  <2>11. 1 \in Modems
    BY ConstantTypes DEF Modems
  <2>12. Reaches(r, j)
    BY <1>1, <2>1, <2>2, <2>5, <2>7, <2>9, <2>10, <2>11, OneList DEF Reaches, j
  <2> QED
    BY <2>12
<1> QED
  BY <1>3, <1>4

LEMMA DirectRequestReaches ==
  ASSUME SendInv, NEW r \in Requests, NEW m \in Modems, NEW ts \in Targets, DirectRequest(r, m, ts)
  PROVE  \E j : Reaches(r, j)
<1> DEFINE j == [pc |-> "target", to |-> ts, cands |-> <<m>>, part |-> 1]
<1>1. /\ job[r].pc = "idle" /\ JobTypes /\ job' = [job EXCEPT ![r] = j]
      /\ strategy' = strategy /\ rrIndex' = rrIndex /\ out' = out /\ NoMove
  BY DEF DirectRequest, SendInv, NoMove, poolVars
<1>2. PICK k \in 1..Cardinality(Dests) : ts \in [1..k -> Dests]
  BY DEF Targets
<1>3. Cardinality(Dests) \in Nat
  BY SMSSendAssumption, FS_CardinalityType
<1>4. k \in Nat /\ 1 \in 1..k
  BY <1>2, <1>3
<1>5. ts \in Lists(Dests)
  BY <1>2, <1>4, SeqDef DEF Lists, Targets
<1>6. ts # <<>>
  BY <1>2, <1>4
<1>7. \A i \in DOMAIN ts : ts[i] \in Dests
  BY <1>2
<1>8. j \in Jobs /\ j.pc = "target" /\ j.to = ts /\ j.cands = <<m>>
  BY <1>5, ConstantTypes, OneList DEF Jobs, Lists
<1> HIDE DEF j
<1>9. Fits(r, j, out', whole')
  <2>1. \A d \in Dests : out'[<<r, d>>] = "new"
    BY <1>1 DEF SendInv, JobsFit, Fits
  <2> QED
    BY <1>5, <1>7, <1>8, <2>1, OneList DEF Fits, Lists
<1>10. Reaches(r, j)
  BY <1>1, <1>6, <1>8, <1>9, OneList DEF Reaches, JobTypes
<1> QED
  BY <1>10

LEMMA NextTargetReaches ==
  ASSUME SendInv, NEW r \in Requests, NextTarget(r)
  PROVE  \E j : Reaches(r, j)
<1> DEFINE j == [job[r] EXCEPT !.pc = "check"]
<1>1. /\ job[r].pc = "target" /\ JobTypes /\ job' = [job EXCEPT ![r] = j]
      /\ strategy' = strategy /\ rrIndex' = rrIndex /\ whole' = whole /\ charged' = charged
      /\ out' = [out EXCEPT ![Item(r)] = "pending"]
  BY DEF NextTarget, SendInv, poolVars
<1>2. job[r].pc \notin {"idle", "done"}
  BY <1>1
<1>3. job[r] \in Jobs
  BY <1>2, Working
<1>4. j \in Jobs /\ j.pc = "check" /\ j.to = job[r].to /\ j.cands = job[r].cands
  BY <1>3, JobFields
<1> HIDE DEF j
<1>5. Item(r) = <<r, Head(job[r].to)>> /\ Item(r) \in Items
  BY <1>2, Working DEF Item
<1>6. out[Item(r)] = "new" /\ whole[Item(r)] = {}
  BY <1>1, <1>2, <1>5, Working DEF Fits, SendInv, NewIsUnsent
<1>7. Fits(r, j, out', whole')
  <2>1. out'[Item(r)] = "pending" /\ whole'[Item(r)] = {}
    BY <1>1, <1>5, <1>6 DEF JobTypes
  <2>2. ASSUME NEW k \in DOMAIN job[r].to, k > 1 PROVE out'[<<r, job[r].to[k]>>] = "new"
    <3>1. <<r, job[r].to[k]>> # Item(r) /\ <<r, job[r].to[k]>> \in Items
      BY <1>2, <1>5, <2>2, Working DEF Items
    <3>2. out[<<r, job[r].to[k]>>] = "new"
      BY <1>1, <1>2, Working DEF Fits
    <3> QED
      BY <1>1, <3>1, <3>2 DEF JobTypes
  <2>3. IsInjective(job[r].to) /\ IsInjective(job[r].cands)
    BY <1>2, Working DEF Fits
  <2> QED
    BY <1>4, <1>5, <2>1, <2>2, <2>3 DEF Fits
<1>8. ItemMove(Item(r), Modem(r))
  BY <1>1, <1>6 DEF ItemMove, Turns
<1>9. Reaches(r, j)
  BY <1>1, <1>2, <1>4, <1>5, <1>7, <1>8, Working DEF Reaches, JobTypes
<1> QED
  BY <1>9
(* The end of a target leaves the others new.                              *)
LEMMA LeaveFits ==
  ASSUME SendInv, NEW r \in Requests, job[r].pc \notin {"idle", "done"}, Leave(r),
         NEW v, out' = [out EXCEPT ![Item(r)] = v], whole' = whole
  PROVE  \E j \in Jobs : /\ job' = [job EXCEPT ![r] = j] /\ Fits(r, j, out', whole')
                         /\ j.pc \notin {"idle", "done"} => j.to # <<>> /\ j.cands # <<>>
<1>1. CASE Len(job[r].to) = 1
  <2>1. job' = [job EXCEPT ![r] = Finished]
    BY <1>1 DEF Leave
  <2> QED
    BY <2>1, FinishedFits
<1>2. CASE Len(job[r].to) # 1
  <2> DEFINE j == [pc |-> "target", to |-> Tail(job[r].to), cands |-> job[r].cands, part |-> 1]
  <2>1. job' = [job EXCEPT ![r] = j]
    BY <1>2 DEF Leave
  <2>2. job[r].to \in Lists(Dests) /\ job[r] \in Jobs /\ Len(job[r].to) \in Nat /\ Len(job[r].to) > 1
    <3>1. job[r].to \in Lists(Dests) /\ job[r] \in Jobs /\ Len(job[r].to) \in Nat /\ Len(job[r].to) >= 1
      BY Working
    <3>2. \A n \in Nat : n >= 1 /\ n # 1 => n > 1
      OBVIOUS
    <3> QED
      BY <1>2, <3>1, <3>2
  <2>3. /\ Tail(job[r].to) \in Lists(Dests) /\ Tail(job[r].to) # <<>>
        /\ DOMAIN Tail(job[r].to) = 1..(Len(job[r].to) - 1)
        /\ \A k \in 1..(Len(job[r].to) - 1) : Tail(job[r].to)[k] = job[r].to[k + 1]
    BY <2>2, TailList
  <2>4. Tail(job[r].to) \in Seq(Dests) /\ IsInjective(Tail(job[r].to))
    BY <2>3 DEF Lists
  <2>5. j \in Jobs /\ j.pc = "target" /\ j.to = Tail(job[r].to) /\ j.cands = job[r].cands
    BY <2>2, <2>4, ConstantTypes DEF Jobs
  <2> HIDE DEF j
  <2>6. ASSUME NEW k \in 1..(Len(job[r].to) - 1) PROVE out'[<<r, Tail(job[r].to)[k]>>] = "new"
    <3>1. k + 1 \in DOMAIN job[r].to /\ k + 1 > 1
      BY Working
    <3>2. <<r, job[r].to[k + 1]>> # Item(r) /\ <<r, job[r].to[k + 1]>> \in Items
      BY <3>1, Working DEF Items, Item
    <3>3. out[<<r, job[r].to[k + 1]>>] = "new"
      BY <3>1, Working DEF Fits
    <3>4. out'[<<r, job[r].to[k + 1]>>] = "new"
      BY <3>2, <3>3 DEF SendInv, JobTypes
    <3> QED
      BY <2>3, <3>4
  <2>7. IsInjective(job[r].cands) /\ job[r].cands # <<>>
    BY Working DEF Fits
  <2>8. Fits(r, j, out', whole')
    BY <2>3, <2>4, <2>5, <2>6, <2>7 DEF Fits
  <2> QED
    BY <2>1, <2>3, <2>5, <2>7, <2>8
<1> QED
  BY <1>1, <1>2

(* A Send that fails: the next candidate has sent nothing yet.             *)
LEMMA SendFailsReaches ==
  ASSUME SendInv, NEW r \in Requests, job[r].pc \in {"check", "send", "lost"}, SendFails(r),
         UNCHANGED <<strategy, rrIndex, whole, charged>>
  PROVE  \E j : Reaches(r, j)
<1>1. job[r].pc \notin {"idle", "done"} /\ JobTypes
  BY DEF SendInv
<1>2. Item(r) = <<r, Head(job[r].to)>> /\ Item(r) \in Items /\ out[Item(r)] = "pending"
  BY <1>1, Working DEF Item, Fits
<1>3. CASE Len(job[r].cands) > 1
  <2> DEFINE j == [pc |-> "check", to |-> job[r].to, cands |-> Tail(job[r].cands), part |-> 1]
  <2>1. job' = [job EXCEPT ![r] = j] /\ out' = out
    BY <1>3 DEF SendFails
  <2>2. job[r].cands \in Lists(Modems) /\ job[r] \in Jobs /\ Len(job[r].cands) \in Nat
    BY <1>1, Working
  <2>3. /\ Tail(job[r].cands) \in Lists(Modems) /\ Tail(job[r].cands) # <<>>
        /\ DOMAIN Tail(job[r].cands) = 1..(Len(job[r].cands) - 1)
        /\ \A k \in 1..(Len(job[r].cands) - 1) : Tail(job[r].cands)[k] = job[r].cands[k + 1]
    BY <1>3, <2>2, TailList
  <2>4. Tail(job[r].cands) \in Seq(Modems) /\ IsInjective(Tail(job[r].cands))
    BY <2>3 DEF Lists
  <2>5. j \in Jobs /\ j.pc = "check" /\ j.to = job[r].to /\ j.cands = Tail(job[r].cands)
    BY <2>2, <2>4, ConstantTypes DEF Jobs
  <2> HIDE DEF j
  <2>6. ASSUME NEW k \in 1..(Len(job[r].cands) - 1) PROVE Tail(job[r].cands)[k] \notin whole[Item(r)]
    <3>1. k + 1 \in DOMAIN job[r].cands /\ k + 1 > 1
      BY <1>1, Working
    <3>2. job[r].cands[k + 1] \notin whole[Item(r)]
      BY <1>1, <1>2, <3>1, Working DEF Fits
    <3> QED
      BY <2>3, <3>2
  <2>7. /\ IsInjective(job[r].to) /\ job[r].to # <<>>
        /\ \A k \in DOMAIN job[r].to : k > 1 => out[<<r, job[r].to[k]>>] = "new"
    BY <1>1, Working DEF Fits
  <2>8. Fits(r, j, out', whole')
    BY <1>2, <2>1, <2>3, <2>4, <2>5, <2>6, <2>7 DEF Fits
  <2>9. Reaches(r, j)
    BY <1>1, <2>1, <2>3, <2>5, <2>7, <2>8 DEF Reaches, JobTypes, NoMove
  <2> QED
    BY <2>9
<1>4. CASE ~(Len(job[r].cands) > 1)
  <2>1. Leave(r) /\ out' = [out EXCEPT ![Item(r)] = "failed"]
    BY <1>4 DEF SendFails
  <2>2. PICK j \in Jobs : /\ job' = [job EXCEPT ![r] = j] /\ Fits(r, j, out', whole')
                          /\ j.pc \notin {"idle", "done"} => j.to # <<>> /\ j.cands # <<>>
    BY <1>1, <2>1, LeaveFits
  <2>3. ItemMove(Item(r), Modem(r))
    BY <1>2, <2>1 DEF ItemMove, Turns
  <2>4. Reaches(r, j)
    BY <1>1, <1>2, <2>2, <2>3, Working DEF Reaches, JobTypes
  <2> QED
    BY <2>4
<1> QED
  BY <1>3, <1>4

LEMMA CheckReaches ==
  ASSUME SendInv, NEW r \in Requests, Check(r)
  PROVE  \E j : Reaches(r, j)
<1>1. /\ job[r].pc = "check" /\ UNCHANGED <<strategy, rrIndex, whole, charged>> /\ JobTypes
      /\ SendFails(r) \/ (job' = [job EXCEPT ![r].pc = "send"] /\ UNCHANGED out)
  BY DEF Check, SendInv, poolVars
<1>2. job[r].pc \notin {"idle", "done"}
  BY <1>1
<1>3. CASE SendFails(r)
  BY <1>1, <1>3, SendFailsReaches
<1>4. CASE job' = [job EXCEPT ![r].pc = "send"] /\ UNCHANGED out
  <2> DEFINE j == [job[r] EXCEPT !.pc = "send"]
  <2>1. job' = [job EXCEPT ![r] = j] /\ out' = out
    BY <1>4
  <2>2. j \in Jobs /\ j.pc = "send" /\ j.to = job[r].to /\ j.cands = job[r].cands
    <3>1. job[r] \in Jobs
      BY <1>2, Working
    <3> QED
      BY <3>1, JobFields
  <2> HIDE DEF j
  <2>3. Fits(r, j, out', whole')
    BY <1>1, <1>2, <2>1, <2>2, Working DEF Fits
  <2>4. Reaches(r, j)
    BY <1>1, <1>2, <2>1, <2>2, <2>3, Working DEF Reaches, JobTypes, NoMove
  <2> QED
    BY <2>4
<1> QED
  BY <1>1, <1>3, <1>4

(* The network takes the last part through the modem in use: it had not    *)
(* taken the item through it before.                                       *)
LEMMA TakenCopies ==
  ASSUME SendInv, NEW r \in Requests, job[r].pc = "send", Taken(r)
  PROVE  /\ CopyBy(Item(r), Modem(r)) /\ Modem(r) \in whole'[Item(r)]
         /\ \A x \in whole'[Item(r)] : x \in whole[Item(r)] \/ x = Modem(r)
<1>1. job[r].pc \notin {"idle", "done"}
  OBVIOUS
<1>2. Item(r) = <<r, Head(job[r].to)>> /\ Item(r) \in Items
  BY <1>1, Working DEF Item
<1>3. 1 \in DOMAIN job[r].cands /\ Modem(r) = job[r].cands[1]
  BY <1>1, Working
<1>4. Modem(r) \notin whole[Item(r)]
  BY <1>1, <1>2, <1>3, Working DEF Fits
<1>5. whole' = [whole EXCEPT ![Item(r)] = whole[Item(r)] \cup {Modem(r)}]
  BY DEF Taken
<1> QED
  BY <1>2, <1>4, <1>5 DEF CopyBy, SendInv, JobTypes

LEMMA AnsweredReaches ==
  ASSUME SendInv, NEW r \in Requests, Answered(r)
  PROVE  \E j : Reaches(r, j)
<1>1. job[r].pc = "send" /\ UNCHANGED <<strategy, rrIndex, charged>> /\ JobTypes
  BY DEF Answered, SendInv, poolVars
<1>2. job[r].pc \notin {"idle", "done"}
  BY <1>1
<1>3. Item(r) = <<r, Head(job[r].to)>> /\ Item(r) \in Items /\ out[Item(r)] = "pending"
  BY <1>1, <1>2, Working DEF Item, Fits
<1>4. CASE job[r].part < Parts
  <2> DEFINE j == [job[r] EXCEPT !.part = job[r].part + 1]
  <2>1. job' = [job EXCEPT ![r] = j] /\ out' = out /\ whole' = whole
    BY <1>4 DEF Answered
  <2>2. j \in Jobs /\ j.pc = "send" /\ j.to = job[r].to /\ j.cands = job[r].cands
    <3>1. job[r] \in Jobs
      BY <1>2, Working
    <3>2. job[r].part + 1 \in 1..Parts
      BY <1>4, <3>1, ConstantTypes DEF Jobs
    <3> QED
      BY <1>1, <3>1, <3>2 DEF Jobs
  <2> HIDE DEF j
  <2>3. Fits(r, j, out', whole')
    BY <1>1, <1>2, <2>1, <2>2, Working DEF Fits
  <2>4. Reaches(r, j)
    BY <1>1, <1>2, <2>1, <2>2, <2>3, Working DEF Reaches, JobTypes, NoMove
  <2> QED
    BY <2>4
<1>5. CASE ~(job[r].part < Parts)
  <2> DEFINE j == [job[r] EXCEPT !.pc = "record"]
  <2>1. job' = [job EXCEPT ![r] = j] /\ out' = [out EXCEPT ![Item(r)] = "accepted"] /\ Taken(r)
    BY <1>5 DEF Answered
  <2>2. j \in Jobs /\ j.pc = "record" /\ j.to = job[r].to /\ j.cands = job[r].cands
    BY <1>2, Working, JobFields
  <2> HIDE DEF j
  <2>3. CopyBy(Item(r), Modem(r)) /\ Modem(r) \in whole'[Item(r)]
    BY <1>1, <2>1, TakenCopies
  <2>4. ItemMove(Item(r), Modem(r))
    BY <1>1, <1>3, <2>1, <2>3 DEF ItemMove, Turns
  <2>5. Fits(r, j, out', whole')
    <3>1. out'[Item(r)] = "accepted"
      BY <1>1, <1>3, <2>1 DEF JobTypes
    <3>2. ASSUME NEW k \in DOMAIN job[r].to, k > 1 PROVE out'[<<r, job[r].to[k]>>] = "new"
      <4>1. <<r, job[r].to[k]>> # Item(r) /\ <<r, job[r].to[k]>> \in Items
        BY <1>2, <1>3, <3>2, Working DEF Items
      <4>2. out[<<r, job[r].to[k]>>] = "new"
        BY <1>2, <3>2, Working DEF Fits
      <4> QED
        BY <1>1, <2>1, <4>1, <4>2 DEF JobTypes
    <3>3. IsInjective(job[r].to) /\ IsInjective(job[r].cands)
      BY <1>2, Working DEF Fits
    <3> QED
      BY <1>3, <2>2, <2>3, <3>1, <3>2, <3>3 DEF Fits, Modem
  <2>6. Reaches(r, j)
    BY <1>1, <1>2, <1>3, <2>1, <2>2, <2>4, <2>5, Working DEF Reaches, JobTypes
  <2> QED
    BY <2>6
<1> QED
  BY <1>4, <1>5

LEMMA AnswerLostReaches ==
  ASSUME SendInv, NEW r \in Requests, AnswerLost(r)
  PROVE  \E j : Reaches(r, j)
<1> DEFINE j == [job[r] EXCEPT !.pc = "lost"]
<1>1. /\ job[r].pc = "send" /\ UNCHANGED <<strategy, rrIndex, out, charged>> /\ JobTypes
      /\ job' = [job EXCEPT ![r] = j]
      /\ Taken(r) \/ whole' = whole
  BY DEF AnswerLost, SendInv, poolVars
<1>2. job[r].pc \notin {"idle", "done"}
  BY <1>1
<1>3. Item(r) = <<r, Head(job[r].to)>> /\ Item(r) \in Items /\ out[Item(r)] = "pending"
  BY <1>1, <1>2, Working DEF Item, Fits
<1>4. j \in Jobs /\ j.pc = "lost" /\ j.to = job[r].to /\ j.cands = job[r].cands
  BY <1>2, Working, JobFields
<1> HIDE DEF j
<1>5. /\ NoMove \/ ItemMove(Item(r), Modem(r))
      /\ \A x \in whole'[Item(r)] : x \in whole[Item(r)] \/ x = Modem(r)
  <2>1. CASE Taken(r)
    BY <1>1, <1>3, <2>1, TakenCopies DEF ItemMove
  <2>2. CASE whole' = whole
    BY <1>1, <2>2 DEF NoMove
  <2> QED
    BY <1>1, <2>1, <2>2
<1>6. Fits(r, j, out', whole')
  <2>1. ASSUME NEW k \in DOMAIN job[r].cands, k > 1 PROVE job[r].cands[k] \notin whole'[Item(r)]
    <3>1. job[r].cands[k] # Modem(r)
      BY <1>2, <2>1, Working
    <3>2. job[r].cands[k] \notin whole[Item(r)]
      BY <1>1, <1>2, <1>3, <2>1, Working DEF Fits
    <3> QED
      BY <1>5, <3>1, <3>2
  <2>2. /\ IsInjective(job[r].to) /\ IsInjective(job[r].cands)
        /\ \A k \in DOMAIN job[r].to : k > 1 => out[<<r, job[r].to[k]>>] = "new"
    BY <1>2, Working DEF Fits
  <2> QED
    BY <1>1, <1>3, <1>4, <2>1, <2>2 DEF Fits
<1>7. Reaches(r, j)
  BY <1>1, <1>2, <1>3, <1>4, <1>5, <1>6, Working DEF Reaches, JobTypes
<1> QED
  BY <1>7

LEMMA RecordReaches ==
  ASSUME SendInv, NEW r \in Requests, Record(r)
  PROVE  \E j : Reaches(r, j)
<1>1. /\ job[r].pc = "record" /\ UNCHANGED <<strategy, rrIndex, whole>> /\ JobTypes
      /\ charged' = charged \cup {<<Item(r), Modem(r)>>}
      /\ out' = [out EXCEPT ![Item(r)] = "sent"] /\ Leave(r)
  BY DEF Record, SendInv, poolVars
<1>2. job[r].pc \notin {"idle", "done"}
  BY <1>1
<1>3. /\ Item(r) = <<r, Head(job[r].to)>> /\ Item(r) \in Items
      /\ out[Item(r)] = "accepted" /\ Modem(r) \in whole[Item(r)]
  BY <1>1, <1>2, Working DEF Item, Modem, Fits
<1>4. PICK j \in Jobs : /\ job' = [job EXCEPT ![r] = j] /\ Fits(r, j, out', whole')
                        /\ j.pc \notin {"idle", "done"} => j.to # <<>> /\ j.cands # <<>>
  BY <1>1, <1>2, LeaveFits
<1>5. ItemMove(Item(r), Modem(r))
  BY <1>1, <1>3 DEF ItemMove, Turns
<1>6. Reaches(r, j)
  BY <1>1, <1>2, <1>3, <1>4, <1>5, Working DEF Reaches, JobTypes
<1> QED
  BY <1>6
-----------------------------------------------------------------------------
(* The specification.                                                      *)

LEMMA TypeParts == TypeOK <=> JobTypes /\ LimitTypes
BY DEF TypeOK, JobTypes, LimitTypes

LEMMA InitInv ==
  ASSUME Init
  PROVE  SendInv /\ LimitInv
<1>1. JobTypes
  <2>1. rrIndex \in Nat
    BY ConstantTypes DEF Init, Modems
  <2>2. [pc |-> "idle", to |-> <<>>, cands |-> <<>>, part |-> 1] \in Jobs
    BY ConstantTypes, EmptySeq DEF Jobs
  <2>3. job \in [Requests -> Jobs] /\ \A r \in Requests : job[r].pc = "idle"
    BY <2>2 DEF Init
  <2> QED
    BY <2>1, <2>3 DEF Init, JobTypes
<1>2. JobsFit
  <2>1. SUFFICES ASSUME NEW r \in Requests PROVE Fits(r, job[r], out, whole)
    BY DEF JobsFit
  <2>2. job[r].pc = "idle" /\ job[r].to = <<>> /\ job[r].cands = <<>>
    BY DEF Init
  <2>3. \A d \in Dests : out[<<r, d>>] = "new"
    BY DEF Init, Items
  <2>4. DOMAIN <<>> = {}
    OBVIOUS
  <2> QED
    BY <2>2, <2>3, <2>4 DEF Fits, IsInjective
<1>3. NewIsUnsent
  BY DEF Init, NewIsUnsent
<1>4. ChargedIsSent
  <2>1. \A i \in Items : Charges(i) = {} /\ out[i] = "new"
    BY DEF Init, Charges
  <2> QED
    BY <2>1, ChargesDef, FS_EmptySet
<1>5. LimitTypes
  BY ConstantTypes DEF Init, LimitTypes
<1>6. HistoryKept
  BY FS_EmptySet DEF Init, HistoryKept, Remembered
<1>7. WindowsSlide
  <2>1. \A m \in Modems : \A t, len, d : Within(m, t, len) = {} /\ WithinTo(m, t, len, d) = {}
    BY DEF Init, Within, WithinTo
  <2> QED
    BY <2>1, WindowsDef, FS_EmptySet, ConstantTypes
<1> QED
  BY <1>1, <1>2, <1>3, <1>4, <1>5, <1>6, <1>7 DEF SendInv, LimitInv

(* Every action of a request, as a step of its goroutine.                  *)
LEMMA RequestReaches ==
  ASSUME SendInv, NEW r \in Requests, Submit(r) \/ Work(r)
  PROVE  \E j : Reaches(r, j)
<1>1. CASE \E d \in Dests : PoolRequest(r, d)
  BY <1>1, PoolRequestReaches
<1>2. CASE \E m \in Modems, ts \in Targets : DirectRequest(r, m, ts)
  BY <1>2, DirectRequestReaches
<1>3. CASE NextTarget(r)
  BY <1>3, NextTargetReaches
<1>4. CASE Check(r)
  BY <1>4, CheckReaches
<1>5. CASE Answered(r)
  BY <1>5, AnsweredReaches
<1>6. CASE Refused(r)
  <2>1. /\ job[r].pc \in {"check", "send", "lost"} /\ SendFails(r)
        /\ UNCHANGED <<strategy, rrIndex, whole, charged>>
    BY <1>6 DEF Refused, poolVars
  <2> QED
    BY <2>1, SendFailsReaches
<1>7. CASE AnswerLost(r)
  BY <1>7, AnswerLostReaches
<1>8. CASE Record(r)
  BY <1>8, RecordReaches
<1> QED
  BY <1>1, <1>2, <1>3, <1>4, <1>5, <1>6, <1>7, <1>8 DEF Submit, Work

(* Of the actions of a request, Check is the only one the limiter sees.    *)
LEMMA RequestLimits ==
  ASSUME SendInv, LimitInv, NEW r \in Requests, Submit(r) \/ Work(r)
  PROVE  LimitInv'
<1>1. CASE Check(r)
  <2>1. job[r].pc = "check" /\ now' = now
    BY <1>1 DEF Check
  <2>2. job[r].pc \notin {"idle", "done"}
    BY <2>1
  <2>3. PICK m \in Modems, d \in Dests : m = Modem(r) /\ d = Head(job[r].to)
    BY <2>2, Working
  <2>4. UNCHANGED limitVars \/ Exceeded(m, d) \/ Allowed(m, d)
    BY <1>1, <2>3 DEF Check
  <2>5. CASE UNCHANGED limitVars
    BY <2>1, <2>5, LimitStutter
  <2> QED
    BY <2>1, <2>4, <2>5, LimitExceeded, LimitAllowed
<1>2. CASE ~Check(r)
  <2>1. now' = now /\ UNCHANGED limitVars
    BY <1>2 DEF Submit, Work, PoolRequest, DirectRequest, NextTarget, Answered, Refused, AnswerLost, Record
  <2> QED
    BY <2>1, LimitStutter
<1> QED
  BY <1>1, <1>2

LEMMA NextInv ==
  ASSUME SendInv, LimitInv, [Next]_vars
  PROVE  SendInv' /\ LimitInv'
<1>1. CASE \E r \in Requests : Submit(r) \/ Work(r)
  <2>1. PICK r \in Requests : Submit(r) \/ Work(r)
    BY <1>1
  <2>2. PICK j : Reaches(r, j)
    BY <2>1, RequestReaches
  <2> QED
    BY <2>1, <2>2, ReachesKeeps, RequestLimits
<1>2. CASE Tick
  <2>1. /\ now < MaxNow /\ now' = now + 1 /\ UNCHANGED limitVars
        /\ UNCHANGED <<strategy, rrIndex, job, out, whole, charged>>
    BY <1>2 DEF Tick, poolVars
  <2>2. SendInv'
    BY <2>1 DEF SendInv, JobTypes, JobsFit, NewIsUnsent, ChargedIsSent
  <2> QED
    BY <2>1, <2>2, LimitTick
<1>3. CASE UNCHANGED vars
  <2>1. now' = now /\ UNCHANGED limitVars /\ UNCHANGED <<strategy, rrIndex, job, out, whole, charged>>
    BY <1>3 DEF vars, poolVars
  <2>2. SendInv'
    BY <2>1 DEF SendInv, JobTypes, JobsFit, NewIsUnsent, ChargedIsSent
  <2>3. LimitInv'
    BY <2>1, LimitStutter
  <2> QED
    BY <2>2, <2>3
<1> QED
  BY <1>1, <1>2, <1>3 DEF Next

LEMMA SendInvariant == Spec => [](SendInv /\ LimitInv)
<1>1. Init => SendInv /\ LimitInv
  BY InitInv
<1>2. (SendInv /\ LimitInv) /\ [Next]_vars => (SendInv /\ LimitInv)'
  BY NextInv
<1> QED
  BY <1>1, <1>2, PTL DEF Spec

(* Type correctness of the pool, the jobs and the limiter.                 *)
THEOREM SendTypeCorrect == Spec => []TypeOK
<1>1. SendInv /\ LimitInv => TypeOK
  BY TypeParts DEF SendInv, LimitInv
<1> QED
  BY <1>1, SendInvariant, PTL

(* RecordSMS charges a message to one modem, one through which all of it   *)
(* was sent, and only when it has been answered.                           *)
THEOREM ChargedOnce == Spec => []ChargedIsSent
<1>1. SendInv /\ LimitInv => ChargedIsSent
  BY DEF SendInv
<1> QED
  BY <1>1, SendInvariant, PTL

(* The limiter of a modem lets no more checks pass in any interval of the  *)
(* length of a window than the window's limit, whatever the number of      *)
(* requests, the recipients and the times.                                 *)
THEOREM LimitsHold == Spec => []WindowsSlide
<1>1. SendInv /\ LimitInv => WindowsSlide
  BY DEF LimitInv
<1> QED
  BY <1>1, SendInvariant, PTL

(* A copy of item i adds one to the count of its copies, which the number  *)
(* of modems bounds.                                                       *)
LEMMA CopyCounts ==
  ASSUME JobTypes, NEW i \in Items, NEW m \in Modems, CopyBy(i, m)
  PROVE  /\ Cardinality(whole[i]) \in Nat /\ Cardinality(whole[i]) < NModems
         /\ Cardinality(whole'[i]) = Cardinality(whole[i]) + 1
         /\ \A k \in Items \ {i} : whole'[k] = whole[k]
<1>1. /\ m \notin whole[i] /\ whole[i] \subseteq Modems /\ whole'[i] = whole[i] \cup {m}
      /\ \A k \in Items \ {i} : whole'[k] = whole[k]
  BY DEF CopyBy, JobTypes
<1>2. IsFiniteSet(whole[i]) /\ Cardinality(whole[i]) \in Nat
  BY <1>1, ModemsFinite
<1>3. Cardinality(whole'[i]) = Cardinality(whole[i]) + 1
  BY <1>1, <1>2, FS_AddElement
<1>4. Cardinality(whole'[i]) <= NModems
  <2>1. whole'[i] \in SUBSET Modems
    BY <1>1
  <2> QED
    BY <2>1, ModemsFinite, FS_Subset
<1>5. Cardinality(whole[i]) < NModems
  BY <1>2, <1>3, <1>4, ConstantTypes
<1> QED
  BY <1>1, <1>2, <1>3, <1>5

(* A move of an item is a step of the promise.                             *)
LEMMA ItemMoveRefines ==
  ASSUME JobTypes, NEW i \in Items, NEW m \in Modems, ItemMove(i, m)
  PROVE  Abs!AbsNext
<1> DEFINE copies == [k \in Items |-> Cardinality(whole[k])]
<1>1. UNCHANGED whole => copies' = copies
  OBVIOUS
<1>2. CopyBy(i, m) => copies[i] < NModems /\ copies' = [copies EXCEPT ![i] = copies[i] + 1]
  <2>1. SUFFICES ASSUME CopyBy(i, m)
                 PROVE  copies[i] < NModems /\ copies' = [copies EXCEPT ![i] = copies[i] + 1]
    OBVIOUS
  <2>2. /\ Cardinality(whole[i]) < NModems /\ Cardinality(whole'[i]) = Cardinality(whole[i]) + 1
        /\ \A k \in Items \ {i} : whole'[k] = whole[k]
    BY <2>1, CopyCounts
  <2> QED
    BY <2>2
<1>3. CASE Turns(i, "new", "pending") /\ UNCHANGED <<whole, charged>>
  <2>1. Abs!Submit(i)
    BY <1>1, <1>3 DEF Turns, Abs!Submit, Abs!Becomes
  <2> QED
    BY <2>1 DEF Abs!AbsNext
<1>4. CASE out[i] = "pending" /\ CopyBy(i, m) /\ UNCHANGED <<out, charged>>
  <2>1. Abs!LoseAck(i)
    BY <1>2, <1>4 DEF Abs!LoseAck, Abs!Copy
  <2> QED
    BY <2>1 DEF Abs!AbsNext
<1>5. CASE Turns(i, "pending", "accepted") /\ CopyBy(i, m) /\ UNCHANGED charged
  <2>1. Abs!Accept(i)
    BY <1>2, <1>5 DEF Turns, Abs!Accept, Abs!Becomes, Abs!Copy
  <2> QED
    BY <2>1 DEF Abs!AbsNext
<1>6. CASE Turns(i, "pending", "failed") /\ UNCHANGED <<whole, charged>>
  <2>1. Abs!Fail(i)
    BY <1>1, <1>6 DEF Turns, Abs!Fail, Abs!Becomes
  <2> QED
    BY <2>1 DEF Abs!AbsNext
<1>7. CASE Turns(i, "accepted", "sent") /\ UNCHANGED whole
  <2>1. Abs!Report(i)
    BY <1>1, <1>7 DEF Turns, Abs!Report, Abs!Becomes
  <2> QED
    BY <2>1 DEF Abs!AbsNext
<1> QED
  BY <1>3, <1>4, <1>5, <1>6, <1>7 DEF ItemMove

(* Every step of the outgoing path is a step of the promise or changes     *)
(* nothing of it.                                                          *)
LEMMA NextRefines ==
  ASSUME SendInv, [Next]_vars
  PROVE  [Abs!AbsNext]_(Abs!absVars)
<1>1. CASE \E r \in Requests : Submit(r) \/ Work(r)
  <2>1. PICK r \in Requests : Submit(r) \/ Work(r)
    BY <1>1
  <2>2. PICK j : Reaches(r, j)
    BY <2>1, RequestReaches
  <2>3. CASE NoMove
    BY <2>3 DEF NoMove, Abs!absVars
  <2>4. CASE \E d \in Dests, m \in Modems : ItemMove(<<r, d>>, m)
    <3>1. PICK d \in Dests, m \in Modems : ItemMove(<<r, d>>, m)
      BY <2>4
    <3>2. <<r, d>> \in Items /\ JobTypes
      BY DEF Items, SendInv
    <3> QED
      BY <3>1, <3>2, ItemMoveRefines
  <2> QED
    BY <2>2, <2>3, <2>4 DEF Reaches
<1>2. CASE Tick \/ UNCHANGED vars
  <2>1. UNCHANGED <<out, whole>>
    BY <1>2 DEF Tick, vars
  <2> QED
    BY <2>1 DEF Abs!absVars
<1> QED
  BY <1>1, <1>2 DEF Next

(* The pool, the requests to one modem and SMSService.Send keep the        *)
(* promise of OutgoingSMS for every item: sent means that the network has  *)
(* taken all parts through one modem that answered, and no copy follows.   *)
THEOREM PromiseKept == Spec => KeepsPromise
<1>1. Init => Abs!AbsInit
  <2>1. SUFFICES ASSUME Init PROVE Abs!AbsInit
    OBVIOUS
  <2>2. out = [i \in Items |-> "new"] /\ \A i \in Items : whole[i] = {}
    BY <2>1 DEF Init
  <2>3. [i \in Items |-> Cardinality(whole[i])] = [i \in Items |-> 0]
    BY <2>2, FS_EmptySet
  <2> QED
    BY <2>2, <2>3 DEF Abs!AbsInit
<1>2. SendInv /\ [Next]_vars => [Abs!AbsNext]_(Abs!absVars)
  BY NextRefines
<1> QED
  BY <1>1, <1>2, SendInvariant, PTL DEF Spec, KeepsPromise, Abs!AbsSpec
=============================================================================
