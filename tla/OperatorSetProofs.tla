--------------------------- MODULE OperatorSetProofs ---------------------------
(***************************************************************************)
(* Proofs about the operator set: how Discovery.GetOperators collects it       *)
(* (module OperatorDiscovery) and what the StakeIndexer makes of it (module     *)
(* StakeSnapshots, whose variables get names of their own here).  The merge of  *)
(* the quorums and the sum of the stakes are both folds, so the first part is    *)
(* about folds: an induction over the subsets of a finite set, by way of a       *)
(* smallest counterexample, and the function a fold computes.                   *)
(***************************************************************************)
EXTENDS OperatorDiscovery, FiniteSetTheorems, SequenceTheorems, NaturalsInduction,
        WellFoundedInduction, TLAPS

CONSTANTS Stakes, SnapshotQuorums, MaxKills

VARIABLES stake, indexerPc, asked, snapshotQuorum, todo, stakes, totalStake, snapshots,
          seen, failed, kills

StakeIndexer ==
    INSTANCE StakeSnapshots
        WITH NumQuorums <- SnapshotQuorums, pc <- indexerPc, operators <- asked,
             quorum <- snapshotQuorum

(* Induction: of the sets that have a property, one has no proper subset     *)
(* with it.  Taken for the counterexamples of a claim about the results of a *)
(* loop, it proves the claim.                                                *)
LEMMA MinimalSet ==
    ASSUME NEW S, IsFiniteSet(S), NEW F, F \subseteq SUBSET S, F # {}
    PROVE  \E U \in F : \A V \in F : V \subseteq U => V = U
<1>1. F \subseteq FiniteSubsetsOf(S)
  BY FS_FiniteSubsetsOfFinite
<1>2. PICK U \in F : \A V \in F : ~(<<V, U>> \in StrictSubsetOrdering(S))
  BY <1>1, FS_StrictSubsetOrderingWellFounded, WFMin
<1>3. \A V \in F : V \subseteq U => V = U
  BY <1>2, Zenon DEF StrictSubsetOrdering
<1> QED BY <1>3

(* A set of numbers has a least one.                                         *)
LEMMA LeastNumber ==
    ASSUME NEW T \in SUBSET Nat, NEW b \in T
    PROVE  \E n \in T : \A m \in T : n <= m
<1>1. PICK n \in T : \A m \in T : ~(<<m, n>> \in OpToRel(<, Nat))
  BY NatLessThanWellFounded, WFMin, Zenon
<1>2. \A m \in T : ~(m < n)
  BY <1>1 DEF OpToRel
<1> QED BY <1>2

(* Max, the choice FoldLeft makes, picks a member.                           *)
LEMMA MaxIsMember ==
    ASSUME NEW n \in Nat, NEW S \in SUBSET (1..n), S # {}
    PROVE  Max(S) \in S
<1> DEFINE T == {n - x : x \in S}
<1>1. PICK y \in S : TRUE
  OBVIOUS
<1>2. T \in SUBSET Nat /\ n - y \in T
  OBVIOUS
<1>3. PICK d \in T : \A e \in T : d <= e
  <2> HIDE DEF T
  <2> QED BY <1>2, LeastNumber
<1>4. PICK x \in S : d = n - x
  BY <1>3
<1>5. \A z \in S : x >= z
  BY <1>3, <1>4
<1> QED BY <1>5 DEF Max

-----------------------------------------------------------------------------
\* The subsets of D of at most n elements.
Small(D, n) == {s \in SUBSET D : Cardinality(s) <= n}

\* g is the result of the fold of h over each set of Dom, whose elements c chooses.
Solves(g, Dom, base, c, h) ==
    \A s \in Dom : g[s] = IF s = {} THEN base ELSE h[<<c[s], g[s \ {c[s]}]>>]

(* The recursive function inside MapThenFoldSet exists: what a loop over a   *)
(* finite set computes is determined, one element after the other.           *)
LEMMA FoldExists ==
    ASSUME NEW D, IsFiniteSet(D), NEW V, NEW base \in V,
           NEW c, \A s \in SUBSET D : s # {} => c[s] \in s,
           NEW h \in [D \X V -> V]
    PROVE  \E g \in [SUBSET D -> V] : Solves(g, SUBSET D, base, c, h)
<1> DEFINE T == {n \in Nat : ~ \E g \in [Small(D, n) -> V] : Solves(g, Small(D, n), base, c, h)}
<1>0. \A s \in SUBSET D : IsFiniteSet(s) /\ Cardinality(s) \in Nat
  BY FS_Subset, FS_CardinalityType
<1>a. \A s \in SUBSET D : s # {} => Cardinality(s \ {c[s]}) = Cardinality(s) - 1
  BY <1>0, FS_RemoveElement
<1>1. ASSUME NEW b \in T PROVE FALSE
  <2>1. PICK n \in T : \A m \in T : n <= m
    BY LeastNumber
  <2>2. CASE n = 0
    <3>1. \A s \in Small(D, 0) : s = {}
      BY <1>0, FS_EmptySet DEF Small
    <3> DEFINE g == [s \in Small(D, 0) |-> base]
    <3>2. g \in [Small(D, 0) -> V] /\ Solves(g, Small(D, 0), base, c, h)
      BY <3>1 DEF Solves
    <3> QED BY <2>2, <3>2
  <2>3. CASE n > 0
    <3>1. n - 1 \in Nat /\ n - 1 \notin T
      BY <2>1, <2>3
    <3>2. PICK g \in [Small(D, n - 1) -> V] : Solves(g, Small(D, n - 1), base, c, h)
      BY <3>1
    <3> DEFINE k == [s \in Small(D, n) |-> IF s = {} THEN base ELSE h[<<c[s], g[s \ {c[s]}]>>]]
    <3>3. ASSUME NEW s \in Small(D, n), s # {}
          PROVE  s \ {c[s]} \in Small(D, n - 1) /\ s \ {c[s]} \in Small(D, n) /\ c[s] \in D
      <4>1. s \in SUBSET D /\ Cardinality(s) <= n
        BY DEF Small
      <4>2. Cardinality(s \ {c[s]}) = Cardinality(s) - 1 /\ Cardinality(s) \in Nat
        BY <1>0, <1>a, <4>1, <3>3
      <4> QED BY <4>1, <4>2, <3>3 DEF Small
    <3>4. k \in [Small(D, n) -> V]
      BY <3>2, <3>3
    <3>5. \A s \in Small(D, n - 1) : s \in Small(D, n) /\ k[s] = g[s]
      <4>1. \A s \in Small(D, n - 1) : s \in Small(D, n)
        BY <1>0 DEF Small
      <4> QED BY <4>1, <3>2 DEF Solves
    <3>6. Solves(k, Small(D, n), base, c, h)
      BY <3>3, <3>5 DEF Solves
    <3> QED BY <3>4, <3>6
  <2> QED BY <2>2, <2>3
<1>2. Cardinality(D) \in Nat /\ Cardinality(D) \notin T
  BY <1>1, FS_CardinalityType
<1>3. Small(D, Cardinality(D)) = SUBSET D
  BY FS_Subset DEF Small
<1>4. \E g \in [Small(D, Cardinality(D)) -> V] : Solves(g, Small(D, Cardinality(D)), base, c, h)
  BY <1>2
<1> HIDE DEF T
<1> QED BY <1>3, <1>4

-----------------------------------------------------------------------------
\* One turn of the loop of GetOperators over the operators of a quorum.
Add(acc, o) == IF Contains(acc, o) THEN acc ELSE Append(acc, o)

\* g[s] is the result of the turns for the indices of s.
MergeRec(g, all, ops) ==
   g = [s \in SUBSET DOMAIN ops |->
             IF s = {} THEN all ELSE Add(g[s \ {Max(s)}], ops[Max(s)])]

(* Merge is the last of the results of its turns.                            *)
LEMMA MergeDef ==
   ASSUME NEW all, NEW ops
   PROVE Merge(all, ops) = (CHOOSE g : MergeRec(g, all, ops))[DOMAIN ops]
  BY DEF Merge, FoldLeft, MapThenFoldSet, MergeRec, Add

(* Those results exist, and each comes from the one before by one turn.      *)
LEMMA MergeIterates ==
    ASSUME NEW all \in Seq(Operators), NEW ops \in Seq(Operators)
    PROVE  \E g : Merge(all, ops) = g[DOMAIN ops] /\ MergeRec(g, all, ops)
<1> DEFINE D == DOMAIN ops
           c == [s \in SUBSET D |-> Max(s)]
           h == [p \in D \X Seq(Operators) |-> Add(p[2], ops[p[1]])]
<1>1. D = 1..Len(ops) /\ Len(ops) \in Nat /\ IsFiniteSet(D)
  BY LenProperties, FS_Interval
<1>2. \A s \in SUBSET D : s # {} => c[s] \in s
  BY <1>1, MaxIsMember
<1>3. \A i \in D : ops[i] \in Operators
  BY <1>1, ElementOfSeq
<1>4. h \in [D \X Seq(Operators) -> Seq(Operators)]
  <2>1. \A v \in Seq(Operators), i \in D : Add(v, ops[i]) \in Seq(Operators)
    BY <1>3 DEF Add
  <2> QED BY <2>1
<1>5. PICK g \in [SUBSET D -> Seq(Operators)] : Solves(g, SUBSET D, all, c, h)
  <2> HIDE DEF c, h, D
  <2> QED BY <1>1, <1>2, <1>4, FoldExists
<1>6. MergeRec(g, all, ops)
  <2>1. ASSUME NEW s \in SUBSET D, s # {}
        PROVE  g[s] = Add(g[s \ {Max(s)}], ops[Max(s)])
    <3>1. c[s] = Max(s) /\ Max(s) \in D
      BY <1>2, <2>1
    <3>2. g[s \ {Max(s)}] \in Seq(Operators)
      OBVIOUS
    <3>3. g[s] = h[<<Max(s), g[s \ {Max(s)}]>>]
      BY <1>5, <2>1, <3>1 DEF Solves
    <3> QED BY <3>1, <3>2, <3>3
  <2>2. g[{}] = all
    BY <1>5 DEF Solves
  <2> QED BY <1>5, <2>1, <2>2 DEF MergeRec
<1> QED BY <1>6, MergeDef

\* w is v with o after its last operator.
WithOneMore(w, v, o) ==
    /\ w \in Seq(Operators)
    /\ DOMAIN w = 1..(Len(v) + 1)
    /\ w[Len(v) + 1] = o /\ \A i \in 1..Len(v) : w[i] = v[i]
    /\ Range(w) = Range(v) \cup {o}

(* What appending an operator does, index by index.                          *)
LEMMA AppendsOne ==
    ASSUME NEW v \in Seq(Operators), NEW o \in Operators, NEW w, w = Append(v, o)
    PROVE  WithOneMore(w, v, o)
<1>0. DOMAIN v = 1..Len(v) /\ Len(v) \in Nat
  BY LenProperties
<1>1. w \in Seq(Operators) /\ DOMAIN w = 1..(Len(v) + 1)
  OBVIOUS
<1>2. w[Len(v) + 1] = o /\ \A i \in 1..Len(v) : w[i] = v[i]
  BY <1>0
<1>3. Range(w) = Range(v) \cup {o}
  <2>1. \A i \in 1..(Len(v) + 1) : i \in 1..Len(v) \/ i = Len(v) + 1
    BY <1>0
  <2>2. \A i \in 1..Len(v) : i \in 1..(Len(v) + 1)
    BY <1>0
  <2>3. Len(v) + 1 \in 1..(Len(v) + 1)
    BY <1>0
  <2> QED BY <1>0, <1>1, <1>2, <2>1, <2>2, <2>3 DEF Range
<1> QED BY <1>1, <1>2, <1>3 DEF WithOneMore

(* One turn of the merge adds at most its operator, and no duplicate.        *)
LEMMA AddProperties ==
    ASSUME NEW v \in Seq(Operators), NEW o \in Operators
    PROVE  /\ Add(v, o) \in Seq(Operators)
           /\ Range(Add(v, o)) = Range(v) \cup {o}
           /\ IsInjective(v) => IsInjective(Add(v, o))
<1>0. DOMAIN v = 1..Len(v) /\ Len(v) \in Nat
  BY LenProperties
<1>1. CASE Contains(v, o)
  <2>1. o \in Range(v)
    BY <1>0, <1>1 DEF Contains, Range
  <2> QED BY <1>1, <2>1 DEF Add
<1>2. CASE ~Contains(v, o)
  <2>1. PICK w : w = Append(v, o)
    OBVIOUS
  <2>2. WithOneMore(w, v, o)
    BY <2>1, AppendsOne
  <2>3. IsInjective(v) => IsInjective(w)
    BY <1>0, <1>2, <2>2 DEF WithOneMore, IsInjective, Contains
  <2>4. Add(v, o) = w
    BY <1>2, <2>1 DEF Add
  <2> QED BY <2>2, <2>3, <2>4 DEF WithOneMore
<1> QED BY <1>1, <1>2

(* The merge of GetOperators: the operators of both lists and no others, and *)
(* no duplicate that was not there before.                                   *)
LEMMA MergeProperties ==
    ASSUME NEW all \in Seq(Operators), NEW ops \in Seq(Operators)
    PROVE  /\ Merge(all, ops) \in Seq(Operators)
           /\ Range(Merge(all, ops)) = Range(all) \cup Range(ops)
           /\ IsInjective(all) => IsInjective(Merge(all, ops))
<1> DEFINE D == DOMAIN ops
<1>1. PICK g : Merge(all, ops) = g[D] /\ MergeRec(g, all, ops)
  BY MergeIterates
<1> DEFINE Good(s) == /\ g[s] \in Seq(Operators)
                      /\ Range(g[s]) = Range(all) \cup {ops[i] : i \in s}
                      /\ IsInjective(all) => IsInjective(g[s])
           Bad == {s \in SUBSET D : ~Good(s)}
<1>2. D = 1..Len(ops) /\ Len(ops) \in Nat /\ IsFiniteSet(D)
  BY LenProperties, FS_Interval
<1>3. ASSUME Bad # {} PROVE FALSE
  <2>1. PICK s \in Bad : \A t \in Bad : t \subseteq s => t = s
    <3>1. Bad \subseteq SUBSET D
      OBVIOUS
    <3>2. IsFiniteSet(D)
      BY <1>2
    <3> HIDE DEF Bad, D, Good
    <3> QED BY <1>3, <3>1, <3>2, MinimalSet
  <2>2. s # {}
    BY <1>1 DEF MergeRec
  <2> DEFINE m == Max(s)
             t == s \ {m}
  <2>3. m \in s
    BY <1>2, <2>2, MaxIsMember
  <2>4. Good(t)
    <3>1. t \in SUBSET D /\ t # s /\ t \subseteq s
      BY <2>1, <2>3
    <3> HIDE DEF Good, t
    <3> QED BY <2>1, <3>1
  <2>5. ops[m] \in Operators
    BY <2>3, <1>2, ElementOfSeq
  <2>6. g[s] = Add(g[t], ops[m])
    BY <1>1, <2>2 DEF MergeRec
  <2>7. {ops[i] : i \in s} = {ops[i] : i \in t} \cup {ops[m]}
    BY <2>3
  <2>9. Good(s)
    <3> HIDE DEF m, t
    <3>1. /\ g[s] \in Seq(Operators)
          /\ Range(g[s]) = Range(g[t]) \cup {ops[m]}
          /\ IsInjective(g[t]) => IsInjective(g[s])
      BY <2>4, <2>5, <2>6, AddProperties
    <3>2. Range(g[s]) = Range(all) \cup {ops[i] : i \in s}
      BY <2>4, <2>7, <3>1
    <3> QED BY <2>4, <3>1, <3>2
  <2> QED BY <2>1, <2>9
<1>4. Good(D)
  BY <1>3
<1>5. Range(ops) = {ops[i] : i \in D}
  BY DEF Range
<1> QED BY <1>1, <1>4, <1>5
-----------------------------------------------------------------------------
(* A quorum's list without the index i, which its last operator takes, keeps *)
(* every other operator at its index and gets no duplicate.                  *)
LEMMA GiveUpIndex ==
    ASSUME NEW s \in Seq(Operators), NEW i \in DOMAIN s
    PROVE  LET t == Front([s EXCEPT ![i] = Last(s)])
           IN  /\ t \in Seq(Operators)
               /\ \A j \in DOMAIN s :
                     s[j] \notin {s[i], Last(s)} => j \in DOMAIN t /\ t[j] = s[j]
               /\ IsInjective(s) => IsInjective(t)
<1> DEFINE u == [s EXCEPT ![i] = Last(s)]
           t == Front(u)
           n == Len(s)
<1>1. n \in Nat \ {0} /\ DOMAIN s = 1..n /\ i \in 1..n
  BY LenProperties
<1>2. Last(s) = s[n] /\ Last(s) \in Operators
  BY <1>1, ElementOfSeq DEF Last
<1>3. u \in Seq(Operators) /\ Len(u) = n /\ \A j \in 1..n : u[j] = IF j = i THEN Last(s) ELSE s[j]
  BY <1>1, <1>2, ExceptSeq
<1>4. t = SubSeq(u, 1, n - 1)
  BY <1>3 DEF Front
<1> HIDE DEF u, t, n
<1>5. \A j \in 1..(n - 1) : u[j] \in Operators
  BY <1>1, <1>3, ElementOfSeq
<1>6. t \in Seq(Operators) /\ Len(t) = n - 1 /\ \A j \in 1..(n - 1) : t[j] = u[j]
  <2>1. n - 1 \in Int /\ 1 \in Int
    BY <1>1
  <2>2. /\ t \in Seq(Operators)
        /\ Len(t) = IF 1 <= n - 1 THEN n - 1 - 1 + 1 ELSE 0
        /\ \A j \in 1..(n - 1 - 1 + 1) : t[j] = u[1 + j - 1]
    BY <1>4, <1>5, <2>1, SubSeqProperties
  <2>3. n - 1 - 1 + 1 = n - 1 /\ \A j \in 1..(n - 1) : 1 + j - 1 = j
    BY <1>1
  <2>4. Len(t) = n - 1
    BY <1>1, <2>2
  <2> QED BY <2>2, <2>3, <2>4
<1>7. DOMAIN t = 1..(n - 1)
  BY <1>6, LenProperties
<1>8. ASSUME NEW j \in DOMAIN s, s[j] \notin {s[i], Last(s)}
      PROVE  j \in DOMAIN t /\ t[j] = s[j]
  <2>1. j \in 1..(n - 1) /\ j # i
    BY <1>1, <1>2, <1>8
  <2> QED BY <1>3, <1>1, <1>6, <1>7, <2>1
<1>9. ASSUME IsInjective(s), NEW a \in DOMAIN t, NEW b \in DOMAIN t, t[a] = t[b]
      PROVE  a = b
  <2>1. a \in 1..(n - 1) /\ b \in 1..(n - 1) /\ u[a] = u[b]
    BY <1>6, <1>7, <1>9
  <2>2. a # n /\ b # n /\ n \in DOMAIN s /\ a \in DOMAIN s /\ b \in DOMAIN s
    BY <1>1, <2>1
  <2>3. /\ u[a] = IF a = i THEN s[n] ELSE s[a]
        /\ u[b] = IF b = i THEN s[n] ELSE s[b]
    BY <1>1, <1>2, <1>3, <2>1
  <2> QED BY <1>9, <2>1, <2>2, <2>3, Zenon DEF IsInjective
<1>10. IsInjective(s) => IsInjective(t)
  BY <1>9 DEF IsInjective
<1> QED BY <1>6, <1>8, <1>10 DEF t, u

(* A quorum's list with one more operator keeps the others at their index.   *)
LEMMA TakeIndex ==
    ASSUME NEW s \in Seq(Operators), NEW o \in Operators
    PROVE  LET t == Append(s, o)
           IN  /\ t \in Seq(Operators)
               /\ \A j \in DOMAIN s : j \in DOMAIN t /\ t[j] = s[j]
OBVIOUS
-----------------------------------------------------------------------------
(* How a call stands between two of its steps.                               *)
CallInv ==
    \A c \in Callers :
        /\ pc[c] = "idle" => quorum[c] = 1
        /\ pc[c] # "index" => index[c] = 1
        /\ pc[c] = "index" => quorum[c] \in Quorums

TypeInv == TypeOK /\ CallInv

LEMMA QuorumFacts == /\ NumQuorums \in Nat \ {0} /\ Quorums = 1..NumQuorums
                     /\ 1 \in Quorums
                     /\ \A q \in Quorums : q \in 1..(NumQuorums + 1) /\ q + 1 \in 1..(NumQuorums + 1)
BY QuorumsAssumption DEF Quorums

LEMMA TypeInit == Init => TypeInv
<1> SUFFICES ASSUME Init PROVE TypeInv
  OBVIOUS
<1>1. 1 \in 1..(NumQuorums + 1) /\ 0 \in Nat /\ 1 \in Nat \ {0}
  BY QuorumFacts
<1>2. \A S : <<>> \in Seq(S)
  BY EmptySeq
<1> QED BY <1>1, <1>2 DEF Init, TypeInv, TypeOK, CallInv

LEMMA TypeRegister ==
    ASSUME TypeInv, NEW o \in Operators, NEW q \in Quorums, Register(o, q)
    PROVE  TypeInv'
<1> USE DEF TypeInv, TypeOK
<1>1. registry[q] \in Seq(Operators)
  OBVIOUS
<1>2. Append(registry[q], o) \in Seq(Operators)
  BY <1>1
<1>3. registry' \in [Quorums -> Seq(Operators)]
  BY <1>2 DEF Register
<1> QED BY <1>3 DEF Register, callVars, CallInv

LEMMA TypeDeregister ==
    ASSUME TypeInv, NEW q \in Quorums, NEW i \in DOMAIN registry[q], Deregister(i, q)
    PROVE  TypeInv'
<1> USE DEF TypeInv, TypeOK
<1>1. registry[q] \in Seq(Operators)
  OBVIOUS
<1>2. Front([registry[q] EXCEPT ![i] = Last(registry[q])]) \in Seq(Operators)
  BY <1>1, GiveUpIndex
<1>3. registry' \in [Quorums -> Seq(Operators)]
  BY <1>2 DEF Deregister
<1>4. owed' \in [Callers -> SUBSET Operators]
  BY DEF Deregister
<1> QED BY <1>3, <1>4 DEF Deregister, callVars, CallInv

LEMMA TypeStartFetch ==
    ASSUME TypeInv, NEW c \in Callers, StartFetch(c)
    PROVE  TypeInv'
<1> USE DEF TypeInv, TypeOK
<1>1. Registered \subseteq Operators
  <2>1. \A q \in Quorums : \A i \in DOMAIN registry[q] : registry[q][i] \in Operators
    BY LenProperties, ElementOfSeq
  <2> QED BY <2>1 DEF Registered, Range
<1>2. owed' \in [Callers -> SUBSET Operators]
  BY <1>1 DEF StartFetch
<1>3. pc' \in [Callers -> {"idle", "total", "index"}]
  BY DEF StartFetch
<1>4. CallInv'
  BY DEF StartFetch, CallInv
<1> QED BY <1>2, <1>3, <1>4 DEF StartFetch

LEMMA TypeReadTotal ==
    ASSUME TypeInv, NEW c \in Callers, ReadTotal(c)
    PROVE  TypeInv'
<1> USE DEF TypeInv, TypeOK
<1>1. Len(registry[quorum[c]]) \in Nat
  BY LenProperties DEF ReadTotal
<1>2. total' \in [Callers -> Nat]
  BY <1>1 DEF ReadTotal
<1>3. pc' \in [Callers -> {"idle", "total", "index"}]
  BY DEF ReadTotal
<1>4. CallInv'
  BY DEF ReadTotal, CallInv
<1> QED BY <1>2, <1>3, <1>4 DEF ReadTotal

LEMMA TypeReadIndex ==
    ASSUME TypeInv, NEW c \in Callers, ReadIndex(c)
    PROVE  TypeInv'
<1> USE DEF TypeInv, TypeOK
<1> DEFINE listed == registry[quorum[c]]
<1>1. listed \in Seq(Operators)
  BY DEF ReadIndex, CallInv
<1>2. index[c] \in Nat \ {0} /\ operators[c] \in Seq(Operators)
  OBVIOUS
<1>3. operators' \in [Callers -> Seq(Operators)]
  <2>1. CASE index[c] <= Len(listed) /\ listed[index[c]] \notin Socketless
    <3>1. listed[index[c]] \in Operators
      BY <1>1, <1>2, <2>1, ElementOfSeq, LenProperties
    <3>2. Append(operators[c], listed[index[c]]) \in Seq(Operators)
      BY <1>2, <3>1
    <3> QED BY <2>1, <3>2 DEF ReadIndex
  <2> QED BY <2>1 DEF ReadIndex
<1>4. index' \in [Callers -> Nat \ {0}]
  BY <1>2 DEF ReadIndex
<1>5. CallInv'
  BY DEF ReadIndex, CallInv
<1> QED BY <1>3, <1>4, <1>5 DEF ReadIndex

LEMMA TypeSkipIndex ==
    ASSUME TypeInv, NEW c \in Callers, SkipIndex(c)
    PROVE  TypeInv'
<1> USE DEF TypeInv, TypeOK
<1>1. index' \in [Callers -> Nat \ {0}]
  BY DEF SkipIndex
<1>2. owed' \in [Callers -> SUBSET Operators]
  BY DEF SkipIndex
<1>3. CallInv'
  BY DEF SkipIndex, CallInv
<1> QED BY <1>1, <1>2, <1>3 DEF SkipIndex

LEMMA TypeEndQuorum ==
    ASSUME TypeInv, NEW c \in Callers, EndQuorum(c)
    PROVE  TypeInv'
<1> USE DEF TypeInv, TypeOK
<1>1. Merge(found[c], operators[c]) \in Seq(Operators)
  BY MergeProperties
<1>2. found' \in [Callers -> Seq(Operators)]
  BY <1>1 DEF EndQuorum
<1>3. quorum[c] + 1 \in 1..(NumQuorums + 1)
  BY QuorumFacts DEF EndQuorum, CallInv
<1>4. quorum' \in [Callers -> 1..(NumQuorums + 1)]
  BY <1>3 DEF EndQuorum
<1>5. /\ total' \in [Callers -> Nat] /\ index' \in [Callers -> Nat \ {0}]
      /\ pc' \in [Callers -> {"idle", "total", "index"}]
  BY DEF EndQuorum
<1>6. operators' \in [Callers -> Seq(Operators)]
  BY EmptySeq DEF EndQuorum
<1>7. CallInv'
  BY DEF EndQuorum, CallInv
<1> QED BY <1>2, <1>4, <1>5, <1>6, <1>7 DEF EndQuorum

LEMMA TypeEndFetch ==
    ASSUME TypeInv, NEW c \in Callers, EndFetch(c)
    PROVE  TypeInv'
<1> USE DEF TypeInv, TypeOK
<1>1. cache' \in Seq(Operators) /\ fresh' \in BOOLEAN
  BY DEF EndFetch
<1>2. found' \in [Callers -> Seq(Operators)]
  BY EmptySeq DEF EndFetch
<1>3. 1 \in 1..(NumQuorums + 1)
  BY QuorumFacts
<1>4. /\ quorum' \in [Callers -> 1..(NumQuorums + 1)]
      /\ pc' \in [Callers -> {"idle", "total", "index"}]
      /\ owed' \in [Callers -> SUBSET Operators]
  BY <1>3 DEF EndFetch
<1>5. CallInv'
  BY DEF EndFetch, CallInv
<1> QED BY <1>1, <1>2, <1>4, <1>5 DEF EndFetch

LEMMA TypeNext == TypeInv /\ [Next]_vars => TypeInv'
<1> SUFFICES ASSUME TypeInv, [Next]_vars PROVE TypeInv'
  OBVIOUS
<1>1. CASE Next
  <2>1. CASE Expire
    BY <2>1 DEF Expire, TypeInv, TypeOK, CallInv, callVars
  <2> QED BY <1>1, <2>1, TypeRegister, TypeDeregister, TypeStartFetch, TypeReadTotal,
             TypeReadIndex, TypeSkipIndex, TypeEndQuorum, TypeEndFetch DEF Next
<1>2. CASE UNCHANGED vars
  BY <1>2 DEF vars, callVars, TypeInv, TypeOK, CallInv
<1> QED BY <1>1, <1>2

(* The variables of GetOperators keep their types whatever the length of the *)
(* quorums: what the merge returns is again a list of operators.             *)
THEOREM TypeCorrect == Spec => []TypeOK
<1>1. TypeInv => TypeOK
  BY DEF TypeInv
<1> QED BY <1>1, TypeInit, TypeNext, PTL DEF Spec
-----------------------------------------------------------------------------
LEMMA NoDuplicatesInit == Init => NoDuplicates
BY DEF Init, NoDuplicates, IsInjective

LEMMA NoDuplicatesNext ==
    ASSUME TypeInv, NoDuplicates, [Next]_vars
    PROVE  NoDuplicates'
<1> USE DEF NoDuplicates
<1>1. ASSUME NEW c \in Callers, EndQuorum(c) PROVE NoDuplicates'
  <2>1. IsInjective(Merge(found[c], operators[c]))
    BY MergeProperties DEF TypeInv, TypeOK
  <2>2. found' = [found EXCEPT ![c] = Merge(found[c], operators[c])] /\ cache' = cache
    BY <1>1 DEF EndQuorum
  <2> QED BY <2>1, <2>2 DEF TypeInv, TypeOK
<1>2. ASSUME NEW c \in Callers, EndFetch(c) PROVE NoDuplicates'
  <2>1. found' = [found EXCEPT ![c] = <<>>] /\ (cache' = cache \/ cache' = found[c])
    BY <1>2 DEF EndFetch
  <2>2. IsInjective(<<>>)
    BY DEF IsInjective
  <2> QED BY <2>1, <2>2 DEF TypeInv, TypeOK
<1>3. CASE UNCHANGED <<cache, found>>
  BY <1>3
<1>4. ASSUME NEW c \in Callers,
             StartFetch(c) \/ ReadTotal(c) \/ ReadIndex(c) \/ SkipIndex(c)
      PROVE  UNCHANGED <<cache, found>>
  BY <1>4 DEF StartFetch, ReadTotal, ReadIndex, SkipIndex
<1>5. ASSUME NEW q \in Quorums, NEW o, Register(o, q) \/ Deregister(o, q)
      PROVE  UNCHANGED <<cache, found>>
  BY <1>5 DEF Register, Deregister, callVars
<1>6. Expire \/ UNCHANGED vars => UNCHANGED <<cache, found>>
  BY DEF Expire, vars, callVars
<1> QED BY <1>1, <1>2, <1>3, <1>4, <1>5, <1>6 DEF Next

(* What the tallies of the OperatorVerifier rely on: no operator is twice in *)
(* the cache or in what a call returns, however many quorums it is in and    *)
(* however often it changes its index while they are read.                   *)
THEOREM SetsHaveNoDuplicates == Spec => []NoDuplicates
<1>1. Init => TypeInv /\ NoDuplicates
  BY TypeInit, NoDuplicatesInit
<1>2. (TypeInv /\ NoDuplicates) /\ [Next]_vars => (TypeInv /\ NoDuplicates)'
  BY TypeNext, NoDuplicatesNext
<1> QED BY <1>1, <1>2, PTL DEF Spec
-----------------------------------------------------------------------------
\* The operators of the quorum being read at the indices still to come.
Ahead(c) ==
    {registry[quorum[c]][i] :
        i \in (DOMAIN registry[quorum[c]]) \cap (index[c]..total[c])}

\* The operators of the quorums after it.
Later(c) == UNION {Range(registry[q]) : q \in {p \in Quorums : p > quorum[c]}}

\* Where an operator owed to a call is, in the middle of a quorum.
Accounted(c, o) ==
    \/ o \in Range(found[c])
    \/ o \in Range(operators[c])
    \/ o \in Ahead(c)
    \/ o \in Later(c)

OwedTo(c) ==
    /\ owed[c] \cap Socketless = {}
    /\ pc[c] = "total" => \A o \in owed[c] : o \in Range(found[c]) \/ o \in Unread(c)
    /\ pc[c] = "index" => \A o \in owed[c] : Accounted(c, o)

OwedInv == \A c \in Callers : OwedTo(c)

LEMMA OwedInit == Init => OwedInv
BY DEF Init, OwedInv, OwedTo

(* The contract moves an operator only when the history stops counting it.   *)
LEMMA OwedKept ==
    ASSUME TypeInv, OwedInv, UNCHANGED callVars,
           \A c \in Callers : owed'[c] \subseteq owed[c],
           \A c \in Callers : \A o \in owed'[c] : \A q \in Quorums :
               \A i \in DOMAIN registry[q] :
                   registry[q][i] = o => i \in DOMAIN registry'[q] /\ registry'[q][i] = o
    PROVE  OwedInv'
<1> SUFFICES ASSUME NEW c \in Callers PROVE OwedTo(c)'
  BY DEF OwedInv
<1>0. OwedTo(c)
  BY DEF OwedInv
<1>1. ASSUME NEW o \in owed'[c], NEW q \in Quorums, o \in Range(registry[q])
      PROVE  o \in Range(registry'[q])
  BY <1>1 DEF Range
<1>2. ASSUME NEW o \in owed'[c], o \in Unread(c) PROVE o \in Unread(c)'
  BY <1>1, <1>2 DEF Unread, callVars
<1>3. ASSUME NEW o \in owed'[c], o \in Later(c) PROVE o \in Later(c)'
  BY <1>1, <1>3 DEF Later, callVars
<1>4. ASSUME NEW o \in owed'[c], o \in Ahead(c), pc[c] = "index" PROVE o \in Ahead(c)'
  <2>1. PICK i \in (DOMAIN registry[quorum[c]]) \cap (index[c]..total[c]) :
             registry[quorum[c]][i] = o
    BY <1>4 DEF Ahead
  <2>2. quorum[c] \in Quorums
    BY <1>4 DEF TypeInv, CallInv
  <2>3. i \in DOMAIN registry'[quorum[c]] /\ registry'[quorum[c]][i] = o
    BY <2>1, <2>2
  <2> QED BY <2>1, <2>3 DEF Ahead, callVars
<1> QED BY <1>0, <1>2, <1>3, <1>4 DEF OwedTo, Accounted, callVars

LEMMA OwedRegister ==
    ASSUME TypeInv, OwedInv, NEW o \in Operators, NEW q \in Quorums, Register(o, q)
    PROVE  OwedInv'
<1>1. UNCHANGED callVars /\ owed' = owed
  BY DEF Register
<1>2. ASSUME NEW p \in Quorums, NEW i \in DOMAIN registry[p]
      PROVE  i \in DOMAIN registry'[p] /\ registry'[p][i] = registry[p][i]
  <2>1. registry[q] \in Seq(Operators) /\ registry \in [Quorums -> Seq(Operators)]
    BY DEF TypeInv, TypeOK
  <2>2. CASE p = q
    <3>1. registry'[q] = Append(registry[q], o)
      BY <2>1 DEF Register
    <3> QED BY <2>1, <2>2, <3>1, TakeIndex
  <2>3. CASE p # q
    BY <2>1, <2>3 DEF Register
  <2> QED BY <2>2, <2>3
<1> QED BY <1>1, <1>2, OwedKept

LEMMA OwedDeregister ==
    ASSUME TypeInv, OwedInv, NEW q \in Quorums, NEW i \in DOMAIN registry[q],
           Deregister(i, q)
    PROVE  OwedInv'
<1>1. UNCHANGED callVars /\ \A c \in Callers : owed'[c] \subseteq owed[c]
  BY DEF Deregister, TypeInv, TypeOK
<1>2. ASSUME NEW c \in Callers, NEW o \in owed'[c], NEW p \in Quorums,
             NEW j \in DOMAIN registry[p], registry[p][j] = o
      PROVE  j \in DOMAIN registry'[p] /\ registry'[p][j] = o
  <2>1. registry[q] \in Seq(Operators) /\ registry \in [Quorums -> Seq(Operators)]
    BY DEF TypeInv, TypeOK
  <2>2. CASE p = q
    <3>1. registry'[q] = Front([registry[q] EXCEPT ![i] = Last(registry[q])])
      BY <2>1 DEF Deregister
    <3>2. o \notin {registry[q][i], Last(registry[q])}
      BY DEF Deregister
    <3> QED BY <1>2, <2>1, <2>2, <3>1, <3>2, GiveUpIndex
  <2>3. CASE p # q
    BY <1>2, <2>1, <2>3 DEF Deregister
  <2> QED BY <2>2, <2>3
<1> QED BY <1>1, <1>2, OwedKept

(* A step of one call leaves the others as they are.                         *)
LEMMA OwedOthers ==
    ASSUME OwedInv, NEW c \in Callers, OwedTo(c)', registry' = registry,
           \A d \in Callers \ {c} :
               /\ pc'[d] = pc[d] /\ quorum'[d] = quorum[d] /\ total'[d] = total[d]
               /\ index'[d] = index[d] /\ operators'[d] = operators[d]
               /\ found'[d] = found[d] /\ owed'[d] = owed[d]
    PROVE  OwedInv'
<1> SUFFICES ASSUME NEW d \in Callers, d # c PROVE OwedTo(d)'
  BY DEF OwedInv
<1>1. OwedTo(d)
  BY DEF OwedInv
<1>2. Unread(d)' = Unread(d) /\ Later(d)' = Later(d) /\ Ahead(d)' = Ahead(d)
  BY DEF Unread, Later, Ahead
<1> QED BY <1>1, <1>2 DEF OwedTo, Accounted

LEMMA OwedStartFetch ==
    ASSUME TypeInv, OwedInv, NEW c \in Callers, StartFetch(c)
    PROVE  OwedInv'
<1> USE DEF TypeInv, TypeOK
<1>1. quorum[c] = 1 /\ quorum' = quorum /\ registry' = registry
  BY DEF StartFetch, CallInv
<1>2. owed'[c] = Registered \ Socketless /\ pc'[c] = "total"
  BY DEF StartFetch
<1>3. Unread(c)' = Registered
  <2>1. {p \in Quorums : p >= 1} = Quorums
    BY QuorumFacts
  <2> QED BY <1>1, <2>1 DEF Unread, Registered
<1>4. OwedTo(c)'
  BY <1>2, <1>3 DEF OwedTo
<1> QED BY <1>4, OwedOthers DEF StartFetch

LEMMA OwedReadTotal ==
    ASSUME TypeInv, OwedInv, NEW c \in Callers, ReadTotal(c)
    PROVE  OwedInv'
<1> USE DEF TypeInv, TypeOK
<1> DEFINE q == quorum[c]
<1>1. OwedTo(c) /\ index[c] = 1
  BY DEF OwedInv, ReadTotal, CallInv
<1>2. /\ registry' = registry /\ quorum' = quorum /\ index' = index
      /\ found' = found /\ operators' = operators /\ owed' = owed
      /\ pc'[c] = "index" /\ total'[c] = Len(registry[q]) /\ q \in Quorums
  BY DEF ReadTotal
<1>3. registry[q] \in Seq(Operators)
  BY <1>2
<1>4. DOMAIN registry[q] = 1..Len(registry[q])
  BY <1>3, LenProperties
<1>5. Ahead(c)' = Range(registry[q])
  BY <1>1, <1>2, <1>4 DEF Ahead, Range
<1>6. Later(c)' = Later(c)
  BY <1>2 DEF Later
<1>7. ASSUME NEW o \in Unread(c) PROVE o \in Range(registry[q]) \/ o \in Later(c)
  <2>1. PICK p \in Quorums : p >= q /\ o \in Range(registry[p])
    BY <1>7 DEF Unread
  <2>2. p = q \/ p > q
    BY <2>1, <1>2, QuorumFacts
  <2> QED BY <2>1, <2>2 DEF Later
<1>8. OwedTo(c)'
  BY <1>1, <1>2, <1>5, <1>6, <1>7 DEF OwedTo, Accounted, ReadTotal
<1> QED BY <1>8, OwedOthers DEF ReadTotal

LEMMA OwedReadIndex ==
    ASSUME TypeInv, OwedInv, NEW c \in Callers, ReadIndex(c)
    PROVE  OwedInv'
<1> USE DEF TypeInv, TypeOK
<1> DEFINE listed == registry[quorum[c]]
           i == index[c]
<1>1. OwedTo(c) /\ pc[c] = "index" /\ quorum[c] \in Quorums /\ i <= total[c]
  BY DEF OwedInv, ReadIndex, CallInv
<1>2. /\ registry' = registry /\ quorum' = quorum /\ total' = total
      /\ found' = found /\ owed' = owed /\ pc' = pc /\ index'[c] = i + 1
  BY DEF ReadIndex
<1>3. listed \in Seq(Operators) /\ i \in Nat \ {0} /\ total[c] \in Nat
  BY <1>1
<1>4. DOMAIN listed = 1..Len(listed) /\ Len(listed) \in Nat
  BY <1>3, LenProperties
<1>5. operators[c] \in Seq(Operators)
  OBVIOUS
<1>6. /\ Range(operators[c]) \subseteq Range(operators'[c])
      /\ i <= Len(listed) /\ listed[i] \notin Socketless => listed[i] \in Range(operators'[c])
  <2>1. CASE i <= Len(listed) /\ listed[i] \notin Socketless
    <3>1. listed[i] \in Operators
      BY <1>3, <1>4, <2>1, ElementOfSeq
    <3>2. operators'[c] = Append(operators[c], listed[i])
      BY <2>1 DEF ReadIndex
    <3>3. WithOneMore(operators'[c], operators[c], listed[i])
      BY <1>5, <3>1, <3>2, AppendsOne
    <3> QED BY <3>3 DEF WithOneMore
  <2>2. CASE ~(i <= Len(listed) /\ listed[i] \notin Socketless)
    BY <2>2 DEF ReadIndex
  <2> QED BY <2>1, <2>2
<1>7. ASSUME NEW o \in Ahead(c), o \notin Socketless
      PROVE  o \in Range(operators'[c]) \/ o \in Ahead(c)'
  <2>1. PICK j \in (DOMAIN listed) \cap (i..total[c]) : listed[j] = o
    BY <1>7 DEF Ahead
  <2>2. CASE j = i
    BY <1>4, <1>6, <1>7, <2>1, <2>2
  <2>3. CASE j # i
    <3>1. j \in (i + 1)..total[c]
      BY <1>3, <2>1, <2>3
    <3> QED BY <1>2, <2>1, <3>1 DEF Ahead
  <2> QED BY <2>2, <2>3
<1>8. Later(c)' = Later(c)
  BY <1>2 DEF Later
<1>9. OwedTo(c)'
  BY <1>1, <1>2, <1>6, <1>7, <1>8 DEF OwedTo, Accounted
<1> QED BY <1>9, OwedOthers DEF ReadIndex

LEMMA OwedSkipIndex ==
    ASSUME TypeInv, OwedInv, NEW c \in Callers, SkipIndex(c)
    PROVE  OwedInv'
<1> USE DEF TypeInv, TypeOK
<1> DEFINE listed == registry[quorum[c]]
           i == index[c]
<1>1. OwedTo(c) /\ pc[c] = "index" /\ i \in Nat \ {0} /\ total[c] \in Nat
  BY DEF OwedInv, SkipIndex
<1>2. /\ registry' = registry /\ quorum' = quorum /\ total' = total /\ operators' = operators
      /\ found' = found /\ pc' = pc /\ index'[c] = i + 1
      /\ owed'[c] = owed[c] \ {listed[j] : j \in {i} \cap DOMAIN listed}
  BY DEF SkipIndex
<1>3. ASSUME NEW o \in Ahead(c), o \in owed'[c] PROVE o \in Ahead(c)'
  <2>1. PICK j \in (DOMAIN listed) \cap (i..total[c]) : listed[j] = o
    BY <1>3 DEF Ahead
  <2>2. j # i
    BY <1>2, <1>3, <2>1
  <2>3. j \in (i + 1)..total[c]
    BY <1>1, <2>1, <2>2
  <2> QED BY <1>2, <2>1, <2>3 DEF Ahead
<1>4. Later(c)' = Later(c)
  BY <1>2 DEF Later
<1>5. OwedTo(c)'
  BY <1>1, <1>2, <1>3, <1>4 DEF OwedTo, Accounted
<1> QED BY <1>5, OwedOthers DEF SkipIndex

LEMMA OwedEndQuorum ==
    ASSUME TypeInv, OwedInv, NEW c \in Callers, EndQuorum(c)
    PROVE  OwedInv'
<1> USE DEF TypeInv, TypeOK
<1>1. OwedTo(c) /\ pc[c] = "index" /\ quorum[c] \in Quorums
  BY DEF OwedInv, EndQuorum, CallInv
<1>2. /\ registry' = registry /\ owed' = owed /\ pc'[c] = "total"
      /\ quorum'[c] = quorum[c] + 1 /\ found'[c] = Merge(found[c], operators[c])
  BY DEF EndQuorum
<1>3. Range(found'[c]) = Range(found[c]) \cup Range(operators[c])
  BY <1>2, MergeProperties
<1>4. Ahead(c) = {}
  BY DEF Ahead, EndQuorum
<1>5. Later(c) = Unread(c)'
  <2>1. {p \in Quorums : p > quorum[c]} = {p \in Quorums : p >= quorum[c] + 1}
    BY <1>1, QuorumFacts
  <2> QED BY <1>2, <2>1 DEF Later, Unread
<1>6. OwedTo(c)'
  BY <1>1, <1>2, <1>3, <1>4, <1>5 DEF OwedTo, Accounted
<1> QED BY <1>6, OwedOthers DEF EndQuorum

LEMMA OwedEndFetch ==
    ASSUME TypeInv, OwedInv, NEW c \in Callers, EndFetch(c)
    PROVE  OwedInv'
<1> USE DEF TypeInv, TypeOK
<1>1. OwedTo(c)'
  BY DEF EndFetch, OwedTo
<1> QED BY <1>1, OwedOthers DEF EndFetch

LEMMA OwedNext ==
    ASSUME TypeInv, OwedInv, [Next]_vars
    PROVE  OwedInv'
<1>1. CASE Expire \/ UNCHANGED vars
  <2>1. UNCHANGED <<registry, callVars, owed>>
    BY <1>1 DEF Expire, vars
  <2> QED BY <2>1, OwedKept
<1> QED BY <1>1, OwedRegister, OwedDeregister, OwedStartFetch, OwedReadTotal, OwedReadIndex,
           OwedSkipIndex, OwedEndQuorum, OwedEndFetch DEF Next

(* What GetOperators may leave out, whatever registers, leaves or is ejected *)
(* while it reads: an operator with a socket that was there when the call     *)
(* began, has kept its index and met no failed call is in the set as soon as  *)
(* the call is done with its quorum.                                          *)
THEOREM OmissionsExplained == Spec => []OmissionsAreExplained
<1>1. Init => TypeInv /\ OwedInv
  BY TypeInit, OwedInit
<1>2. (TypeInv /\ OwedInv) /\ [Next]_vars => (TypeInv /\ OwedInv)'
  BY TypeNext, OwedNext
<1>3. OwedInv => OmissionsAreExplained
  BY DEF OwedInv, OwedTo, OmissionsAreExplained
<1> QED BY <1>1, <1>2, <1>3, PTL DEF Spec
-----------------------------------------------------------------------------
(* A call ends: what is left of it, in steps.  A quorum has a call for its    *)
(* total, one for each index and a step to the next quorum.                  *)
QuorumCalls == Cardinality(Operators) + 2

FetchLeft(c) ==
    IF pc[c] = "idle" THEN 0
    ELSE IF pc[c] = "total" THEN (NumQuorums + 1 - quorum[c]) * QuorumCalls + 1
    ELSE (NumQuorums - quorum[c]) * QuorumCalls + (total[c] - index[c]) + 3

\* No call needs more steps than this.
FetchBounded == \A c \in Callers : FetchLeft(c) \in 0..(NumQuorums * QuorumCalls + 1)

\* A step of a call, whichever, leaves it with fewer steps.
FetchGoesOn ==
    \A c \in Callers :
        pc[c] # "idle" =>
            \/ FetchLeft(c)' < FetchLeft(c)
            \/ UNCHANGED <<pc[c], quorum[c], total[c], index[c], operators[c], found[c]>>

\* The contract has an operator once in a quorum.
ListedOnce == \A q \in Quorums : IsInjective(registry[q])

\* A call goes through as many indices as there are operators, at most.
IndexInRange ==
    \A c \in Callers :
        /\ total[c] <= Cardinality(Operators)
        /\ pc[c] = "index" => index[c] <= total[c] + 1

FetchInv == TypeInv /\ ListedOnce /\ IndexInRange

LEMMA MultiplyQuorums ==
    ASSUME NEW n \in Nat, NEW k \in Nat
    PROVE  n * k \in Nat /\ (n + 1) * k = n * k + k
OBVIOUS

LEMMA MoreQuorums ==
    ASSUME NEW n \in Nat, NEW m \in Nat, NEW k \in Nat, n <= m
    PROVE  n * k <= m * k
OBVIOUS

(* A list without duplicates is no longer than the set its members are of.   *)
LEMMA InjectiveFits ==
    ASSUME IsFiniteSet(Operators), NEW s \in Seq(Operators), IsInjective(s)
    PROVE  Len(s) <= Cardinality(Operators)
<1>1. Len(s) \in Nat /\ DOMAIN s = 1..Len(s) /\ s \in [1..Len(s) -> Operators]
  BY LenProperties
<1>2. s \in Injection(1..Len(s), Operators)
  BY <1>1 DEF Injection
<1>3. Cardinality(1..Len(s)) <= Cardinality(Operators)
  BY <1>2, FS_Injection
<1>4. Cardinality(1..Len(s)) = Len(s)
  BY <1>1, FS_Interval
<1> QED BY <1>3, <1>4

LEMMA FetchInit == ASSUME IsFiniteSet(Operators), Init PROVE FetchInv
<1>1. Cardinality(Operators) \in Nat
  BY FS_CardinalityType
<1>2. ListedOnce
  BY DEF Init, ListedOnce, IsInjective
<1>3. IndexInRange
  BY <1>1 DEF Init, IndexInRange
<1> QED BY <1>2, <1>3, TypeInit DEF FetchInv

\* The contract keeps its lists free of duplicates, whoever registers or leaves.
LEMMA ListedOnceKept ==
    ASSUME TypeInv, ListedOnce, [Next]_vars
    PROVE  ListedOnce'
<1>1. ASSUME NEW o \in Operators, NEW q \in Quorums, Register(o, q)
      PROVE  ListedOnce'
  <2>1. registry[q] \in Seq(Operators) /\ registry \in [Quorums -> Seq(Operators)]
    BY DEF TypeInv, TypeOK
  <2>2. PICK w : w = Append(registry[q], o)
    OBVIOUS
  <2>3. WithOneMore(w, registry[q], o)
    BY <2>1, <2>2, AppendsOne
  <2>4. DOMAIN registry[q] = 1..Len(registry[q]) /\ Len(registry[q]) \in Nat
    BY <2>1, LenProperties
  <2>5. \A i \in DOMAIN registry[q] : registry[q][i] # o
    BY <1>1 DEF Register, Range
  <2>6. IsInjective(w)
    BY <2>3, <2>4, <2>5 DEF WithOneMore, IsInjective, ListedOnce
  <2>7. \A p \in Quorums : registry'[p] = IF p = q THEN w ELSE registry[p]
    BY <1>1, <2>1, <2>2 DEF Register
  <2> QED BY <2>6, <2>7, Zenon DEF ListedOnce
<1>2. ASSUME NEW q \in Quorums, NEW i \in DOMAIN registry[q], Deregister(i, q)
      PROVE  ListedOnce'
  <2>1. registry[q] \in Seq(Operators) /\ registry \in [Quorums -> Seq(Operators)]
    BY DEF TypeInv, TypeOK
  <2>2. PICK w : w = Front([registry[q] EXCEPT ![i] = Last(registry[q])])
    OBVIOUS
  <2>3. IsInjective(w)
    BY <2>1, <2>2, GiveUpIndex DEF ListedOnce
  <2>4. \A p \in Quorums : registry'[p] = IF p = q THEN w ELSE registry[p]
    BY <1>2, <2>1, <2>2 DEF Deregister
  <2> QED BY <2>3, <2>4, Zenon DEF ListedOnce
<1>3. CASE UNCHANGED registry
  BY <1>3 DEF ListedOnce
<1>4. (\E o \in Operators, q \in Quorums : Register(o, q))
      \/ (\E q \in Quorums : \E i \in DOMAIN registry[q] : Deregister(i, q))
      \/ UNCHANGED registry
  BY DEF Next, vars, Expire, StartFetch, ReadTotal, ReadIndex, SkipIndex, EndQuorum, EndFetch
<1> QED BY <1>1, <1>2, <1>3, <1>4

\* The steps of a call but for its first, and what they leave alone.
CallStep(c) ==
    ReadTotal(c) \/ ReadIndex(c) \/ SkipIndex(c) \/ EndQuorum(c) \/ EndFetch(c)

OtherCallsKept(c) ==
    \A d \in Callers : d # c =>
        UNCHANGED <<pc[d], quorum[d], total[d], index[d], operators[d], found[d]>>

LEMMA CallsApart ==
    ASSUME TypeInv, NEW c \in Callers, StartFetch(c) \/ CallStep(c)
    PROVE  OtherCallsKept(c)
BY DEF TypeInv, TypeOK, OtherCallsKept, CallStep, StartFetch, ReadTotal, ReadIndex, SkipIndex,
       EndQuorum, EndFetch

\* What a step of a call does to the numbers of that call.
LEMMA OwnNumbers ==
    ASSUME TypeInv, NEW c \in Callers
    PROVE  /\ StartFetch(c) => /\ pc[c] = "idle" /\ pc'[c] = "total"
                               /\ UNCHANGED <<quorum[c], total[c], index[c]>>
           /\ ReadTotal(c) => /\ pc[c] = "total" /\ pc'[c] = "index" /\ quorum[c] \in Quorums
                              /\ total'[c] = Len(registry[quorum[c]])
                              /\ UNCHANGED <<quorum[c], index[c]>>
           /\ ReadIndex(c) \/ SkipIndex(c) =>
                  /\ pc[c] = "index" /\ pc'[c] = "index" /\ index[c] <= total[c]
                  /\ index'[c] = index[c] + 1
                  /\ UNCHANGED <<quorum[c], total[c]>>
           /\ EndQuorum(c) => /\ pc[c] = "index" /\ pc'[c] = "total" /\ index[c] > total[c]
                              /\ quorum'[c] = quorum[c] + 1 /\ total'[c] = 0
           /\ EndFetch(c) => /\ pc[c] = "total" /\ pc'[c] = "idle"
                             /\ UNCHANGED total[c]
<1> USE DEF TypeInv, TypeOK
<1>1. StartFetch(c) => /\ pc[c] = "idle" /\ pc'[c] = "total"
                       /\ UNCHANGED <<quorum[c], total[c], index[c]>>
  BY DEF StartFetch
<1>2. ReadTotal(c) => /\ pc[c] = "total" /\ pc'[c] = "index" /\ quorum[c] \in Quorums
                      /\ total'[c] = Len(registry[quorum[c]])
                      /\ UNCHANGED <<quorum[c], index[c]>>
  BY DEF ReadTotal
<1>3. ReadIndex(c) \/ SkipIndex(c) =>
          /\ pc[c] = "index" /\ pc'[c] = "index" /\ index[c] <= total[c]
          /\ index'[c] = index[c] + 1
          /\ UNCHANGED <<quorum[c], total[c]>>
  BY DEF ReadIndex, SkipIndex
<1>4. EndQuorum(c) => /\ pc[c] = "index" /\ pc'[c] = "total" /\ index[c] > total[c]
                      /\ quorum'[c] = quorum[c] + 1 /\ total'[c] = 0
  BY DEF EndQuorum
<1>5. EndFetch(c) => /\ pc[c] = "total" /\ pc'[c] = "idle" /\ UNCHANGED total[c]
  BY DEF EndFetch
<1> QED BY <1>1, <1>2, <1>3, <1>4, <1>5

LEMMA NextByCalls ==
    ASSUME [Next]_vars
    PROVE  (\E c \in Callers : StartFetch(c) \/ CallStep(c)) \/ UNCHANGED callVars
BY DEF Next, vars, callVars, Register, Deregister, Expire, CallStep

LEMMA IndexInRangeKept ==
    ASSUME IsFiniteSet(Operators), FetchInv, [Next]_vars
    PROVE  IndexInRange'
<1>1. Cardinality(Operators) \in Nat /\ TypeInv
  BY FS_CardinalityType DEF FetchInv
<1>2. ASSUME NEW c \in Callers, StartFetch(c) \/ CallStep(c)
      PROVE  IndexInRange'
  <2>1. OtherCallsKept(c)
    BY <1>1, <1>2, CallsApart
  <2>2. total[c] \in Nat /\ index[c] \in Nat /\ total[c] <= Cardinality(Operators)
        /\ (pc[c] = "index" => index[c] <= total[c] + 1) /\ (pc[c] # "index" => index[c] = 1)
    BY <1>1 DEF FetchInv, IndexInRange, TypeInv, TypeOK, CallInv
  <2>3. ReadTotal(c) => total'[c] \in Nat /\ total'[c] <= Cardinality(Operators)
    <3> SUFFICES ASSUME ReadTotal(c)
                 PROVE  total'[c] \in Nat /\ total'[c] <= Cardinality(Operators)
      OBVIOUS
    <3>1. quorum[c] \in Quorums /\ total'[c] = Len(registry[quorum[c]])
      BY <1>1, OwnNumbers
    <3>2. registry[quorum[c]] \in Seq(Operators) /\ IsInjective(registry[quorum[c]])
      BY <1>1, <3>1 DEF FetchInv, ListedOnce, TypeInv, TypeOK
    <3> QED BY <3>1, <3>2, InjectiveFits, LenProperties
  <2>4. total'[c] <= Cardinality(Operators) /\ (pc'[c] = "index" => index'[c] <= total'[c] + 1)
    <3>1. CASE StartFetch(c) \/ EndFetch(c)
      BY <1>1, <2>2, <3>1, OwnNumbers
    <3>2. CASE ReadTotal(c)
      <4>1. pc[c] = "total" /\ index'[c] = index[c]
        BY <1>1, <3>2, OwnNumbers
      <4>2. index'[c] = 1
        BY <2>2, <4>1
      <4> QED BY <1>1, <2>3, <3>2, <4>2
    <3>3. CASE ReadIndex(c) \/ SkipIndex(c)
      BY <1>1, <2>2, <3>3, OwnNumbers
    <3>4. CASE EndQuorum(c)
      BY <1>1, <2>2, <3>4, OwnNumbers
    <3> QED BY <1>2, <3>1, <3>2, <3>3, <3>4 DEF CallStep
  <2>5. ASSUME NEW d \in Callers
        PROVE  /\ total'[d] <= Cardinality(Operators)
               /\ pc'[d] = "index" => index'[d] <= total'[d] + 1
    <3>1. CASE d = c
      BY <2>4, <3>1
    <3>2. CASE d # c
      BY <2>1, <3>2 DEF OtherCallsKept, FetchInv, IndexInRange
    <3> QED BY <3>1, <3>2
  <2> QED BY <2>5 DEF IndexInRange
<1>3. CASE UNCHANGED callVars
  BY <1>3 DEF callVars, FetchInv, IndexInRange
<1> QED BY <1>2, <1>3, NextByCalls

LEMMA FetchNumbers ==
    ASSUME IsFiniteSet(Operators), FetchInv, NEW c \in Callers
    PROVE  /\ QuorumCalls = Cardinality(Operators) + 2 /\ QuorumCalls \in Nat
           /\ pc[c] \in {"idle", "total", "index"}
           /\ NumQuorums \in Nat /\ quorum[c] \in 1..(NumQuorums + 1)
           /\ pc[c] = "index" => quorum[c] \in 1..NumQuorums
           /\ total[c] \in 0..Cardinality(Operators) /\ index[c] \in Nat \ {0}
           /\ pc[c] = "index" => index[c] <= total[c] + 1
           /\ pc[c] # "index" => index[c] = 1
<1>1. Cardinality(Operators) \in Nat
  BY FS_CardinalityType
<1>2. NumQuorums \in Nat /\ Quorums = 1..NumQuorums
  BY QuorumFacts
<1> QED BY <1>1, <1>2 DEF FetchInv, TypeInv, TypeOK, CallInv, IndexInRange, QuorumCalls

LEMMA FetchFits == IsFiniteSet(Operators) /\ FetchInv => FetchBounded
<1> SUFFICES ASSUME IsFiniteSet(Operators), FetchInv, NEW c \in Callers
             PROVE  FetchLeft(c) \in 0..(NumQuorums * QuorumCalls + 1)
  BY DEF FetchBounded
<1>1. /\ QuorumCalls = Cardinality(Operators) + 2 /\ QuorumCalls \in Nat
      /\ NumQuorums \in Nat /\ Cardinality(Operators) \in Nat
  BY FetchNumbers, FS_CardinalityType
<1>2. NumQuorums * QuorumCalls \in Nat
  BY <1>1, MultiplyQuorums
<1>3. CASE pc[c] = "idle"
  BY <1>2, <1>3 DEF FetchLeft
<1>4. CASE pc[c] = "total"
  <2>1. PICK n \in 0..NumQuorums : n = NumQuorums + 1 - quorum[c]
    BY FetchNumbers
  <2>2. n * QuorumCalls \in Nat /\ n * QuorumCalls <= NumQuorums * QuorumCalls
    BY <1>1, <2>1, MultiplyQuorums, MoreQuorums
  <2>3. FetchLeft(c) = n * QuorumCalls + 1
    BY <1>4, <2>1 DEF FetchLeft
  <2> QED BY <1>2, <2>2, <2>3
<1>5. CASE pc[c] = "index"
  <2>1. PICK n \in Nat : n = NumQuorums - quorum[c] /\ n + 1 <= NumQuorums
    BY <1>5, FetchNumbers
  <2>2. /\ n * QuorumCalls \in Nat /\ (n + 1) * QuorumCalls = n * QuorumCalls + QuorumCalls
        /\ (n + 1) * QuorumCalls <= NumQuorums * QuorumCalls
    BY <1>1, <2>1, MultiplyQuorums, MoreQuorums
  <2>3. FetchLeft(c) = n * QuorumCalls + (total[c] - index[c]) + 3
    BY <1>5, <2>1 DEF FetchLeft
  <2>4. total[c] - index[c] \in Int /\ -1 <= total[c] - index[c]
        /\ total[c] - index[c] <= Cardinality(Operators) - 1
    BY <1>1, <1>5, FetchNumbers
  <2> QED BY <1>1, <1>2, <2>2, <2>3, <2>4
<1> QED BY <1>3, <1>4, <1>5, FetchNumbers

\* Every step of a call but its first lowers what is left of it.
LEMMA CallStepCounts ==
    ASSUME IsFiniteSet(Operators), FetchInv, [Next]_vars, NEW c \in Callers, CallStep(c)
    PROVE  FetchLeft(c)' < FetchLeft(c)
<1>1. /\ QuorumCalls = Cardinality(Operators) + 2 /\ QuorumCalls \in Nat
      /\ NumQuorums \in Nat /\ Cardinality(Operators) \in Nat /\ TypeInv
  BY FetchNumbers, FS_CardinalityType DEF FetchInv
<1>2. CASE ReadTotal(c)
  <2>1. /\ pc[c] = "total" /\ pc'[c] = "index" /\ index'[c] = 1
        /\ quorum'[c] = quorum[c] /\ quorum[c] \in 1..NumQuorums
    BY <1>1, <1>2, OwnNumbers, QuorumFacts, FetchNumbers
  <2>2. total'[c] \in Nat /\ total'[c] <= Cardinality(Operators)
    <3>1. total'[c] = Len(registry[quorum[c]]) /\ registry[quorum[c]] \in Seq(Operators)
      BY <1>1, <1>2, OwnNumbers DEF TypeInv, TypeOK
    <3>2. IndexInRange'
      BY IndexInRangeKept
    <3> QED BY <3>1, <3>2, LenProperties DEF IndexInRange
  <2>3. PICK n \in Nat : n = NumQuorums - quorum[c] /\ n + 1 = NumQuorums + 1 - quorum[c]
    BY <1>1, <2>1
  <2>4. n * QuorumCalls \in Nat /\ (n + 1) * QuorumCalls = n * QuorumCalls + QuorumCalls
    BY <1>1, <2>3, MultiplyQuorums
  <2>5. FetchLeft(c) = (n + 1) * QuorumCalls + 1
    BY <2>1, <2>3 DEF FetchLeft
  <2>6. FetchLeft(c)' = n * QuorumCalls + (total'[c] - 1) + 3
    BY <2>1, <2>3 DEF FetchLeft, QuorumCalls
  <2> QED BY <1>1, <2>2, <2>4, <2>5, <2>6
<1>3. CASE ReadIndex(c) \/ SkipIndex(c)
  <2>1. /\ pc[c] = "index" /\ pc'[c] = "index" /\ index'[c] = index[c] + 1
        /\ quorum'[c] = quorum[c] /\ total'[c] = total[c]
    BY <1>1, <1>3, OwnNumbers
  <2>2. PICK n \in Nat : n = NumQuorums - quorum[c]
    BY <2>1, FetchNumbers
  <2>3. n * QuorumCalls \in Nat /\ total[c] \in Nat /\ index[c] \in Nat
    BY <1>1, <2>2, MultiplyQuorums, FetchNumbers
  <2>4. FetchLeft(c) = n * QuorumCalls + (total[c] - index[c]) + 3
    BY <2>1, <2>2 DEF FetchLeft
  <2>5. FetchLeft(c)' = n * QuorumCalls + (total[c] - (index[c] + 1)) + 3
    BY <2>1, <2>2 DEF FetchLeft, QuorumCalls
  <2> QED BY <2>3, <2>4, <2>5
<1>4. CASE EndQuorum(c)
  <2>1. /\ pc[c] = "index" /\ pc'[c] = "total" /\ index[c] > total[c]
        /\ quorum'[c] = quorum[c] + 1 /\ quorum[c] \in 1..NumQuorums
    BY <1>1, <1>4, OwnNumbers, FetchNumbers
  <2>2. PICK n \in Nat : n = NumQuorums - quorum[c] /\ n = NumQuorums + 1 - (quorum[c] + 1)
    BY <1>1, <2>1
  <2>3. n * QuorumCalls \in Nat
    BY <1>1, <2>2, MultiplyQuorums
  <2>4. index[c] = total[c] + 1 /\ total[c] \in Nat
    <3>1. total[c] \in 0..Cardinality(Operators) /\ index[c] \in Nat /\ index[c] <= total[c] + 1
      BY <2>1, FetchNumbers
    <3> QED BY <1>1, <2>1, <3>1
  <2>5. FetchLeft(c) = n * QuorumCalls + (total[c] - index[c]) + 3
    BY <2>1, <2>2 DEF FetchLeft
  <2>6. FetchLeft(c)' = n * QuorumCalls + 1
    BY <2>1, <2>2 DEF FetchLeft, QuorumCalls
  <2> QED BY <2>3, <2>4, <2>5, <2>6
<1>5. CASE EndFetch(c)
  <2>1. pc[c] = "total" /\ pc'[c] = "idle"
    BY <1>1, <1>5, OwnNumbers
  <2>2. PICK n \in Nat : n = NumQuorums + 1 - quorum[c]
    BY FetchNumbers
  <2>3. n * QuorumCalls \in Nat
    BY <1>1, <2>2, MultiplyQuorums
  <2>4. FetchLeft(c) = n * QuorumCalls + 1
    BY <2>1, <2>2 DEF FetchLeft
  <2>5. FetchLeft(c)' = 0
    BY <2>1 DEF FetchLeft
  <2> QED BY <2>3, <2>4, <2>5
<1> QED BY <1>2, <1>3, <1>4, <1>5 DEF CallStep

(* GetOperators comes to an end however the quorums change under it: a call   *)
(* has at most NumQuorums * (Cardinality(Operators) + 2) + 1 steps left, and   *)
(* each of its steps, whether the node answers or not, leaves it with fewer;   *)
(* neither the contract nor the calls of the other workers lengthen it.        *)
THEOREM FetchesAreBounded ==
    IsFiniteSet(Operators) => (Spec => []FetchBounded /\ [][FetchGoesOn]_vars)
<1> SUFFICES ASSUME IsFiniteSet(Operators) PROVE Spec => []FetchBounded /\ [][FetchGoesOn]_vars
  OBVIOUS
<1>1. Init => FetchInv
  BY FetchInit
<1>2. FetchInv /\ [Next]_vars => FetchInv'
  BY TypeNext, ListedOnceKept, IndexInRangeKept DEF FetchInv
<1>3. FetchInv => FetchBounded
  BY FetchFits
<1>4. FetchInv /\ [Next]_vars => [FetchGoesOn]_vars
  <2> SUFFICES ASSUME FetchInv, [Next]_vars, NEW d \in Callers, pc[d] # "idle"
               PROVE  \/ FetchLeft(d)' < FetchLeft(d)
                      \/ UNCHANGED <<pc[d], quorum[d], total[d], index[d], operators[d], found[d]>>
    BY DEF FetchGoesOn
  <2>1. ASSUME NEW c \in Callers, StartFetch(c) \/ CallStep(c), c # d
        PROVE  UNCHANGED <<pc[d], quorum[d], total[d], index[d], operators[d], found[d]>>
    <3>1. OtherCallsKept(c)
      BY <2>1, CallsApart DEF FetchInv
    <3> QED BY <2>1, <3>1 DEF OtherCallsKept
  <2>2. ~StartFetch(d)
    BY DEF StartFetch
  <2>3. CallStep(d) => FetchLeft(d)' < FetchLeft(d)
    BY CallStepCounts
  <2>4. UNCHANGED callVars =>
            UNCHANGED <<pc[d], quorum[d], total[d], index[d], operators[d], found[d]>>
    BY DEF callVars
  <2> QED BY <2>1, <2>2, <2>3, <2>4, NextByCalls, Zenon
<1> QED BY <1>1, <1>2, <1>3, <1>4, PTL DEF Spec
-----------------------------------------------------------------------------
(* The sums of the StakeIndexer.                                            *)

\* The assumptions of StakeSnapshots about its constants.
StakeAssumption ==
    /\ IsFiniteSet(Operators)
    /\ IsFiniteSet(Stakes) /\ Stakes \subseteq Nat /\ Stakes # {}
    /\ SnapshotQuorums \in Nat \ {0} /\ MaxKills \in Nat

\* g[s] is the sum over s, the operator CHOOSE picks first.
Picked(s) == CHOOSE o \in s : TRUE
TotalRec(g, f, S) ==
    g = [s \in SUBSET S |-> IF s = {} THEN 0 ELSE f[Picked(s)] + g[s \ {Picked(s)}]]

(* Total is the last of its partial sums.                                    *)
LEMMA TotalDef ==
    ASSUME NEW f, NEW S
    PROVE  StakeIndexer!Total(f, S) = (CHOOSE g : TotalRec(g, f, S))[S]
BY DEF StakeIndexer!Total, StakeIndexer!MapThenFoldSet, TotalRec, Picked

LEMMA TotalIterates ==
    ASSUME NEW S, IsFiniteSet(S), NEW f \in [S -> Nat]
    PROVE  \E g \in [SUBSET S -> Nat] :
               StakeIndexer!Total(f, S) = g[S] /\ TotalRec(g, f, S)
<1> DEFINE c == [s \in SUBSET S |-> Picked(s)]
           h == [p \in S \X Nat |-> f[p[1]] + p[2]]
<1>1. \A s \in SUBSET S : s # {} => Picked(s) \in s /\ c[s] = Picked(s)
  BY DEF Picked
<1>2. h \in [S \X Nat -> Nat]
  OBVIOUS
<1>3. PICK g \in [SUBSET S -> Nat] : Solves(g, SUBSET S, 0, c, h)
  <2>1. \A s \in SUBSET S : s # {} => c[s] \in s
    BY <1>1
  <2> HIDE DEF c, h
  <2> QED BY <1>2, <2>1, FoldExists
<1>4. ASSUME NEW s \in SUBSET S, s # {}
      PROVE  g[s] = f[Picked(s)] + g[s \ {Picked(s)}]
  <2>1. c[s] = Picked(s) /\ Picked(s) \in S /\ g[s \ {Picked(s)}] \in Nat
    BY <1>1, <1>4
  <2>2. g[s] = h[<<Picked(s), g[s \ {Picked(s)}]>>]
    BY <1>3, <1>4, <2>1 DEF Solves
  <2> QED BY <2>1, <2>2
<1>5. g[{}] = 0
  BY <1>3 DEF Solves
<1>6. TotalRec(g, f, S)
  BY <1>3, <1>4, <1>5 DEF TotalRec
<1>7. \E k : TotalRec(k, f, S)
  BY <1>6
<1>8. TotalRec((CHOOSE k : TotalRec(k, f, S)), f, S)
  BY <1>7
<1>9. PICK k : k = (CHOOSE i : TotalRec(i, f, S))
  OBVIOUS
<1>10. TotalRec(k, f, S) /\ StakeIndexer!Total(f, S) = k[S]
  BY <1>8, <1>9, TotalDef
<1>11. k \in [SUBSET S -> Nat]
  <2> DEFINE Bad == {s \in SUBSET S : k[s] \notin Nat}
  <2>1. ASSUME Bad # {} PROVE FALSE
    <3>1. PICK s \in Bad : \A t \in Bad : t \subseteq s => t = s
      <4>1. Bad \subseteq SUBSET S
        OBVIOUS
      <4> HIDE DEF Bad
      <4> QED BY <2>1, <4>1, MinimalSet
    <3>2. s # {}
      BY <1>10 DEF TotalRec
    <3>3. Picked(s) \in s
      BY <3>2 DEF Picked
    <3>4. k[s \ {Picked(s)}] \in Nat
      BY <3>1, <3>3
    <3>5. k[s] = f[Picked(s)] + k[s \ {Picked(s)}]
      BY <1>10, <3>2 DEF TotalRec
    <3> QED BY <3>3, <3>4, <3>5
  <2> QED BY <1>10, <2>1 DEF TotalRec
<1> QED BY <1>10, <1>11

(* A sum of amounts is an amount.                                            *)
LEMMA TotalType ==
    ASSUME NEW S, IsFiniteSet(S), NEW f \in [S -> Nat]
    PROVE  StakeIndexer!Total(f, S) \in Nat
<1>1. PICK g \in [SUBSET S -> Nat] : StakeIndexer!Total(f, S) = g[S]
  BY TotalIterates
<1> QED BY <1>1

(* The sum over operators nobody has been asked about.                       *)
LEMMA TotalOfNothing ==
    ASSUME NEW S, IsFiniteSet(S), NEW f \in [S -> Nat], \A o \in S : f[o] = 0
    PROVE  StakeIndexer!Total(f, S) = 0
<1>1. PICK g \in [SUBSET S -> Nat] : StakeIndexer!Total(f, S) = g[S] /\ TotalRec(g, f, S)
  BY TotalIterates
<1> DEFINE Bad == {s \in SUBSET S : g[s] # 0}
<1>2. ASSUME Bad # {} PROVE FALSE
  <2>1. PICK s \in Bad : \A t \in Bad : t \subseteq s => t = s
    <3>1. Bad \subseteq SUBSET S
      OBVIOUS
    <3> HIDE DEF Bad
    <3> QED BY <1>2, <3>1, MinimalSet
  <2>2. s # {}
    BY <1>1 DEF TotalRec
  <2>3. Picked(s) \in s
    BY <2>2 DEF Picked
  <2>4. g[s \ {Picked(s)}] = 0
    BY <2>1, <2>3
  <2>5. g[s] = f[Picked(s)] + g[s \ {Picked(s)}]
    BY <1>1, <2>2 DEF TotalRec
  <2> QED BY <2>1, <2>3, <2>4, <2>5
<1> QED BY <1>1, <1>2

(* totalStake = totalStake + s keeps the sum of what has been appended: the  *)
(* amount of one more operator adds to the total, wherever CHOOSE meets it.   *)
LEMMA TotalOfOneMore ==
    ASSUME NEW S, IsFiniteSet(S), NEW f \in [S -> Nat], NEW h \in [S -> Nat],
           NEW o \in S, f[o] = 0, \A p \in S \ {o} : h[p] = f[p]
    PROVE  StakeIndexer!Total(h, S) = StakeIndexer!Total(f, S) + h[o]
<1>1. PICK g \in [SUBSET S -> Nat] : StakeIndexer!Total(f, S) = g[S] /\ TotalRec(g, f, S)
  BY TotalIterates
<1>2. PICK k \in [SUBSET S -> Nat] : StakeIndexer!Total(h, S) = k[S] /\ TotalRec(k, h, S)
  BY TotalIterates
<1> DEFINE Bad == {s \in SUBSET S : k[s] # IF o \in s THEN g[s] + h[o] ELSE g[s]}
<1>3. ASSUME Bad # {} PROVE FALSE
  <2>1. PICK s \in Bad : \A t \in Bad : t \subseteq s => t = s
    <3>1. Bad \subseteq SUBSET S
      OBVIOUS
    <3> HIDE DEF Bad
    <3> QED BY <1>3, <3>1, MinimalSet
  <2>2. s # {}
    BY <1>1, <1>2 DEF TotalRec
  <2>3. PICK x \in s : x = Picked(s)
    BY <2>2 DEF Picked
  <2>4. PICK t \in SUBSET S : t = s \ {x}
    OBVIOUS
  <2>5. k[t] = IF o \in t THEN g[t] + h[o] ELSE g[t]
    BY <2>1, <2>3, <2>4
  <2>6. g[s] = f[x] + g[t] /\ k[s] = h[x] + k[t]
    BY <1>1, <1>2, <2>2, <2>3, <2>4 DEF TotalRec
  <2>7. x # o => h[x] = f[x]
    OBVIOUS
  <2>8. h[o] \in Nat /\ f[x] \in Nat /\ g[t] \in Nat /\ k[t] \in Nat
    BY <1>1, <1>2
  <2>9. k[s] = IF o \in s THEN g[s] + h[o] ELSE g[s]
    <3>1. CASE x = o
      BY <2>4, <2>5, <2>6, <2>7, <2>8, <3>1
    <3>2. CASE x # o
      BY <2>4, <2>5, <2>6, <2>7, <2>8, <3>2
    <3> QED BY <3>1, <3>2
  <2> QED BY <2>1, <2>9
<1> QED BY <1>1, <1>2, <1>3

LEMMA SnapshotCardinality ==
    ASSUME NEW S
    PROVE  StakeIndexer!Cardinality(S) = Cardinality(S)
BY DEF StakeIndexer!Cardinality, Cardinality
-----------------------------------------------------------------------------
\* What the loop over the operators has appended, and when.
SumInv ==
    /\ totalStake = StakeIndexer!Total(stakes, Operators)
    /\ \A o \in asked \ (todo \cup failed) : stakes[o] \in seen[o]
    /\ \A o \in (Operators \ asked) \cup todo \cup failed : stakes[o] = 0
    /\ todo \cap failed = {}
    /\ indexerPc = "read" => \A o \in Operators : stake[o] \in seen[o]

\* The row is of the quorum being read and is made of what has been appended.
RowInv ==
    /\ snapshots # {} => indexerPc = "parts" /\ todo = {}
    /\ \A r \in snapshots : r = StakeIndexer!Row

SnapshotInv == StakeIndexer!TypeOK /\ SumInv /\ RowInv

LEMMA StakeFacts ==
    ASSUME StakeAssumption
    PROVE  /\ IsFiniteSet(Operators) /\ Stakes \cup {0} \subseteq Nat /\ 0 \in Stakes \cup {0}
           /\ 0 \in StakeIndexer!Quorums /\ 0 \in 0..MaxKills
           /\ \A q \in StakeIndexer!Quorums : q \in Nat
BY DEF StakeAssumption, StakeIndexer!Quorums

LEMMA NoStakes ==
    ASSUME StakeAssumption, NEW f, f = [o \in Operators |-> 0]
    PROVE  /\ f \in [Operators -> Stakes \cup {0}]
           /\ StakeIndexer!Total(f, Operators) = 0
<1>1. f \in [Operators -> Nat] /\ f \in [Operators -> Stakes \cup {0}] /\ \A o \in Operators : f[o] = 0
  OBVIOUS
<1>2. IsFiniteSet(Operators)
  BY DEF StakeAssumption
<1> QED BY <1>1, <1>2, TotalOfNothing

\* The rows a turn may leave.
LEMMA NoRows ==
    {} \subseteq StakeIndexer!Snapshots /\ StakeIndexer!Cardinality({}) <= 1
BY FS_EmptySet, SnapshotCardinality

(* A quorum begins without anything from the quorum before.                  *)
LEMMA SnapshotBegins ==
    ASSUME StakeAssumption, SnapshotInv, kills' \in 0..MaxKills,
           NEW S \in SUBSET Operators, NEW q \in StakeIndexer!Quorums,
           StakeIndexer!BeginQuorum(S, q)
    PROVE  SnapshotInv'
<1>1. /\ indexerPc' = "read" /\ asked' = S /\ snapshotQuorum' = q /\ todo' = S
      /\ stake' \in [Operators -> Stakes] /\ stakes' = [o \in Operators |-> 0]
      /\ totalStake' = 0 /\ snapshots' = {}
      /\ seen' = [o \in Operators |-> {stake'[o]}] /\ failed' = {}
  BY DEF StakeIndexer!BeginQuorum
<1>2. stakes' \in [Operators -> Stakes \cup {0}] /\ StakeIndexer!Total(stakes', Operators) = 0
  BY <1>1, NoStakes
<1>3. seen' \in [Operators -> SUBSET Stakes]
  BY <1>1
<1>4. snapshots' \subseteq StakeIndexer!Snapshots /\ StakeIndexer!Cardinality(snapshots') <= 1
  BY <1>1, NoRows
<1>5. StakeIndexer!TypeOK'
  BY <1>1, <1>2, <1>3, <1>4 DEF StakeIndexer!TypeOK
<1>6. SumInv'
  BY <1>1, <1>2 DEF SumInv
<1>7. RowInv'
  BY <1>1 DEF RowInv
<1> QED BY <1>5, <1>6, <1>7 DEF SnapshotInv

(* Nothing of a turn is left when the worker waits for the next.             *)
LEMMA SnapshotReturns ==
    ASSUME StakeAssumption, SnapshotInv, kills' \in 0..MaxKills, StakeIndexer!Return
    PROVE  SnapshotInv'
<1>1. /\ indexerPc' = "idle" /\ asked' = {} /\ snapshotQuorum' = 0 /\ todo' = {}
      /\ stake' = stake /\ stakes' = [o \in Operators |-> 0]
      /\ totalStake' = 0 /\ snapshots' = {}
      /\ seen' = [o \in Operators |-> {}] /\ failed' = {}
  BY DEF StakeIndexer!Return
<1>2. stakes' \in [Operators -> Stakes \cup {0}] /\ StakeIndexer!Total(stakes', Operators) = 0
  BY <1>1, NoStakes
<1>3. stake' \in [Operators -> Stakes] /\ seen' \in [Operators -> SUBSET Stakes]
  BY <1>1 DEF SnapshotInv, StakeIndexer!TypeOK
<1>4. snapshots' \subseteq StakeIndexer!Snapshots /\ StakeIndexer!Cardinality(snapshots') <= 1
  BY <1>1, NoRows
<1>5. StakeIndexer!TypeOK'
  BY <1>1, <1>2, <1>3, <1>4, StakeFacts DEF StakeIndexer!TypeOK
<1>6. SumInv'
  BY <1>1, <1>2 DEF SumInv
<1>7. RowInv'
  BY <1>1 DEF RowInv
<1> QED BY <1>5, <1>6, <1>7 DEF SnapshotInv

LEMMA SnapshotNextQuorum ==
    ASSUME StakeAssumption, SnapshotInv, kills' \in 0..MaxKills, StakeIndexer!NextQuorum
    PROVE  SnapshotInv'
<1>1. asked \in SUBSET Operators
  BY DEF SnapshotInv, StakeIndexer!TypeOK
<1> QED BY <1>1, SnapshotBegins, SnapshotReturns DEF StakeIndexer!NextQuorum

LEMMA SnapshotInit == StakeAssumption /\ StakeIndexer!Init => SnapshotInv
<1> SUFFICES ASSUME StakeAssumption, StakeIndexer!Init PROVE SnapshotInv
  OBVIOUS
<1>1. /\ indexerPc = "idle" /\ asked = {} /\ snapshotQuorum = 0 /\ todo = {}
      /\ stake \in [Operators -> Stakes] /\ stakes = [o \in Operators |-> 0]
      /\ totalStake = 0 /\ snapshots = {} /\ kills = 0
      /\ seen = [o \in Operators |-> {}] /\ failed = {}
  BY DEF StakeIndexer!Init, StakeIndexer!Waiting
<1>2. stakes \in [Operators -> Stakes \cup {0}] /\ StakeIndexer!Total(stakes, Operators) = 0
  BY <1>1, NoStakes
<1>3. seen \in [Operators -> SUBSET Stakes]
  BY <1>1
<1>4. snapshots \subseteq StakeIndexer!Snapshots /\ StakeIndexer!Cardinality(snapshots) <= 1
  BY <1>1, NoRows
<1>5. StakeIndexer!TypeOK
  BY <1>1, <1>2, <1>3, <1>4, StakeFacts DEF StakeIndexer!TypeOK
<1> QED BY <1>1, <1>2, <1>5 DEF SnapshotInv, SumInv, RowInv

LEMMA SnapshotChangeStake ==
    ASSUME StakeAssumption, SnapshotInv, NEW o \in Operators, NEW amount \in Stakes,
           StakeIndexer!ChangeStake(o, amount)
    PROVE  SnapshotInv'
<1> USE DEF SnapshotInv, StakeIndexer!TypeOK
<1>1. /\ indexerPc = "read" /\ stake' = [stake EXCEPT ![o] = amount]
      /\ seen' = [seen EXCEPT ![o] = @ \cup {amount}]
      /\ indexerPc' = indexerPc /\ asked' = asked /\ snapshotQuorum' = snapshotQuorum
      /\ todo' = todo /\ stakes' = stakes /\ totalStake' = totalStake
      /\ snapshots' = snapshots /\ failed' = failed /\ kills' = kills
  BY DEF StakeIndexer!ChangeStake, StakeIndexer!locals
<1>2. stake' \in [Operators -> Stakes] /\ seen' \in [Operators -> SUBSET Stakes]
  BY <1>1
<1>3. StakeIndexer!TypeOK'
  BY <1>1, <1>2
<1>4. \A p \in Operators : stake'[p] \in seen'[p] /\ seen[p] \subseteq seen'[p]
  BY <1>1 DEF SumInv
<1>5. SumInv'
  BY <1>1, <1>4 DEF SumInv
<1>6. RowInv'
  BY <1>1 DEF RowInv
<1> QED BY <1>3, <1>5, <1>6

LEMMA SnapshotReadStake ==
    ASSUME StakeAssumption, SnapshotInv, NEW o \in Operators, StakeIndexer!ReadStake(o)
    PROVE  SnapshotInv'
<1> USE DEF SnapshotInv, StakeIndexer!TypeOK
<1>1. /\ indexerPc = "read" /\ o \in todo /\ todo' = todo \ {o}
      /\ stakes' = [stakes EXCEPT ![o] = stake[o]] /\ totalStake' = totalStake + stake[o]
      /\ stake' = stake /\ indexerPc' = indexerPc /\ asked' = asked
      /\ snapshotQuorum' = snapshotQuorum /\ snapshots' = snapshots
      /\ seen' = seen /\ failed' = failed /\ kills' = kills
  BY DEF StakeIndexer!ReadStake
<1>2. stake[o] \in Stakes /\ stake[o] \in Nat /\ stakes[o] = 0
  BY <1>1, StakeFacts DEF SumInv
<1>3. /\ IsFiniteSet(Operators)
      /\ stakes \in [Operators -> Nat] /\ stakes' \in [Operators -> Nat]
      /\ stakes'[o] = stake[o] /\ \A p \in Operators \ {o} : stakes'[p] = stakes[p]
  BY <1>1, <1>2, StakeFacts
<1>4. StakeIndexer!Total(stakes', Operators) = StakeIndexer!Total(stakes, Operators) + stakes'[o]
  BY <1>2, <1>3, TotalOfOneMore
<1>5. totalStake' = StakeIndexer!Total(stakes', Operators)
  BY <1>1, <1>3, <1>4 DEF SumInv
<1>6. StakeIndexer!TypeOK'
  <2>1. stakes' \in [Operators -> Stakes \cup {0}]
    BY <1>1, <1>2
  <2>2. totalStake' \in Nat
    BY <1>1, <1>2
  <2> QED BY <1>1, <2>1, <2>2
<1>7. o \notin failed
  BY <1>1 DEF SumInv
<1>8. SumInv'
  BY <1>1, <1>5, <1>7 DEF SumInv
<1>9. RowInv'
  BY <1>1 DEF RowInv
<1> QED BY <1>6, <1>8, <1>9
LEMMA SnapshotSkipOperator ==
    ASSUME StakeAssumption, SnapshotInv, NEW o \in Operators, StakeIndexer!SkipOperator(o)
    PROVE  SnapshotInv'
<1> USE DEF SnapshotInv, StakeIndexer!TypeOK
<1>1. /\ indexerPc = "read" /\ o \in todo /\ todo' = todo \ {o} /\ failed' = failed \cup {o}
      /\ stakes' = stakes /\ totalStake' = totalStake
      /\ stake' = stake /\ indexerPc' = indexerPc /\ asked' = asked
      /\ snapshotQuorum' = snapshotQuorum /\ snapshots' = snapshots
      /\ seen' = seen /\ kills' = kills
  BY DEF StakeIndexer!SkipOperator
<1>2. StakeIndexer!TypeOK'
  BY <1>1
<1>3. SumInv'
  BY <1>1 DEF SumInv
<1>4. RowInv'
  BY <1>1 DEF RowInv
<1> QED BY <1>2, <1>3, <1>4

\* The row that is inserted.
LEMMA RowType ==
    ASSUME StakeAssumption, SnapshotInv
    PROVE  StakeIndexer!Row \in StakeIndexer!Snapshots
<1> DEFINE counted == {o \in Operators : stakes[o] > 0}
           square == [o \in Operators |-> stakes[o] * stakes[o]]
<1>1. stakes \in [Operators -> Nat]
  BY StakeFacts DEF SnapshotInv, StakeIndexer!TypeOK
<1>2. square \in [Operators -> Nat]
  BY <1>1
<1>3. IsFiniteSet(Operators)
  BY StakeFacts
<1>4. StakeIndexer!Total(square, Operators) \in Nat
  <2> HIDE DEF square
  <2> QED BY <1>2, <1>3, TotalType
<1>5. counted \subseteq Operators
  OBVIOUS
<1>6. Cardinality(counted) \in Nat
  <2> HIDE DEF counted
  <2>1. IsFiniteSet(counted)
    BY <1>3, <1>5, FS_Subset
  <2> QED BY <2>1, FS_CardinalityType
<1>7. StakeIndexer!Cardinality(counted) \in Nat
  BY <1>6, SnapshotCardinality
<1>8. snapshotQuorum \in StakeIndexer!Quorums /\ totalStake \in Nat
  BY DEF SnapshotInv, StakeIndexer!TypeOK
<1> QED BY <1>4, <1>7, <1>8 DEF StakeIndexer!Row, StakeIndexer!Snapshots

LEMMA SnapshotInsert ==
    ASSUME StakeAssumption, SnapshotInv, NEW inserted \in BOOLEAN,
           StakeIndexer!InsertStakeSnapshot(inserted)
    PROVE  SnapshotInv'
<1>1. /\ indexerPc = "read" /\ todo = {} /\ indexerPc' = "parts"
      /\ snapshots' = IF inserted THEN {StakeIndexer!Row} ELSE {}
      /\ stake' = stake /\ asked' = asked /\ snapshotQuorum' = snapshotQuorum
      /\ todo' = todo /\ stakes' = stakes /\ totalStake' = totalStake
      /\ seen' = seen /\ failed' = failed /\ kills' = kills
  BY DEF StakeIndexer!InsertStakeSnapshot, StakeIndexer!locals
<1>2. snapshots' \subseteq StakeIndexer!Snapshots
  BY <1>1, RowType
<1>3. StakeIndexer!Cardinality(snapshots') <= 1
  <2>1. Cardinality({}) = 0 /\ Cardinality({StakeIndexer!Row}) = 1
    BY FS_EmptySet, FS_Singleton
  <2>2. Cardinality(snapshots') = 0 \/ Cardinality(snapshots') = 1
    BY <1>1, <2>1
  <2>3. Cardinality(snapshots') <= 1
    BY <2>2
  <2> QED BY <2>3, SnapshotCardinality
<1>4. StakeIndexer!TypeOK'
  BY <1>1, <1>2, <1>3 DEF SnapshotInv, StakeIndexer!TypeOK
<1>5. SumInv'
  BY <1>1 DEF SnapshotInv, SumInv
<1>6. StakeIndexer!Row' = StakeIndexer!Row
  BY <1>1 DEF StakeIndexer!Row
<1>7. RowInv'
  BY <1>1, <1>6 DEF RowInv
<1> QED BY <1>4, <1>5, <1>7 DEF SnapshotInv

LEMMA SnapshotKept ==
    ASSUME SnapshotInv, UNCHANGED StakeIndexer!vars
    PROVE  SnapshotInv'
<1>1. /\ stake' = stake /\ indexerPc' = indexerPc /\ asked' = asked
      /\ snapshotQuorum' = snapshotQuorum /\ todo' = todo /\ stakes' = stakes
      /\ totalStake' = totalStake /\ snapshots' = snapshots /\ seen' = seen
      /\ failed' = failed /\ kills' = kills
  BY DEF StakeIndexer!vars, StakeIndexer!locals
<1>2. StakeIndexer!TypeOK'
  BY <1>1 DEF SnapshotInv, StakeIndexer!TypeOK
<1>3. SumInv'
  BY <1>1 DEF SnapshotInv, SumInv
<1>4. StakeIndexer!Row' = StakeIndexer!Row
  BY <1>1 DEF StakeIndexer!Row
<1>5. RowInv'
  BY <1>1, <1>4 DEF SnapshotInv, RowInv
<1> QED BY <1>2, <1>3, <1>5 DEF SnapshotInv

LEMMA SnapshotNext ==
    ASSUME StakeAssumption, SnapshotInv, [StakeIndexer!Next]_StakeIndexer!vars
    PROVE  SnapshotInv'
<1>1. kills \in 0..MaxKills /\ MaxKills \in Nat
  BY DEF SnapshotInv, StakeIndexer!TypeOK, StakeAssumption
<1>2. CASE UNCHANGED StakeIndexer!vars
  BY <1>2, SnapshotKept
<1>3. ASSUME NEW S \in SUBSET Operators, StakeIndexer!Snapshot(S) PROVE SnapshotInv'
  <2>1. kills' \in 0..MaxKills /\ StakeIndexer!BeginQuorum(S, 0) /\ 0 \in StakeIndexer!Quorums
    BY <1>1, <1>3, StakeFacts DEF StakeIndexer!Snapshot
  <2> QED BY <2>1, SnapshotBegins
<1>4. CASE StakeIndexer!EmptyQuorum
  <2>1. kills' \in 0..MaxKills /\ StakeIndexer!NextQuorum
    BY <1>1, <1>4 DEF StakeIndexer!EmptyQuorum
  <2> QED BY <2>1, SnapshotNextQuorum
<1>5. CASE StakeIndexer!InsertStakeSnapshotOperators
  <2>1. kills' \in 0..MaxKills /\ StakeIndexer!NextQuorum
    BY <1>1, <1>5 DEF StakeIndexer!InsertStakeSnapshotOperators
  <2> QED BY <2>1, SnapshotNextQuorum
<1>6. CASE StakeIndexer!Crash
  <2>1. kills' \in 0..MaxKills /\ StakeIndexer!Return
    BY <1>1, <1>6 DEF StakeIndexer!Crash
  <2> QED BY <2>1, SnapshotReturns
<1>7. CASE StakeIndexer!Next
  BY <1>3, <1>4, <1>5, <1>6, <1>7, SnapshotChangeStake, SnapshotReadStake,
     SnapshotSkipOperator, SnapshotInsert DEF StakeIndexer!Next
<1> QED BY <1>2, <1>7

(* A row in stake_snapshots is explained by the amounts the loop appended.   *)
LEMMA RowsExplained == StakeAssumption /\ SnapshotInv => StakeIndexer!SnapshotIsExplained
<1> SUFFICES ASSUME StakeAssumption, SnapshotInv, NEW r \in snapshots
             PROVE  \E f \in [Operators -> Stakes \cup {0}] :
                        /\ \A o \in asked \ failed : f[o] \in seen[o]
                        /\ \A o \in (Operators \ asked) \cup failed : f[o] = 0
                        /\ r.quorum = snapshotQuorum
                        /\ r.total = StakeIndexer!Total(f, Operators)
                        /\ r.count = StakeIndexer!Cardinality({o \in Operators : f[o] > 0})
                        /\ r.squares = StakeIndexer!Total([o \in Operators |-> f[o] * f[o]], Operators)
  BY DEF StakeIndexer!SnapshotIsExplained
<1>1. todo = {} /\ r = StakeIndexer!Row
  BY DEF SnapshotInv, RowInv
<1>2. stakes \in [Operators -> Stakes \cup {0}]
  BY DEF SnapshotInv, StakeIndexer!TypeOK
<1>3. /\ r.quorum = snapshotQuorum /\ r.total = totalStake
      /\ r.count = StakeIndexer!Cardinality({o \in Operators : stakes[o] > 0})
      /\ r.squares = StakeIndexer!Total([o \in Operators |-> stakes[o] * stakes[o]], Operators)
  BY <1>1 DEF StakeIndexer!Row
<1>4. /\ \A o \in asked \ failed : stakes[o] \in seen[o]
      /\ \A o \in (Operators \ asked) \cup failed : stakes[o] = 0
      /\ totalStake = StakeIndexer!Total(stakes, Operators)
  BY <1>1 DEF SnapshotInv, SumInv
<1> QED BY <1>2, <1>3, <1>4

(* The variables of the StakeIndexer keep their types: the sum stays an      *)
(* amount, and a turn leaves at most one row.                                 *)
THEOREM StakesTyped == StakeAssumption => (StakeIndexer!Spec => []StakeIndexer!TypeOK)
<1> SUFFICES ASSUME StakeAssumption PROVE StakeIndexer!Spec => []StakeIndexer!TypeOK
  OBVIOUS
<1>1. StakeIndexer!Init => SnapshotInv
  BY SnapshotInit
<1>2. SnapshotInv /\ [StakeIndexer!Next]_StakeIndexer!vars => SnapshotInv'
  BY SnapshotNext
<1>3. SnapshotInv => StakeIndexer!TypeOK
  BY DEF SnapshotInv
<1> QED BY <1>1, <1>2, <1>3, PTL DEF StakeIndexer!Spec

(* Whatever stakes change, calls and inserts fail and kills come between the *)
(* calls, a row of stake_snapshots is made of a stake each operator of the    *)
(* set had while its quorum was read: the total, the number and the           *)
(* concentration are of the same stakes.                                      *)
THEOREM SnapshotsExplained ==
    StakeAssumption => (StakeIndexer!Spec => []StakeIndexer!SnapshotIsExplained)
<1> SUFFICES ASSUME StakeAssumption PROVE StakeIndexer!Spec => []StakeIndexer!SnapshotIsExplained
  OBVIOUS
<1>1. StakeIndexer!Init => SnapshotInv
  BY SnapshotInit
<1>2. SnapshotInv /\ [StakeIndexer!Next]_StakeIndexer!vars => SnapshotInv'
  BY SnapshotNext
<1>3. SnapshotInv => StakeIndexer!SnapshotIsExplained
  BY RowsExplained
<1> QED BY <1>1, <1>2, <1>3, PTL DEF StakeIndexer!Spec
-----------------------------------------------------------------------------
(* A snapshot ends: what is left of it, in steps.  A quorum has one call for  *)
(* each operator and two inserts, of which one may be left out.              *)
QuorumSteps == Cardinality(Operators) + 3
SnapshotLeft ==
    IF indexerPc = "idle" THEN 0
    ELSE (SnapshotQuorums - 1 - snapshotQuorum) * QuorumSteps
         + (IF indexerPc = "read" THEN Cardinality(todo) + 2 ELSE 1)

LEMMA SnapshotSets ==
    ASSUME StakeAssumption, NEW S \in SUBSET Operators
    PROVE  /\ IsFiniteSet(S) /\ Cardinality(S) \in Nat
           /\ QuorumSteps \in Nat /\ Cardinality(S) + 3 <= QuorumSteps
<1>1. IsFiniteSet(Operators) /\ IsFiniteSet(S) /\ Cardinality(S) <= Cardinality(Operators)
  BY FS_Subset DEF StakeAssumption
<1>2. Cardinality(S) \in Nat /\ Cardinality(Operators) \in Nat
  BY <1>1, FS_CardinalityType
<1> QED BY <1>1, <1>2 DEF QuorumSteps

LEMMA SnapshotLeftType == StakeAssumption /\ SnapshotInv => SnapshotLeft \in Nat
<1> SUFFICES ASSUME StakeAssumption, SnapshotInv PROVE SnapshotLeft \in Nat
  OBVIOUS
<1>1. SnapshotQuorums - 1 - snapshotQuorum \in Nat /\ todo \in SUBSET Operators
  BY DEF SnapshotInv, StakeIndexer!TypeOK, StakeIndexer!Quorums, StakeAssumption
<1>2. (SnapshotQuorums - 1 - snapshotQuorum) * QuorumSteps \in Nat /\ Cardinality(todo) \in Nat
  BY <1>1, SnapshotSets
<1> QED BY <1>2 DEF SnapshotLeft

\* The next quorum, or the end, leaves less than a quorum that is through.
LEMMA NextQuorumCounts ==
    ASSUME StakeAssumption, SnapshotInv, StakeIndexer!NextQuorum, indexerPc # "idle"
    PROVE  SnapshotLeft' < SnapshotLeft
<1>1. snapshotQuorum \in 0..(SnapshotQuorums - 1) /\ asked \in SUBSET Operators
      /\ todo \in SUBSET Operators /\ SnapshotQuorums \in Nat
  BY DEF SnapshotInv, StakeIndexer!TypeOK, StakeIndexer!Quorums, StakeAssumption
<1>2. PICK n \in Nat : n = SnapshotQuorums - 1 - snapshotQuorum
  BY <1>1
<1>3. QuorumSteps \in Nat /\ n * QuorumSteps \in Nat /\ Cardinality(todo) \in Nat
  BY <1>1, SnapshotSets, MultiplyQuorums
<1>4. SnapshotLeft >= n * QuorumSteps + 1
  <2>1. SnapshotLeft = n * QuorumSteps + (IF indexerPc = "read" THEN Cardinality(todo) + 2 ELSE 1)
    BY <1>2 DEF SnapshotLeft
  <2> QED BY <1>3, <2>1
<1>5. CASE snapshotQuorum + 1 \in StakeIndexer!Quorums
  <2>1. indexerPc' = "read" /\ todo' = asked /\ snapshotQuorum' = snapshotQuorum + 1
    BY <1>5 DEF StakeIndexer!NextQuorum, StakeIndexer!BeginQuorum
  <2>2. PICK k \in Nat : k = SnapshotQuorums - 1 - (snapshotQuorum + 1) /\ n = k + 1
    BY <1>1, <1>2, <1>5 DEF StakeIndexer!Quorums
  <2>3. SnapshotLeft' = k * QuorumSteps + (Cardinality(asked) + 2)
    BY <2>1, <2>2 DEF SnapshotLeft
  <2>4. k * QuorumSteps \in Nat /\ n * QuorumSteps = k * QuorumSteps + QuorumSteps
    BY <1>3, <2>2, MultiplyQuorums
  <2>5. Cardinality(asked) \in Nat /\ Cardinality(asked) + 3 <= QuorumSteps
    BY <1>1, SnapshotSets
  <2>6. SnapshotLeft \in Nat
    BY SnapshotLeftType
  <2> QED BY <1>3, <1>4, <2>3, <2>4, <2>5, <2>6
<1>6. CASE ~(snapshotQuorum + 1 \in StakeIndexer!Quorums)
  <2>1. SnapshotLeft' = 0
    BY <1>6 DEF StakeIndexer!NextQuorum, StakeIndexer!Return, SnapshotLeft
  <2> QED BY <1>3, <1>4, <2>1, SnapshotLeftType
<1> QED BY <1>5, <1>6

LEMMA SnapshotStepCounts ==
    ASSUME StakeAssumption, SnapshotInv, [StakeIndexer!Next]_StakeIndexer!vars,
           indexerPc # "idle"
    PROVE  \/ SnapshotLeft' < SnapshotLeft
           \/ \E o \in Operators, amount \in Stakes : StakeIndexer!ChangeStake(o, amount)
           \/ UNCHANGED StakeIndexer!vars
<1>1. SnapshotLeft \in Nat /\ todo \in SUBSET Operators
  BY SnapshotLeftType DEF SnapshotInv, StakeIndexer!TypeOK
<1>2. PICK rest : rest = (SnapshotQuorums - 1 - snapshotQuorum) * QuorumSteps
  OBVIOUS
<1>3. rest \in Nat
  <2>1. SnapshotQuorums - 1 - snapshotQuorum \in Nat
    BY DEF SnapshotInv, StakeIndexer!TypeOK, StakeIndexer!Quorums, StakeAssumption
  <2> QED BY <1>1, <1>2, <2>1, SnapshotSets
<1>4. IsFiniteSet(todo) /\ Cardinality(todo) \in Nat
  BY <1>1, SnapshotSets
<1>5. ASSUME NEW o \in Operators, StakeIndexer!ReadStake(o) \/ StakeIndexer!SkipOperator(o)
      PROVE  SnapshotLeft' < SnapshotLeft
  <2>1. /\ indexerPc = "read" /\ indexerPc' = "read" /\ o \in todo /\ todo' = todo \ {o}
        /\ snapshotQuorum' = snapshotQuorum
    BY <1>5 DEF StakeIndexer!ReadStake, StakeIndexer!SkipOperator
  <2>2. Cardinality(todo') = Cardinality(todo) - 1
    BY <1>4, <2>1, FS_RemoveElement
  <2>3. SnapshotLeft = rest + (Cardinality(todo) + 2) /\ SnapshotLeft' = rest + (Cardinality(todo') + 2)
    BY <1>2, <2>1 DEF SnapshotLeft
  <2> QED BY <1>3, <1>4, <2>2, <2>3
<1>6. ASSUME NEW inserted \in BOOLEAN, StakeIndexer!InsertStakeSnapshot(inserted)
      PROVE  SnapshotLeft' < SnapshotLeft
  <2>1. indexerPc = "read" /\ indexerPc' = "parts" /\ snapshotQuorum' = snapshotQuorum
    BY <1>6 DEF StakeIndexer!InsertStakeSnapshot, StakeIndexer!locals
  <2>2. SnapshotLeft = rest + (Cardinality(todo) + 2) /\ SnapshotLeft' = rest + 1
    BY <1>2, <2>1 DEF SnapshotLeft
  <2> QED BY <1>3, <1>4, <2>2
<1>7. CASE StakeIndexer!EmptyQuorum \/ StakeIndexer!InsertStakeSnapshotOperators
  BY <1>7, NextQuorumCounts DEF StakeIndexer!EmptyQuorum, StakeIndexer!InsertStakeSnapshotOperators
<1>8. CASE StakeIndexer!Crash
  <2>1. SnapshotLeft' = 0
    BY <1>8 DEF StakeIndexer!Crash, StakeIndexer!Return, SnapshotLeft
  <2>2. SnapshotLeft = rest + (IF indexerPc = "read" THEN Cardinality(todo) + 2 ELSE 1)
    BY <1>2 DEF SnapshotLeft
  <2> QED BY <1>3, <1>4, <2>1, <2>2
<1>9. ~(\E S \in SUBSET Operators : StakeIndexer!Snapshot(S))
  BY DEF StakeIndexer!Snapshot
<1> QED BY <1>5, <1>6, <1>7, <1>8, <1>9 DEF StakeIndexer!Next

(* A snapshot cannot stay with a quorum: every step of the worker, whether    *)
(* calls and inserts succeed or fail, leaves fewer steps to the end of the    *)
(* loop over the quorums; only stakes that change leave as many.             *)
THEOREM SnapshotsAreBounded ==
    StakeAssumption =>
        (StakeIndexer!Spec =>
            /\ [](SnapshotLeft \in Nat)
            /\ [][indexerPc # "idle" =>
                      \/ SnapshotLeft' < SnapshotLeft
                      \/ \E o \in Operators, amount \in Stakes :
                             StakeIndexer!ChangeStake(o, amount)]_(StakeIndexer!vars))
<1> SUFFICES ASSUME StakeAssumption
             PROVE  StakeIndexer!Spec =>
                        /\ [](SnapshotLeft \in Nat)
                        /\ [][indexerPc # "idle" =>
                                  \/ SnapshotLeft' < SnapshotLeft
                                  \/ \E o \in Operators, amount \in Stakes :
                                         StakeIndexer!ChangeStake(o, amount)]_(StakeIndexer!vars)
  OBVIOUS
<1>1. StakeIndexer!Init => SnapshotInv
  BY SnapshotInit
<1>2. SnapshotInv /\ [StakeIndexer!Next]_StakeIndexer!vars => SnapshotInv'
  BY SnapshotNext
<1>3. SnapshotInv => SnapshotLeft \in Nat
  BY SnapshotLeftType
<1>4. SnapshotInv /\ [StakeIndexer!Next]_StakeIndexer!vars
        => [indexerPc # "idle" =>
                \/ SnapshotLeft' < SnapshotLeft
                \/ \E o \in Operators, amount \in Stakes :
                       StakeIndexer!ChangeStake(o, amount)]_(StakeIndexer!vars)
  BY SnapshotStepCounts
<1> QED BY <1>1, <1>2, <1>3, <1>4, PTL DEF StakeIndexer!Spec
=============================================================================
