--------------------------- MODULE ClusterProofs ---------------------------
(***************************************************************************)
(* Theorems about the replicated server (Cluster): the replicas are one    *)
(* log.  The parts: what the fold of Applied over a batch of entries is,   *)
(* the entries of a raft log that are chosen and what no later election,   *)
(* request or write takes back, the inductive invariant, one lemma per     *)
(* action, and the theorem.                                                *)
(***************************************************************************)
EXTENDS Cluster, NatLemmas

-----------------------------------------------------------------------------
(* The fold of Applied over a sequence of entries.                         *)

FoldsTo(F, node, s, m) ==
    F = [d \in SUBSET (1..m) |-> IF d = {} THEN node ELSE Applied(F[d \ {Max(d)}], s[Max(d)])]

LEMMA MaxIs ==
  ASSUME NEW S, S \subseteq Nat, NEW x \in S, \A y \in S : y <= x
  PROVE  Max(S) = x
<1>1. \A y \in S : x >= y
  OBVIOUS
<1>2. \E z \in S : \A y \in S : z >= y
  BY <1>1
<1>3. Max(S) \in S /\ \A y \in S : Max(S) >= y
  BY <1>2 DEF Max
<1>4. Max(S) >= x /\ x >= Max(S)
  BY <1>1, <1>3
<1>5. Max(S) \in Nat /\ x \in Nat
  BY <1>3
<1> QED BY <1>4, <1>5

LEMMA FoldExtends ==
  ASSUME NEW node, NEW s, NEW m \in Nat, NEW F, FoldsTo(F, node, s, m)
  PROVE  \E G : FoldsTo(G, node, s, m + 1)
<1> DEFINE G == [d \in SUBSET (1..(m + 1)) |->
                   IF m + 1 \in d THEN Applied(F[d \ {m + 1}], s[m + 1]) ELSE F[d]]
           E(d) == IF d = {} THEN node ELSE Applied(G[d \ {Max(d)}], s[Max(d)])
<1>1. SUFFICES \A d \in SUBSET (1..(m + 1)) : G[d] = E(d)
  <2>1. G = [d \in SUBSET (1..(m + 1)) |-> E(d)]
    BY <1>1
  <2> QED BY <2>1 DEF FoldsTo
<1>2. \A d \in SUBSET (1..m) : d \in SUBSET (1..(m + 1)) /\ m + 1 \notin d /\ G[d] = F[d]
  OBVIOUS
<1>3. \A d \in SUBSET (1..m) : F[d] = IF d = {} THEN node ELSE Applied(F[d \ {Max(d)}], s[Max(d)])
  BY DEF FoldsTo
<1>4. TAKE d \in SUBSET (1..(m + 1))
<1>5. CASE m + 1 \in d
  <2>1. d \subseteq Nat /\ \A y \in d : y <= m + 1
    OBVIOUS
  <2>2. Max(d) = m + 1
    BY <2>1, <1>5, MaxIs
  <2>3. d \ {m + 1} \in SUBSET (1..m)
    OBVIOUS
  <2>4. G[d \ {m + 1}] = F[d \ {m + 1}]
    BY <2>3, <1>2
  <2>5. G[d] = Applied(F[d \ {m + 1}], s[m + 1])
    BY <1>5
  <2> HIDE DEF G
  <2> QED BY <2>2, <2>4, <2>5, <1>5
<1>6. CASE m + 1 \notin d
  <2>1. d \in SUBSET (1..m)
    BY <1>6
  <2>2. G[d] = F[d] /\ F[d] = IF d = {} THEN node ELSE Applied(F[d \ {Max(d)}], s[Max(d)])
    BY <2>1, <1>2, <1>3
  <2>3. d \ {Max(d)} \in SUBSET (1..m)
    BY <2>1
  <2>4. G[d \ {Max(d)}] = F[d \ {Max(d)}]
    BY <2>3, <1>2
  <2> HIDE DEF G
  <2> QED BY <2>2, <2>4
<1> QED BY <1>5, <1>6

LEMMA FoldExists ==
  ASSUME NEW node, NEW s, NEW n \in Nat
  PROVE  \E F : FoldsTo(F, node, s, n)
<1> DEFINE Bad == {m \in Nat : ~ \E F : FoldsTo(F, node, s, m)}
<1>1. SUFFICES ASSUME Bad # {} PROVE FALSE
  OBVIOUS
<1>2. PICK m \in Bad : \A k \in Bad : m <= k
  BY <1>1, LeastNat
<1>3. CASE m = 0
  <2>1. SUBSET (1..m) = {{}}
    BY <1>3
  <2>2. FoldsTo([d \in SUBSET (1..m) |-> node], node, s, m)
    BY <2>1 DEF FoldsTo
  <2> QED BY <2>2, <1>2
<1>4. CASE m # 0
  <2>1. m - 1 \in Nat /\ m - 1 \notin Bad /\ m - 1 + 1 = m
    BY <1>2, <1>4
  <2>2. PICK F : FoldsTo(F, node, s, m - 1)
    BY <2>1
  <2>3. \E G : FoldsTo(G, node, s, m - 1 + 1)
    BY <2>1, <2>2, FoldExtends
  <2> QED BY <2>1, <2>3, <1>2
<1> QED BY <1>3, <1>4

ApplyAll(node, s) == FoldLeft(Applied, node, s)
\* A holds the states of the node in the run of s.
RunBy(A, node, s, n) ==
    /\ A[0] = node /\ ApplyAll(node, s) = A[n]
    /\ \A i \in 1..n : A[i] = Applied(A[i - 1], s[i])

LEMMA FoldSteps ==
  ASSUME NEW node, NEW s, NEW n \in Nat, DOMAIN s = 1..n
  PROVE  \E A : RunBy(A, node, s, n)
<1> DEFINE iter == CHOOSE F : FoldsTo(F, node, s, n)
<1>1. ApplyAll(node, s) = iter[1..n]
  BY DEF ApplyAll, FoldLeft, MapThenFoldSet, FoldsTo
<1>2. FoldsTo(iter, node, s, n)
  BY FoldExists
<1> HIDE DEF iter
<1>3. \A d \in SUBSET (1..n) : iter[d] = IF d = {} THEN node ELSE Applied(iter[d \ {Max(d)}], s[Max(d)])
  BY <1>2 DEF FoldsTo
<1> DEFINE A == [i \in 0..n |-> iter[1..i]]
<1>4. A[0] = node
  <2>1. 1..0 = {} /\ 0 \in 0..n /\ {} \in SUBSET (1..n)
    OBVIOUS
  <2> QED BY <2>1, <1>3
<1>5. ApplyAll(node, s) = A[n]
  BY <1>1
<1>6. ASSUME NEW i \in 1..n PROVE A[i] = Applied(A[i - 1], s[i])
  <2>1. 1..i \in SUBSET (1..n) /\ i \in 1..i /\ i \in 0..n /\ i - 1 \in 0..n
    <3> HIDE DEF A
    <3>1. \A j \in 1..i : j \in 1..n
      OBVIOUS
    <3> QED BY <3>1
  <2>2. Max(1..i) = i
    <3>1. 1..i \subseteq Nat /\ i \in 1..i /\ \A y \in 1..i : y <= i
      OBVIOUS
    <3> QED BY <3>1, MaxIs
  <2>3. (1..i) \ {i} = 1..(i - 1)
    OBVIOUS
  <2>4. iter[1..i] = Applied(iter[1..(i - 1)], s[i])
    BY <2>1, <2>2, <2>3, <1>3
  <2> QED BY <2>1, <2>4
<1>7. RunBy(A, node, s, n)
  <2> HIDE DEF A
  <2> QED BY <1>4, <1>5, <1>6 DEF RunBy
<1> QED BY <1>7
-----------------------------------------------------------------------------
(* Raft logs: how far two agree, and how many episodes a prefix holds.     *)

ClEntry == [kind : {"member", "blank", "normal"}, term : Nat, id : Nat]
Agree(s, t, k) == k <= Len(s) /\ k <= Len(t) /\ \A i \in 1..k : s[i] = t[i]
Normals(s, k) == Cardinality({i \in 1..k : s[i].kind = "normal"})

LEMMA AgreeFacts ==
  ASSUME NEW s \in Seq(ClEntry), NEW t \in Seq(ClEntry), NEW u \in Seq(ClEntry), NEW k \in Nat
  PROVE  /\ k <= Len(s) => Agree(s, s, k)
         /\ Agree(s, t, k) => Agree(t, s, k)
         /\ Agree(s, t, k) /\ Agree(t, u, k) => Agree(s, u, k)
         /\ \A j \in Nat : j <= k /\ Agree(s, t, k) => Agree(s, t, j)
  BY LenProperties DEF Agree

\* IsPrefix is agreement over the whole of the first sequence.
LEMMA PrefixAgrees ==
  ASSUME NEW s \in Seq(ClEntry), NEW t \in Seq(ClEntry)
  PROVE  IsPrefix(s, t) <=> Agree(s, t, Len(s))
<1>1. Len(s) \in Nat /\ Len(t) \in Nat
  BY LenProperties
<1>2. Len(s) \in 0..Len(s)
  BY <1>1
<1>3. /\ SubSeq(s, 1, Len(s)) \in Seq(ClEntry) /\ Len(SubSeq(s, 1, Len(s))) = Len(s)
      /\ \A i \in 1..Len(s) : SubSeq(s, 1, Len(s))[i] = s[i]
  BY <1>2, PrefixType
<1>4. CASE Len(s) <= Len(t)
  <2>1. Len(s) \in 0..Len(t)
    BY <1>1, <1>4
  <2>2. /\ SubSeq(t, 1, Len(s)) \in Seq(ClEntry) /\ Len(SubSeq(t, 1, Len(s))) = Len(s)
        /\ \A i \in 1..Len(s) : SubSeq(t, 1, Len(s))[i] = t[i]
    BY <2>1, PrefixType
  <2>3. ASSUME IsPrefix(s, t) PROVE Agree(s, t, Len(s))
    BY <2>3, <1>1, <1>3, <1>4, <2>2 DEF IsPrefix, Agree
  <2>4. ASSUME Agree(s, t, Len(s)) PROVE IsPrefix(s, t)
    <3>1. \A i \in 1..Len(s) : SubSeq(s, 1, Len(s))[i] = SubSeq(t, 1, Len(s))[i]
      BY <2>4, <1>3, <2>2 DEF Agree
    <3>2. SubSeq(s, 1, Len(s)) = SubSeq(t, 1, Len(s))
      BY <3>1, <1>3, <2>2, SeqEqual
    <3> QED BY <3>2, <1>4 DEF IsPrefix
  <2> QED BY <2>3, <2>4
<1>5. CASE ~(Len(s) <= Len(t))
  BY <1>5, <1>1 DEF IsPrefix, Agree
<1> QED BY <1>4, <1>5

LEMMA NormalsStep ==
  ASSUME NEW s, NEW k \in Nat
  PROVE  /\ Normals(s, k) \in Nat /\ Normals(s, 0) = 0
         /\ s[k + 1].kind = "normal" => Normals(s, k + 1) = Normals(s, k) + 1
         /\ s[k + 1].kind # "normal" => Normals(s, k + 1) = Normals(s, k)
<1> DEFINE N(j) == {i \in 1..j : s[i].kind = "normal"}
<1>1. IsFiniteSet(N(k)) /\ Cardinality(N(k)) \in Nat
  <2>1. IsFiniteSet(1..k)
    BY IntervalCardinality
  <2>2. N(k) \subseteq 1..k
    OBVIOUS
  <2>3. IsFiniteSet(N(k))
    BY <2>1, <2>2, FS_Subset
  <2> QED BY <2>3, FS_CardinalityType
<1>2. Normals(s, 0) = 0
  <2>1. N(0) = {}
    OBVIOUS
  <2> QED BY <2>1, FS_EmptySet DEF Normals
<1>3. ASSUME s[k + 1].kind = "normal" PROVE Normals(s, k + 1) = Normals(s, k) + 1
  <2>1. N(k + 1) = N(k) \cup {k + 1} /\ k + 1 \notin N(k)
    BY <1>3
  <2>2. Cardinality(N(k) \cup {k + 1}) = Cardinality(N(k)) + 1
    BY <2>1, <1>1, FS_AddElement
  <2> QED BY <2>1, <2>2 DEF Normals
<1>4. ASSUME s[k + 1].kind # "normal" PROVE Normals(s, k + 1) = Normals(s, k)
  <2>1. N(k + 1) = N(k)
    BY <1>4
  <2> QED BY <2>1 DEF Normals
<1> QED BY <1>1, <1>2, <1>3, <1>4 DEF Normals

LEMMA NormalsGrow ==
  ASSUME NEW s, NEW j \in Nat, NEW k \in Nat, j <= k
  PROVE  Normals(s, j) <= Normals(s, k)
<1>1. {i \in 1..j : s[i].kind = "normal"} \subseteq {i \in 1..k : s[i].kind = "normal"}
  OBVIOUS
<1>2. IsFiniteSet(1..k)
  BY IntervalCardinality
<1>3. {i \in 1..k : s[i].kind = "normal"} \subseteq 1..k
  OBVIOUS
<1>4. IsFiniteSet({i \in 1..k : s[i].kind = "normal"})
  BY <1>2, <1>3, FS_Subset
<1> QED BY <1>1, <1>4, FS_Subset DEF Normals

\* An episode that is later in the log has a greater number.
LEMMA NormalsOrder ==
  ASSUME NEW s, NEW j \in Nat, NEW k \in Nat \ {0}, j < k, s[k].kind = "normal"
  PROVE  Normals(s, j) < Normals(s, k)
<1>1. k - 1 \in Nat /\ j <= k - 1 /\ k - 1 + 1 = k
  OBVIOUS
<1>2. Normals(s, k) = Normals(s, k - 1) + 1
  BY <1>1, NormalsStep
<1>3. Normals(s, j) <= Normals(s, k - 1) /\ Normals(s, j) \in Nat /\ Normals(s, k - 1) \in Nat
  BY <1>1, NormalsGrow, NormalsStep
<1> QED BY <1>2, <1>3

LEMMA NormalsAgree ==
  ASSUME NEW s, NEW t, NEW k \in Nat, \A i \in 1..k : s[i] = t[i]
  PROVE  Normals(s, k) = Normals(t, k)
<1>1. {i \in 1..k : s[i].kind = "normal"} = {i \in 1..k : t[i].kind = "normal"}
  OBVIOUS
<1> QED BY <1>1 DEF Normals

\* Every number up to the count is the number of an episode.
LEMMA NormalsOnto ==
  ASSUME NEW s, NEW k \in Nat, NEW x \in 1..Normals(s, k)
  PROVE  \E i \in 1..k : s[i].kind = "normal" /\ Normals(s, i) = x
<1> DEFINE T == {j \in Nat : x <= Normals(s, j)}
<1>0. x \in Nat /\ x >= 1 /\ x <= Normals(s, k)
  BY NormalsStep
<1>1. k \in T
  BY <1>0
<1>2. PICK j \in T : \A i \in T : j <= i
  BY <1>1, LeastNat
<1>3. j # 0 /\ j \in Nat /\ j <= k
  BY <1>2, <1>1, <1>0, NormalsStep
<1>4. j - 1 \in Nat /\ j - 1 + 1 = j /\ j - 1 \notin T
  BY <1>2, <1>3
<1>5. /\ Normals(s, j - 1) \in Nat /\ Normals(s, j) \in Nat
      /\ s[j].kind = "normal" => Normals(s, j) = Normals(s, j - 1) + 1
      /\ s[j].kind # "normal" => Normals(s, j) = Normals(s, j - 1)
  BY <1>4, <1>3, NormalsStep
<1>6. Normals(s, j - 1) < x /\ x <= Normals(s, j)
  BY <1>2, <1>4, <1>5, <1>0
<1>7. s[j].kind = "normal" /\ Normals(s, j) = x
  BY <1>5, <1>6, <1>0
<1> QED BY <1>3, <1>7

LEMMA MajoritiesMeet ==
  ASSUME NEW S, NEW T, S \subseteq ClNodes, T \subseteq ClNodes, Majority(S)
  PROVE  /\ Majority(T) => S \cap T # {}
         /\ S \subseteq T => Majority(T)
         /\ S # {}
<1>1. IsFiniteSet(ClNodes) /\ IsFiniteSet(S) /\ IsFiniteSet(T)
  BY ClAssumption, FS_Subset
<1>2. Cardinality(ClNodes) \in Nat /\ Cardinality(S) \in Nat /\ Cardinality(T) \in Nat
  BY <1>1, FS_CardinalityType
<1>3. ASSUME Majority(T) PROVE S \cap T # {}
  <2>1. Cardinality(S) + Cardinality(T) > Cardinality(ClNodes)
    BY <1>2, <1>3 DEF Majority
  <2> QED BY <2>1, <1>1, FS_MajoritiesIntersect
<1>4. ASSUME S \subseteq T PROVE Majority(T)
  <2>1. Cardinality(S) <= Cardinality(T)
    BY <1>1, <1>4, FS_Subset
  <2> QED BY <2>1, <1>2 DEF Majority
<1>5. S # {}
  BY <1>2, FS_EmptySet DEF Majority
<1> QED BY <1>3, <1>4, <1>5

-----------------------------------------------------------------------------
(* What a majority has.  R is the raft log of each node.                   *)

Reaches(s, term, k) == LastTerm(s) > term \/ (LastTerm(s) = term /\ Len(s) >= k)

\* The first k entries of node n's log are chosen: a majority has them, and
\* so does every node that could win an election against one that has them.
Chosen(R, n, k) ==
    /\ k \in 1..Len(R[n]) /\ R[n][k].term >= 1
    /\ Majority({m \in ClNodes : Agree(R[m], R[n], k)})
    /\ \A m \in ClNodes : Reaches(R[m], R[n][k].term, k) => Agree(R[m], R[n], k)

Matching(R) ==
    \A m, n \in ClNodes : \A i \in DOMAIN R[m] \cap DOMAIN R[n] :
       R[m][i].term = R[n][i].term => \A j \in 1..i : R[m][j] = R[n][j]
Ordered(R, top) ==
    \A n \in ClNodes : \A j \in DOMAIN R[n] :
       /\ R[n][j].term <= top
       /\ \A i \in 1..j : R[n][i].term <= R[n][j].term
       /\ R[n][j].term = 0 => j = 1 /\ R[n][j] = Entry("member", 0, 0)
Leads(R, l, term) ==
    /\ R[l] # <<>> /\ LastTerm(R[l]) = term /\ term >= 1
    /\ \A n \in ClNodes : \A i \in DOMAIN R[n] :
          R[n][i].term = term => i \in DOMAIN R[l] /\ R[l][i].term = term

\* Nothing chosen is taken back.
Keeps(R, R2) ==
    \A n \in ClNodes : \A k \in Nat : Chosen(R, n, k) => Chosen(R2, n, k) /\ Agree(R2[n], R[n], k)

LogsOfNodes == [ClNodes -> Seq(ClEntry)]

LEMMA LogTypes ==
  ASSUME NEW R \in LogsOfNodes, NEW n \in ClNodes
  PROVE  /\ R[n] \in Seq(ClEntry) /\ Len(R[n]) \in Nat /\ DOMAIN R[n] = 1..Len(R[n])
         /\ \A i \in 1..Len(R[n]) : R[n][i] \in ClEntry /\ R[n][i].term \in Nat
         /\ R[n] # <<>> => Len(R[n]) >= 1 /\ LastTerm(R[n]) = R[n][Len(R[n])].term
         /\ R[n] = <<>> => LastTerm(R[n]) = 0 /\ Len(R[n]) = 0
         /\ LastTerm(R[n]) \in Nat
<1>1. R[n] \in Seq(ClEntry)
  BY DEF LogsOfNodes
<1>2. Len(R[n]) \in Nat /\ DOMAIN R[n] = 1..Len(R[n])
  BY <1>1, LenProperties
<1>3. \A i \in 1..Len(R[n]) : R[n][i] \in ClEntry /\ R[n][i].term \in Nat
  <2>1. \A i \in 1..Len(R[n]) : R[n][i] \in ClEntry
    BY <1>1, ElementOfSeq
  <2>2. \A e \in ClEntry : e.term \in Nat
    BY DEF ClEntry
  <2> QED BY <2>1, <2>2
<1>4. R[n] # <<>> => Len(R[n]) >= 1 /\ LastTerm(R[n]) = R[n][Len(R[n])].term
  BY <1>1, <1>2, EmptySeq DEF LastTerm, Last
<1>5. R[n] = <<>> => LastTerm(R[n]) = 0 /\ Len(R[n]) = 0
  BY DEF LastTerm
<1>6. LastTerm(R[n]) \in Nat
  <2>1. CASE R[n] = <<>>
    BY <2>1, <1>5
  <2>2. CASE R[n] # <<>>
    BY <2>2, <1>4, <1>3, <1>2
  <2> QED BY <2>1, <2>2
<1> QED BY <1>1, <1>2, <1>3, <1>4, <1>5, <1>6

\* Of two chosen prefixes, one is a prefix of the other.
LEMMA ChosenAgree ==
  ASSUME NEW R \in LogsOfNodes, NEW m \in ClNodes, NEW n \in ClNodes, NEW j, NEW k,
         Chosen(R, m, j), Chosen(R, n, k)
  PROVE  \A i \in Nat : i <= j /\ i <= k => Agree(R[m], R[n], i)
<1> DEFINE S == {x \in ClNodes : Agree(R[x], R[m], j)}
           T == {x \in ClNodes : Agree(R[x], R[n], k)}
<1>1. Majority(S) /\ Majority(T) /\ S \subseteq ClNodes /\ T \subseteq ClNodes
  BY DEF Chosen
<1>2. S \cap T # {}
  BY <1>1, MajoritiesMeet
<1>3. PICK x \in ClNodes : Agree(R[x], R[m], j) /\ Agree(R[x], R[n], k)
  BY <1>2
<1>4. R[x] \in Seq(ClEntry) /\ R[m] \in Seq(ClEntry) /\ R[n] \in Seq(ClEntry) /\ j \in Nat /\ k \in Nat
  BY LogTypes DEF Chosen
<1> QED BY <1>3, <1>4, AgreeFacts

\* What a node has that agrees with a chosen prefix is itself chosen there.
LEMMA ChosenMoves ==
  ASSUME NEW R \in LogsOfNodes, NEW m \in ClNodes, NEW n \in ClNodes, NEW k \in Nat,
         Chosen(R, n, k), Agree(R[m], R[n], k)
  PROVE  Chosen(R, m, k)
<1>1. R[m] \in Seq(ClEntry) /\ R[n] \in Seq(ClEntry) /\ Len(R[m]) \in Nat /\ Len(R[n]) \in Nat
      /\ \A x \in ClNodes : R[x] \in Seq(ClEntry)
  BY LogTypes
<1>2. k \in 1..Len(R[m]) /\ R[m][k] = R[n][k]
  BY <1>1 DEF Chosen, Agree
<1>3. \A x \in ClNodes : Agree(R[x], R[n], k) <=> Agree(R[x], R[m], k)
  BY <1>1, AgreeFacts
<1>4. {x \in ClNodes : Agree(R[x], R[n], k)} = {x \in ClNodes : Agree(R[x], R[m], k)}
  BY <1>3
<1> QED BY <1>2, <1>3, <1>4 DEF Chosen

\* The leader has all that is chosen.
LEMMA LeaderHasChosen ==
  ASSUME NEW R \in LogsOfNodes, NEW l \in ClNodes, NEW term \in Nat, Matching(R), Ordered(R, term),
         Leads(R, l, term), NEW n \in ClNodes, NEW k, Chosen(R, n, k)
  PROVE  Agree(R[l], R[n], k)
<1>1. /\ Len(R[l]) \in Nat /\ DOMAIN R[l] = 1..Len(R[l]) /\ Len(R[n]) \in Nat /\ DOMAIN R[n] = 1..Len(R[n])
      /\ k \in 1..Len(R[n]) /\ R[n][k].term \in Nat
  BY LogTypes DEF Chosen
<1>2. R[n][k].term <= term
  BY <1>1 DEF Ordered
<1>3. CASE R[n][k].term = term
  <2>1. k \in DOMAIN R[l] /\ R[l][k].term = R[n][k].term
    BY <1>1, <1>3 DEF Leads
  <2>2. \A i \in 1..k : R[l][i] = R[n][i]
    BY <2>1, <1>1 DEF Matching
  <2> QED BY <2>1, <2>2, <1>1 DEF Agree
<1>4. CASE R[n][k].term < term
  <2>1. Reaches(R[l], R[n][k].term, k)
    BY <1>4 DEF Leads, Reaches
  <2> QED BY <2>1 DEF Chosen
<1> QED BY <1>1, <1>2, <1>3, <1>4

\* What is chosen stays chosen if every node keeps its log, or has what is
\* chosen, or neither had it nor comes to rival those that have.
LEMMA ChosenStays ==
  ASSUME NEW R \in LogsOfNodes, NEW R2 \in LogsOfNodes, NEW n \in ClNodes, NEW k \in Nat, Chosen(R, n, k),
         \A m \in ClNodes : \/ R2[m] = R[m] \/ Agree(R2[m], R[n], k)
                            \/ ~Reaches(R2[m], R[n][k].term, k) /\ ~Agree(R[m], R[n], k)
  PROVE  Chosen(R2, n, k) /\ Agree(R2[n], R[n], k)
<1>1. /\ \A x \in ClNodes : R[x] \in Seq(ClEntry) /\ R2[x] \in Seq(ClEntry)
      /\ Len(R[n]) \in Nat /\ Len(R2[n]) \in Nat
  BY LogTypes
<1>2. Agree(R[n], R[n], k)
  BY <1>1, AgreeFacts DEF Chosen
<1>3. Agree(R2[n], R[n], k)
  BY <1>2
<1>4. k \in 1..Len(R2[n]) /\ R2[n][k] = R[n][k]
  BY <1>1, <1>3 DEF Chosen, Agree
<1>5. \A m \in ClNodes : Agree(R2[m], R[n], k) <=> Agree(R2[m], R2[n], k)
  BY <1>1, <1>3, AgreeFacts
<1>6. \A m \in ClNodes : Agree(R[m], R[n], k) => Agree(R2[m], R[n], k)
  OBVIOUS
<1>7. {m \in ClNodes : Agree(R[m], R[n], k)} \subseteq {m \in ClNodes : Agree(R2[m], R2[n], k)}
  BY <1>5, <1>6
<1>8. Majority({m \in ClNodes : Agree(R2[m], R2[n], k)})
  <2> DEFINE S == {m \in ClNodes : Agree(R[m], R[n], k)}
             T == {m \in ClNodes : Agree(R2[m], R2[n], k)}
  <2>1. S \subseteq ClNodes /\ T \subseteq ClNodes /\ Majority(S) /\ S \subseteq T
    BY <1>7 DEF Chosen
  <2> HIDE DEF S, T
  <2>2. Majority(T)
    BY <2>1, MajoritiesMeet
  <2> QED BY <2>2 DEF T
<1>9. \A m \in ClNodes : Reaches(R2[m], R2[n][k].term, k) => Agree(R2[m], R2[n], k)
  <2>1. \A m \in ClNodes : Reaches(R2[m], R[n][k].term, k) => Agree(R2[m], R[n], k)
    BY DEF Chosen
  <2> QED BY <2>1, <1>4, <1>5
<1> QED BY <1>3, <1>4, <1>8, <1>9 DEF Chosen

-----------------------------------------------------------------------------
(* The four changes of a raft log: a new cluster, an election, a write of  *)
(* the leader and a request of the leader.                                 *)

SameBut(R, R2, l) == \A n \in ClNodes : n # l => R2[n] = R[n]
MatchesOthers(R, s, l) ==
    \A n \in ClNodes : n # l => \A i \in DOMAIN s \cap DOMAIN R[n] :
       s[i].term = R[n][i].term => \A j \in 1..i : s[j] = R[n][j]
OrderedLog(s, top) ==
    \A j \in DOMAIN s : /\ s[j].term <= top
                        /\ \A i \in 1..j : s[i].term <= s[j].term
                        /\ s[j].term = 0 => j = 1 /\ s[j] = Entry("member", 0, 0)

LEMMA MatchingChange ==
  ASSUME NEW R \in LogsOfNodes, NEW R2 \in LogsOfNodes, NEW l \in ClNodes, Matching(R),
         SameBut(R, R2, l), MatchesOthers(R, R2[l], l)
  PROVE  Matching(R2)
<1>1. SUFFICES ASSUME NEW m \in ClNodes, NEW n \in ClNodes, NEW i \in DOMAIN R2[m] \cap DOMAIN R2[n],
                      R2[m][i].term = R2[n][i].term
               PROVE  \A j \in 1..i : R2[m][j] = R2[n][j]
  BY DEF Matching
<1>2. CASE m = l /\ n = l
  BY <1>2
<1>3. CASE m = l /\ n # l
  BY <1>3, <1>1 DEF SameBut, MatchesOthers
<1>4. CASE m # l /\ n = l
  BY <1>4, <1>1 DEF SameBut, MatchesOthers
<1>5. CASE m # l /\ n # l
  BY <1>5, <1>1 DEF Matching, SameBut
<1> QED BY <1>2, <1>3, <1>4, <1>5

LEMMA OrderedChange ==
  ASSUME NEW R \in LogsOfNodes, NEW R2 \in LogsOfNodes, NEW l \in ClNodes, NEW top \in Nat, NEW top2 \in Nat,
         top <= top2, Ordered(R, top), SameBut(R, R2, l), OrderedLog(R2[l], top2)
  PROVE  Ordered(R2, top2)
<1>1. SUFFICES ASSUME NEW n \in ClNodes, NEW j \in DOMAIN R2[n]
               PROVE  /\ R2[n][j].term <= top2
                      /\ \A i \in 1..j : R2[n][i].term <= R2[n][j].term
                      /\ R2[n][j].term = 0 => j = 1 /\ R2[n][j] = Entry("member", 0, 0)
  BY DEF Ordered
<1>2. CASE n = l
  BY <1>2, <1>1 DEF OrderedLog
<1>3. CASE n # l
  <2>1. R2[n] = R[n] /\ R[n][j].term \in Nat
    BY <1>3, <1>1, LogTypes DEF SameBut
  <2>2. R[n][j].term <= top
    BY <2>1, <1>1 DEF Ordered
  <2>3. R[n][j].term <= top2
    BY <2>1, <2>2
  <2> QED BY <2>1, <2>3, <1>1 DEF Ordered
<1> QED BY <1>2, <1>3

LEMMA Appended ==
  ASSUME NEW s \in Seq(ClEntry), NEW e \in ClEntry
  PROVE  /\ Append(s, e) \in Seq(ClEntry) /\ Len(Append(s, e)) = Len(s) + 1
         /\ Append(s, e) # <<>> /\ DOMAIN Append(s, e) = 1..(Len(s) + 1)
         /\ \A i \in 1..Len(s) : Append(s, e)[i] = s[i]
         /\ Append(s, e)[Len(s) + 1] = e /\ LastTerm(Append(s, e)) = e.term
         /\ Len(s) \in Nat
<1>1. /\ Append(s, e) \in Seq(ClEntry) /\ Len(Append(s, e)) = Len(s) + 1
      /\ \A i \in 1..Len(s) : Append(s, e)[i] = s[i]
      /\ Append(s, e)[Len(s) + 1] = e /\ Len(s) \in Nat
  BY AppendProperties, LenProperties
<1>2. Append(s, e) # <<>> /\ DOMAIN Append(s, e) = 1..(Len(s) + 1)
  BY <1>1, EmptySeq, LenProperties
<1>3. LastTerm(Append(s, e)) = e.term
  BY <1>1, <1>2 DEF LastTerm, Last
<1> QED BY <1>1, <1>2, <1>3

\* A log that grows still has what it agreed on.
LEMMA GrownAgrees ==
  ASSUME NEW s \in Seq(ClEntry), NEW t \in Seq(ClEntry), NEW e \in ClEntry, NEW k \in Nat, Agree(s, t, k)
  PROVE  Agree(Append(s, e), t, k) /\ Agree(t, Append(s, e), k)
<1>1. /\ Len(Append(s, e)) = Len(s) + 1 /\ Len(s) \in Nat /\ Len(t) \in Nat
      /\ \A i \in 1..Len(s) : Append(s, e)[i] = s[i]
  BY Appended, LenProperties
<1> QED BY <1>1 DEF Agree

\* initialize_cluster.
LEMMA RaftInitialized ==
  ASSUME NEW R \in LogsOfNodes, NEW s \in ClNodes, NEW term \in Nat, Matching(R), Ordered(R, term), R[s] = <<>>,
         NEW e, e = Entry("member", 0, 0), NEW R2, R2 = [R EXCEPT ![s] = <<e>>]
  PROVE  /\ R2 \in LogsOfNodes /\ Matching(R2) /\ Ordered(R2, term) /\ Keeps(R, R2)
         /\ \A l \in ClNodes : Leads(R, l, term) => l # s /\ Leads(R2, l, term)
<1>1. e \in ClEntry /\ e.term = 0
  BY DEF ClEntry, Entry
<1>2. <<e>> \in Seq(ClEntry) /\ Len(<<e>>) = 1 /\ DOMAIN <<e>> = {1} /\ <<e>>[1] = e
  BY <1>1
<1>3. R2 \in LogsOfNodes
  BY <1>2 DEF LogsOfNodes
<1>4. R2[s] = <<e>> /\ SameBut(R, R2, s)
  BY DEF LogsOfNodes, SameBut
<1>5. Matching(R2)
  <2>1. SUFFICES ASSUME NEW n \in ClNodes, n # s, NEW i \in DOMAIN <<e>> \cap DOMAIN R[n], <<e>>[i].term = R[n][i].term
                 PROVE  \A j \in 1..i : <<e>>[j] = R[n][j]
    <3>1. MatchesOthers(R, <<e>>, s)
      BY <2>1 DEF MatchesOthers
    <3>2. MatchesOthers(R, R2[s], s)
      BY <3>1, <1>4
    <3> QED BY <3>2, <1>3, <1>4, MatchingChange
  <2>2. i = 1 /\ R[n][1].term = 0
    BY <2>1, <1>1, <1>2
  <2>3. R[n][1] = e
    BY <2>1, <2>2 DEF Ordered
  <2> QED BY <2>2, <2>3, <1>2
<1>6. Ordered(R2, term)
  <2>1. OrderedLog(<<e>>, term)
    BY <1>1, <1>2 DEF OrderedLog
  <2>2. term <= term
    OBVIOUS
  <2> QED BY <2>1, <2>2, <1>3, <1>4, OrderedChange
<1>7. Keeps(R, R2)
  <2>1. SUFFICES ASSUME NEW n \in ClNodes, NEW k \in Nat, Chosen(R, n, k)
                 PROVE  Chosen(R2, n, k) /\ Agree(R2[n], R[n], k)
    BY DEF Keeps
  <2>2. k >= 1 /\ R[n][k].term >= 1 /\ R[n][k].term \in Nat
    BY <2>1, LogTypes DEF Chosen
  <2>3. LastTerm(R2[s]) = 0
    BY <1>1, <1>2, <1>4 DEF LastTerm, Last
  <2>4. ~Reaches(R2[s], R[n][k].term, k)
    BY <2>2, <2>3 DEF Reaches
  <2>5. ~Agree(R[s], R[n], k)
    BY <2>2 DEF Agree
  <2> QED BY <2>1, <2>4, <2>5, <1>3, <1>4, ChosenStays DEF SameBut
<1>8. ASSUME NEW l \in ClNodes, Leads(R, l, term) PROVE l # s /\ Leads(R2, l, term)
  <2>1. l # s /\ R2[l] = R[l]
    BY <1>8, <1>4 DEF Leads
  <2>2. ASSUME NEW n \in ClNodes, NEW i \in DOMAIN R2[n], R2[n][i].term = term
        PROVE  i \in DOMAIN R[l] /\ R[l][i].term = term
    <3>1. CASE n = s
      BY <3>1, <2>2, <1>8, <1>1, <1>2, <1>4 DEF Leads
    <3>2. CASE n # s
      BY <3>2, <2>2, <1>8, <1>4 DEF Leads, SameBut
    <3> QED BY <3>1, <3>2
  <2> QED BY <2>1, <2>2, <1>8 DEF Leads
<1> QED BY <1>3, <1>5, <1>6, <1>7, <1>8

\* submit_episode: the leader writes an entry of its term.
LEMMA RaftWritten ==
  ASSUME NEW R \in LogsOfNodes, NEW l \in ClNodes, NEW term \in Nat, Matching(R), Ordered(R, term),
         Leads(R, l, term), NEW e \in ClEntry, e.term = term,
         NEW R2, R2 = [R EXCEPT ![l] = Append(R[l], e)]
  PROVE  /\ R2 \in LogsOfNodes /\ Matching(R2) /\ Ordered(R2, term) /\ Leads(R2, l, term) /\ Keeps(R, R2)
<1>1. /\ Append(R[l], e) \in Seq(ClEntry) /\ Len(Append(R[l], e)) = Len(R[l]) + 1
      /\ Append(R[l], e) # <<>> /\ DOMAIN Append(R[l], e) = 1..(Len(R[l]) + 1)
      /\ \A i \in 1..Len(R[l]) : Append(R[l], e)[i] = R[l][i]
      /\ Append(R[l], e)[Len(R[l]) + 1] = e /\ LastTerm(Append(R[l], e)) = e.term
      /\ Len(R[l]) \in Nat
  BY Appended, LogTypes
<1>2. R2 \in LogsOfNodes
  BY <1>1 DEF LogsOfNodes
<1>3. R2[l] = Append(R[l], e) /\ SameBut(R, R2, l)
  BY DEF LogsOfNodes, SameBut
<1>4. /\ DOMAIN R[l] = 1..Len(R[l]) /\ R[l] # <<>> /\ Len(R[l]) >= 1
      /\ term >= 1 /\ R[l][Len(R[l])].term = term
  BY LogTypes DEF Leads
<1>5. MatchesOthers(R, R2[l], l)
  <2>1. SUFFICES ASSUME NEW n \in ClNodes, n # l, NEW i \in DOMAIN R2[l] \cap DOMAIN R[n],
                        R2[l][i].term = R[n][i].term
                 PROVE  \A j \in 1..i : R2[l][j] = R[n][j]
    BY DEF MatchesOthers
  <2>2. CASE i = Len(R[l]) + 1
    <3>1. R[n][i].term = term
      BY <2>1, <2>2, <1>1, <1>3
    <3>2. i \in DOMAIN R[l]
      BY <3>1, <2>1 DEF Leads
    <3> QED BY <3>2, <2>2, <1>4, <1>1
  <2>3. CASE i # Len(R[l]) + 1
    <3>1. i \in DOMAIN R[l] /\ i \in 1..Len(R[l]) /\ i \in Nat
      BY <2>1, <2>3, <1>1, <1>3, <1>4
    <3>2. R[l][i].term = R[n][i].term
      BY <3>1, <2>1, <1>1, <1>3
    <3>3. \A j \in 1..i : R[l][j] = R[n][j]
      BY <3>1, <3>2, <2>1 DEF Matching
    <3>4. \A j \in 1..i : j \in 1..Len(R[l])
      BY <3>1, <1>1
    <3> QED BY <3>3, <3>4, <1>1, <1>3
  <2> QED BY <2>2, <2>3
<1>6. OrderedLog(R2[l], term)
  <2>1. SUFFICES ASSUME NEW j \in DOMAIN R2[l]
                 PROVE  /\ R2[l][j].term <= term
                        /\ \A i \in 1..j : R2[l][i].term <= R2[l][j].term
                        /\ R2[l][j].term = 0 => j = 1 /\ R2[l][j] = Entry("member", 0, 0)
    BY DEF OrderedLog
  <2>2. \A i \in 1..Len(R[l]) : R2[l][i] = R[l][i] /\ R[l][i].term \in Nat /\ R[l][i].term <= term
    BY <1>1, <1>3, <1>4, LogTypes DEF Ordered
  <2>3. CASE j = Len(R[l]) + 1
    <3>1. R2[l][j].term = term
      BY <2>3, <1>1, <1>3
    <3>2. \A i \in 1..j : i = j \/ i \in 1..Len(R[l])
      BY <2>3, <1>1
    <3> QED BY <3>1, <3>2, <2>2, <1>4
  <2>4. CASE j # Len(R[l]) + 1
    <3>1. j \in DOMAIN R[l] /\ j \in 1..Len(R[l]) /\ \A i \in 1..j : i \in 1..Len(R[l])
      BY <2>1, <2>4, <1>1, <1>3, <1>4
    <3> QED BY <3>1, <2>2 DEF Ordered
  <2> QED BY <2>3, <2>4
<1>7. Matching(R2) /\ Ordered(R2, term)
  <2>1. term <= term
    OBVIOUS
  <2> QED BY <2>1, <1>2, <1>3, <1>5, <1>6, MatchingChange, OrderedChange
<1>8. Leads(R2, l, term)
  <2>1. ASSUME NEW n \in ClNodes, NEW i \in DOMAIN R2[n], R2[n][i].term = term
        PROVE  i \in DOMAIN R2[l] /\ R2[l][i].term = term
    <3>1. CASE n = l
      BY <3>1, <2>1
    <3>2. CASE n # l
      <4>1. R2[n] = R[n]
        BY <3>2, <1>3 DEF SameBut
      <4>2. i \in DOMAIN R[l] /\ R[l][i].term = term
        BY <4>1, <2>1 DEF Leads
      <4> QED BY <4>2, <1>1, <1>3, <1>4
    <3> QED BY <3>1, <3>2
  <2> QED BY <2>1, <1>1, <1>3, <1>4 DEF Leads
<1>9. Keeps(R, R2)
  <2>1. SUFFICES ASSUME NEW n \in ClNodes, NEW k \in Nat, Chosen(R, n, k)
                 PROVE  Chosen(R2, n, k) /\ Agree(R2[n], R[n], k)
    BY DEF Keeps
  <2>2. Agree(R[l], R[n], k)
    BY <2>1, LeaderHasChosen
  <2>3. Agree(R2[l], R[n], k)
    BY <2>2, <1>3, LogTypes, GrownAgrees
  <2> QED BY <2>1, <2>3, <1>2, <1>3, ChosenStays DEF SameBut
<1> QED BY <1>2, <1>7, <1>8, <1>9

\* A node as far as another.
UpTo(R, m, q) == LastTerm(R[m]) > LastTerm(R[q])
                 \/ (LastTerm(R[m]) = LastTerm(R[q]) /\ Len(R[m]) >= Len(R[q]))

\* Whoever wins an election has all that is chosen.
LEMMA WinnerHasChosen ==
  ASSUME NEW R \in LogsOfNodes, NEW m \in ClNodes, NEW term \in Nat, Ordered(R, term),
         NEW Q, Q \subseteq ClNodes, Majority(Q), \A q \in Q : UpTo(R, m, q),
         NEW n \in ClNodes, NEW k, Chosen(R, n, k)
  PROVE  Agree(R[m], R[n], k)
<1> DEFINE S == {x \in ClNodes : Agree(R[x], R[n], k)}
<1>1. Majority(S) /\ S \subseteq ClNodes
  BY DEF Chosen
<1>2. PICK q \in Q : Agree(R[q], R[n], k)
  <2>1. Q \cap S # {}
    BY <1>1, MajoritiesMeet
  <2> QED BY <2>1
<1>3. q \in ClNodes /\ UpTo(R, m, q)
  BY <1>2
<1>4. /\ Len(R[q]) \in Nat /\ DOMAIN R[q] = 1..Len(R[q]) /\ k \in 1..Len(R[n]) /\ Len(R[n]) \in Nat
      /\ LastTerm(R[q]) \in Nat /\ LastTerm(R[m]) \in Nat /\ R[n][k].term \in Nat /\ Len(R[m]) \in Nat
  BY <1>3, LogTypes DEF Chosen
<1>5. k \in 1..Len(R[q]) /\ R[q][k] = R[n][k]
  BY <1>2, <1>4 DEF Agree
<1>6. LastTerm(R[q]) >= R[n][k].term
  <2>1. R[q] # <<>> /\ LastTerm(R[q]) = R[q][Len(R[q])].term
    BY <1>3, <1>4, <1>5, LogTypes
  <2>2. Len(R[q]) \in DOMAIN R[q]
    BY <1>4, <1>5
  <2>3. R[q][k].term <= R[q][Len(R[q])].term
    BY <2>2, <1>3, <1>5 DEF Ordered
  <2> QED BY <2>1, <2>3, <1>4, <1>5
<1>7. Reaches(R[m], R[n][k].term, k)
  BY <1>3, <1>4, <1>5, <1>6, SMTT(30) DEF Reaches, UpTo
<1> QED BY <1>7 DEF Chosen

\* ClElect: the winner begins its term with an entry of it.
LEMMA RaftElected ==
  ASSUME NEW R \in LogsOfNodes, NEW m \in ClNodes, NEW term \in Nat, Matching(R), Ordered(R, term),
         NEW Q, Q \subseteq ClNodes, Majority(Q), \A q \in Q : UpTo(R, m, q),
         NEW e \in ClEntry, e.term = term + 1,
         NEW R2, R2 = [R EXCEPT ![m] = Append(R[m], e)]
  PROVE  /\ R2 \in LogsOfNodes /\ Matching(R2) /\ Ordered(R2, term + 1) /\ Leads(R2, m, term + 1) /\ Keeps(R, R2)
<1>1. /\ Append(R[m], e) \in Seq(ClEntry) /\ Len(Append(R[m], e)) = Len(R[m]) + 1
      /\ Append(R[m], e) # <<>> /\ DOMAIN Append(R[m], e) = 1..(Len(R[m]) + 1)
      /\ \A i \in 1..Len(R[m]) : Append(R[m], e)[i] = R[m][i]
      /\ Append(R[m], e)[Len(R[m]) + 1] = e /\ LastTerm(Append(R[m], e)) = e.term
      /\ Len(R[m]) \in Nat /\ DOMAIN R[m] = 1..Len(R[m])
  BY Appended, LogTypes
<1>2. R2 \in LogsOfNodes
  BY <1>1 DEF LogsOfNodes
<1>3. R2[m] = Append(R[m], e) /\ SameBut(R, R2, m)
  BY DEF LogsOfNodes, SameBut
<1>4. \A n \in ClNodes : \A i \in DOMAIN R[n] : R[n][i].term \in Nat /\ R[n][i].term <= term
  BY LogTypes DEF Ordered
<1>5. MatchesOthers(R, R2[m], m)
  <2>1. SUFFICES ASSUME NEW n \in ClNodes, n # m, NEW i \in DOMAIN R2[m] \cap DOMAIN R[n],
                        R2[m][i].term = R[n][i].term
                 PROVE  \A j \in 1..i : R2[m][j] = R[n][j]
    BY DEF MatchesOthers
  <2>2. i # Len(R[m]) + 1
    BY <2>1, <1>1, <1>3, <1>4
  <2>3. i \in DOMAIN R[m] /\ i \in 1..Len(R[m]) /\ i \in Nat
    BY <2>1, <2>2, <1>1, <1>3
  <2>4. R[m][i].term = R[n][i].term
    BY <2>3, <2>1, <1>1, <1>3
  <2>5. \A j \in 1..i : R[m][j] = R[n][j]
    BY <2>3, <2>4, <2>1 DEF Matching
  <2>6. \A j \in 1..i : j \in 1..Len(R[m])
    BY <2>3, <1>1
  <2> QED BY <2>5, <2>6, <1>1, <1>3
<1>6. OrderedLog(R2[m], term + 1)
  <2>1. SUFFICES ASSUME NEW j \in DOMAIN R2[m]
                 PROVE  /\ R2[m][j].term <= term + 1
                        /\ \A i \in 1..j : R2[m][i].term <= R2[m][j].term
                        /\ R2[m][j].term = 0 => j = 1 /\ R2[m][j] = Entry("member", 0, 0)
    BY DEF OrderedLog
  <2>2. \A i \in 1..Len(R[m]) : R2[m][i] = R[m][i] /\ R[m][i].term \in Nat /\ R[m][i].term <= term
    BY <1>1, <1>3, <1>4
  <2>3. CASE j = Len(R[m]) + 1
    <3>1. R2[m][j].term = term + 1
      BY <2>3, <1>1, <1>3
    <3>2. \A i \in 1..j : i = j \/ i \in 1..Len(R[m])
      BY <2>3, <1>1
    <3>3. \A i \in 1..j : R2[m][i].term <= term + 1
      BY <3>1, <3>2, <2>2
    <3> QED BY <3>1, <3>3
  <2>4. CASE j # Len(R[m]) + 1
    <3>1. j \in DOMAIN R[m] /\ j \in 1..Len(R[m]) /\ \A i \in 1..j : i \in 1..Len(R[m])
      BY <2>1, <2>4, <1>1, <1>3
    <3>2. R2[m][j].term <= term + 1
      BY <3>1, <2>2
    <3>3. /\ \A i \in 1..j : R[m][i].term <= R[m][j].term
          /\ R[m][j].term = 0 => j = 1 /\ R[m][j] = Entry("member", 0, 0)
      BY <3>1 DEF Ordered
    <3> QED BY <3>1, <3>2, <3>3, <2>2
  <2> QED BY <2>3, <2>4
<1>7. Matching(R2) /\ Ordered(R2, term + 1)
  <2>1. term <= term + 1 /\ term + 1 \in Nat
    OBVIOUS
  <2> QED BY <2>1, <1>2, <1>3, <1>5, <1>6, MatchingChange, OrderedChange
<1>8. Leads(R2, m, term + 1)
  <2>1. ASSUME NEW n \in ClNodes, NEW i \in DOMAIN R2[n], R2[n][i].term = term + 1
        PROVE  i \in DOMAIN R2[m] /\ R2[m][i].term = term + 1
    <3>1. CASE n = m
      BY <3>1, <2>1
    <3>2. CASE n # m
      <4>1. R2[n] = R[n]
        BY <3>2, <1>3 DEF SameBut
      <4> QED BY <4>1, <2>1, <1>4
    <3> QED BY <3>1, <3>2
  <2>2. R2[m] # <<>> /\ LastTerm(R2[m]) = term + 1 /\ term + 1 >= 1
    BY <1>1, <1>3
  <2> QED BY <2>1, <2>2 DEF Leads
<1>9. Keeps(R, R2)
  <2>1. SUFFICES ASSUME NEW n \in ClNodes, NEW k \in Nat, Chosen(R, n, k)
                 PROVE  Chosen(R2, n, k) /\ Agree(R2[n], R[n], k)
    BY DEF Keeps
  <2>2. Agree(R[m], R[n], k)
    BY <2>1, WinnerHasChosen
  <2>3. Agree(R2[m], R[n], k)
    BY <2>2, <1>3, LogTypes, GrownAgrees
  <2> QED BY <2>1, <2>3, <1>2, <1>3, ChosenStays DEF SameBut
<1> QED BY <1>2, <1>7, <1>8, <1>9

\* What a request of the leader may bring.
LEMMA RequestFacts ==
  ASSUME NEW R \in LogsOfNodes, NEW l \in ClNodes, NEW term \in Nat, Matching(R), Ordered(R, term),
         Leads(R, l, term), NEW w \in Seq(ClEntry), w # <<>>, LastTerm(w) = term, Agree(w, R[l], Len(w))
  PROVE  /\ Len(w) \in Nat \ {0} /\ DOMAIN w = 1..Len(w) /\ Len(w) <= Len(R[l]) /\ w[Len(w)].term = term
         /\ DOMAIN R[l] = 1..Len(R[l]) /\ Len(R[l]) \in Nat
         /\ \A i \in 1..Len(w) : w[i] = R[l][i] /\ i \in 1..Len(R[l])
<1>1. Len(w) \in Nat /\ DOMAIN w = 1..Len(w) /\ Len(R[l]) \in Nat /\ DOMAIN R[l] = 1..Len(R[l])
  BY LenProperties, LogTypes
<1>2. Len(w) # 0
  BY <1>1, EmptySeq
<1>3. w[Len(w)].term = term
  BY DEF LastTerm, Last
<1> QED BY <1>1, <1>2, <1>3 DEF Agree

\* A chosen prefix is in every request that is as long, and only a request of
\* the same term is shorter.
LEMMA RequestHasChosen ==
  ASSUME NEW R \in LogsOfNodes, NEW l \in ClNodes, NEW term \in Nat, Matching(R), Ordered(R, term),
         Leads(R, l, term), NEW w \in Seq(ClEntry), w # <<>>, LastTerm(w) = term, Agree(w, R[l], Len(w)),
         NEW n \in ClNodes, NEW k \in Nat, Chosen(R, n, k)
  PROVE  Agree(w, R[n], k) \/ (Len(w) < k /\ ~Reaches(w, R[n][k].term, k))
<1>1. /\ Len(w) \in Nat \ {0} /\ DOMAIN w = 1..Len(w) /\ Len(w) <= Len(R[l]) /\ w[Len(w)].term = term
      /\ DOMAIN R[l] = 1..Len(R[l]) /\ Len(R[l]) \in Nat
      /\ \A i \in 1..Len(w) : w[i] = R[l][i] /\ i \in 1..Len(R[l])
  BY RequestFacts
<1>2. Agree(R[l], R[n], k) /\ k \in 1..Len(R[n]) /\ Len(R[n]) \in Nat /\ DOMAIN R[n] = 1..Len(R[n])
  BY LeaderHasChosen, LogTypes DEF Chosen
<1>3. CASE k <= Len(w)
  BY <1>1, <1>2, <1>3 DEF Agree
<1>4. CASE Len(w) < k
  <2>1. k \in DOMAIN R[l] /\ Len(w) \in 1..k /\ R[l][k] = R[n][k]
    BY <1>1, <1>2, <1>4 DEF Agree
  <2>2. R[l][Len(w)].term <= R[l][k].term /\ R[l][k].term <= term
    BY <2>1 DEF Ordered
  <2>3. R[l][Len(w)].term = term /\ R[l][k].term \in Nat
    BY <1>1, <2>1, LogTypes, SMTT(30)
  <2>4. R[n][k].term = term
    BY <2>1, <2>2, <2>3
  <2>5. ~Reaches(w, R[n][k].term, k)
    BY <2>4, <1>4, <1>1 DEF Reaches
  <2> QED BY <2>5, <1>4
<1> QED BY <1>1, <1>3, <1>4

\* ClServe: a follower takes what the leader sent, unless it has it.
LEMMA RaftServed ==
  ASSUME NEW R \in LogsOfNodes, NEW l \in ClNodes, NEW term \in Nat, Matching(R), Ordered(R, term),
         Leads(R, l, term), NEW w \in Seq(ClEntry), w # <<>>, LastTerm(w) = term, Agree(w, R[l], Len(w)),
         NEW n \in ClNodes, ~Agree(w, R[n], Len(w)), NEW R2, R2 = [R EXCEPT ![n] = w]
  PROVE  /\ R2 \in LogsOfNodes /\ Matching(R2) /\ Ordered(R2, term) /\ Leads(R2, l, term) /\ Keeps(R, R2)
         /\ n # l
         /\ \A k \in Nat : Agree(R[n], R[l], k) => Agree(w, R[l], k)
<1>1. /\ Len(w) \in Nat \ {0} /\ DOMAIN w = 1..Len(w) /\ Len(w) <= Len(R[l]) /\ w[Len(w)].term = term
      /\ DOMAIN R[l] = 1..Len(R[l]) /\ Len(R[l]) \in Nat
      /\ \A i \in 1..Len(w) : w[i] = R[l][i] /\ i \in 1..Len(R[l])
  BY RequestFacts
<1>2. R2 \in LogsOfNodes /\ R2[n] = w /\ SameBut(R, R2, n)
  BY DEF LogsOfNodes, SameBut
<1>3. n # l /\ R2[l] = R[l]
  <2>1. n # l
    OBVIOUS
  <2> QED BY <2>1, <1>2 DEF SameBut
<1>4. MatchesOthers(R, R2[n], n)
  <2>1. SUFFICES ASSUME NEW m \in ClNodes, m # n, NEW i \in DOMAIN R2[n] \cap DOMAIN R[m],
                        R2[n][i].term = R[m][i].term
                 PROVE  \A j \in 1..i : R2[n][j] = R[m][j]
    BY DEF MatchesOthers
  <2>2. i \in 1..Len(w) /\ i \in DOMAIN R[l] /\ R[l][i].term = R[m][i].term /\ i \in Nat
    BY <2>1, <1>1, <1>2
  <2>3. \A j \in 1..i : R[l][j] = R[m][j]
    BY <2>1, <2>2 DEF Matching
  <2>4. \A j \in 1..i : j \in 1..Len(w)
    BY <2>2, <1>1
  <2> QED BY <2>3, <2>4, <1>1, <1>2
<1>5. OrderedLog(R2[n], term)
  <2>1. SUFFICES ASSUME NEW j \in DOMAIN w
                 PROVE  /\ w[j].term <= term
                        /\ \A i \in 1..j : w[i].term <= w[j].term
                        /\ w[j].term = 0 => j = 1 /\ w[j] = Entry("member", 0, 0)
    BY <1>2 DEF OrderedLog
  <2>2. j \in DOMAIN R[l] /\ w[j] = R[l][j] /\ \A i \in 1..j : w[i] = R[l][i]
    BY <1>1
  <2> QED BY <2>2 DEF Ordered
<1>6. Matching(R2) /\ Ordered(R2, term)
  <2>1. term <= term
    OBVIOUS
  <2> QED BY <2>1, <1>2, <1>4, <1>5, MatchingChange, OrderedChange
<1>7. Leads(R2, l, term)
  <2>1. ASSUME NEW m \in ClNodes, NEW i \in DOMAIN R2[m], R2[m][i].term = term
        PROVE  i \in DOMAIN R[l] /\ R[l][i].term = term
    <3>1. CASE m = n
      BY <3>1, <2>1, <1>1, <1>2
    <3>2. CASE m # n
      BY <3>2, <2>1, <1>2 DEF Leads, SameBut
    <3> QED BY <3>1, <3>2
  <2> QED BY <2>1, <1>3 DEF Leads
<1>8. \A k \in Nat : Agree(R[n], R[l], k) => Agree(w, R[l], k)
  <2>1. SUFFICES ASSUME NEW k \in Nat, Agree(R[n], R[l], k) PROVE Agree(w, R[l], k)
    OBVIOUS
  <2>2. CASE k <= Len(w)
    BY <2>1, <2>2, <1>1 DEF Agree
  <2>3. CASE Len(w) < k
    BY <2>1, <2>3, <1>1 DEF Agree
  <2> QED BY <2>2, <2>3, <1>1
<1>9. Keeps(R, R2)
  <2>1. SUFFICES ASSUME NEW x \in ClNodes, NEW k \in Nat, Chosen(R, x, k)
                 PROVE  Chosen(R2, x, k) /\ Agree(R2[x], R[x], k)
    BY DEF Keeps
  <2>2. Agree(w, R[x], k) \/ (Len(w) < k /\ ~Reaches(w, R[x][k].term, k))
    BY <2>1, RequestHasChosen
  <2>3. ASSUME Len(w) < k PROVE ~Agree(R[n], R[x], k)
    <3>1. Agree(R[l], R[x], k)
      BY <2>1, LeaderHasChosen
    <3> QED BY <3>1, <2>3, <1>1 DEF Agree
  <2> QED BY <2>1, <2>2, <2>3, <1>2, ChosenStays, ZenonT(40) DEF SameBut
<1> QED BY <1>2, <1>3, <1>6, <1>7, <1>8, <1>9

\* ClCommit: what a majority has of the leader's own term is chosen.
LEMMA CommittedIsChosen ==
  ASSUME NEW R \in LogsOfNodes, NEW l \in ClNodes, NEW term \in Nat, Matching(R), Ordered(R, term),
         Leads(R, l, term), NEW k \in 1..Len(R[l]), R[l][k].term = term,
         NEW Q, Q \subseteq ClNodes, Majority(Q), \A n \in Q : Agree(R[n], R[l], k)
  PROVE  Chosen(R, l, k)
<1>1. Len(R[l]) \in Nat /\ DOMAIN R[l] = 1..Len(R[l]) /\ R[l] \in Seq(ClEntry)
  BY LogTypes
<1>2. R[l][k].term >= 1
  BY DEF Leads
<1>3. Majority({n \in ClNodes : Agree(R[n], R[l], k)})
  <2> DEFINE S == {n \in ClNodes : Agree(R[n], R[l], k)}
  <2>1. Q \subseteq S /\ S \subseteq ClNodes
    OBVIOUS
  <2> QED BY <2>1, MajoritiesMeet
<1>4. ASSUME NEW m \in ClNodes, Reaches(R[m], term, k) PROVE Agree(R[m], R[l], k)
  <2>1. /\ Len(R[m]) \in Nat /\ DOMAIN R[m] = 1..Len(R[m]) /\ LastTerm(R[m]) \in Nat
        /\ R[m] # <<>> => Len(R[m]) >= 1 /\ LastTerm(R[m]) = R[m][Len(R[m])].term
        /\ R[m] = <<>> => LastTerm(R[m]) = 0
    BY LogTypes
  <2>2. LastTerm(R[m]) <= term
    BY <2>1 DEF Ordered
  <2>3. LastTerm(R[m]) = term /\ Len(R[m]) >= k
    BY <1>4, <2>1, <2>2 DEF Reaches
  <2>4. R[m] # <<>>
    BY <2>1, <2>3 DEF Leads
  <2>5. Len(R[m]) \in DOMAIN R[m] /\ R[m][Len(R[m])].term = term
    BY <2>1, <2>3, <2>4
  <2>6. Len(R[m]) \in DOMAIN R[l] /\ R[l][Len(R[m])].term = term
    BY <2>5 DEF Leads
  <2>7. \A j \in 1..Len(R[m]) : R[m][j] = R[l][j]
    BY <2>5, <2>6 DEF Matching
  <2> QED BY <2>1, <2>3, <2>7, <1>1 DEF Agree
<1> QED BY <1>2, <1>3, <1>4 DEF Chosen

-----------------------------------------------------------------------------
(* A node: its episode log is the episodes of a prefix of its raft log.    *)

ClNodeRec ==
    [pc : {"joined", "closing", "down"}, raft : Seq(ClEntry), log : Seq([id : Nat, ts : Nat]),
     views : SUBSET [lsn : Nat, id : Nat, ts : Nat], commit : Nat, applied : Nat, normals : Nat,
     skip : Nat, meta : [applied : Nat, normals : Nat]]

LogIs(node, h) ==
    /\ h \in 0..Len(node.raft) /\ Len(node.log) = Normals(node.raft, h)
    /\ \A i \in 1..h : node.raft[i].kind = "normal" =>
          node.log[Normals(node.raft, i)] = [id |-> node.raft[i].id, ts |-> 0]

\* Of a node that is up: what it skips is what it had applied when it went
\* down, past the last batch it recorded.
RunsTo(node, h) ==
    /\ node.applied <= h /\ node.normals = Normals(node.raft, node.applied)
    /\ node.skip = Normals(node.raft, h) - Normals(node.raft, node.applied)
    /\ node.views = Indexed(node.log)

Greater(i, j) == IF i >= j THEN i ELSE j

LEMMA NodeTypes ==
  ASSUME NEW node \in ClNodeRec
  PROVE  /\ node.raft \in Seq(ClEntry) /\ Len(node.raft) \in Nat /\ DOMAIN node.raft = 1..Len(node.raft)
         /\ node.log \in Seq([id : Nat, ts : Nat]) /\ Len(node.log) \in Nat /\ DOMAIN node.log = 1..Len(node.log)
         /\ node.commit \in Nat /\ node.applied \in Nat /\ node.normals \in Nat /\ node.skip \in Nat
         /\ node.meta \in [applied : Nat, normals : Nat]
         /\ node.meta.applied \in Nat /\ node.meta.normals \in Nat
         /\ \A i \in 1..Len(node.raft) : node.raft[i] \in ClEntry /\ node.raft[i].id \in Nat
<1>1. /\ node.raft \in Seq(ClEntry) /\ node.log \in Seq([id : Nat, ts : Nat])
      /\ node.commit \in Nat /\ node.applied \in Nat /\ node.normals \in Nat /\ node.skip \in Nat
      /\ node.meta \in [applied : Nat, normals : Nat]
  BY DEF ClNodeRec
<1>2. \A i \in 1..Len(node.raft) : node.raft[i] \in ClEntry
  BY <1>1, ElementOfSeq
<1>3. \A e \in ClEntry : e.id \in Nat
  BY DEF ClEntry
<1> QED BY <1>1, <1>2, <1>3, LenProperties

\* Indexing a log is indexing its entries.
LEMMA IndexedAppend ==
  ASSUME NEW log \in Seq([id : Nat, ts : Nat]), NEW e \in [id : Nat, ts : Nat]
  PROVE  /\ Indexed(Append(log, e)) = Indexed(log) \cup {[lsn |-> Len(log), id |-> e.id, ts |-> e.ts]}
         /\ Append(log, e) \in Seq([id : Nat, ts : Nat]) /\ Len(Append(log, e)) = Len(log) + 1
         /\ Append(log, e)[Len(log) + 1] = e
         /\ \A i \in 1..Len(log) : Append(log, e)[i] = log[i]
<1> DEFINE L == Append(log, e)
           At(s, i) == [lsn |-> i - 1, id |-> s[i].id, ts |-> s[i].ts]
<1>1. /\ L \in Seq([id : Nat, ts : Nat]) /\ Len(L) = Len(log) + 1 /\ Len(log) \in Nat
      /\ L[Len(log) + 1] = e /\ \A i \in 1..Len(log) : L[i] = log[i]
      /\ DOMAIN log = 1..Len(log)
  BY AppendProperties, LenProperties
<1>2. DOMAIN L = 1..(Len(log) + 1)
  BY <1>1, LenProperties
<1> HIDE DEF L
<1>3. DOMAIN L = DOMAIN log \cup {Len(log) + 1}
  BY <1>1, <1>2
<1>4. \A i \in DOMAIN log : At(L, i) = At(log, i)
  BY <1>1
<1>5. At(L, Len(log) + 1) = [lsn |-> Len(log), id |-> e.id, ts |-> e.ts]
  BY <1>1
<1> HIDE DEF At
<1>6. {At(L, i) : i \in DOMAIN L} = {At(log, i) : i \in DOMAIN log} \cup {At(L, Len(log) + 1)}
  BY <1>3, <1>4
<1>7. Indexed(L) = {At(L, i) : i \in DOMAIN L} /\ Indexed(log) = {At(log, i) : i \in DOMAIN log}
  BY DEF Indexed, At
<1>8. Indexed(L) = Indexed(log) \cup {[lsn |-> Len(log), id |-> e.id, ts |-> e.ts]}
  BY <1>5, <1>6, <1>7
<1> QED BY <1>1, <1>8 DEF L

LEMMA IndexedType ==
  ASSUME NEW log \in Seq([id : Nat, ts : Nat])
  PROVE  Indexed(log) \subseteq [lsn : Nat, id : Nat, ts : Nat]
<1>1. DOMAIN log = 1..Len(log) /\ Len(log) \in Nat
  BY LenProperties
<1>2. \A i \in DOMAIN log : log[i] \in [id : Nat, ts : Nat]
  BY <1>1, ElementOfSeq
<1>3. \A i \in DOMAIN log : i - 1 \in Nat /\ log[i].id \in Nat /\ log[i].ts \in Nat
  BY <1>1, <1>2
<1> QED BY <1>3 DEF Indexed

\* The parts of Applied.
SameLog(r, node) == r.raft = node.raft /\ r.pc = node.pc /\ r.commit = node.commit /\ r.meta = node.meta
LEMMA NodeApplied ==
  ASSUME NEW node \in ClNodeRec, NEW n, n = [node EXCEPT !.applied = @ + 1]
  PROVE  /\ n \in ClNodeRec /\ SameLog(n, node) /\ n.applied = node.applied + 1 /\ n.log = node.log
         /\ n.normals = node.normals /\ n.skip = node.skip /\ n.views = node.views
<1>1. node.applied + 1 \in Nat
  BY NodeTypes
<1> QED BY <1>1 DEF ClNodeRec, SameLog
LEMMA NodeSkipped ==
  ASSUME NEW node \in ClNodeRec, node.skip - 1 \in Nat, NEW n, n = [node EXCEPT !.normals = @ + 1, !.skip = @ - 1]
  PROVE  /\ n \in ClNodeRec /\ SameLog(n, node) /\ n.applied = node.applied /\ n.log = node.log
         /\ n.normals = node.normals + 1 /\ n.skip = node.skip - 1 /\ n.views = node.views
<1>1. node.normals + 1 \in Nat
  BY NodeTypes
<1> QED BY <1>1 DEF ClNodeRec, SameLog

\* One entry applied, whether its episode is on disk already or not.
LEMMA AppliedStep ==
  ASSUME NEW node \in ClNodeRec, NEW h, LogIs(node, h), RunsTo(node, h), node.applied < Len(node.raft),
         NEW r, r = Applied(node, node.raft[node.applied + 1])
  PROVE  /\ r \in ClNodeRec /\ SameLog(r, node) /\ r.applied = node.applied + 1
         /\ LogIs(r, Greater(h, node.applied + 1)) /\ RunsTo(r, Greater(h, node.applied + 1))
<1> DEFINE s == node.raft
           a == node.applied
           e == s[a + 1]
           ep == [id |-> e.id, ts |-> 0]
           n == [node EXCEPT !.applied = @ + 1]
<1>0. /\ n \in ClNodeRec /\ SameLog(n, node) /\ n.applied = a + 1 /\ n.log = node.log
      /\ n.normals = node.normals /\ n.skip = node.skip /\ n.views = node.views
  BY NodeApplied
<1>1. /\ s \in Seq(ClEntry) /\ Len(s) \in Nat /\ a \in Nat /\ h \in Nat /\ a <= h /\ h <= Len(s)
      /\ a + 1 \in 1..Len(s) /\ node.log \in Seq([id : Nat, ts : Nat]) /\ Len(node.log) \in Nat
      /\ node.normals \in Nat /\ node.skip \in Nat /\ e \in ClEntry /\ ep \in [id : Nat, ts : Nat]
  <2> HIDE DEF n, ep
  <2>1. /\ s \in Seq(ClEntry) /\ Len(s) \in Nat /\ a \in Nat
        /\ node.log \in Seq([id : Nat, ts : Nat]) /\ Len(node.log) \in Nat
        /\ node.normals \in Nat /\ node.skip \in Nat
    BY NodeTypes
  <2>2. h \in Nat /\ a <= h /\ h <= Len(s)
    BY <2>1 DEF LogIs, RunsTo
  <2>3. a + 1 \in 1..Len(s)
    BY <2>1, <2>2
  <2>4. e \in ClEntry /\ e.id \in Nat
    BY <2>3, NodeTypes
  <2>5. ep \in [id : Nat, ts : Nat]
    BY <2>4 DEF ep
  <2> QED BY <2>1, <2>2, <2>3, <2>4, <2>5
<1>2. /\ Normals(s, a) \in Nat /\ Normals(s, h) \in Nat
      /\ e.kind = "normal" => Normals(s, a + 1) = Normals(s, a) + 1
      /\ e.kind # "normal" => Normals(s, a + 1) = Normals(s, a)
  BY <1>1, NormalsStep
<1>3. /\ node.normals = Normals(s, a) /\ node.skip = Normals(s, h) - Normals(s, a)
      /\ node.views = Indexed(node.log) /\ Len(node.log) = Normals(s, h)
      /\ \A i \in 1..h : s[i].kind = "normal" => node.log[Normals(s, i)] = [id |-> s[i].id, ts |-> 0]
  BY DEF LogIs, RunsTo
<1>4. CASE e.kind # "normal"
  <2>1. r = n
    BY <1>4 DEF Applied
  <2>2. /\ r \in ClNodeRec /\ SameLog(r, node) /\ r.raft = s
        /\ r.applied = a + 1 /\ r.log = node.log /\ r.normals = node.normals /\ r.skip = node.skip
        /\ r.views = node.views
    BY <2>1, <1>0 DEF SameLog
  <2>3. CASE a + 1 <= h
    <3>1. Greater(h, a + 1) = h
      BY <2>3, <1>1 DEF Greater
    <3>2. LogIs(r, h)
      BY <2>2 DEF LogIs
    <3>3. RunsTo(r, h)
      BY <2>2, <2>3, <1>1, <1>2, <1>3, <1>4 DEF RunsTo
    <3> QED BY <2>2, <3>1, <3>2, <3>3
  <2>4. CASE ~(a + 1 <= h)
    <3>1. Greater(h, a + 1) = a + 1 /\ h = a
      BY <2>4, <1>1 DEF Greater
    <3>2. LogIs(r, a + 1)
      <4>1. Len(r.log) = Normals(s, a + 1)
        BY <2>2, <3>1, <1>2, <1>3, <1>4
      <4>2. \A i \in 1..(a + 1) : s[i].kind = "normal" => i \in 1..h
        BY <3>1, <1>1, <1>4
      <4>3. \A i \in 1..(a + 1) : s[i].kind = "normal" => r.log[Normals(s, i)] = [id |-> s[i].id, ts |-> 0]
        BY <4>2, <2>2, <1>3
      <4>4. a + 1 \in 0..Len(s)
        BY <1>1
      <4> QED BY <4>1, <4>3, <4>4, <2>2 DEF LogIs
    <3>3. RunsTo(r, a + 1)
      BY <2>2, <3>1, <1>1, <1>2, <1>3, <1>4 DEF RunsTo
    <3> QED BY <2>2, <3>1, <3>2, <3>3
  <2> QED BY <2>3, <2>4
<1>5. CASE e.kind = "normal" /\ Skips(node)
  <2>1. r = [n EXCEPT !.normals = @ + 1, !.skip = @ - 1]
    BY <1>5 DEF Applied
  <2>2. node.skip > 0 /\ node.skip - 1 \in Nat
    BY <1>5, <1>1 DEF Skips
  <2>3. /\ r \in ClNodeRec /\ SameLog(r, node) /\ r.raft = s
        /\ r.applied = a + 1 /\ r.log = node.log /\ r.normals = node.normals + 1 /\ r.skip = node.skip - 1
        /\ r.views = node.views
    <3> HIDE DEF n
    <3>1. n.skip - 1 \in Nat
      BY <2>2, <1>0
    <3>2. /\ r \in ClNodeRec /\ SameLog(r, n) /\ r.applied = n.applied /\ r.log = n.log
          /\ r.normals = n.normals + 1 /\ r.skip = n.skip - 1 /\ r.views = n.views
      BY <2>1, <3>1, <1>0, NodeSkipped, ZenonT(40)
    <3> QED BY <3>2, <1>0 DEF SameLog
  <2>4. a + 1 <= h
    BY <2>2, <1>1, <1>2, <1>3, SMTT(30)
  <2>5. Greater(h, a + 1) = h
    BY <2>4, <1>1 DEF Greater
  <2>6. LogIs(r, h)
    BY <2>3 DEF LogIs
  <2>7. RunsTo(r, h)
    BY <2>3, <2>4, <1>1, <1>2, <1>3, <1>5 DEF RunsTo
  <2> QED BY <2>3, <2>5, <2>6, <2>7
<1>6. CASE e.kind = "normal" /\ ~Skips(node)
  <2>1. r = [n EXCEPT !.normals = @ + 1, !.log = Append(@, ep),
                      !.views = @ \cup {[lsn |-> Len(node.log), id |-> ep.id, ts |-> ep.ts]}]
    BY <1>6 DEF Applied
  <2>2. node.skip = 0 /\ Normals(s, h) = Normals(s, a)
    BY <1>6, <1>1, <1>2, <1>3 DEF Skips
  <2>3. h = a
    <3>1. CASE a + 1 <= h
      <4>1. Normals(s, a + 1) <= Normals(s, h)
        BY <3>1, <1>1, NormalsGrow
      <4> QED BY <4>1, <2>2, <1>2, <1>6
    <3> QED BY <3>1, <1>1
  <2>4. /\ Indexed(Append(node.log, ep)) = Indexed(node.log) \cup {[lsn |-> Len(node.log), id |-> ep.id, ts |-> ep.ts]}
        /\ Append(node.log, ep) \in Seq([id : Nat, ts : Nat]) /\ Len(Append(node.log, ep)) = Len(node.log) + 1
        /\ Append(node.log, ep)[Len(node.log) + 1] = ep
        /\ \A i \in 1..Len(node.log) : Append(node.log, ep)[i] = node.log[i]
        /\ Indexed(Append(node.log, ep)) \subseteq [lsn : Nat, id : Nat, ts : Nat]
    BY <1>1, IndexedAppend, IndexedType
  <2>5. /\ r \in ClNodeRec /\ SameLog(r, node) /\ r.raft = s
        /\ r.applied = a + 1 /\ r.log = Append(node.log, ep) /\ r.normals = node.normals + 1
        /\ r.skip = node.skip /\ r.views = Indexed(Append(node.log, ep))
    <3> DEFINE log == Append(node.log, ep)
               V == {[lsn |-> Len(node.log), id |-> ep.id, ts |-> ep.ts]}
    <3>1. Append(n.log, ep) = log
      BY <1>0
    <3> HIDE DEF n, ep
    <3>2. r = [n EXCEPT !.normals = @ + 1, !.log = log, !.views = @ \cup V]
      BY <2>1, <3>1, <1>0 DEF ClNodeRec
    <3>3. n.views \cup V = Indexed(log) /\ n.views \cup V \in SUBSET [lsn : Nat, id : Nat, ts : Nat] /\ log \in Seq([id : Nat, ts : Nat])
      BY <2>4, <1>0, <1>3
    <3> HIDE DEF V, log
    <3>4. /\ r \in ClNodeRec /\ SameLog(r, n) /\ r.applied = n.applied /\ r.log = log
          /\ r.normals = n.normals + 1 /\ r.skip = n.skip /\ r.views = n.views \cup V
      <4>1. n.normals + 1 \in Nat
        BY <1>0, <1>1
      <4> QED BY <4>1, <3>2, <3>3, <1>0 DEF ClNodeRec, SameLog
    <3> QED BY <3>3, <3>4, <1>0 DEF SameLog, log
  <2>6. Greater(h, a + 1) = a + 1
    BY <2>3, <1>1 DEF Greater
  <2>7. LogIs(r, a + 1)
    <3>1. Len(r.log) = Normals(s, a + 1)
      BY <2>3, <2>4, <2>5, <1>2, <1>3, <1>6
    <3>2. ASSUME NEW i \in 1..(a + 1), s[i].kind = "normal"
          PROVE  r.log[Normals(s, i)] = [id |-> s[i].id, ts |-> 0]
      <4>1. CASE i = a + 1
        BY <4>1, <3>1, <2>4, <2>5
      <4>2. CASE i # a + 1
        <5>1. i \in 1..h /\ i \in Nat \ {0}
          BY <4>2, <2>3, <1>1
        <5>2. Normals(s, i) <= Normals(s, h) /\ Normals(s, 0) < Normals(s, i) /\ Normals(s, 0) = 0
              /\ Normals(s, i) \in Nat
          BY <5>1, <3>2, <1>1, NormalsGrow, NormalsOrder, NormalsStep
        <5>3. Normals(s, i) \in 1..Len(node.log)
          BY <5>2, <1>3, <1>2
        <5> QED BY <5>1, <5>3, <3>2, <2>4, <2>5, <1>3
      <4> QED BY <4>1, <4>2
    <3>3. a + 1 \in 0..Len(s)
      BY <1>1
    <3> QED BY <3>1, <3>2, <3>3, <2>5 DEF LogIs
  <2>8. RunsTo(r, a + 1)
    <3>1. r.normals = Normals(s, a + 1) /\ r.skip = Normals(s, a + 1) - Normals(s, a + 1)
      BY <2>2, <2>5, <1>2, <1>3, <1>6
    <3>2. r.applied <= a + 1
      BY <2>5, <1>1
    <3> QED BY <3>1, <3>2, <2>5 DEF RunsTo
  <2> QED BY <2>5, <2>6, <2>7, <2>8
<1> QED BY <1>4, <1>5, <1>6

LEMMA SegmentOf ==
  ASSUME NEW S, NEW s \in Seq(S), NEW a \in Nat, NEW i \in Nat, a <= i, i <= Len(s)
  PROVE  /\ SubSeq(s, a + 1, i) \in Seq(S) /\ DOMAIN SubSeq(s, a + 1, i) = 1..(i - a)
         /\ \A j \in 1..(i - a) : SubSeq(s, a + 1, i)[j] = s[a + j]
  OBVIOUS

LEMMA RunOf ==
  ASSUME NEW node, NEW raft \in Seq(ClEntry), NEW a \in Nat, NEW i \in Nat, a <= i, i <= Len(raft)
  PROVE  \E A : RunBy(A, node, SubSeq(raft, a + 1, i), i - a)
<1>1. DOMAIN SubSeq(raft, a + 1, i) = 1..(i - a)
  BY SegmentOf
<1>2. i - a \in Nat
  OBVIOUS
<1> QED BY <1>1, <1>2, FoldSteps, Zenon

\* A batch of entries applied.
LEMMA AppliedRun ==
  ASSUME NEW node \in ClNodeRec, NEW h, LogIs(node, h), RunsTo(node, h),
         NEW i \in node.applied..Len(node.raft),
         NEW r, r = ApplyAll(node, SubSeq(node.raft, node.applied + 1, i))
  PROVE  /\ r \in ClNodeRec /\ SameLog(r, node) /\ r.applied = i
         /\ LogIs(r, Greater(h, i)) /\ RunsTo(r, Greater(h, i))
<1> DEFINE a == node.applied
           n == i - a
<1>1. /\ node.raft \in Seq(ClEntry) /\ Len(node.raft) \in Nat /\ a \in Nat /\ h \in Nat /\ a <= h
      /\ i \in Nat /\ n \in Nat /\ a + n = i /\ a <= i /\ i <= Len(node.raft)
  <2>1. node.raft \in Seq(ClEntry) /\ Len(node.raft) \in Nat /\ a \in Nat
    BY NodeTypes
  <2> QED BY <2>1 DEF LogIs, RunsTo
<1> HIDE DEF n
<1>3. PICK A : /\ A[0] = node /\ r = A[n]
               /\ \A j \in 1..n : A[j] = Applied(A[j - 1], node.raft[a + j])
  <2>1. PICK A : RunBy(A, node, SubSeq(node.raft, a + 1, i), n)
    BY <1>1, RunOf DEF n
  <2>2. \A j \in 1..n : SubSeq(node.raft, a + 1, i)[j] = node.raft[a + j]
    <3>1. \A j \in 1..(i - a) : SubSeq(node.raft, a + 1, i)[j] = node.raft[a + j]
      <4> HIDE DEF a
      <4> QED BY <1>1, SegmentOf
    <3> QED BY <3>1 DEF n
  <2>3. A[0] = node /\ r = A[n]
    BY <2>1 DEF RunBy
  <2>4. \A j \in 1..n : A[j] = Applied(A[j - 1], node.raft[a + j])
    BY <2>1, <2>2 DEF RunBy
  <2> QED BY <2>3, <2>4
<1> DEFINE Good(j) == /\ A[j] \in ClNodeRec /\ SameLog(A[j], node) /\ A[j].applied = a + j
                      /\ LogIs(A[j], Greater(h, a + j)) /\ RunsTo(A[j], Greater(h, a + j))
           Bad == {j \in Nat : j <= n /\ ~Good(j)}
<1>4. Bad = {}
  <2>1. SUFFICES ASSUME Bad # {} PROVE FALSE
    OBVIOUS
  <2> HIDE DEF Good
  <2>2. PICK j \in Bad : \A k \in Bad : j <= k
    BY <2>1, LeastNat
  <2>3. j # 0
    <3>1. a + 0 = a /\ Greater(h, a) = h
      BY <1>1 DEF Greater
    <3>2. Good(0)
      BY <1>1, <1>3, <3>1 DEF Good, SameLog
    <3> QED BY <3>2, <2>2
  <2>4. j - 1 \in Nat /\ j - 1 <= n /\ j \in 1..n /\ Good(j - 1)
    BY <2>2, <2>3, <1>1
  <2> DEFINE p == A[j - 1]
  <2>5. p \in ClNodeRec /\ SameLog(p, node) /\ p.applied = a + (j - 1)
        /\ LogIs(p, Greater(h, a + (j - 1))) /\ RunsTo(p, Greater(h, a + (j - 1)))
    BY <2>4 DEF Good
  <2>6. p.raft = node.raft /\ p.applied < Len(p.raft) /\ p.applied + 1 = a + j
    BY <2>4, <2>5, <1>1, SMTT(30) DEF SameLog
  <2>7. A[j] = Applied(p, p.raft[p.applied + 1])
    BY <2>4, <2>6, <1>3
  <2>8. Greater(Greater(h, a + (j - 1)), a + j) = Greater(h, a + j)
    BY <2>4, <1>1, SMTT(30) DEF Greater
  <2> HIDE DEF p
  <2>9. /\ A[j] \in ClNodeRec /\ SameLog(A[j], p) /\ A[j].applied = p.applied + 1
        /\ LogIs(A[j], Greater(Greater(h, a + (j - 1)), p.applied + 1))
        /\ RunsTo(A[j], Greater(Greater(h, a + (j - 1)), p.applied + 1))
    BY <2>5, <2>6, <2>7, AppliedStep
  <2>10. Good(j)
    BY <2>5, <2>6, <2>8, <2>9 DEF Good, SameLog
  <2> QED BY <2>10, <2>2
<1>5. Good(n)
  <2> HIDE DEF Good
  <2>1. n <= n
    BY <1>1
  <2> QED BY <2>1, <1>1, <1>4
<1> QED BY <1>5, <1>1, <1>3

Covered(R, n, h) == h = 0 \/ \E k \in h..Len(R[n]) : Chosen(R, n, k)

\* The node's episode log is as long as a part of its raft log that is chosen.
NodeIs(R, n, node) ==
    \E h \in 0..Len(node.raft) :
       /\ Covered(R, n, h) /\ LogIs(node, h)
       /\ node.meta.applied <= h /\ node.meta.normals = Normals(node.raft, node.meta.applied)
       /\ node.pc # "down" => RunsTo(node, h) /\ Covered(R, n, node.commit) /\ node.applied <= node.commit

LEMMA CoveredKept ==
  ASSUME NEW R \in LogsOfNodes, NEW R2 \in LogsOfNodes, Keeps(R, R2), NEW n \in ClNodes, NEW h \in Nat,
         Covered(R, n, h)
  PROVE  Covered(R2, n, h) /\ Agree(R2[n], R[n], h)
<1>1. Len(R[n]) \in Nat /\ Len(R2[n]) \in Nat /\ R[n] \in Seq(ClEntry) /\ R2[n] \in Seq(ClEntry)
  BY LogTypes
<1>2. CASE h = 0
  BY <1>1, <1>2 DEF Covered, Agree
<1>3. CASE h # 0
  <2>1. PICK k \in h..Len(R[n]) : Chosen(R, n, k)
    BY <1>3 DEF Covered
  <2>2. k \in Nat /\ h <= k
    BY <2>1, <1>1
  <2>3. Chosen(R2, n, k) /\ Agree(R2[n], R[n], k)
    BY <2>1, <2>2 DEF Keeps
  <2>4. k \in h..Len(R2[n])
    BY <2>2, <2>3, <1>1 DEF Agree
  <2> QED BY <2>2, <2>3, <2>4, <1>1, AgreeFacts DEF Covered
<1> QED BY <1>2, <1>3

LEMMA LogIsKept ==
  ASSUME NEW node \in ClNodeRec, NEW node2 \in ClNodeRec, NEW h, LogIs(node, h), node2.log = node.log,
         Agree(node2.raft, node.raft, h)
  PROVE  LogIs(node2, h) /\ h \in Nat /\ h \in 0..Len(node2.raft)
         /\ \A i \in 0..h : Normals(node2.raft, i) = Normals(node.raft, i)
<1>1. Len(node.raft) \in Nat /\ Len(node2.raft) \in Nat /\ h \in Nat /\ h <= Len(node2.raft)
      /\ \A i \in 1..h : node2.raft[i] = node.raft[i]
  BY NodeTypes DEF LogIs, Agree
<1>2. \A i \in 0..h : Normals(node2.raft, i) = Normals(node.raft, i)
  <2>1. TAKE i \in 0..h
  <2>2. i \in Nat /\ \A j \in 1..i : node2.raft[j] = node.raft[j]
    BY <1>1
  <2> QED BY <2>2, NormalsAgree
<1>3. \A i \in 1..h : i \in 0..h
  BY <1>1
<1>4. h \in 0..h
  BY <1>1
<1> QED BY <1>1, <1>2, <1>3, <1>4 DEF LogIs

\* A node that changes nothing of its own but how far the log is committed,
\* or stops.
LEMMA NodeKept ==
  ASSUME NEW R \in LogsOfNodes, NEW R2 \in LogsOfNodes, Keeps(R, R2), NEW n \in ClNodes,
         NEW node \in ClNodeRec, NEW node2 \in ClNodeRec, NodeIs(R, n, node),
         node.raft = R[n], node2.raft = R2[n], node2.log = node.log, node2.meta = node.meta,
         node2.pc # "down" =>
            /\ node.pc # "down" /\ node2.views = node.views
            /\ node2.applied = node.applied /\ node2.normals = node.normals /\ node2.skip = node.skip
            /\ \/ node2.commit = node.commit
               \/ Covered(R2, n, node2.commit) /\ node.commit <= node2.commit
  PROVE  NodeIs(R2, n, node2)
<1>1. PICK h \in 0..Len(node.raft) :
        /\ Covered(R, n, h) /\ LogIs(node, h)
        /\ node.meta.applied <= h /\ node.meta.normals = Normals(node.raft, node.meta.applied)
        /\ node.pc # "down" => RunsTo(node, h) /\ Covered(R, n, node.commit) /\ node.applied <= node.commit
  BY DEF NodeIs
<1>2. /\ h \in Nat /\ node.commit \in Nat /\ node2.commit \in Nat /\ node.applied \in Nat
      /\ node.meta.applied \in Nat
  BY NodeTypes
<1>3. Covered(R2, n, h) /\ Agree(node2.raft, node.raft, h)
  BY <1>1, <1>2, CoveredKept
<1>4. /\ LogIs(node2, h) /\ h \in 0..Len(node2.raft)
      /\ \A i \in 0..h : Normals(node2.raft, i) = Normals(node.raft, i)
  BY <1>1, <1>3, LogIsKept
<1>5. node.meta.applied \in 0..h /\ h \in 0..h
  BY <1>1, <1>2
<1>6. ASSUME node2.pc # "down"
      PROVE  RunsTo(node2, h) /\ Covered(R2, n, node2.commit) /\ node2.applied <= node2.commit
  <2>1. RunsTo(node, h) /\ Covered(R, n, node.commit) /\ node.applied <= node.commit
    BY <1>1, <1>6
  <2>2. node.applied \in 0..h
    BY <2>1, <1>2 DEF RunsTo
  <2>3. RunsTo(node2, h)
    BY <2>1, <2>2, <1>4, <1>5, <1>6 DEF RunsTo
  <2>4. Covered(R2, n, node.commit)
    BY <2>1, <1>2, CoveredKept
  <2> QED BY <2>1, <2>3, <2>4, <1>2, <1>6
<1> QED BY <1>1, <1>3, <1>4, <1>5, <1>6 DEF NodeIs

LEMMA CoveredBelow ==
  ASSUME NEW R \in LogsOfNodes, NEW n \in ClNodes, NEW h \in Nat, NEW i \in Nat, i <= h, Covered(R, n, h)
  PROVE  Covered(R, n, i) /\ h <= Len(R[n])
<1>1. Len(R[n]) \in Nat
  BY LogTypes
<1>2. CASE h = 0
  <2>1. i = 0
    BY <1>2
  <2> QED BY <2>1, <1>1, <1>2 DEF Covered
<1>3. CASE h # 0
  <2>1. PICK k \in h..Len(R[n]) : Chosen(R, n, k)
    BY <1>3 DEF Covered
  <2>2. k \in i..Len(R[n])
    BY <2>1, <1>1
  <2> QED BY <2>1, <2>2, <1>1 DEF Covered
<1> QED BY <1>2, <1>3

\* A node that starts resumes at its last recorded batch.
LEMMA NodeSpawned ==
  ASSUME NEW R \in LogsOfNodes, NEW n \in ClNodes, NEW node \in ClNodeRec, NEW node2 \in ClNodeRec,
         NodeIs(R, n, node), node.raft = R[n], node2.raft = node.raft, node2.log = node.log,
         node2.meta = node.meta, node2.applied = node.meta.applied, node2.commit = node.meta.applied,
         node2.normals = node.meta.normals, node2.skip = Len(node.log) - node.meta.normals,
         node2.views = Indexed(node.log)
  PROVE  NodeIs(R, n, node2)
<1>1. PICK h \in 0..Len(node.raft) :
        /\ Covered(R, n, h) /\ LogIs(node, h)
        /\ node.meta.applied <= h /\ node.meta.normals = Normals(node.raft, node.meta.applied)
  BY DEF NodeIs
<1>2. h \in Nat /\ node.meta.applied \in Nat
  BY NodeTypes
<1>3. Covered(R, n, node2.commit) /\ node2.applied <= node2.commit
  BY <1>1, <1>2, CoveredBelow
<1>4. LogIs(node2, h)
  BY <1>1 DEF LogIs
<1>5. RunsTo(node2, h)
  BY <1>1 DEF RunsTo, LogIs
<1> QED BY <1>1, <1>3, <1>4, <1>5 DEF NodeIs

\* A node that applies part of what is committed.
LEMMA NodeRan ==
  ASSUME NEW R \in LogsOfNodes, NEW n \in ClNodes, NEW node \in ClNodeRec, NodeIs(R, n, node),
         node.raft = R[n], node.pc # "down", NEW i \in Nat, node.applied <= i, i <= node.commit,
         NEW r, r = ApplyAll(node, SubSeq(node.raft, node.applied + 1, i))
  PROVE  /\ r \in ClNodeRec /\ SameLog(r, node) /\ r.applied = i /\ NodeIs(R, n, r)
         /\ r.normals = Normals(node.raft, i)
<1>1. PICK h \in 0..Len(node.raft) :
        /\ Covered(R, n, h) /\ LogIs(node, h)
        /\ node.meta.applied <= h /\ node.meta.normals = Normals(node.raft, node.meta.applied)
        /\ RunsTo(node, h) /\ Covered(R, n, node.commit) /\ node.applied <= node.commit
  BY DEF NodeIs
<1>2. /\ h \in Nat /\ node.meta.applied \in Nat /\ node.applied \in Nat /\ node.commit \in Nat
      /\ Len(node.raft) \in Nat
  BY NodeTypes
<1>3. Covered(R, n, i) /\ node.commit <= Len(node.raft)
  BY <1>1, <1>2, CoveredBelow
<1>4. i \in node.applied..Len(node.raft)
  BY <1>2, <1>3
<1> DEFINE g == Greater(h, i)
<1>5. /\ r \in ClNodeRec /\ SameLog(r, node) /\ r.applied = i /\ LogIs(r, g) /\ RunsTo(r, g)
  BY <1>1, <1>4, AppliedRun
<1>6. g \in 0..Len(node.raft) /\ h <= g /\ Covered(R, n, g)
  BY <1>1, <1>2, <1>3, <1>4 DEF Greater
<1> HIDE DEF g
<1>7. node.meta.applied <= g
  BY <1>1, <1>2, <1>6
<1>8. r.raft = node.raft /\ r.meta = node.meta /\ r.commit = node.commit /\ r.applied <= r.commit
  BY <1>5 DEF SameLog
<1>9. NodeIs(R, n, r)
  BY <1>1, <1>5, <1>6, <1>7, <1>8 DEF NodeIs
<1>10. r.normals = Normals(node.raft, i)
  BY <1>5, <1>8 DEF RunsTo
<1> QED BY <1>5, <1>9, <1>10

LEMMA NodePersisted ==
  ASSUME NEW R, NEW n, NEW node \in ClNodeRec, NodeIs(R, n, node), node.pc # "down"
  PROVE  ClPersisted(node) \in ClNodeRec /\ NodeIs(R, n, ClPersisted(node))
<1> DEFINE p == ClPersisted(node)
<1>1. PICK h \in 0..Len(node.raft) :
        /\ Covered(R, n, h) /\ LogIs(node, h)
        /\ RunsTo(node, h) /\ Covered(R, n, node.commit) /\ node.applied <= node.commit
  BY DEF NodeIs
<1>2. /\ p \in ClNodeRec /\ p.raft = node.raft /\ p.log = node.log /\ p.pc = node.pc /\ p.commit = node.commit
      /\ p.applied = node.applied /\ p.normals = node.normals /\ p.skip = node.skip /\ p.views = node.views
      /\ p.meta = [applied |-> node.applied, normals |-> node.normals]
  <2>1. node.applied \in Nat /\ node.normals \in Nat
    BY NodeTypes
  <2> QED BY <2>1 DEF ClPersisted, ClNodeRec
<1> HIDE DEF p
<1>3. LogIs(p, h) /\ RunsTo(p, h)
  BY <1>1, <1>2 DEF LogIs, RunsTo
<1>4. p.meta.applied <= h /\ p.meta.normals = Normals(p.raft, p.meta.applied)
  BY <1>1, <1>2 DEF RunsTo
<1>5. NodeIs(R, n, p)
  BY <1>1, <1>2, <1>3, <1>4 DEF NodeIs
<1> QED BY <1>2, <1>5 DEF p

-----------------------------------------------------------------------------
(* The requests of the leader, the identifiers of the episodes, the calls  *)
(* and what was answered.                                                  *)

RequestIs(R, l, term, w) ==
    /\ w.raft # <<>> /\ LastTerm(w.raft) = term /\ Agree(w.raft, R[l], Len(w.raft))
    /\ w.commit = 0 \/ \E k \in w.commit..Len(w.raft) : Chosen(R, l, k)

\* Only the call that waits has a message with its number.
WireIs(R, l, term, rpc, wire) ==
    /\ \A v, w \in wire : v.seq = w.seq => v = w
    /\ \A w \in wire :
         /\ w.seq <= rpc.seq
         /\ w.seq = rpc.seq => w.to = rpc.to
         /\ w.way = "request" => RequestIs(R, l, term, w)
         /\ w.way = "request" /\ w.seq = rpc.seq => rpc.upto = Len(w.raft)
         /\ w.way = "answer" /\ w.seq = rpc.seq => Agree(R[w.to], R[l], rpc.upto)

Matched(R, l, match) == \A n \in ClNodes : Agree(R[n], R[l], match[n])

UniqueIn(s, ids) ==
    \A i \in DOMAIN s :
       /\ s[i].kind # "normal" => s[i].id = 0
       /\ s[i].kind = "normal" => s[i].id \in 1..ids
       /\ \A j \in DOMAIN s : s[i].kind = "normal" /\ s[j].kind = "normal" /\ s[i].id = s[j].id => i = j
FreshIn(s, id) == \A i \in DOMAIN s : s[i].id # id
IdsUnique(R, ids) == \A n \in ClNodes : UniqueIn(R[n], ids)
Fresh(R, id) == \A n \in ClNodes : FreshIn(R[n], id)
CallsQueued(R, calls, ids) ==
    \A c \in ClCallers : calls[c].pc = "queued" =>
       /\ calls[c].node \in ClNodes /\ calls[c].id \in 1..ids /\ Fresh(R, calls[c].id)
       /\ \A d \in ClCallers : calls[d].pc = "queued" /\ calls[d].id = calls[c].id => c = d
CallsWritten(nodes, calls) ==
    \A c \in ClCallers : calls[c].pc = "written" =>
       /\ calls[c].node \in ClNodes /\ nodes[calls[c].node].pc # "down"
       /\ calls[c].at > nodes[calls[c].node].applied /\ calls[c].id >= 1
AnsweredAt(R, a) ==
    \E n \in ClNodes : \E k \in DOMAIN R[n] : \E i \in 1..k :
       /\ Chosen(R, n, k) /\ R[n][i].kind = "normal" /\ R[n][i].id = a.id
       /\ Normals(R[n], i) = a.lsn + 1


ClMessage == [way : {"request", "answer"}, to : ClNodes, seq : Nat, raft : Seq(ClEntry), commit : Nat]
ClRequest == [to : ClNodes \cup {ClNobody}, seq : Nat, upto : Nat]

\* What a change of the logs does not disturb for the leader.
LeaderKeeps(R, R2, l) ==
    /\ Agree(R[l], R2[l], Len(R[l]))
    /\ \A n \in ClNodes : \A k \in Nat : Agree(R[n], R[l], k) => Agree(R2[n], R2[l], k)

LEMMA RequestKept ==
  ASSUME NEW R \in LogsOfNodes, NEW R2 \in LogsOfNodes, NEW l \in ClNodes, Keeps(R, R2), LeaderKeeps(R, R2, l),
         NEW term, NEW w \in ClMessage, RequestIs(R, l, term, w)
  PROVE  RequestIs(R2, l, term, w)
<1>1. w.raft \in Seq(ClEntry) /\ w.commit \in Nat /\ Len(w.raft) \in Nat
  BY LenProperties DEF ClMessage
<1>2. R[l] \in Seq(ClEntry) /\ R2[l] \in Seq(ClEntry) /\ Len(R[l]) \in Nat
  BY LogTypes
<1>3. Agree(w.raft, R[l], Len(w.raft)) /\ Len(w.raft) <= Len(R[l])
  BY DEF RequestIs, Agree
<1>4. Agree(R[l], R2[l], Len(w.raft))
  BY <1>1, <1>2, <1>3, AgreeFacts DEF LeaderKeeps
<1>5. Agree(w.raft, R2[l], Len(w.raft))
  BY <1>1, <1>2, <1>3, <1>4, AgreeFacts
<1>6. w.commit = 0 \/ \E k \in w.commit..Len(w.raft) : Chosen(R2, l, k)
  <2>1. CASE w.commit = 0
    BY <2>1
  <2>2. CASE w.commit # 0
    <3>1. PICK k \in w.commit..Len(w.raft) : Chosen(R, l, k)
      BY <2>2 DEF RequestIs
    <3>2. k \in Nat
      BY <3>1, <1>1
    <3>3. Chosen(R2, l, k)
      BY <3>1, <3>2 DEF Keeps
    <3> QED BY <3>1, <3>3
  <2> QED BY <2>1, <2>2
<1> QED BY <1>5, <1>6 DEF RequestIs

LEMMA WireKept ==
  ASSUME NEW R \in LogsOfNodes, NEW R2 \in LogsOfNodes, NEW l \in ClNodes, Keeps(R, R2), LeaderKeeps(R, R2, l),
         NEW term, NEW rpc \in ClRequest, NEW wire, wire \subseteq ClMessage, WireIs(R, l, term, rpc, wire)
  PROVE  WireIs(R2, l, term, rpc, wire)
<1>1. rpc.upto \in Nat
  BY DEF ClRequest
<1>2. \A w \in wire : w.to \in ClNodes
  BY DEF ClMessage
<1>3. \A w \in wire : RequestIs(R, l, term, w) => RequestIs(R2, l, term, w)
  BY RequestKept
<1>4. \A w \in wire : Agree(R[w.to], R[l], rpc.upto) => Agree(R2[w.to], R2[l], rpc.upto)
  BY <1>1, <1>2 DEF LeaderKeeps
<1> QED BY <1>3, <1>4 DEF WireIs

LEMMA MatchedKept ==
  ASSUME NEW R \in LogsOfNodes, NEW R2 \in LogsOfNodes, NEW l \in ClNodes, LeaderKeeps(R, R2, l),
         NEW match \in [ClNodes -> Nat], Matched(R, l, match)
  PROVE  Matched(R2, l, match)
  BY DEF Matched, LeaderKeeps

LEMMA LeaderKeepsInitialized ==
  ASSUME NEW R \in LogsOfNodes, NEW s \in ClNodes, NEW l \in ClNodes, l # s, R[s] = <<>>,
         NEW R2 \in LogsOfNodes, SameBut(R, R2, s)
  PROVE  LeaderKeeps(R, R2, l)
<1>1. R2[l] = R[l] /\ Len(R[l]) \in Nat /\ R[l] \in Seq(ClEntry) /\ Len(R2[s]) \in Nat /\ Len(R[s]) = 0
  BY LogTypes DEF SameBut
<1>2. Agree(R[l], R2[l], Len(R[l]))
  BY <1>1 DEF Agree
<1>3. ASSUME NEW n \in ClNodes, NEW k \in Nat, Agree(R[n], R[l], k) PROVE Agree(R2[n], R2[l], k)
  <2>1. CASE n = s
    <3>1. k = 0
      BY <1>3, <2>1, <1>1 DEF Agree
    <3> QED BY <3>1, <2>1, <1>1 DEF Agree
  <2>2. CASE n # s
    BY <1>3, <2>2, <1>1 DEF SameBut
  <2> QED BY <2>1, <2>2
<1> QED BY <1>2, <1>3 DEF LeaderKeeps

LEMMA LeaderKeepsWritten ==
  ASSUME NEW R \in LogsOfNodes, NEW l \in ClNodes, NEW e \in ClEntry,
         NEW R2 \in LogsOfNodes, R2 = [R EXCEPT ![l] = Append(R[l], e)]
  PROVE  LeaderKeeps(R, R2, l)
<1>1. /\ R2[l] = Append(R[l], e) /\ \A n \in ClNodes : n # l => R2[n] = R[n]
      /\ \A n \in ClNodes : R[n] \in Seq(ClEntry) /\ Len(R[n]) \in Nat
  BY LogTypes DEF LogsOfNodes
<1>2. Agree(R[l], R[l], Len(R[l]))
  BY <1>1, AgreeFacts
<1>3. Agree(R[l], R2[l], Len(R[l]))
  BY <1>1, <1>2, GrownAgrees
<1>4. ASSUME NEW n \in ClNodes, NEW k \in Nat, Agree(R[n], R[l], k) PROVE Agree(R2[n], R2[l], k)
  <2>1. Agree(R[l], R[n], k)
    BY <1>1, <1>4, AgreeFacts
  <2>2. Agree(R[n], R2[l], k)
    BY <1>1, <2>1, GrownAgrees
  <2>3. CASE n = l
    <3>1. R2[l] \in Seq(ClEntry) /\ k <= Len(R2[l])
      BY <2>2, LogTypes DEF Agree
    <3> QED BY <3>1, <2>3, AgreeFacts
  <2>4. CASE n # l
    BY <2>2, <2>4, <1>1
  <2> QED BY <2>3, <2>4
<1> QED BY <1>3, <1>4 DEF LeaderKeeps

LEMMA LeaderKeepsServed ==
  ASSUME NEW R \in LogsOfNodes, NEW l \in ClNodes, NEW n \in ClNodes, n # l, NEW w,
         NEW R2 \in LogsOfNodes, R2 = [R EXCEPT ![n] = w],
         \A k \in Nat : Agree(R[n], R[l], k) => Agree(w, R[l], k)
  PROVE  LeaderKeeps(R, R2, l)
<1>1. /\ R2[n] = w /\ \A m \in ClNodes : m # n => R2[m] = R[m]
      /\ R[l] \in Seq(ClEntry) /\ Len(R[l]) \in Nat
  BY LogTypes DEF LogsOfNodes
<1>2. Agree(R[l], R2[l], Len(R[l]))
  BY <1>1, AgreeFacts
<1> QED BY <1>1, <1>2 DEF LeaderKeeps

\* A log that takes an entry keeps its identifiers distinct, and so does a
\* prefix.
LEMMA UniqueAppended ==
  ASSUME NEW s \in Seq(ClEntry), NEW e \in ClEntry, NEW ids \in Nat, UniqueIn(s, ids),
         \/ e.kind # "normal" /\ e.id = 0
         \/ e.kind = "normal" /\ e.id \in 1..ids /\ FreshIn(s, e.id)
  PROVE  UniqueIn(Append(s, e), ids)
<1>1. /\ DOMAIN Append(s, e) = 1..(Len(s) + 1) /\ DOMAIN s = 1..Len(s) /\ Len(s) \in Nat
      /\ \A i \in 1..Len(s) : Append(s, e)[i] = s[i]
      /\ Append(s, e)[Len(s) + 1] = e
  BY Appended, LenProperties
<1> DEFINE t == Append(s, e)
<1> HIDE DEF t
<1>2. /\ DOMAIN t = 1..(Len(s) + 1) /\ \A i \in 1..Len(s) : t[i] = s[i]
      /\ t[Len(s) + 1] = e
  BY <1>1 DEF t
<1>3. \A i \in DOMAIN t : i \in 1..Len(s) \/ i = Len(s) + 1
  BY <1>1, <1>2
<1>4. ASSUME NEW i \in DOMAIN t
      PROVE  /\ t[i].kind # "normal" => t[i].id = 0
             /\ t[i].kind = "normal" => t[i].id \in 1..ids
  BY <1>1, <1>2, <1>3 DEF UniqueIn
<1>5. ASSUME NEW i \in DOMAIN t, NEW j \in DOMAIN t, t[i].kind = "normal", t[j].kind = "normal", t[i].id = t[j].id
      PROVE  i = j
  BY <1>1, <1>2, <1>3, <1>5 DEF UniqueIn, FreshIn
<1>6. UniqueIn(t, ids)
  BY <1>4, <1>5 DEF UniqueIn
<1> QED BY <1>6 DEF t

LEMMA UniquePrefix ==
  ASSUME NEW s \in Seq(ClEntry), NEW w \in Seq(ClEntry), NEW ids, UniqueIn(s, ids), Agree(w, s, Len(w))
  PROVE  UniqueIn(w, ids) /\ \A id : FreshIn(s, id) => FreshIn(w, id)
<1>1. DOMAIN w = 1..Len(w) /\ DOMAIN s = 1..Len(s) /\ Len(w) \in Nat /\ Len(s) \in Nat
  BY LenProperties
<1>2. Len(w) <= Len(s) /\ \A i \in 1..Len(w) : w[i] = s[i] /\ i \in 1..Len(s)
  BY <1>1 DEF Agree
<1>3. UniqueIn(w, ids)
  BY <1>1, <1>2 DEF UniqueIn
<1>4. \A id : FreshIn(s, id) => FreshIn(w, id)
  BY <1>1, <1>2 DEF FreshIn
<1> QED BY <1>3, <1>4

\* One log changes: its own identifiers are what is left to see.
LEMMA IdsChange ==
  ASSUME NEW R \in LogsOfNodes, NEW R2 \in LogsOfNodes, NEW l \in ClNodes, SameBut(R, R2, l),
         NEW ids, IdsUnique(R, ids), UniqueIn(R2[l], ids)
  PROVE  IdsUnique(R2, ids)
  BY DEF IdsUnique, SameBut

LEMMA FreshChange ==
  ASSUME NEW R \in LogsOfNodes, NEW R2 \in LogsOfNodes, NEW l \in ClNodes, SameBut(R, R2, l),
         NEW id, Fresh(R, id), FreshIn(R2[l], id)
  PROVE  Fresh(R2, id)
  BY DEF Fresh, SameBut

LEMMA FreshAppended ==
  ASSUME NEW s \in Seq(ClEntry), NEW e \in ClEntry, NEW id, FreshIn(s, id), e.id # id
  PROVE  FreshIn(Append(s, e), id)
<1>1. /\ DOMAIN Append(s, e) = 1..(Len(s) + 1) /\ DOMAIN s = 1..Len(s) /\ Len(s) \in Nat
      /\ \A i \in 1..Len(s) : Append(s, e)[i] = s[i]
      /\ Append(s, e)[Len(s) + 1] = e
  BY Appended, LenProperties
<1> QED BY <1>1 DEF FreshIn

\* A new identifier is in no log.
LEMMA IdsGrow ==
  ASSUME NEW R \in LogsOfNodes, NEW ids \in Nat, IdsUnique(R, ids)
  PROVE  IdsUnique(R, ids + 1) /\ Fresh(R, ids + 1)
<1>1. ASSUME NEW n \in ClNodes PROVE UniqueIn(R[n], ids + 1) /\ FreshIn(R[n], ids + 1)
  <2>1. UniqueIn(R[n], ids)
    BY DEF IdsUnique
  <2>2. \A x \in 1..ids : x \in 1..(ids + 1) /\ x # ids + 1
    OBVIOUS
  <2>3. ids + 1 # 0
    OBVIOUS
  <2>4. UniqueIn(R[n], ids + 1)
    BY <2>1, <2>2 DEF UniqueIn
  <2>5. FreshIn(R[n], ids + 1)
    BY <2>1, <2>2, <2>3 DEF UniqueIn, FreshIn
  <2> QED BY <2>4, <2>5
<1> QED BY <1>1 DEF IdsUnique, Fresh

LEMMA AnsweredKept ==
  ASSUME NEW R \in LogsOfNodes, NEW R2 \in LogsOfNodes, Keeps(R, R2), NEW a, AnsweredAt(R, a)
  PROVE  AnsweredAt(R2, a)
<1>1. PICK n \in ClNodes : \E k \in DOMAIN R[n] : \E i \in 1..k :
        /\ Chosen(R, n, k) /\ R[n][i].kind = "normal" /\ R[n][i].id = a.id
        /\ Normals(R[n], i) = a.lsn + 1
  BY DEF AnsweredAt
<1>2. PICK k \in DOMAIN R[n] : \E i \in 1..k :
        /\ Chosen(R, n, k) /\ R[n][i].kind = "normal" /\ R[n][i].id = a.id
        /\ Normals(R[n], i) = a.lsn + 1
  BY <1>1
<1>3. PICK i \in 1..k :
        /\ Chosen(R, n, k) /\ R[n][i].kind = "normal" /\ R[n][i].id = a.id
        /\ Normals(R[n], i) = a.lsn + 1
  BY <1>2
<1>4. k \in Nat /\ i \in Nat /\ i <= k /\ DOMAIN R2[n] = 1..Len(R2[n]) /\ Len(R2[n]) \in Nat /\ k >= 1
  BY LogTypes
<1>5. Chosen(R2, n, k) /\ Agree(R2[n], R[n], k)
  BY <1>3, <1>4 DEF Keeps
<1>6. k \in DOMAIN R2[n] /\ \A j \in 1..k : R2[n][j] = R[n][j]
  BY <1>4, <1>5 DEF Agree
<1>7. Normals(R2[n], i) = Normals(R[n], i)
  BY <1>4, <1>6, NormalsAgree
<1>8. R2[n][i] = R[n][i]
  BY <1>6
<1> QED BY <1>3, <1>5, <1>6, <1>7, <1>8 DEF AnsweredAt

\* Messages read, lost, given up, sent and answered.
LEMMA WireLess ==
  ASSUME NEW R, NEW l, NEW term, NEW rpc, NEW wire, NEW wire2, WireIs(R, l, term, rpc, wire), wire2 \subseteq wire
  PROVE  WireIs(R, l, term, rpc, wire2)
  BY DEF WireIs

LEMMA WireNext ==
  ASSUME NEW R, NEW l, NEW term, NEW rpc \in ClRequest, NEW rpc2 \in ClRequest, NEW wire, wire \subseteq ClMessage,
         WireIs(R, l, term, rpc, wire),
         rpc2.seq > rpc.seq \/ (rpc2.seq = rpc.seq /\ \A w \in wire : w.seq # rpc.seq)
  PROVE  WireIs(R, l, term, rpc2, wire)
<1>1. rpc.seq \in Nat /\ rpc2.seq \in Nat
  BY DEF ClRequest
<1>2. \A w \in wire : w.seq \in Nat /\ w.seq <= rpc.seq
  BY DEF ClMessage, WireIs
<1>3. \A w \in wire : w.seq <= rpc2.seq /\ w.seq # rpc2.seq
  BY <1>1, <1>2
<1> QED BY <1>3 DEF WireIs

LEMMA WireSent ==
  ASSUME NEW R, NEW l, NEW term, NEW rpc \in ClRequest, rpc.to = ClNobody, NEW rpc2 \in ClRequest,
         NEW wire, wire \subseteq ClMessage, WireIs(R, l, term, rpc, wire),
         NEW w \in ClMessage, w.way = "request", w.seq = rpc.seq, RequestIs(R, l, term, w),
         rpc2.seq = rpc.seq, rpc2.to = w.to, rpc2.upto = Len(w.raft)
  PROVE  WireIs(R, l, term, rpc2, wire \cup {w})
<1>1. \A v \in wire : v.to \in ClNodes
  BY DEF ClMessage
<1>2. \A v \in wire : v.seq # rpc.seq
  BY <1>1, ClAssumption DEF WireIs
<1>3. rpc.seq \in Nat
  BY DEF ClRequest
<1>4. \A u, v \in wire \cup {w} : u.seq = v.seq => u = v
  BY <1>2 DEF WireIs
<1>5. \A v \in wire : v.seq <= rpc2.seq /\ v.seq # rpc2.seq
  BY <1>2 DEF WireIs
<1>6. \A v \in wire : v.way = "request" => RequestIs(R, l, term, v)
  BY DEF WireIs
<1>7. w.seq <= rpc2.seq /\ w.seq = rpc2.seq /\ w.way # "answer"
  BY <1>3
<1> QED BY <1>4, <1>5, <1>6, <1>7 DEF WireIs

LEMMA WireAnswered ==
  ASSUME NEW R, NEW l, NEW term, NEW rpc \in ClRequest, NEW wire, WireIs(R, l, term, rpc, wire),
         NEW w \in wire, NEW v \in ClMessage, v.way = "answer", v.seq = w.seq, v.to = w.to,
         w.seq = rpc.seq => Agree(R[w.to], R[l], rpc.upto)
  PROVE  WireIs(R, l, term, rpc, (wire \ {w}) \cup {v})
<1>1. \A u \in wire \ {w} : u.seq # w.seq
  BY DEF WireIs
<1>2. \A x, y \in (wire \ {w}) \cup {v} : x.seq = y.seq => x = y
  BY <1>1 DEF WireIs
<1>3. v.seq <= rpc.seq /\ (v.seq = rpc.seq => v.to = rpc.to) /\ v.way # "request"
  BY DEF WireIs
<1>4. \A x \in wire \ {w} :
         /\ x.seq <= rpc.seq
         /\ x.seq = rpc.seq => x.to = rpc.to
         /\ x.way = "request" => RequestIs(R, l, term, x)
         /\ x.way = "request" /\ x.seq = rpc.seq => rpc.upto = Len(x.raft)
         /\ x.way = "answer" /\ x.seq = rpc.seq => Agree(R[x.to], R[l], rpc.upto)
  BY DEF WireIs
<1> QED BY <1>2, <1>3, <1>4 DEF WireIs

LEMMA KeepsSame ==
  ASSUME NEW R \in LogsOfNodes
  PROVE  Keeps(R, R)
<1>1. ASSUME NEW n \in ClNodes, NEW k \in Nat, Chosen(R, n, k) PROVE Agree(R[n], R[n], k)
  <2>1. R[n] \in Seq(ClEntry) /\ k <= Len(R[n])
    BY <1>1, LogTypes DEF Chosen
  <2> QED BY <2>1, AgreeFacts
<1> QED BY <1>1 DEF Keeps

-----------------------------------------------------------------------------
(* The inductive invariant.                                                *)

Rafts == [n \in ClNodes |-> clNode[n].raft]
ClCallRec == [pc : {"idle", "queued", "written"}, node : ClNodes \cup {ClNobody}, id : Nat, at : Nat]
ClTyped ==
    /\ clNode \in [ClNodes -> ClNodeRec]
    /\ clLeader \in ClNodes \cup {ClNobody} /\ clTerm \in Nat
    /\ clMatch \in [ClNodes -> Nat] /\ clRpc \in ClRequest /\ clWire \subseteq ClMessage
    /\ clCall \in [ClCallers -> ClCallRec]
    /\ clIds \in Nat /\ clAcked \subseteq [lsn : Nat, id : Nat]
ClLogs == Matching(Rafts) /\ Ordered(Rafts, clTerm)

LeaderIs(R, nodes, l, term, match, rpc, wire) ==
    IF l = ClNobody THEN wire = {}
    ELSE nodes[l].pc # "down" /\ Leads(R, l, term) /\ WireIs(R, l, term, rpc, wire) /\ Matched(R, l, match)
ClLeads == LeaderIs(Rafts, clNode, clLeader, clTerm, clMatch, clRpc, clWire)
ClNodesAre == \A n \in ClNodes : NodeIs(Rafts, n, clNode[n])
ClCallsAre == IdsUnique(Rafts, clIds) /\ CallsQueued(Rafts, clCall, clIds) /\ CallsWritten(clNode, clCall)
ClAnswers == \A a \in clAcked : AnsweredAt(Rafts, a)
ClInv == ClTyped /\ ClLogs /\ ClLeads /\ ClNodesAre /\ ClCallsAre /\ ClAnswers

LEMMA RaftsTyped ==
  ASSUME ClTyped
  PROVE  /\ Rafts \in LogsOfNodes /\ \A n \in ClNodes : Rafts[n] = clNode[n].raft /\ clNode[n] \in ClNodeRec
         /\ clLeader # ClNobody => clLeader \in ClNodes
<1>1. \A n \in ClNodes : clNode[n] \in ClNodeRec
  BY DEF ClTyped
<1>2. \A n \in ClNodes : clNode[n].raft \in Seq(ClEntry)
  BY <1>1 DEF ClNodeRec
<1> QED BY <1>1, <1>2 DEF Rafts, LogsOfNodes, ClTyped

LEMMA ClInitInv ==
  ASSUME ClInit
  PROVE  ClInv
<1> DEFINE node0 == [pc |-> "joined", raft |-> <<>>, log |-> <<>>, views |-> {}, commit |-> 0,
                     applied |-> 0, normals |-> 0, skip |-> 0, meta |-> [applied |-> 0, normals |-> 0]]
<1>1. node0 \in ClNodeRec
  BY DEF ClNodeRec
<1>2. clNode = [n \in ClNodes |-> node0]
  BY DEF ClInit
<1>3. /\ node0.raft = <<>> /\ node0.log = <<>> /\ node0.views = {} /\ node0.commit = 0
      /\ node0.applied = 0 /\ node0.normals = 0 /\ node0.skip = 0 /\ node0.meta.applied = 0
      /\ node0.meta.normals = 0 /\ node0.pc = "joined"
  OBVIOUS
<1> HIDE DEF node0
<1>4. ClTyped
  <2>1. IdleRpc(0) \in ClRequest
    BY DEF IdleRpc, ClRequest
  <2>2. IdleCall \in ClCallRec
    BY DEF IdleCall, ClCallRec
  <2> QED BY <1>1, <1>2, <2>1, <2>2 DEF ClInit, ClTyped
<1>5. Rafts = [n \in ClNodes |-> <<>>] /\ \A n \in ClNodes : Rafts[n] = <<>> /\ DOMAIN Rafts[n] = {}
  BY <1>2, <1>3 DEF Rafts
<1>6. ClLogs
  BY <1>5 DEF ClLogs, Matching, Ordered
<1>7. ClLeads
  BY DEF ClInit, ClLeads, LeaderIs
<1>8. ClNodesAre
  <2>1. Normals(node0.raft, 0) = 0
    BY NormalsStep
  <2>2. Len(node0.raft) = 0 /\ Len(node0.log) = 0 /\ DOMAIN node0.log = {}
    BY <1>3
  <2>3. Indexed(node0.log) = node0.views
    BY <1>3, <2>2 DEF Indexed
  <2>4. LogIs(node0, 0) /\ RunsTo(node0, 0)
    BY <1>3, <2>1, <2>2, <2>3 DEF LogIs, RunsTo
  <2>5. ASSUME NEW n \in ClNodes PROVE NodeIs(Rafts, n, node0)
    <3>1. Covered(Rafts, n, 0) /\ 0 \in 0..Len(node0.raft)
      BY <2>2 DEF Covered
    <3> QED BY <3>1, <2>4, <2>1, <1>3 DEF NodeIs
  <2> QED BY <2>5, <1>2 DEF ClNodesAre
<1>9. ClCallsAre
  <2>1. IdsUnique(Rafts, clIds)
    BY <1>5 DEF IdsUnique, UniqueIn
  <2>2. \A c \in ClCallers : clCall[c].pc = "idle"
    BY DEF ClInit, IdleCall
  <2> QED BY <2>1, <2>2 DEF ClCallsAre, CallsQueued, CallsWritten
<1>10. ClAnswers
  BY DEF ClInit, ClAnswers
<1> QED BY <1>4, <1>6, <1>7, <1>8, <1>9, <1>10 DEF ClInv

-----------------------------------------------------------------------------
(* The actions that leave the raft logs alone.                             *)

LEMMA Framed ==
  ASSUME ClInv, Rafts' = Rafts, clTerm' = clTerm
  PROVE  /\ ClLogs' /\ (clAcked' = clAcked => ClAnswers')
         /\ (clIds' = clIds => IdsUnique(Rafts', clIds'))
  BY DEF ClInv, ClLogs, ClAnswers, ClCallsAre

\* One node changes, and its raft log does not.
LEMMA OneNode ==
  ASSUME ClTyped, NEW n \in ClNodes, NEW node \in ClNodeRec, node.raft = clNode[n].raft,
         clNode' = [clNode EXCEPT ![n] = node]
  PROVE  /\ Rafts' = Rafts /\ clNode' \in [ClNodes -> ClNodeRec] /\ clNode'[n] = node
         /\ \A m \in ClNodes : m # n => clNode'[m] = clNode[m]
<1>1. clNode \in [ClNodes -> ClNodeRec]
  BY DEF ClTyped
<1>2. /\ clNode' \in [ClNodes -> ClNodeRec] /\ clNode'[n] = node
      /\ \A m \in ClNodes : m # n => clNode'[m] = clNode[m]
  BY <1>1
<1>3. \A m \in ClNodes : clNode'[m].raft = clNode[m].raft
  BY <1>2
<1>4. Rafts' = Rafts
  BY <1>3 DEF Rafts
<1> QED BY <1>2, <1>4

LEMMA SpawnedInv ==
  ASSUME ClInv, NEW n \in ClNodes, cluster_spawn(n)
  PROVE  ClInv'
<1> DEFINE old == clNode[n]
           node == [old EXCEPT !.pc = "joined", !.applied = old.meta.applied, !.normals = old.meta.normals,
                               !.skip = Len(old.log) - old.meta.normals, !.commit = old.meta.applied,
                               !.views = Indexed(old.log)]
<1>1. ClTyped /\ clNode \in [ClNodes -> ClNodeRec] /\ old \in ClNodeRec
  BY DEF ClInv, ClTyped
<1>2. /\ old.meta.applied \in Nat /\ old.meta.normals \in Nat /\ Len(old.log) \in Nat
      /\ old.log \in Seq([id : Nat, ts : Nat])
  BY <1>1, NodeTypes
<1>3. old.pc = "down" /\ Len(old.log) >= old.meta.normals
  BY DEF cluster_spawn
<1>4. Len(old.log) - old.meta.normals \in Nat /\ Indexed(old.log) \subseteq [lsn : Nat, id : Nat, ts : Nat]
  BY <1>2, <1>3, IndexedType
<1>5. node \in ClNodeRec
  BY <1>1, <1>2, <1>4 DEF ClNodeRec
<1>6. clNode' = [clNode EXCEPT ![n] = node]
  BY <1>1 DEF cluster_spawn
<1>7. /\ node.raft = old.raft /\ node.log = old.log /\ node.meta = old.meta /\ node.pc = "joined"
      /\ node.applied = old.meta.applied /\ node.normals = old.meta.normals
      /\ node.skip = Len(old.log) - old.meta.normals /\ node.commit = old.meta.applied
      /\ node.views = Indexed(old.log)
  BY <1>1 DEF ClNodeRec
<1> HIDE DEF node
<1>8. /\ Rafts' = Rafts /\ clNode' \in [ClNodes -> ClNodeRec] /\ clNode'[n] = node
      /\ \A m \in ClNodes : m # n => clNode'[m] = clNode[m]
  BY <1>1, <1>5, <1>6, <1>7, OneNode
<1>9. UNCHANGED <<clLeader, clTerm, clMatch, clRpc, clWire, clCall, clIds, clAcked>>
  BY DEF cluster_spawn
<1>10. ClTyped'
  BY <1>1, <1>8, <1>9 DEF ClTyped
<1>11. ClLogs' /\ ClAnswers' /\ IdsUnique(Rafts', clIds')
  BY <1>8, <1>9, Framed
<1>12. ClLeads'
  BY <1>3, <1>8, <1>9, <1>1 DEF ClInv, ClLeads, LeaderIs, ClTyped
<1>13. ClNodesAre'
  <2>1. Rafts \in LogsOfNodes /\ Rafts[n] = old.raft
    BY <1>1, RaftsTyped
  <2>2. NodeIs(Rafts, n, old)
    BY DEF ClInv, ClNodesAre
  <2>3. NodeIs(Rafts, n, node)
    BY <2>1, <2>2, <1>1, <1>5, <1>7, NodeSpawned
  <2> QED BY <2>3, <1>8 DEF ClInv, ClNodesAre
<1>14. ClCallsAre'
  <2>1. CallsQueued(Rafts', clCall', clIds')
    BY <1>8, <1>9 DEF ClInv, ClCallsAre
  <2>2. CallsWritten(clNode', clCall')
    BY <1>3, <1>8, <1>9 DEF ClInv, ClCallsAre, CallsWritten
  <2> QED BY <2>1, <2>2, <1>11 DEF ClCallsAre
<1> QED BY <1>10, <1>11, <1>12, <1>13, <1>14 DEF ClInv

\* A node that is gone: its calls are gone with it, and so is its leadership if
\* it led.
LEMMA GoneInv ==
  ASSUME ClInv, NEW n \in ClNodes, NEW node \in ClNodeRec, node.raft = clNode[n].raft, node.pc = "down",
         NodeIs(Rafts, n, node), clNode' = [clNode EXCEPT ![n] = node], Gone(n),
         UNCHANGED <<clTerm, clMatch, clIds, clAcked>>
  PROVE  ClInv'
<1>1. ClTyped
  BY DEF ClInv
<1>2. /\ Rafts' = Rafts /\ clNode' \in [ClNodes -> ClNodeRec] /\ clNode'[n] = node
      /\ \A m \in ClNodes : m # n => clNode'[m] = clNode[m]
  BY <1>1, OneNode
<1>3. IdleCall \in ClCallRec /\ \A s \in Nat : IdleRpc(s) \in ClRequest
  BY DEF IdleCall, ClCallRec, IdleRpc, ClRequest
<1>4. /\ clCall' \in [ClCallers -> ClCallRec]
      /\ \A c \in ClCallers : \/ clCall'[c] = clCall[c] /\ clCall[c].node # n
                              \/ clCall'[c].pc = "idle"
  BY <1>1, <1>3 DEF Gone, ClTyped, IdleCall
<1>5. clWire' \subseteq clWire /\ (clLeader = n => clWire' = {})
  BY DEF Gone
<1>6. ClTyped'
  <2>1. clRpc.seq \in Nat
    BY <1>1 DEF ClTyped, ClRequest
  <2>2. clRpc' \in ClRequest
    BY <1>1, <1>3, <2>1 DEF Gone, ClTyped
  <2>3. clLeader' \in ClNodes \cup {ClNobody}
    BY <1>1 DEF Gone, ClTyped
  <2> QED BY <1>1, <1>2, <1>4, <1>5, <2>2, <2>3 DEF ClTyped
<1>7. ClLogs' /\ ClAnswers' /\ IdsUnique(Rafts', clIds')
  BY <1>2, Framed
<1>8. ClLeads'
  <2>1. CASE clLeader = ClNobody
    <3>1. clLeader' = ClNobody /\ clWire = {}
      BY <2>1 DEF Gone, ClInv, ClLeads, LeaderIs
    <3> QED BY <3>1, <1>5 DEF ClLeads, LeaderIs
  <2>2. CASE clLeader = n
    <3>1. clLeader' = ClNobody
      BY <2>2 DEF Gone
    <3> QED BY <3>1, <2>2, <1>5 DEF ClLeads, LeaderIs
  <2>3. CASE clLeader # ClNobody /\ clLeader # n
    <3>1. clLeader' = clLeader /\ clRpc' = clRpc /\ clLeader \in ClNodes
      BY <2>3, <1>1 DEF Gone, ClTyped
    <3>2. WireIs(Rafts, clLeader, clTerm, clRpc, clWire)
      BY <2>3 DEF ClInv, ClLeads, LeaderIs
    <3>3. WireIs(Rafts, clLeader, clTerm, clRpc, clWire')
      BY <3>2, <1>5, WireLess
    <3> QED BY <3>1, <3>3, <2>3, <1>2 DEF ClInv, ClLeads, LeaderIs
  <2> QED BY <2>1, <2>2, <2>3
<1>9. ClNodesAre'
  BY <1>2 DEF ClInv, ClNodesAre
<1>10. ClCallsAre'
  <2>1. CallsQueued(Rafts', clCall', clIds')
    BY <1>2, <1>4 DEF ClInv, ClCallsAre, CallsQueued
  <2>2. CallsWritten(clNode', clCall')
    BY <1>2, <1>4 DEF ClInv, ClCallsAre, CallsWritten
  <2> QED BY <2>1, <2>2, <1>7 DEF ClCallsAre
<1> QED BY <1>6, <1>7, <1>8, <1>9, <1>10 DEF ClInv

LEMMA StoppedInv ==
  ASSUME ClInv, NEW n \in ClNodes, clNode' = [clNode EXCEPT ![n].pc = "down"], Gone(n),
         UNCHANGED <<clTerm, clMatch, clIds, clAcked>>
  PROVE  ClInv'
<1> DEFINE node == [clNode[n] EXCEPT !.pc = "down"]
<1>1. ClTyped /\ clNode \in [ClNodes -> ClNodeRec] /\ clNode[n] \in ClNodeRec
  BY DEF ClInv, ClTyped
<1>2. /\ node \in ClNodeRec /\ node.raft = clNode[n].raft /\ node.log = clNode[n].log
      /\ node.meta = clNode[n].meta /\ node.pc = "down"
  BY <1>1 DEF ClNodeRec
<1>3. clNode' = [clNode EXCEPT ![n] = node]
  BY <1>1
<1> HIDE DEF node
<1>4. Rafts \in LogsOfNodes /\ Rafts[n] = clNode[n].raft
  BY <1>1, RaftsTyped
<1>5. NodeIs(Rafts, n, clNode[n])
  BY DEF ClInv, ClNodesAre
<1>6. NodeIs(Rafts, n, node)
  BY <1>1, <1>2, <1>4, <1>5, KeepsSame, NodeKept
<1> QED BY <1>2, <1>3, <1>6, GoneInv

LEMMA ShutInv ==
  ASSUME ClInv, NEW n \in ClNodes, ClShutdown(n)
  PROVE  ClInv'
<1> DEFINE node == [clNode[n] EXCEPT !.pc = "closing"]
<1>1. ClTyped /\ clNode \in [ClNodes -> ClNodeRec] /\ clNode[n] \in ClNodeRec
  BY DEF ClInv, ClTyped
<1>2. clNode[n].pc = "joined"
  BY <1>1 DEF ClShutdown, Serving, ClNodeRec
<1>3. /\ node \in ClNodeRec /\ node.raft = clNode[n].raft /\ node.log = clNode[n].log
      /\ node.meta = clNode[n].meta /\ node.pc = "closing" /\ node.views = clNode[n].views
      /\ node.applied = clNode[n].applied /\ node.normals = clNode[n].normals
      /\ node.skip = clNode[n].skip /\ node.commit = clNode[n].commit
  BY <1>1 DEF ClNodeRec
<1>4. clNode' = [clNode EXCEPT ![n] = node]
  BY <1>1, <1>2 DEF ClShutdown
<1> HIDE DEF node
<1>5. /\ Rafts' = Rafts /\ clNode' \in [ClNodes -> ClNodeRec] /\ clNode'[n] = node
      /\ \A m \in ClNodes : m # n => clNode'[m] = clNode[m]
  BY <1>1, <1>3, <1>4, OneNode
<1>6. UNCHANGED <<clLeader, clTerm, clMatch, clRpc, clWire, clIds, clAcked>>
  BY DEF ClShutdown
<1>7. IdleCall \in ClCallRec
  BY DEF IdleCall, ClCallRec
<1>8. /\ clCall' \in [ClCallers -> ClCallRec]
      /\ \A c \in ClCallers : clCall'[c] = clCall[c] \/ clCall'[c].pc = "idle"
  BY <1>1, <1>7 DEF ClShutdown, ClTyped, IdleCall
<1>9. ClTyped'
  BY <1>1, <1>5, <1>6, <1>8 DEF ClTyped
<1>10. ClLogs' /\ ClAnswers' /\ IdsUnique(Rafts', clIds')
  BY <1>5, <1>6, Framed
<1>11. \A m \in ClNodes : clNode'[m].pc = "down" => clNode[m].pc = "down"
  BY <1>3, <1>5
<1>12. ClLeads'
  BY <1>1, <1>5, <1>6, <1>11 DEF ClInv, ClLeads, LeaderIs, ClTyped
<1>13. ClNodesAre'
  <2>1. Rafts \in LogsOfNodes /\ Rafts[n] = clNode[n].raft
    BY <1>1, RaftsTyped
  <2>2. NodeIs(Rafts, n, clNode[n])
    BY DEF ClInv, ClNodesAre
  <2>3. NodeIs(Rafts, n, node)
    BY <1>1, <1>2, <1>3, <2>1, <2>2, KeepsSame, NodeKept
  <2> QED BY <2>3, <1>5 DEF ClInv, ClNodesAre
<1>14. ClCallsAre'
  <2>1. CallsQueued(Rafts', clCall', clIds')
    BY <1>5, <1>6, <1>8 DEF ClInv, ClCallsAre, CallsQueued
  <2>2. \A m \in ClNodes : clNode'[m].applied = clNode[m].applied
    BY <1>3, <1>5
  <2>3. CallsWritten(clNode', clCall')
    BY <1>8, <1>11, <2>2 DEF ClInv, ClCallsAre, CallsWritten
  <2> QED BY <2>1, <2>3, <1>10 DEF ClCallsAre
<1> QED BY <1>9, <1>10, <1>12, <1>13, <1>14 DEF ClInv

LEMMA MaxOfTwo ==
  ASSUME NEW a \in Nat, NEW b \in Nat
  PROVE  Max({a, b}) \in {a, b} /\ Max({a, b}) \in Nat /\ Max({a, b}) >= a /\ Max({a, b}) >= b
<1>1. CASE a <= b
  <2>1. Max({a, b}) = b
    BY <1>1, MaxIs
  <2> QED BY <2>1, <1>1
<1>2. CASE b <= a
  <2>1. Max({a, b}) = a
    BY <1>2, MaxIs
  <2> QED BY <2>1, <1>2
<1> QED BY <1>1, <1>2

LEMMA NodesSame ==
  ASSUME ClInv, clNode' = clNode
  PROVE  Rafts' = Rafts /\ ClNodesAre'
  BY DEF ClInv, ClNodesAre, Rafts

LEMMA CalledInv ==
  ASSUME ClInv, NEW n \in ClNodes, call(n)
  PROVE  ClInv'
<1> DEFINE raft == clNode[clLeader].raft
           w == [way |-> "request", to |-> n, seq |-> clRpc.seq, raft |-> raft, commit |-> clNode[clLeader].commit]
<1>1. /\ clLeader # ClNobody /\ clRpc.to = ClNobody /\ clWire' = clWire \cup {w}
      /\ clRpc' = [clRpc EXCEPT !.to = n, !.upto = Len(raft)]
      /\ UNCHANGED <<clNode, clLeader, clTerm, clMatch, clCall, clIds, clAcked>>
  BY DEF call
<1>2. ClTyped /\ clLeader \in ClNodes /\ clNode[clLeader] \in ClNodeRec /\ clRpc \in ClRequest /\ clWire \subseteq ClMessage
  BY <1>1 DEF ClInv, ClTyped
<1>3. raft \in Seq(ClEntry) /\ Len(raft) \in Nat /\ clNode[clLeader].commit \in Nat
  BY <1>2, NodeTypes
<1>4. w \in ClMessage
  BY <1>2, <1>3 DEF ClMessage, ClRequest
<1>5. clRpc' \in ClRequest /\ clRpc'.seq = clRpc.seq /\ clRpc'.to = n /\ clRpc'.upto = Len(raft)
  BY <1>1, <1>2, <1>3 DEF ClRequest
<1>6. Rafts' = Rafts /\ ClNodesAre'
  BY <1>1, NodesSame
<1>7. ClTyped'
  BY <1>1, <1>2, <1>4, <1>5 DEF ClTyped
<1>8. ClLogs' /\ ClAnswers' /\ IdsUnique(Rafts', clIds')
  BY <1>1, <1>6, Framed
<1>9. ClCallsAre'
  BY <1>1, <1>6 DEF ClInv, ClCallsAre
<1>10. ClLeads'
  <2>1. /\ WireIs(Rafts, clLeader, clTerm, clRpc, clWire) /\ Leads(Rafts, clLeader, clTerm)
        /\ Matched(Rafts, clLeader, clMatch) /\ clNode[clLeader].pc # "down"
    BY <1>1 DEF ClInv, ClLeads, LeaderIs
  <2>2. Rafts[clLeader] = raft /\ Rafts \in LogsOfNodes
    BY <1>2, RaftsTyped
  <2>3. raft # <<>> /\ LastTerm(raft) = clTerm
    BY <2>1, <2>2 DEF Leads
  <2>4. Agree(raft, raft, Len(raft))
    BY <1>3, AgreeFacts
  <2>5. clNode[clLeader].commit = 0 \/ \E k \in clNode[clLeader].commit..Len(raft) : Chosen(Rafts, clLeader, k)
    <3>1. NodeIs(Rafts, clLeader, clNode[clLeader])
      BY <1>2 DEF ClInv, ClNodesAre
    <3>2. Covered(Rafts, clLeader, clNode[clLeader].commit)
      BY <3>1, <2>1 DEF NodeIs
    <3> QED BY <3>2, <2>2 DEF Covered
  <2>6. RequestIs(Rafts, clLeader, clTerm, w)
    BY <2>2, <2>3, <2>4, <2>5 DEF RequestIs
  <2>7. w.way = "request" /\ w.seq = clRpc.seq /\ w.to = n /\ w.raft = raft
    OBVIOUS
  <2> HIDE DEF w
  <2>8. WireIs(Rafts, clLeader, clTerm, clRpc', clWire')
    BY <1>1, <1>2, <1>4, <1>5, <2>1, <2>6, <2>7, WireSent
  <2> QED BY <1>1, <1>6, <2>1, <2>8 DEF ClLeads, LeaderIs
<1> QED BY <1>6, <1>7, <1>8, <1>9, <1>10 DEF ClInv

LEMMA CallFailedInv ==
  ASSUME ClInv, call_fails
  PROVE  ClInv'
<1>1. /\ clRpc' = IdleRpc(clRpc.seq + 1)
      /\ UNCHANGED <<clNode, clLeader, clTerm, clMatch, clWire, clCall, clIds, clAcked>>
  BY DEF call_fails
<1>2. ClTyped /\ clRpc \in ClRequest /\ clWire \subseteq ClMessage /\ clRpc.seq \in Nat
  BY DEF ClInv, ClTyped, ClRequest
<1>3. clRpc' \in ClRequest /\ clRpc'.seq > clRpc.seq
  BY <1>1, <1>2 DEF ClRequest, IdleRpc
<1>4. Rafts' = Rafts /\ ClNodesAre'
  BY <1>1, NodesSame
<1>5. ClTyped'
  BY <1>1, <1>2, <1>3 DEF ClTyped
<1>6. ClLogs' /\ ClAnswers' /\ ClCallsAre'
  BY <1>1, <1>4, Framed DEF ClInv, ClCallsAre
<1>7. ClLeads'
  <2>1. CASE clLeader = ClNobody
    BY <2>1, <1>1 DEF ClInv, ClLeads, LeaderIs
  <2>2. CASE clLeader # ClNobody
    <3>1. WireIs(Rafts, clLeader, clTerm, clRpc, clWire)
      BY <2>2 DEF ClInv, ClLeads, LeaderIs
    <3>2. WireIs(Rafts, clLeader, clTerm, clRpc', clWire)
      BY <1>2, <1>3, <3>1, WireNext
    <3> QED BY <1>1, <1>4, <2>2, <3>2 DEF ClInv, ClLeads, LeaderIs
  <2> QED BY <2>1, <2>2
<1> QED BY <1>4, <1>5, <1>6, <1>7 DEF ClInv

LEMMA CallReturnedInv ==
  ASSUME ClInv, call_returns
  PROVE  ClInv'
<1>1. PICK w \in clWire : Mine(w) /\ clWire' = clWire \ {w}
                          /\ clMatch' = [clMatch EXCEPT ![w.to] = Max({@, clRpc.upto})]
  BY DEF call_returns
<1>2. /\ clLeader # ClNobody /\ clRpc' = IdleRpc(clRpc.seq)
      /\ UNCHANGED <<clNode, clLeader, clTerm, clCall, clIds, clAcked>>
  BY DEF call_returns
<1>3. /\ ClTyped /\ clRpc \in ClRequest /\ clWire \subseteq ClMessage /\ clRpc.seq \in Nat /\ clRpc.upto \in Nat
      /\ clMatch \in [ClNodes -> Nat] /\ w.to \in ClNodes /\ clMatch[w.to] \in Nat
  BY DEF ClInv, ClTyped, ClRequest, ClMessage
<1>4. clRpc' \in ClRequest /\ clRpc'.seq = clRpc.seq
  BY <1>2, <1>3 DEF ClRequest, IdleRpc
<1>5. Max({clMatch[w.to], clRpc.upto}) \in {clMatch[w.to], clRpc.upto}
  BY <1>3, MaxOfTwo
<1>6. clMatch' \in [ClNodes -> Nat]
  BY <1>1, <1>3, <1>5
<1>7. Rafts' = Rafts /\ ClNodesAre'
  BY <1>2, NodesSame
<1>8. ClTyped'
  BY <1>1, <1>2, <1>3, <1>4, <1>6 DEF ClTyped
<1>9. ClLogs' /\ ClAnswers' /\ ClCallsAre'
  BY <1>2, <1>7, Framed DEF ClInv, ClCallsAre
<1>10. ClLeads'
  <2>1. /\ WireIs(Rafts, clLeader, clTerm, clRpc, clWire) /\ Leads(Rafts, clLeader, clTerm)
        /\ Matched(Rafts, clLeader, clMatch) /\ clNode[clLeader].pc # "down"
    BY <1>2 DEF ClInv, ClLeads, LeaderIs
  <2>2. WireIs(Rafts, clLeader, clTerm, clRpc, clWire')
    BY <1>1, <2>1, WireLess
  <2>3. \A v \in clWire' : v.seq # clRpc.seq
    BY <1>1, <2>1 DEF WireIs, Mine
  <2>4. clWire' \subseteq ClMessage
    BY <1>1, <1>3
  <2>5. WireIs(Rafts, clLeader, clTerm, clRpc', clWire')
    BY <1>3, <1>4, <2>2, <2>3, <2>4, WireNext
  <2>6. Agree(Rafts[w.to], Rafts[clLeader], clRpc.upto)
    BY <1>1, <2>1 DEF WireIs, Mine
  <2>7. Agree(Rafts[w.to], Rafts[clLeader], clMatch'[w.to])
    BY <1>1, <1>3, <1>5, <2>1, <2>6 DEF Matched
  <2>8. \A n \in ClNodes : n # w.to => clMatch'[n] = clMatch[n]
    BY <1>1, <1>3
  <2>9. Matched(Rafts, clLeader, clMatch')
    BY <2>1, <2>7, <2>8 DEF Matched
  <2> QED BY <1>2, <1>7, <2>1, <2>5, <2>9 DEF ClLeads, LeaderIs
<1> QED BY <1>7, <1>8, <1>9, <1>10 DEF ClInv

LEMMA QueuedInv ==
  ASSUME ClInv, NEW c \in ClCallers, NEW n \in ClNodes, append_internal(c, n)
  PROVE  ClInv'
<1>1. ClTyped /\ clNode[n] \in ClNodeRec /\ clIds \in Nat
  BY DEF ClInv, ClTyped
<1>2. clNode[n].pc = "joined"
  BY <1>1 DEF append_internal, Serving, ClNodeRec
<1> DEFINE rec == [IdleCall EXCEPT !.pc = "queued", !.node = n, !.id = clIds + 1]
<1>3. /\ clIds' = clIds + 1 /\ clCall' = [clCall EXCEPT ![c] = rec]
      /\ UNCHANGED <<clNode, clLeader, clTerm, clMatch, clRpc, clWire, clAcked>>
  BY <1>2 DEF append_internal
<1>4. rec \in ClCallRec /\ rec.pc = "queued" /\ rec.id = clIds + 1 /\ rec.node = n
  <2>1. clIds + 1 \in Nat
    BY <1>1
  <2>2. IdleCall \in ClCallRec
    BY DEF IdleCall, ClCallRec
  <2> QED BY <2>1, <2>2 DEF ClCallRec
<1> HIDE DEF rec
<1>5. /\ clCall' \in [ClCallers -> ClCallRec] /\ clCall'[c] = rec
      /\ \A d \in ClCallers : d # c => clCall'[d] = clCall[d]
  BY <1>1, <1>3, <1>4 DEF ClTyped
<1>6. Rafts' = Rafts /\ ClNodesAre' /\ Rafts \in LogsOfNodes
  BY <1>1, <1>3, NodesSame, RaftsTyped
<1>7. ClTyped'
  BY <1>1, <1>3, <1>5 DEF ClTyped
<1>8. ClLogs' /\ ClAnswers'
  BY <1>3, <1>6, Framed
<1>9. ClLeads'
  BY <1>3, <1>6 DEF ClInv, ClLeads
<1>10. ClCallsAre'
  <2>1. IdsUnique(Rafts, clIds + 1) /\ Fresh(Rafts, clIds + 1)
    BY <1>1, <1>6, IdsGrow DEF ClInv, ClCallsAre
  <2>2. CallsQueued(Rafts, clCall, clIds)
    BY DEF ClInv, ClCallsAre
  <2>3. \A x \in 1..clIds : x \in 1..(clIds + 1) /\ x # clIds + 1
    BY <1>1
  <2>4. clIds + 1 \in 1..(clIds + 1)
    BY <1>1
  <2>5. CallsQueued(Rafts, clCall', clIds + 1)
    <3>1. SUFFICES ASSUME NEW a \in ClCallers, clCall'[a].pc = "queued"
                   PROVE  /\ clCall'[a].node \in ClNodes /\ clCall'[a].id \in 1..(clIds + 1)
                          /\ Fresh(Rafts, clCall'[a].id)
                          /\ \A d \in ClCallers : clCall'[d].pc = "queued" /\ clCall'[d].id = clCall'[a].id => a = d
      BY DEF CallsQueued
    <3>2. CASE a = c
      BY <3>2, <2>1, <2>2, <2>3, <2>4, <1>4, <1>5 DEF CallsQueued
    <3>3. CASE a # c
      BY <3>1, <3>3, <2>2, <2>3, <1>4, <1>5 DEF CallsQueued
    <3> QED BY <3>2, <3>3
  <2>6. CallsWritten(clNode, clCall')
    BY <1>4, <1>5 DEF ClInv, ClCallsAre, CallsWritten
  <2> QED BY <1>3, <1>6, <2>1, <2>5, <2>6 DEF ClCallsAre
<1> QED BY <1>6, <1>7, <1>8, <1>9, <1>10 DEF ClInv

\* A call that is answered with an error.
LEMMA CallEndedInv ==
  ASSUME ClInv, NEW c \in ClCallers, clCall' = [clCall EXCEPT ![c] = IdleCall],
         UNCHANGED <<clNode, clLeader, clTerm, clMatch, clRpc, clWire, clIds, clAcked>>
  PROVE  ClInv'
<1>1. ClTyped /\ IdleCall \in ClCallRec /\ IdleCall.pc = "idle"
  BY DEF ClInv, IdleCall, ClCallRec
<1>2. /\ clCall' \in [ClCallers -> ClCallRec]
      /\ \A d \in ClCallers : clCall'[d] = clCall[d] \/ clCall'[d].pc = "idle"
  BY <1>1 DEF ClTyped
<1>3. Rafts' = Rafts /\ ClNodesAre'
  BY NodesSame
<1>4. ClTyped'
  BY <1>1, <1>2 DEF ClTyped
<1>5. ClLogs' /\ ClAnswers' /\ IdsUnique(Rafts', clIds')
  BY <1>3, Framed
<1>6. ClLeads'
  BY <1>3 DEF ClInv, ClLeads
<1>7. CallsQueued(Rafts, clCall', clIds)
  BY <1>2 DEF ClInv, ClCallsAre, CallsQueued
<1>8. CallsWritten(clNode, clCall')
  BY <1>2 DEF ClInv, ClCallsAre, CallsWritten
<1>9. ClCallsAre'
  BY <1>3, <1>5, <1>7, <1>8 DEF ClCallsAre
<1> QED BY <1>3, <1>4, <1>5, <1>6, <1>9 DEF ClInv

LEMMA CommittedInv ==
  ASSUME ClInv, ClCommit
  PROVE  ClInv'
<1> DEFINE l == clLeader
           old == clNode[l]
           held(k) == Majority({l} \cup {n \in ClNodes : clMatch[n] >= k})
           ks == {k \in DOMAIN old.raft : held(k) /\ old.raft[k].term = clTerm}
<1>1. /\ l # ClNobody /\ ks # {} /\ Max(ks) > old.commit /\ clNode' = [clNode EXCEPT ![l].commit = Max(ks)]
      /\ UNCHANGED <<clLeader, clTerm, clMatch, clRpc, clWire, clCall, clIds, clAcked>>
  BY DEF ClCommit
<1>2. /\ ClTyped /\ l \in ClNodes /\ old \in ClNodeRec /\ clTerm \in Nat /\ clNode \in [ClNodes -> ClNodeRec]
      /\ clMatch \in [ClNodes -> Nat]
  BY <1>1 DEF ClInv, ClTyped
<1>3. DOMAIN old.raft = 1..Len(old.raft) /\ Len(old.raft) \in Nat /\ old.commit \in Nat /\ old.raft \in Seq(ClEntry)
  BY <1>2, NodeTypes
<1>4. PICK x \in ks : \A y \in ks : y <= x
  <2>1. ks \subseteq Nat /\ ks \subseteq 1..Len(old.raft)
    BY <1>3
  <2>2. IsFiniteSet(1..Len(old.raft))
    BY <1>3, FS_Interval
  <2> HIDE DEF ks
  <2>3. IsFiniteSet(ks)
    BY <2>1, <2>2, FS_Subset
  <2> QED BY <1>1, <2>1, <2>3, FiniteMax
<1>5. x \in 1..Len(old.raft) /\ x \in Nat /\ held(x) /\ old.raft[x].term = clTerm
  BY <1>3, <1>4
<1>6. Max(ks) = x
  <2>1. ks \subseteq Nat
    BY <1>3
  <2> HIDE DEF ks
  <2> QED BY <2>1, <1>4, MaxIs
<1> HIDE DEF ks
<1>7. Rafts \in LogsOfNodes /\ Rafts[l] = old.raft
  BY <1>2, RaftsTyped
<1>8. /\ Leads(Rafts, l, clTerm) /\ Matched(Rafts, l, clMatch) /\ WireIs(Rafts, l, clTerm, clRpc, clWire)
      /\ old.pc # "down"
  BY <1>1 DEF ClInv, ClLeads, LeaderIs
<1> DEFINE Q == {l} \cup {n \in ClNodes : clMatch[n] >= x}
<1>9. ASSUME NEW n \in Q PROVE Agree(Rafts[n], Rafts[l], x)
  <2>1. Rafts[l] \in Seq(ClEntry)
    BY <1>3, <1>7
  <2>2. CASE n = l
    BY <2>1, <2>2, <1>5, <1>7, AgreeFacts
  <2>3. CASE n # l
    <3>1. n \in ClNodes /\ clMatch[n] >= x /\ clMatch[n] \in Nat
      BY <2>3, <1>2
    <3>2. Agree(Rafts[n], Rafts[l], clMatch[n]) /\ Rafts[n] \in Seq(ClEntry)
      BY <3>1, <1>7, <1>8, LogTypes DEF Matched
    <3> QED BY <3>1, <3>2, <2>1, <1>5, AgreeFacts
  <2> QED BY <2>2, <2>3
<1>10. Q \subseteq ClNodes /\ Majority(Q)
  BY <1>2, <1>5
<1> HIDE DEF Q
<1>11. Matching(Rafts) /\ Ordered(Rafts, clTerm)
  BY DEF ClInv, ClLogs
<1>12. Chosen(Rafts, l, x)
  <2>1. x \in 1..Len(Rafts[l]) /\ Rafts[l][x].term = clTerm
    BY <1>5, <1>7
  <2> QED BY <1>2, <1>7, <1>8, <1>9, <1>10, <1>11, <2>1, CommittedIsChosen
<1>13. Covered(Rafts, l, x)
  BY <1>12, <1>5, <1>7 DEF Covered
<1> DEFINE node == [old EXCEPT !.commit = x]
<1>14. /\ node \in ClNodeRec /\ node.raft = old.raft /\ node.log = old.log
       /\ node.meta = old.meta /\ node.pc = old.pc /\ node.views = old.views
       /\ node.applied = old.applied /\ node.normals = old.normals
       /\ node.skip = old.skip /\ node.commit = x
  BY <1>2, <1>5 DEF ClNodeRec
<1>15. clNode' = [clNode EXCEPT ![l] = node]
  BY <1>1, <1>2, <1>6
<1> HIDE DEF node
<1>16. /\ Rafts' = Rafts /\ clNode' \in [ClNodes -> ClNodeRec] /\ clNode'[l] = node
       /\ \A m \in ClNodes : m # l => clNode'[m] = clNode[m]
  BY <1>2, <1>14, <1>15, OneNode
<1>17. ClTyped'
  BY <1>1, <1>2, <1>16 DEF ClTyped
<1>18. ClLogs' /\ ClAnswers' /\ IdsUnique(Rafts', clIds')
  BY <1>1, <1>16, Framed
<1>19. ClLeads'
  BY <1>1, <1>8, <1>14, <1>16 DEF ClLeads, LeaderIs
<1>20. ClNodesAre'
  <2>1. NodeIs(Rafts, l, old)
    BY <1>2 DEF ClInv, ClNodesAre
  <2>2. old.commit <= x
    BY <1>1, <1>3, <1>5, <1>6
  <2>3. NodeIs(Rafts, l, node)
    BY <1>2, <1>7, <1>8, <1>13, <1>14, <2>1, <2>2, KeepsSame, NodeKept
  <2> QED BY <2>3, <1>16 DEF ClInv, ClNodesAre
<1>21. ClCallsAre'
  <2>1. \A m \in ClNodes : clNode'[m].applied = clNode[m].applied /\ clNode'[m].pc = clNode[m].pc
    BY <1>14, <1>16
  <2>2. CallsWritten(clNode', clCall)
    BY <2>1 DEF ClInv, ClCallsAre, CallsWritten
  <2> QED BY <1>1, <1>16, <1>18, <2>2 DEF ClInv, ClCallsAre
<1> QED BY <1>17, <1>18, <1>19, <1>20, <1>21 DEF ClInv

-----------------------------------------------------------------------------
(* A node that applies.                                                    *)

\* An episode is answered with the place its entry has in the log.
LEMMA AnsweredOk ==
  ASSUME NEW R \in LogsOfNodes, NEW n \in ClNodes, NEW node \in ClNodeRec, NodeIs(R, n, node),
         node.raft = R[n], node.pc # "down", NEW ids, UniqueIn(R[n], ids),
         NEW at \in Nat, node.applied < at, at <= node.commit,
         NEW id \in Nat, id >= 1, R[n][at].id = id,
         NEW r, r = ApplyAll(node, SubSeq(node.raft, node.applied + 1, at)),
         NEW a, a = [lsn |-> r.normals - 1, id |-> id]
  PROVE  a \in [lsn : Nat, id : Nat] /\ AnsweredAt(R, a)
<1>1. node.applied \in Nat /\ node.commit \in Nat
  BY NodeTypes
<1>2. node.applied <= at /\ at >= 1
  BY <1>1
<1>3. r.normals = Normals(R[n], at)
  BY <1>2, NodeRan
<1>4. Covered(R, n, node.commit)
  BY DEF NodeIs
<1>5. PICK k \in node.commit..Len(R[n]) : Chosen(R, n, k)
  BY <1>1, <1>2, <1>4 DEF Covered
<1>6. k \in DOMAIN R[n] /\ at \in 1..k /\ at \in DOMAIN R[n]
  <2>1. DOMAIN R[n] = 1..Len(R[n]) /\ Len(R[n]) \in Nat
    BY LogTypes
  <2> QED BY <2>1, <1>1, <1>2, <1>5
<1>7. R[n][at].kind = "normal"
  BY <1>6 DEF UniqueIn
<1>8. 0 < Normals(R[n], at) /\ Normals(R[n], at) \in Nat
  <2>1. Normals(R[n], 0) = 0 /\ Normals(R[n], at) \in Nat
    BY NormalsStep
  <2>2. at \in Nat \ {0} /\ 0 < at
    BY <1>2
  <2> QED BY <2>1, <2>2, <1>7, NormalsOrder
<1>9. a.lsn = Normals(R[n], at) - 1 /\ a.id = id /\ a.lsn + 1 = Normals(R[n], at) /\ a.lsn \in Nat
  BY <1>3, <1>8
<1>10. a \in [lsn : Nat, id : Nat]
  BY <1>9
<1>11. AnsweredAt(R, a)
  BY <1>5, <1>6, <1>7, <1>9 DEF AnsweredAt
<1> QED BY <1>10, <1>11

LEMMA AppliedInv ==
  ASSUME ClInv, NEW n \in ClNodes, ClApply(n)
  PROVE  ClInv'
<1> DEFINE old == clNode[n]
           At(i) == ApplyAll(old, SubSeq(old.raft, old.applied + 1, i))
<1>1. /\ ClTyped /\ old \in ClNodeRec /\ clNode \in [ClNodes -> ClNodeRec]
      /\ clCall \in [ClCallers -> ClCallRec] /\ clAcked \subseteq [lsn : Nat, id : Nat]
  BY DEF ClInv, ClTyped
<1>2. old.applied \in Nat /\ old.commit \in Nat
  BY <1>1, NodeTypes
<1>3. old.pc # "down"
  BY <1>1 DEF ClApply, ClApplying
<1>4. UNCHANGED <<clTerm, clMatch, clIds>>
  BY DEF ClApply
<1>5. PICK upto \in (old.applied + 1)..old.commit :
        LET mine == {c \in ClCallers : clCall[c].pc = "written" /\ clCall[c].node = n /\ clCall[c].at <= upto}
            won == {c \in mine : old.raft[clCall[c].at].id = clCall[c].id}
        IN  \/ /\ upto = old.commit /\ clNode' = [clNode EXCEPT ![n] = ClPersisted(At(upto))]
               /\ clCall' = [c \in ClCallers |-> IF c \in mine THEN IdleCall ELSE clCall[c]]
               /\ clAcked' = clAcked \cup {[lsn |-> At(clCall[c].at).normals - 1, id |-> clCall[c].id] : c \in won}
               /\ UNCHANGED <<clLeader, clRpc, clWire, clCrashes>>
            \/ /\ clCrashes < ClMaxCrashes /\ clCrashes' = clCrashes + 1
               /\ clNode' = [clNode EXCEPT ![n] = [At(upto) EXCEPT !.pc = "down"]]
               /\ Gone(n) /\ UNCHANGED clAcked
  BY ZenonT(40) DEF ClApply, ApplyAll
<1> DEFINE mine == {c \in ClCallers : clCall[c].pc = "written" /\ clCall[c].node = n /\ clCall[c].at <= upto}
           won == {c \in mine : old.raft[clCall[c].at].id = clCall[c].id}
<1>6. upto \in Nat /\ old.applied <= upto /\ upto <= old.commit
  BY <1>2
<1>7. Rafts \in LogsOfNodes /\ Rafts[n] = old.raft /\ NodeIs(Rafts, n, old)
  BY <1>1, RaftsTyped DEF ClInv, ClNodesAre
<1> DEFINE r == At(upto)
<1>8. /\ r \in ClNodeRec /\ SameLog(r, old) /\ r.applied = upto /\ NodeIs(Rafts, n, r)
  BY <1>1, <1>3, <1>6, <1>7, NodeRan
<1>9. ASSUME clNode' = [clNode EXCEPT ![n] = [r EXCEPT !.pc = "down"]], Gone(n), UNCHANGED clAcked
      PROVE  ClInv'
  <2> DEFINE node == [r EXCEPT !.pc = "down"]
  <2> HIDE DEF r
  <2>1. node \in ClNodeRec /\ node.raft = r.raft /\ node.log = r.log /\ node.meta = r.meta /\ node.pc = "down"
    BY <1>8 DEF ClNodeRec
  <2>2. clNode' = [clNode EXCEPT ![n] = node]
    BY <1>9
  <2> HIDE DEF node
  <2>3. r.raft = Rafts[n]
    BY <1>7, <1>8 DEF SameLog
  <2>4. NodeIs(Rafts, n, node)
    BY <1>7, <1>8, <2>1, <2>3, KeepsSame, NodeKept
  <2>5. node.raft = old.raft
    BY <2>1, <2>3, <1>7
  <2> QED BY <1>4, <1>9, <2>1, <2>2, <2>4, <2>5, GoneInv
<1>10. ASSUME upto = old.commit, clNode' = [clNode EXCEPT ![n] = ClPersisted(r)],
              clCall' = [c \in ClCallers |-> IF c \in mine THEN IdleCall ELSE clCall[c]],
              clAcked' = clAcked \cup {[lsn |-> At(clCall[c].at).normals - 1, id |-> clCall[c].id] : c \in won},
              UNCHANGED <<clLeader, clRpc, clWire, clCrashes>>
       PROVE  ClInv'
  <2> DEFINE p == ClPersisted(r)
  <2> HIDE DEF r
  <2>1. r.pc # "down" /\ r.raft = old.raft
    BY <1>3, <1>8 DEF SameLog
  <2>2. p \in ClNodeRec /\ NodeIs(Rafts, n, p)
    BY <1>8, <2>1, NodePersisted
  <2>3. p.raft = old.raft /\ p.pc = old.pc /\ p.applied = upto
    BY <1>8, <2>1 DEF ClPersisted, SameLog, ClNodeRec
  <2> HIDE DEF p
  <2>4. clNode' = [clNode EXCEPT ![n] = p]
    BY <1>10 DEF p
  <2>5. /\ Rafts' = Rafts /\ clNode' \in [ClNodes -> ClNodeRec] /\ clNode'[n] = p
        /\ \A m \in ClNodes : m # n => clNode'[m] = clNode[m]
    BY <1>1, <2>2, <2>3, <2>4, OneNode
  <2>6. IdleCall \in ClCallRec /\ IdleCall.pc = "idle"
    BY DEF IdleCall, ClCallRec
  <2>7. /\ clCall' \in [ClCallers -> ClCallRec]
        /\ \A c \in ClCallers : \/ clCall'[c] = clCall[c] /\ c \notin mine
                                \/ clCall'[c].pc = "idle"
    BY <1>1, <1>10, <2>6
  <2>8. ASSUME NEW c \in won, NEW a, a = [lsn |-> At(clCall[c].at).normals - 1, id |-> clCall[c].id]
        PROVE  a \in [lsn : Nat, id : Nat] /\ AnsweredAt(Rafts, a)
    <3> DEFINE at == clCall[c].at
               id == clCall[c].id
    <3>1. c \in ClCallers /\ clCall[c].pc = "written" /\ clCall[c].node = n /\ at <= upto /\ old.raft[at].id = id
      OBVIOUS
    <3>2. at \in Nat /\ id \in Nat
      BY <1>1, <3>1 DEF ClCallRec
    <3>3. at > old.applied /\ id >= 1
      BY <3>1 DEF ClInv, ClCallsAre, CallsWritten
    <3>4. UniqueIn(Rafts[n], clIds)
      BY DEF ClInv, ClCallsAre, IdsUnique
    <3>5. At(at) = ApplyAll(old, SubSeq(old.raft, old.applied + 1, at))
      OBVIOUS
    <3>6. a = [lsn |-> At(at).normals - 1, id |-> id]
      BY <2>8
    <3> HIDE DEF At, at, id
    <3>7. old.applied < at /\ at <= old.commit /\ Rafts[n][at].id = id
      BY <1>2, <1>7, <1>10, <3>1, <3>2, <3>3
    <3> QED BY <1>1, <1>3, <1>7, <3>2, <3>3, <3>4, <3>5, <3>6, <3>7, AnsweredOk
  <2> HIDE DEF won, At
  <2>9. \A a \in clAcked' : a \in clAcked \/ \E c \in won : a = [lsn |-> At(clCall[c].at).normals - 1, id |-> clCall[c].id]
    BY <1>10
  <2>10. \A a \in clAcked' : a \in [lsn : Nat, id : Nat] /\ AnsweredAt(Rafts, a)
    BY <1>1, <2>8, <2>9 DEF ClInv, ClAnswers
  <2>11. ClTyped'
    BY <1>1, <1>4, <1>10, <2>5, <2>7, <2>10 DEF ClTyped
  <2>12. ClLogs' /\ IdsUnique(Rafts', clIds')
    BY <1>4, <2>5, Framed
  <2>13. ClAnswers'
    BY <2>5, <2>10 DEF ClAnswers
  <2>14. ClLeads'
    BY <1>1, <1>4, <1>10, <2>3, <2>5 DEF ClInv, ClLeads, LeaderIs, ClTyped
  <2>15. ClNodesAre'
    BY <2>2, <2>5 DEF ClInv, ClNodesAre
  <2>16. CallsQueued(Rafts', clCall', clIds')
    BY <1>4, <2>5, <2>7 DEF ClInv, ClCallsAre, CallsQueued
  <2>17. CallsWritten(clNode', clCall')
    <3>1. SUFFICES ASSUME NEW c \in ClCallers, clCall'[c].pc = "written"
                   PROVE  /\ clCall'[c].node \in ClNodes /\ clNode'[clCall'[c].node].pc # "down"
                          /\ clCall'[c].at > clNode'[clCall'[c].node].applied /\ clCall'[c].id >= 1
      BY DEF CallsWritten
    <3>2. clCall'[c] = clCall[c] /\ c \notin mine
      BY <3>1, <2>7
    <3>3. /\ clCall[c].node \in ClNodes /\ clNode[clCall[c].node].pc # "down"
          /\ clCall[c].at > clNode[clCall[c].node].applied /\ clCall[c].id >= 1
      BY <3>1, <3>2 DEF ClInv, ClCallsAre, CallsWritten
    <3>4. CASE clCall[c].node # n
      BY <3>2, <3>3, <3>4, <2>5
    <3>5. CASE clCall[c].node = n
      <4>1. ~(clCall[c].at <= upto) /\ clCall[c].at \in Nat
        BY <3>1, <3>2, <3>5, <1>1 DEF ClCallRec
      <4>2. clCall[c].at > p.applied
        BY <4>1, <2>3, <1>6
      <4> QED BY <3>2, <3>3, <3>5, <4>2, <1>3, <2>3, <2>5
    <3> QED BY <3>4, <3>5
  <2>18. ClCallsAre'
    BY <2>12, <2>16, <2>17 DEF ClCallsAre
  <2> QED BY <2>11, <2>12, <2>13, <2>14, <2>15, <2>18 DEF ClInv
<1> QED BY <1>5, <1>9, <1>10, ZenonT(40)

-----------------------------------------------------------------------------
(* The actions that change a raft log.                                     *)

\* The logs change and nothing chosen is taken back: the nodes, the
\* answers and the calls keep what is said of them.
LEMMA RaftMoved ==
  ASSUME ClInv, NEW n \in ClNodes, NEW node \in ClNodeRec, clNode' = [clNode EXCEPT ![n] = node],
         Keeps(Rafts, Rafts'), node.log = clNode[n].log, node.meta = clNode[n].meta,
         node.pc = clNode[n].pc, node.views = clNode[n].views, node.applied = clNode[n].applied,
         node.normals = clNode[n].normals, node.skip = clNode[n].skip,
         node.pc # "down" =>
            \/ node.commit = clNode[n].commit
            \/ Covered(Rafts', n, node.commit) /\ clNode[n].commit <= node.commit
  PROVE  /\ clNode' \in [ClNodes -> ClNodeRec] /\ clNode'[n] = node
         /\ \A m \in ClNodes : m # n => clNode'[m] = clNode[m]
         /\ \A m \in ClNodes : clNode'[m].pc = clNode[m].pc /\ clNode'[m].applied = clNode[m].applied
         /\ ClNodesAre' /\ (clAcked' = clAcked => ClAnswers')
<1>1. ClTyped /\ clNode \in [ClNodes -> ClNodeRec]
  BY DEF ClInv, ClTyped
<1>2. /\ clNode' \in [ClNodes -> ClNodeRec] /\ clNode'[n] = node
      /\ \A m \in ClNodes : m # n => clNode'[m] = clNode[m]
  BY <1>1
<1>3. /\ Rafts \in LogsOfNodes
      /\ \A m \in ClNodes : Rafts[m] = clNode[m].raft /\ clNode[m] \in ClNodeRec
  BY <1>1, RaftsTyped
<1>4. Rafts' \in LogsOfNodes /\ \A m \in ClNodes : Rafts'[m] = clNode'[m].raft
  <2>1. \A m \in ClNodes : clNode'[m].raft \in Seq(ClEntry)
    BY <1>2 DEF ClNodeRec
  <2> QED BY <2>1 DEF Rafts, LogsOfNodes
<1>5. ASSUME NEW m \in ClNodes PROVE NodeIs(Rafts', m, clNode'[m])
  <2>1. NodeIs(Rafts, m, clNode[m])
    BY DEF ClInv, ClNodesAre
  <2> DEFINE a == clNode[m]
             b == clNode'[m]
             R == Rafts
             R2 == Rafts'
  <2>2. a \in ClNodeRec /\ b \in ClNodeRec /\ a.raft = R[m] /\ b.raft = R2[m] /\ R \in LogsOfNodes /\ R2 \in LogsOfNodes
    BY <1>2, <1>3, <1>4
  <2>3. /\ b.log = a.log /\ b.meta = a.meta /\ b.pc = a.pc /\ b.views = a.views
        /\ b.applied = a.applied /\ b.normals = a.normals /\ b.skip = a.skip
        /\ b.pc # "down" => \/ b.commit = a.commit
                            \/ Covered(R2, m, b.commit) /\ a.commit <= b.commit
    BY <1>2
  <2>4. Keeps(R, R2) /\ NodeIs(R, m, a)
    BY <2>1
  <2> HIDE DEF a, b, R, R2
  <2>5. NodeIs(R2, m, b)
    BY <2>2, <2>3, <2>4, NodeKept
  <2> QED BY <2>5 DEF b, R2
<1>6. ClNodesAre'
  BY <1>5 DEF ClNodesAre
<1>7. clAcked' = clAcked => ClAnswers'
  <2>1. \A a : AnsweredAt(Rafts, a) => AnsweredAt(Rafts', a)
    BY <1>3, <1>4, AnsweredKept
  <2> QED BY <2>1 DEF ClInv, ClAnswers
<1>8. \A m \in ClNodes : clNode'[m].pc = clNode[m].pc /\ clNode'[m].applied = clNode[m].applied
  BY <1>2
<1> QED BY <1>2, <1>6, <1>7, <1>8

\* The raft log of one node changes.
LEMMA OneRaft ==
  ASSUME ClTyped, NEW n \in ClNodes, NEW node \in ClNodeRec, clNode' = [clNode EXCEPT ![n] = node]
  PROVE  Rafts' = [Rafts EXCEPT ![n] = node.raft] /\ SameBut(Rafts, Rafts', n) /\ Rafts'[n] = node.raft
<1>1. clNode \in [ClNodes -> ClNodeRec]
  BY DEF ClTyped
<1>2. \A m \in ClNodes : clNode'[m] = IF m = n THEN node ELSE clNode[m]
  BY <1>1
<1>3. Rafts' = [m \in ClNodes |-> clNode'[m].raft]
  BY DEF Rafts
<1>4. Rafts' = [m \in ClNodes |-> IF m = n THEN node.raft ELSE clNode[m].raft]
  BY <1>2, <1>3
<1> QED BY <1>4 DEF Rafts, SameBut

LEMMA ElectedInv ==
  ASSUME ClInv, NEW m \in ClNodes, ClElect(m)
  PROVE  ClInv'
<1> DEFINE old == clNode[m]
           e == Entry("blank", clTerm + 1, 0)
           node == [old EXCEPT !.raft = Append(old.raft, e)]
           Q == {q \in ClNodes : ClApplying(q) /\ UpToDate(m, q)}
<1>1. /\ old.pc = "joined" /\ Majority(Q) /\ clLeader' = m /\ clTerm' = clTerm + 1
      /\ clNode' = [clNode EXCEPT ![m].raft = Append(@, e)]
      /\ clMatch' = [n \in ClNodes |-> 0] /\ clRpc' = IdleRpc(clRpc.seq) /\ clWire' = {}
      /\ UNCHANGED <<clCall, clIds, clAcked>>
  BY DEF ClElect
<1>2. /\ ClTyped /\ clNode \in [ClNodes -> ClNodeRec] /\ old \in ClNodeRec /\ clTerm \in Nat /\ clTerm + 1 \in Nat
      /\ clRpc \in ClRequest /\ clIds \in Nat
  BY DEF ClInv, ClTyped
<1>3. e \in ClEntry /\ e.kind # "normal" /\ e.id = 0 /\ e.term = clTerm + 1
  BY <1>2 DEF ClEntry, Entry
<1> HIDE DEF e
<1>4. old.raft \in Seq(ClEntry) /\ Append(old.raft, e) \in Seq(ClEntry)
  BY <1>2, <1>3, NodeTypes, Appended
<1>5. /\ node \in ClNodeRec /\ node.raft = Append(old.raft, e) /\ node.log = old.log
      /\ node.meta = old.meta /\ node.pc = old.pc /\ node.views = old.views
      /\ node.applied = old.applied /\ node.normals = old.normals
      /\ node.skip = old.skip /\ node.commit = old.commit
  BY <1>2, <1>4 DEF ClNodeRec
<1>6. clNode' = [clNode EXCEPT ![m] = node]
  BY <1>1, <1>2
<1> HIDE DEF node
<1>7. Rafts \in LogsOfNodes /\ Rafts[m] = old.raft
  BY <1>2, RaftsTyped
<1>8. Rafts' = [Rafts EXCEPT ![m] = Append(Rafts[m], e)] /\ SameBut(Rafts, Rafts', m) /\ Rafts'[m] = Append(old.raft, e)
  BY <1>2, <1>5, <1>6, <1>7, OneRaft
<1>9. \A q \in Q : UpTo(Rafts, m, q)
  BY <1>2, RaftsTyped DEF UpTo, UpToDate
<1>10. Matching(Rafts) /\ Ordered(Rafts, clTerm) /\ Q \subseteq ClNodes
  BY DEF ClInv, ClLogs
<1> HIDE DEF Q
<1>11. /\ Rafts' \in LogsOfNodes /\ Matching(Rafts') /\ Ordered(Rafts', clTerm + 1)
       /\ Leads(Rafts', m, clTerm + 1) /\ Keeps(Rafts, Rafts')
  BY <1>1, <1>2, <1>3, <1>7, <1>8, <1>9, <1>10, RaftElected
<1>12. /\ clNode' \in [ClNodes -> ClNodeRec] /\ clNode'[m] = node
       /\ \A n \in ClNodes : clNode'[n].pc = clNode[n].pc /\ clNode'[n].applied = clNode[n].applied
       /\ ClNodesAre' /\ ClAnswers'
  BY <1>1, <1>5, <1>6, <1>11, RaftMoved
<1>13. clRpc' \in ClRequest
  BY <1>1, <1>2 DEF ClRequest, IdleRpc
<1>14. ClTyped'
  <2>1. clMatch' \in [ClNodes -> Nat]
    BY <1>1
  <2> QED BY <1>1, <1>2, <1>12, <1>13, <2>1 DEF ClTyped
<1>15. ClLogs'
  BY <1>1, <1>11 DEF ClLogs
<1>16. ClLeads'
  <2>1. WireIs(Rafts', m, clTerm', clRpc', clWire')
    BY <1>1 DEF WireIs
  <2>2. ASSUME NEW n \in ClNodes PROVE Agree(Rafts'[n], Rafts'[m], clMatch'[n])
    <3>1. clMatch'[n] = 0 /\ Len(Rafts'[n]) \in Nat /\ Len(Rafts'[m]) \in Nat
      BY <1>1, <1>11, LogTypes
    <3> QED BY <3>1 DEF Agree
  <2>3. Matched(Rafts', m, clMatch')
    BY <2>2 DEF Matched
  <2>4. clNode'[m].pc # "down" /\ Leads(Rafts', m, clTerm')
    BY <1>1, <1>11, <1>12
  <2> QED BY <1>1, <2>1, <2>3, <2>4, ClAssumption DEF ClLeads, LeaderIs
<1>17. ClCallsAre'
  <2>1. IdsUnique(Rafts, clIds) /\ CallsQueued(Rafts, clCall, clIds) /\ CallsWritten(clNode, clCall)
    BY DEF ClInv, ClCallsAre
  <2>2. UniqueIn(Rafts'[m], clIds)
    BY <2>1, <1>2, <1>3, <1>4, <1>7, <1>8, UniqueAppended DEF IdsUnique
  <2>3. IdsUnique(Rafts', clIds)
    BY <2>1, <2>2, <1>7, <1>8, <1>11, IdsChange
  <2>4. ASSUME NEW id \in 1..clIds, Fresh(Rafts, id) PROVE Fresh(Rafts', id)
    <3>1. FreshIn(old.raft, id) /\ e.id # id
      BY <2>4, <1>3, <1>7 DEF Fresh
    <3>2. FreshIn(Append(old.raft, e), id)
      BY <3>1, <1>3, <1>4, FreshAppended
    <3>3. FreshIn(Rafts'[m], id)
      BY <3>2, <1>8
    <3> QED BY <3>3, <2>4, <1>7, <1>8, <1>11, FreshChange
  <2>5. CallsQueued(Rafts', clCall, clIds)
    BY <2>1, <2>4 DEF CallsQueued
  <2>6. CallsWritten(clNode', clCall)
    BY <2>1, <1>12 DEF CallsWritten
  <2> QED BY <1>1, <2>3, <2>5, <2>6 DEF ClCallsAre
<1> QED BY <1>12, <1>14, <1>15, <1>16, <1>17 DEF ClInv

LEMMA InitializedInv ==
  ASSUME ClInv, initialize_cluster
  PROVE  ClInv'
<1> DEFINE old == clNode[ClSeed]
           e == Entry("member", 0, 0)
           node == [old EXCEPT !.raft = <<e>>]
<1>1. /\ old.raft = <<>> /\ clNode' = [clNode EXCEPT ![ClSeed].raft = <<e>>]
      /\ UNCHANGED <<clLeader, clTerm, clMatch, clRpc, clWire, clCall, clIds, clAcked>>
  BY DEF initialize_cluster
<1>2. /\ ClTyped /\ clNode \in [ClNodes -> ClNodeRec] /\ ClSeed \in ClNodes /\ old \in ClNodeRec /\ clTerm \in Nat
      /\ clRpc \in ClRequest /\ clIds \in Nat /\ clWire \subseteq ClMessage /\ clMatch \in [ClNodes -> Nat]
  BY ClAssumption DEF ClInv, ClTyped
<1>3. e \in ClEntry /\ e.kind # "normal" /\ e.id = 0
  BY DEF ClEntry, Entry
<1> DEFINE s == <<e>>
<1>4. s \in Seq(ClEntry) /\ DOMAIN s = {1} /\ s[1] = e
  BY <1>3
<1>5. /\ node \in ClNodeRec /\ node.raft = s /\ node.log = old.log
      /\ node.meta = old.meta /\ node.pc = old.pc /\ node.views = old.views
      /\ node.applied = old.applied /\ node.normals = old.normals
      /\ node.skip = old.skip /\ node.commit = old.commit
  BY <1>2, <1>4 DEF ClNodeRec
<1>6. clNode' = [clNode EXCEPT ![ClSeed] = node]
  BY <1>1, <1>2
<1> HIDE DEF node
<1>7. Rafts \in LogsOfNodes /\ Rafts[ClSeed] = <<>> /\ (clLeader # ClNobody => clLeader \in ClNodes)
  BY <1>1, <1>2, RaftsTyped
<1>8. Rafts' = [Rafts EXCEPT ![ClSeed] = s] /\ SameBut(Rafts, Rafts', ClSeed) /\ Rafts'[ClSeed] = s
  BY <1>2, <1>5, <1>6, OneRaft
<1>9. Matching(Rafts) /\ Ordered(Rafts, clTerm)
  BY DEF ClInv, ClLogs
<1>10. /\ Rafts' \in LogsOfNodes /\ Matching(Rafts') /\ Ordered(Rafts', clTerm) /\ Keeps(Rafts, Rafts')
       /\ \A l \in ClNodes : Leads(Rafts, l, clTerm) => l # ClSeed /\ Leads(Rafts', l, clTerm)
  <2>1. e = Entry("member", 0, 0) /\ Rafts' = [Rafts EXCEPT ![ClSeed] = <<e>>]
    BY <1>8
  <2> HIDE DEF s, e
  <2> QED BY <2>1, <1>2, <1>7, <1>9, RaftInitialized, ZenonT(40)
<1>11. UniqueIn(s, clIds) /\ \A id \in 1..clIds : FreshIn(s, id)
  <2>1. \A id \in 1..clIds : id # 0
    BY <1>2
  <2> HIDE DEF s, e
  <2> QED BY <1>3, <1>4, <2>1 DEF UniqueIn, FreshIn
<1> HIDE DEF s, e
<1>12. /\ clNode' \in [ClNodes -> ClNodeRec]
       /\ \A n \in ClNodes : clNode'[n].pc = clNode[n].pc /\ clNode'[n].applied = clNode[n].applied
       /\ ClNodesAre' /\ ClAnswers'
  BY <1>1, <1>2, <1>5, <1>6, <1>10, RaftMoved
<1>13. ClTyped'
  BY <1>1, <1>2, <1>12 DEF ClTyped
<1>14. ClLogs'
  BY <1>1, <1>10 DEF ClLogs
<1>15. ClLeads'
  <2>1. CASE clLeader = ClNobody
    BY <2>1, <1>1 DEF ClInv, ClLeads, LeaderIs
  <2>2. CASE clLeader # ClNobody
    <3>1. /\ clNode[clLeader].pc # "down" /\ Leads(Rafts, clLeader, clTerm) /\ clLeader \in ClNodes
          /\ WireIs(Rafts, clLeader, clTerm, clRpc, clWire) /\ Matched(Rafts, clLeader, clMatch)
      BY <2>2, <1>7 DEF ClInv, ClLeads, LeaderIs
    <3>2. clLeader # ClSeed /\ Leads(Rafts', clLeader, clTerm)
      BY <3>1, <1>10
    <3>3. LeaderKeeps(Rafts, Rafts', clLeader)
      BY <3>1, <3>2, <1>2, <1>7, <1>8, <1>10, LeaderKeepsInitialized
    <3>4. WireIs(Rafts', clLeader, clTerm, clRpc, clWire)
      BY <3>1, <3>3, <1>2, <1>7, <1>10, WireKept
    <3>5. Matched(Rafts', clLeader, clMatch)
      BY <3>1, <3>3, <1>2, <1>7, <1>10, MatchedKept
    <3>6. clNode'[clLeader].pc # "down"
      BY <3>1, <1>12
    <3> QED BY <3>2, <3>4, <3>5, <3>6, <2>2, <1>1 DEF ClLeads, LeaderIs
  <2> QED BY <2>1, <2>2
<1>16. ClCallsAre'
  <2>1. IdsUnique(Rafts, clIds) /\ CallsQueued(Rafts, clCall, clIds) /\ CallsWritten(clNode, clCall)
    BY DEF ClInv, ClCallsAre
  <2>2. IdsUnique(Rafts', clIds)
    <3>1. UniqueIn(Rafts'[ClSeed], clIds)
      BY <1>8, <1>11
    <3> QED BY <3>1, <2>1, <1>2, <1>7, <1>8, <1>10, IdsChange
  <2>3. ASSUME NEW id \in 1..clIds, Fresh(Rafts, id) PROVE Fresh(Rafts', id)
    <3>1. FreshIn(Rafts'[ClSeed], id)
      BY <1>8, <1>11
    <3> QED BY <3>1, <2>3, <1>2, <1>7, <1>8, <1>10, FreshChange
  <2>4. CallsQueued(Rafts', clCall, clIds)
    BY <2>1, <2>3 DEF CallsQueued
  <2>5. CallsWritten(clNode', clCall)
    BY <2>1, <1>12 DEF CallsWritten
  <2> QED BY <1>1, <2>2, <2>4, <2>5 DEF ClCallsAre
<1> QED BY <1>12, <1>13, <1>14, <1>15, <1>16 DEF ClInv

\* A write queued at the leader: its entry is the next of the leader's log.
LEMMA SubmittedInv ==
  ASSUME ClInv, NEW c \in ClCallers, submit_episode(c)
  PROVE  ClInv'
<1> DEFINE n == clCall[c].node
<1>1. /\ clCall[c].pc = "queued"
      /\ UNCHANGED <<clLeader, clTerm, clMatch, clRpc, clWire, clIds, clAcked>>
  BY DEF submit_episode
<1>2. CASE clLeader # n
  <2>1. clCall' = [clCall EXCEPT ![c] = IdleCall] /\ UNCHANGED clNode
    BY <1>2 DEF submit_episode
  <2> QED BY <1>1, <2>1, CallEndedInv
<1>3. CASE clLeader = n
  <2> DEFINE old == clNode[n]
             id == clCall[c].id
             e == Entry("normal", clTerm, id)
             node == [old EXCEPT !.raft = Append(old.raft, e)]
  <2>1. /\ clNode' = [clNode EXCEPT ![n].raft = Append(@, e)]
        /\ clCall' = [clCall EXCEPT ![c].pc = "written", ![c].at = Len(old.raft) + 1]
    BY <1>3 DEF submit_episode
  <2>2. /\ ClTyped /\ clNode \in [ClNodes -> ClNodeRec] /\ clTerm \in Nat
        /\ clRpc \in ClRequest /\ clIds \in Nat /\ clWire \subseteq ClMessage /\ clMatch \in [ClNodes -> Nat]
        /\ clCall \in [ClCallers -> ClCallRec]
    BY DEF ClInv, ClTyped
  <2>3. IdsUnique(Rafts, clIds) /\ CallsQueued(Rafts, clCall, clIds) /\ CallsWritten(clNode, clCall)
    BY DEF ClInv, ClCallsAre
  <2>4. n \in ClNodes /\ id \in 1..clIds /\ Fresh(Rafts, id) /\ id \in Nat /\ id >= 1
    BY <1>1, <2>2, <2>3 DEF CallsQueued
  <2>5. old \in ClNodeRec /\ n # ClNobody
    BY <2>2, <2>4, ClAssumption
  <2>6. e \in ClEntry /\ e.kind = "normal" /\ e.id = id /\ e.term = clTerm
    BY <2>2, <2>4 DEF ClEntry, Entry
  <2> HIDE DEF e
  <2>7. old.raft \in Seq(ClEntry) /\ Append(old.raft, e) \in Seq(ClEntry) /\ Len(old.raft) \in Nat
    BY <2>5, <2>6, NodeTypes, Appended
  <2>8. /\ node \in ClNodeRec /\ node.raft = Append(old.raft, e) /\ node.log = old.log
        /\ node.meta = old.meta /\ node.pc = old.pc /\ node.views = old.views
        /\ node.applied = old.applied /\ node.normals = old.normals
        /\ node.skip = old.skip /\ node.commit = old.commit
    BY <2>5, <2>7 DEF ClNodeRec
  <2>9. clNode' = [clNode EXCEPT ![n] = node]
    BY <2>1, <2>2
  <2> HIDE DEF node
  <2>10. Rafts \in LogsOfNodes /\ Rafts[n] = old.raft
    BY <2>2, <2>4, RaftsTyped
  <2>11. Rafts' = [Rafts EXCEPT ![n] = Append(Rafts[n], e)] /\ SameBut(Rafts, Rafts', n) /\ Rafts'[n] = Append(old.raft, e)
    BY <2>2, <2>4, <2>8, <2>9, <2>10, OneRaft, ZenonT(40)
  <2>12. Matching(Rafts) /\ Ordered(Rafts, clTerm)
    BY DEF ClInv, ClLogs
  <2>13. /\ clNode[n].pc # "down" /\ Leads(Rafts, n, clTerm)
         /\ WireIs(Rafts, n, clTerm, clRpc, clWire) /\ Matched(Rafts, n, clMatch)
    BY <1>3, <2>5 DEF ClInv, ClLeads, LeaderIs
  <2>14. /\ Rafts' \in LogsOfNodes /\ Matching(Rafts') /\ Ordered(Rafts', clTerm)
         /\ Leads(Rafts', n, clTerm) /\ Keeps(Rafts, Rafts')
    BY <2>2, <2>4, <2>6, <2>10, <2>11, <2>12, <2>13, RaftWritten, ZenonT(40)
  <2>15. /\ clNode' \in [ClNodes -> ClNodeRec]
         /\ \A m \in ClNodes : clNode'[m].pc = clNode[m].pc /\ clNode'[m].applied = clNode[m].applied
         /\ ClNodesAre' /\ ClAnswers'
    BY <1>1, <2>4, <2>8, <2>9, <2>14, RaftMoved, ZenonT(40)
  <2>16. /\ clCall' \in [ClCallers -> ClCallRec] /\ clCall'[c].pc = "written" /\ clCall'[c].id = id
         /\ clCall'[c].node = n /\ clCall'[c].at = Len(old.raft) + 1
         /\ \A d \in ClCallers : d # c => clCall'[d] = clCall[d]
    <3>1. Len(old.raft) + 1 \in Nat /\ clCall[c] \in ClCallRec
      BY <2>2, <2>7
    <3> DEFINE rec == [clCall[c] EXCEPT !.pc = "written", !.at = Len(old.raft) + 1]
    <3>2. /\ rec \in ClCallRec /\ rec.pc = "written" /\ rec.id = id /\ rec.node = n
          /\ rec.at = Len(old.raft) + 1
      BY <3>1 DEF ClCallRec
    <3>3. clCall' = [clCall EXCEPT ![c] = rec]
      BY <2>1, <2>2
    <3> HIDE DEF rec
    <3> QED BY <2>2, <3>2, <3>3
  <2>17. ClTyped'
    BY <1>1, <2>2, <2>15, <2>16 DEF ClTyped
  <2>18. ClLogs'
    BY <1>1, <2>14 DEF ClLogs
  <2>19. ClLeads'
    <3>1. LeaderKeeps(Rafts, Rafts', n)
      BY <2>4, <2>6, <2>10, <2>11, <2>14, LeaderKeepsWritten, ZenonT(40)
    <3>2. WireIs(Rafts', n, clTerm, clRpc, clWire)
      BY <3>1, <2>2, <2>4, <2>10, <2>13, <2>14, WireKept
    <3>3. Matched(Rafts', n, clMatch)
      BY <3>1, <2>2, <2>4, <2>10, <2>13, <2>14, MatchedKept
    <3>4. clNode'[n].pc # "down"
      BY <2>4, <2>13, <2>15
    <3> QED BY <3>2, <3>3, <3>4, <2>5, <2>14, <1>1, <1>3 DEF ClLeads, LeaderIs
  <2>20. ClCallsAre'
    <3>1. FreshIn(old.raft, id) /\ UniqueIn(old.raft, clIds)
      BY <2>3, <2>4, <2>10 DEF Fresh, IdsUnique
    <3>2. UniqueIn(Append(old.raft, e), clIds)
      BY <3>1, <2>2, <2>4, <2>6, <2>7, UniqueAppended
    <3>3. UniqueIn(Rafts'[n], clIds)
      BY <3>2, <2>11
    <3>4. IdsUnique(Rafts', clIds)
      BY <3>3, <2>3, <2>4, <2>10, <2>11, <2>14, IdsChange, ZenonT(40)
    <3>5. ASSUME NEW x \in 1..clIds, Fresh(Rafts, x), x # id PROVE Fresh(Rafts', x)
      <4>1. FreshIn(old.raft, x) /\ e.id # x
        BY <3>5, <2>4, <2>6, <2>10 DEF Fresh
      <4>2. FreshIn(Append(old.raft, e), x)
        BY <4>1, <2>6, <2>7, FreshAppended
      <4>3. FreshIn(Rafts'[n], x)
        BY <4>2, <2>11, ZenonT(40)
      <4> QED BY <4>3, <3>5, <2>4, <2>10, <2>11, <2>14, FreshChange, ZenonT(40)
    <3>6. \A d \in ClCallers : clCall'[d].pc = "queued" => clCall'[d] = clCall[d] /\ d # c /\ clCall[d].id # id
      BY <1>1, <2>3, <2>16 DEF CallsQueued
    <3>7. CallsQueued(Rafts', clCall', clIds)
      BY <3>5, <3>6, <2>3 DEF CallsQueued
    <3>8. CallsWritten(clNode', clCall')
      <4>1. old.applied < Len(old.raft) + 1
        <5>1. NodeIs(Rafts, n, old)
          BY <2>4 DEF ClInv, ClNodesAre
        <5>2. PICK h \in 0..Len(old.raft) : RunsTo(old, h)
          BY <5>1, <2>13 DEF NodeIs
        <5>3. old.applied <= h /\ old.applied \in Nat
          BY <5>2, <2>5, NodeTypes DEF RunsTo
        <5> QED BY <5>2, <5>3, <2>7
      <4>2. Len(old.raft) + 1 > old.applied
        BY <4>1, <2>5, <2>7, NodeTypes
      <4>3. \A d \in ClCallers : d # c => clCall'[d] = clCall[d]
        BY <2>16
      <4>4. /\ clCall'[c].node \in ClNodes /\ clNode'[clCall'[c].node].pc # "down"
            /\ clCall'[c].at > clNode'[clCall'[c].node].applied /\ clCall'[c].id >= 1
        BY <4>2, <2>4, <2>13, <2>15, <2>16
      <4> HIDE DEF n, old, id
      <4> QED BY <4>3, <4>4, <2>3, <2>15 DEF CallsWritten
    <3> QED BY <1>1, <3>4, <3>7, <3>8 DEF ClCallsAre
  <2> QED BY <2>15, <2>17, <2>18, <2>19, <2>20 DEF ClInv
<1> QED BY <1>2, <1>3

\* A node that takes a request of the leader: t is its log, and s is its log then.
Takes(w, t, s) == s = IF IsPrefix(w.raft, t) THEN t ELSE w.raft
LEMMA LogsServed ==
  ASSUME NEW R \in LogsOfNodes, NEW l \in ClNodes, NEW term \in Nat, Matching(R), Ordered(R, term),
         Leads(R, l, term), NEW w \in ClMessage, RequestIs(R, l, term, w), NEW n \in ClNodes,
         NEW s \in Seq(ClEntry), Takes(w, R[n], s),
         NEW R2 \in LogsOfNodes, SameBut(R, R2, n), R2[n] = s
  PROVE  /\ Matching(R2) /\ Ordered(R2, term) /\ Leads(R2, l, term) /\ Keeps(R, R2)
         /\ LeaderKeeps(R, R2, l)
         /\ Agree(R2[n], R2[l], Len(w.raft))
         /\ s = R[n] \/ Agree(s, R[l], Len(s))
<1>1. w.raft \in Seq(ClEntry) /\ R[n] \in Seq(ClEntry) /\ R[l] \in Seq(ClEntry) /\ Len(w.raft) \in Nat
  BY LogTypes, LenProperties DEF ClMessage
<1>2. w.raft # <<>> /\ LastTerm(w.raft) = term /\ Agree(w.raft, R[l], Len(w.raft))
  BY DEF RequestIs
<1>3. R2 = [R EXCEPT ![n] = s]
  BY DEF LogsOfNodes, SameBut
<1>4. CASE Agree(w.raft, R[n], Len(w.raft))
  <2>1. s = R[n]
    BY <1>1, <1>4, PrefixAgrees DEF Takes
  <2>2. R2 = R
    BY <2>1, <1>3 DEF LogsOfNodes
  <2>3. Keeps(R, R)
    BY KeepsSame
  <2>4. Agree(R[l], R[l], Len(R[l]))
    BY LogTypes, AgreeFacts
  <2>5. LeaderKeeps(R, R, l)
    BY <2>4 DEF LeaderKeeps
  <2>6. Agree(R[n], w.raft, Len(w.raft))
    BY <1>1, <1>4, AgreeFacts
  <2>7. Agree(R[n], R[l], Len(w.raft))
    BY <1>1, <1>2, <2>6, AgreeFacts
  <2> QED BY <1>1, <1>3, <2>1, <2>2, <2>3, <2>5, <2>7
<1>5. CASE ~Agree(w.raft, R[n], Len(w.raft))
  <2>1. s = w.raft
    BY <1>1, <1>5, PrefixAgrees DEF Takes
  <2> DEFINE x == w.raft
  <2>2. x \in Seq(ClEntry) /\ x # <<>> /\ LastTerm(x) = term /\ Agree(x, R[l], Len(x)) /\ ~Agree(x, R[n], Len(x))
        /\ R2 = [R EXCEPT ![n] = x]
    BY <1>1, <1>2, <1>3, <1>5, <2>1
  <2> HIDE DEF x
  <2>3. /\ R2 \in LogsOfNodes /\ Matching(R2) /\ Ordered(R2, term) /\ Leads(R2, l, term) /\ Keeps(R, R2)
        /\ n # l
        /\ \A k \in Nat : Agree(R[n], R[l], k) => Agree(x, R[l], k)
    BY <2>2, RaftServed
  <2>4. LeaderKeeps(R, R2, l)
    BY <2>2, <2>3, LeaderKeepsServed
  <2>5. R2[l] = R[l]
    BY <2>2, <2>3 DEF LogsOfNodes
  <2>6. x = w.raft
    BY DEF x
  <2>7. R2[n] = x /\ s = x
    BY <1>3, <2>1, <2>6
  <2> QED BY <2>2, <2>3, <2>4, <2>5, <2>6, <2>7
<1> QED BY <1>4, <1>5

\* What a request commits is chosen in the log that took it.
LEMMA CommitCovered ==
  ASSUME NEW R \in LogsOfNodes, NEW R2 \in LogsOfNodes, NEW l \in ClNodes, NEW n \in ClNodes, Keeps(R, R2),
         NEW term, NEW w \in ClMessage, RequestIs(R, l, term, w), Agree(R2[n], R2[l], Len(w.raft))
  PROVE  Covered(R2, n, w.commit)
<1>1. w.commit \in Nat /\ Len(w.raft) \in Nat /\ R2[n] \in Seq(ClEntry) /\ R2[l] \in Seq(ClEntry) /\ Len(R2[n]) \in Nat
  BY LogTypes, LenProperties DEF ClMessage
<1>2. CASE w.commit = 0
  BY <1>2 DEF Covered
<1>3. CASE w.commit # 0
  <2>1. PICK k \in w.commit..Len(w.raft) : Chosen(R, l, k)
    BY <1>3 DEF RequestIs
  <2>2. k \in Nat /\ k <= Len(w.raft)
    BY <2>1, <1>1
  <2>3. Chosen(R2, l, k)
    BY <2>1, <2>2 DEF Keeps
  <2>4. Agree(R2[n], R2[l], k)
    BY <1>1, <2>2, AgreeFacts
  <2>5. Chosen(R2, n, k) /\ k <= Len(R2[n])
    BY <2>2, <2>3, <2>4, ChosenMoves DEF Agree
  <2>6. k \in w.commit..Len(R2[n])
    BY <2>1, <2>5, <1>1
  <2> QED BY <2>5, <2>6 DEF Covered
<1> QED BY <1>2, <1>3

LEMMA ServedInv ==
  ASSUME ClInv, NEW n \in ClNodes, ClServe(n)
  PROVE  ClInv'
<1> DEFINE old == clNode[n]
           l == clLeader
<1>1. PICK w \in clWire :
        /\ w.way = "request" /\ w.to = n
        /\ clWire' = (clWire \ {w}) \cup {[w EXCEPT !.way = "answer", !.raft = <<>>, !.commit = 0]}
        /\ clNode' = [clNode EXCEPT ![n].raft = IF IsPrefix(w.raft, @) THEN @ ELSE w.raft,
                                    ![n].commit = Max({@, w.commit})]
  BY DEF ClServe
<1>2. old.pc = "joined" /\ UNCHANGED <<clLeader, clTerm, clMatch, clRpc, clCall, clIds, clAcked>>
  BY DEF ClServe
<1>3. /\ ClTyped /\ clNode \in [ClNodes -> ClNodeRec] /\ clTerm \in Nat /\ old \in ClNodeRec
      /\ clRpc \in ClRequest /\ clIds \in Nat /\ clWire \subseteq ClMessage /\ clMatch \in [ClNodes -> Nat]
      /\ w \in ClMessage /\ clRpc.upto \in Nat
  BY <1>1 DEF ClInv, ClTyped, ClRequest
<1>4. l # ClNobody /\ l \in ClNodes
  BY <1>1, <1>3 DEF ClInv, ClLeads, LeaderIs, ClTyped
<1>5. /\ clNode[l].pc # "down" /\ Leads(Rafts, l, clTerm)
      /\ WireIs(Rafts, l, clTerm, clRpc, clWire) /\ Matched(Rafts, l, clMatch)
  BY <1>4 DEF ClInv, ClLeads, LeaderIs
<1>6. RequestIs(Rafts, l, clTerm, w)
  BY <1>1, <1>5 DEF WireIs
<1> DEFINE s == IF IsPrefix(w.raft, old.raft) THEN old.raft ELSE w.raft
           k == Max({old.commit, w.commit})
           node == [old EXCEPT !.raft = s, !.commit = k]
<1>7. Rafts \in LogsOfNodes /\ Rafts[n] = old.raft
  BY <1>3, RaftsTyped
<1>8. Matching(Rafts) /\ Ordered(Rafts, clTerm)
  BY DEF ClInv, ClLogs
<1>9. s \in Seq(ClEntry) /\ Takes(w, Rafts[n], s)
  BY <1>3, <1>7, NodeTypes DEF ClMessage, Takes
<1>10. k \in {old.commit, w.commit} /\ k \in Nat /\ k >= old.commit /\ old.commit \in Nat
  <2>1. old.commit \in Nat /\ w.commit \in Nat
    BY <1>3, NodeTypes DEF ClMessage
  <2> QED BY <2>1, MaxOfTwo
<1>11. clNode' = [clNode EXCEPT ![n] = node]
  <2>1. clNode'[n] = node
    BY <1>1, <1>3
  <2>2. /\ clNode' \in [ClNodes -> {clNode'[m] : m \in ClNodes}]
        /\ \A m \in ClNodes : m # n => clNode'[m] = clNode[m]
    BY <1>1, <1>3
  <2> HIDE DEF node
  <2> QED BY <2>1, <2>2, <1>3
<1> HIDE DEF s, k
<1>12. /\ node \in ClNodeRec /\ node.raft = s /\ node.log = old.log
       /\ node.meta = old.meta /\ node.pc = old.pc /\ node.views = old.views
       /\ node.applied = old.applied /\ node.normals = old.normals
       /\ node.skip = old.skip /\ node.commit = k
  BY <1>3, <1>9, <1>10 DEF ClNodeRec
<1> HIDE DEF node
<1>13. Rafts' = [Rafts EXCEPT ![n] = s] /\ SameBut(Rafts, Rafts', n) /\ Rafts'[n] = s
  BY <1>3, <1>11, <1>12, OneRaft
<1>14. /\ Rafts' \in LogsOfNodes /\ Matching(Rafts') /\ Ordered(Rafts', clTerm) /\ Leads(Rafts', l, clTerm)
       /\ Keeps(Rafts, Rafts') /\ LeaderKeeps(Rafts, Rafts', l)
       /\ Agree(Rafts'[n], Rafts'[l], Len(w.raft))
       /\ s = Rafts[n] \/ Agree(s, Rafts[l], Len(s))
  <2>1. /\ Rafts \in LogsOfNodes /\ l \in ClNodes /\ clTerm \in Nat /\ Leads(Rafts, l, clTerm)
        /\ w \in ClMessage
    BY <1>3, <1>4, <1>5, <1>7
  <2>2. Takes(w, Rafts[n], s) /\ s \in Seq(ClEntry)
    BY <1>9
  <2>3. Rafts' \in LogsOfNodes /\ SameBut(Rafts, Rafts', n) /\ Rafts'[n] = s
    <3>1. Rafts' \in LogsOfNodes
      BY <2>1, <2>2, <1>13 DEF LogsOfNodes
    <3> QED BY <3>1, <1>13
  <2> HIDE DEF l, old
  <2>4. /\ Matching(Rafts') /\ Ordered(Rafts', clTerm) /\ Leads(Rafts', l, clTerm)
        /\ Keeps(Rafts, Rafts') /\ LeaderKeeps(Rafts, Rafts', l)
        /\ Agree(Rafts'[n], Rafts'[l], Len(w.raft))
        /\ s = Rafts[n] \/ Agree(s, Rafts[l], Len(s))
    BY <2>1, <2>2, <2>3, <1>6, <1>8, LogsServed
  <2> QED BY <2>3, <2>4
<1>15. k = old.commit \/ Covered(Rafts', n, k)
  <2>1. Covered(Rafts', n, w.commit)
    BY <1>3, <1>4, <1>6, <1>7, <1>14, CommitCovered
  <2> QED BY <2>1, <1>10
<1>16. /\ clNode' \in [ClNodes -> ClNodeRec]
       /\ \A m \in ClNodes : clNode'[m].pc = clNode[m].pc /\ clNode'[m].applied = clNode[m].applied
       /\ ClNodesAre' /\ ClAnswers'
  BY <1>2, <1>10, <1>11, <1>12, <1>14, <1>15, RaftMoved
<1> DEFINE v == [w EXCEPT !.way = "answer", !.raft = <<>>, !.commit = 0]
<1>17. v \in ClMessage /\ v.way = "answer" /\ v.seq = w.seq /\ v.to = w.to
  <2>1. <<>> \in Seq(ClEntry)
    OBVIOUS
  <2> QED BY <2>1, <1>3 DEF ClMessage
<1>18. clWire' = (clWire \ {w}) \cup {v}
  BY <1>1
<1> HIDE DEF v
<1>19. ClTyped'
  BY <1>2, <1>3, <1>16, <1>17, <1>18 DEF ClTyped
<1>20. ClLogs'
  BY <1>2, <1>14 DEF ClLogs
<1>21. ClLeads'
  <2>1. WireIs(Rafts', l, clTerm, clRpc, clWire)
    BY <1>3, <1>4, <1>5, <1>7, <1>14, WireKept
  <2>2. Matched(Rafts', l, clMatch)
    BY <1>3, <1>4, <1>5, <1>7, <1>14, MatchedKept
  <2>3. w.seq = clRpc.seq => clRpc.upto = Len(w.raft)
    BY <1>1, <1>5 DEF WireIs
  <2>4. w.seq = clRpc.seq => Agree(Rafts'[w.to], Rafts'[l], clRpc.upto)
    BY <2>3, <1>1, <1>14
  <2>5. WireIs(Rafts', l, clTerm, clRpc, clWire')
    BY <2>1, <2>4, <1>3, <1>17, <1>18, WireAnswered
  <2>6. clNode'[l].pc # "down"
    BY <1>4, <1>5, <1>16
  <2> QED BY <2>2, <2>5, <2>6, <1>2, <1>4, <1>14 DEF ClLeads, LeaderIs
<1>22. ClCallsAre'
  <2>1. IdsUnique(Rafts, clIds) /\ CallsQueued(Rafts, clCall, clIds) /\ CallsWritten(clNode, clCall)
    BY DEF ClInv, ClCallsAre
  <2>2. UniqueIn(s, clIds) /\ \A id : Fresh(Rafts, id) => FreshIn(s, id)
    <3>1. CASE s = Rafts[n]
      BY <3>1, <2>1 DEF IdsUnique, Fresh
    <3>2. CASE Agree(s, Rafts[l], Len(s))
      <4>1. UniqueIn(Rafts[l], clIds) /\ Rafts[l] \in Seq(ClEntry)
        BY <2>1, <1>4, <1>7, LogTypes DEF IdsUnique
      <4>2. UniqueIn(s, clIds) /\ \A id : FreshIn(Rafts[l], id) => FreshIn(s, id)
        BY <4>1, <3>2, <1>9, UniquePrefix
      <4> QED BY <4>2, <1>4 DEF Fresh
    <3> QED BY <3>1, <3>2, <1>14
  <2>3. IdsUnique(Rafts', clIds)
    <3>1. UniqueIn(Rafts'[n], clIds)
      BY <2>2, <1>13
    <3> QED BY <3>1, <2>1, <1>7, <1>13, <1>14, IdsChange
  <2>4. ASSUME NEW id, Fresh(Rafts, id) PROVE Fresh(Rafts', id)
    <3>1. FreshIn(Rafts'[n], id)
      BY <2>2, <2>4, <1>13
    <3> QED BY <3>1, <2>4, <1>7, <1>13, <1>14, FreshChange
  <2>5. CallsQueued(Rafts', clCall, clIds)
    BY <2>1, <2>4 DEF CallsQueued
  <2>6. CallsWritten(clNode', clCall)
    BY <2>1, <1>16 DEF CallsWritten
  <2> QED BY <1>2, <2>3, <2>5, <2>6 DEF ClCallsAre
<1> QED BY <1>16, <1>19, <1>20, <1>21, <1>22 DEF ClInv

-----------------------------------------------------------------------------
(* The invariant holds, and it says that the replicas are one log.         *)

LEMMA ClNextInv ==
  ASSUME ~ClSpawnFails, ClInv, [ClNext]_clVars
  PROVE  ClInv'
<1>1. CASE UNCHANGED clVars
  <2>1. Rafts' = Rafts /\ ClNodesAre'
    BY <1>1, NodesSame DEF clVars
  <2> QED BY <1>1, <2>1 DEF clVars, ClInv, ClTyped, ClLogs, ClLeads, ClCallsAre, ClAnswers
<1>2. ASSUME NEW n \in ClNodes, cluster_spawn(n) PROVE ClInv'
  BY <1>2, SpawnedInv
<1>3. ASSUME NEW n \in ClNodes, cluster_spawn_fails(n) PROVE ClInv'
  BY <1>3 DEF cluster_spawn_fails
<1>4. ASSUME NEW n \in ClNodes, ClShutdown(n) PROVE ClInv'
  BY <1>4, ShutInv
<1>5. ASSUME NEW n \in ClNodes, ClExit(n) PROVE ClInv'
  BY <1>5, StoppedInv DEF ClExit
<1>6. ASSUME NEW n \in ClNodes, ClCrash(n) PROVE ClInv'
  BY <1>6, StoppedInv DEF ClCrash
<1>7. ASSUME initialize_cluster PROVE ClInv'
  BY <1>7, InitializedInv
<1>8. ASSUME ClCommit PROVE ClInv'
  BY <1>8, CommittedInv
<1>9. ASSUME call_fails PROVE ClInv'
  BY <1>9, CallFailedInv
<1>10. ASSUME call_returns PROVE ClInv'
  BY <1>10, CallReturnedInv
<1>11. ASSUME NEW n \in ClNodes, ClElect(n) PROVE ClInv'
  BY <1>11, ElectedInv
<1>12. ASSUME NEW n \in ClNodes, call(n) PROVE ClInv'
  BY <1>12, CalledInv
<1>13. ASSUME NEW n \in ClNodes, ClServe(n) PROVE ClInv'
  BY <1>13, ServedInv
<1>14. ASSUME NEW n \in ClNodes, ClApply(n) PROVE ClInv'
  BY <1>14, AppliedInv
<1>15. ASSUME NEW c \in ClCallers, submit_episode(c) PROVE ClInv'
  BY <1>15, SubmittedInv
<1>16. ASSUME NEW c \in ClCallers, submit_fails(c) PROVE ClInv'
  BY <1>16, CallEndedInv DEF submit_fails
<1>17. ASSUME NEW c \in ClCallers, NEW n \in ClNodes, append_internal(c, n) PROVE ClInv'
  BY <1>17, QueuedInv
<1> QED BY <1>1, <1>2, <1>3, <1>4, <1>5, <1>6, <1>7, <1>8, <1>9, <1>10, <1>11, <1>12, <1>13, <1>14,
           <1>15, <1>16, <1>17 DEF ClNext

\* An entry of a log on disk is an episode of a chosen prefix of the raft log.
LEMMA LogEntry ==
  ASSUME NEW node \in ClNodeRec, NEW h, LogIs(node, h), NEW x \in DOMAIN node.log
  PROVE  \E i \in 1..h : /\ node.raft[i].kind = "normal" /\ Normals(node.raft, i) = x
                         /\ node.log[x] = [id |-> node.raft[i].id, ts |-> 0]
<1>1. DOMAIN node.log = 1..Len(node.log) /\ Len(node.raft) \in Nat
  BY NodeTypes
<1>2. h \in Nat /\ Len(node.log) = Normals(node.raft, h)
  BY <1>1 DEF LogIs
<1>3. x \in 1..Normals(node.raft, h)
  BY <1>1, <1>2
<1>4. PICK i \in 1..h : node.raft[i].kind = "normal" /\ Normals(node.raft, i) = x
  BY <1>2, <1>3, NormalsOnto
<1> QED BY <1>4 DEF LogIs

\* Two entries with as many episodes up to them are at the same place.
LEMMA NormalsOne ==
  ASSUME NEW s, NEW i \in Nat \ {0}, NEW j \in Nat \ {0}, s[i].kind = "normal", s[j].kind = "normal",
         Normals(s, i) = Normals(s, j)
  PROVE  i = j
<1>1. Normals(s, i) \in Nat
  BY NormalsStep
<1>2. CASE i < j
  <2>1. Normals(s, i) < Normals(s, j)
    BY <1>2, NormalsOrder
  <2> QED BY <1>1, <2>1
<1>3. CASE j < i
  <2>1. Normals(s, j) < Normals(s, i)
    BY <1>3, NormalsOrder
  <2> QED BY <1>1, <2>1
<1> QED BY <1>2, <1>3

\* What the chosen prefix of one log says of the log on disk of another.
LEMMA LogsMeet ==
  ASSUME NEW R \in LogsOfNodes, NEW n \in ClNodes, NEW node \in ClNodeRec, node.raft = R[n],
         NEW h, Covered(R, n, h), LogIs(node, h),
         NEW m \in ClNodes, NEW k \in Nat, Chosen(R, m, k), NEW i \in 1..k, R[m][i].kind = "normal",
         NEW x, x = Normals(R[m], i), x \in DOMAIN node.log
  PROVE  node.log[x] = [id |-> R[m][i].id, ts |-> 0]
<1>1. PICK j \in 1..h : /\ node.raft[j].kind = "normal" /\ Normals(node.raft, j) = x
                        /\ node.log[x] = [id |-> node.raft[j].id, ts |-> 0]
  BY LogEntry
<1>2. h \in Nat /\ Len(R[n]) \in Nat /\ Len(R[m]) \in Nat
  BY LogTypes DEF LogIs
<1>3. PICK q \in h..Len(R[n]) : Chosen(R, n, q)
  BY <1>1, <1>2 DEF Covered
<1>4. q \in Nat /\ j \in Nat /\ i \in Nat /\ j <= q /\ i <= k /\ j >= 1 /\ i >= 1
  BY <1>1, <1>2, <1>3
<1>5. \A y \in Nat : y <= q /\ y <= k => Agree(R[n], R[m], y)
  BY <1>3, ChosenAgree
<1>6. CASE i <= j
  <2>1. CASE j <= k
    <3>1. \A y \in 1..j : R[n][y] = R[m][y]
      BY <1>4, <1>5, <2>1 DEF Agree
    <3>2. Normals(R[n], j) = Normals(R[m], j) /\ R[m][j].kind = "normal"
      BY <1>1, <1>4, <3>1, NormalsAgree
    <3>3. i = j
      BY <1>1, <1>4, <3>2, NormalsOne
    <3> QED BY <1>1, <1>4, <3>1, <3>3
  <2>2. CASE ~(j <= k)
    <3>1. \A y \in 1..i : R[n][y] = R[m][y]
      <4>1. i <= q
        BY <1>4, <1>6
      <4> QED BY <1>4, <1>5, <4>1 DEF Agree
    <3>2. Normals(R[n], i) = Normals(R[m], i) /\ R[n][i].kind = "normal"
      BY <1>4, <3>1, NormalsAgree
    <3>3. i = j
      BY <1>1, <1>4, <3>2, NormalsOne
    <3> QED BY <2>2, <3>3, <1>4
  <2> QED BY <2>1, <2>2
<1>7. CASE ~(i <= j)
  <2>1. j <= k /\ j <= q
    BY <1>4, <1>7
  <2>2. \A y \in 1..j : R[n][y] = R[m][y]
    BY <1>4, <1>5, <2>1 DEF Agree
  <2>3. Normals(R[n], j) = Normals(R[m], j) /\ R[m][j].kind = "normal"
    BY <1>1, <1>4, <2>2, NormalsAgree
  <2>4. i = j
    BY <1>1, <1>4, <2>3, NormalsOne
  <2> QED BY <2>4, <1>4, <1>7
<1> QED BY <1>6, <1>7

LEMMA ClInvExact ==
  ASSUME ClInv
  PROVE  ReplicasExact
<1>1. ClTyped
  BY DEF ClInv
<1>2. Rafts \in LogsOfNodes /\ \A n \in ClNodes : Rafts[n] = clNode[n].raft /\ clNode[n] \in ClNodeRec
  BY <1>1, RaftsTyped
<1>3. ASSUME NEW n \in ClNodes
      PROVE  \E h \in 0..Len(clNode[n].raft) :
                /\ Covered(Rafts, n, h) /\ LogIs(clNode[n], h)
                /\ clNode[n].pc # "down" => RunsTo(clNode[n], h)
  <2>1. NodeIs(Rafts, n, clNode[n])
    BY DEF ClInv, ClNodesAre
  <2> QED BY <2>1 DEF NodeIs
<1>4. ASSUME NEW m \in ClNodes, NEW n \in ClNodes, NEW x \in DOMAIN clNode[m].log \cap DOMAIN clNode[n].log
      PROVE  clNode[m].log[x] = clNode[n].log[x]
  <2>1. PICK g \in 0..Len(clNode[m].raft) : Covered(Rafts, m, g) /\ LogIs(clNode[m], g)
    BY <1>3
  <2>2. PICK h \in 0..Len(clNode[n].raft) : Covered(Rafts, n, h) /\ LogIs(clNode[n], h)
    BY <1>3
  <2>3. PICK i \in 1..g : /\ clNode[m].raft[i].kind = "normal" /\ Normals(clNode[m].raft, i) = x
                          /\ clNode[m].log[x] = [id |-> clNode[m].raft[i].id, ts |-> 0]
    BY <2>1, <1>2, LogEntry
  <2>4. Len(Rafts[m]) \in Nat /\ g \in Nat
    BY <1>2, <2>1, LogTypes
  <2>5. PICK k \in g..Len(Rafts[m]) : Chosen(Rafts, m, k)
    BY <2>1, <2>3, <2>4 DEF Covered
  <2>6. k \in Nat /\ i \in 1..k /\ Rafts[m][i].kind = "normal" /\ x = Normals(Rafts[m], i) /\ x \in DOMAIN clNode[n].log
    BY <1>2, <1>4, <2>3, <2>4, <2>5
  <2>7. clNode[n].log[x] = [id |-> Rafts[m][i].id, ts |-> 0]
    BY <1>2, <2>2, <2>5, <2>6, LogsMeet
  <2> QED BY <1>2, <2>3, <2>7
<1>5. ASSUME NEW n \in ClNodes, NEW x \in DOMAIN clNode[n].log, NEW y \in DOMAIN clNode[n].log,
             clNode[n].log[x].id = clNode[n].log[y].id
      PROVE  x = y
  <2> DEFINE node == clNode[n]
  <2>1. PICK h \in 0..Len(node.raft) : Covered(Rafts, n, h) /\ LogIs(node, h)
    BY <1>3
  <2>2. PICK i \in 1..h : node.raft[i].kind = "normal" /\ Normals(node.raft, i) = x
                          /\ node.log[x] = [id |-> node.raft[i].id, ts |-> 0]
    BY <2>1, <1>2, LogEntry
  <2>3. PICK j \in 1..h : node.raft[j].kind = "normal" /\ Normals(node.raft, j) = y
                          /\ node.log[y] = [id |-> node.raft[j].id, ts |-> 0]
    BY <2>1, <1>2, LogEntry
  <2>4. node.raft[i].id = node.raft[j].id
    BY <1>5, <2>2, <2>3
  <2>5. i \in DOMAIN node.raft /\ j \in DOMAIN node.raft
    BY <1>2, <2>1, NodeTypes
  <2>6. UniqueIn(node.raft, clIds)
    BY <1>2 DEF ClInv, ClCallsAre, IdsUnique
  <2>7. i = j
    BY <2>2, <2>3, <2>4, <2>5, <2>6 DEF UniqueIn
  <2> QED BY <2>2, <2>3, <2>7
<1>6. ASSUME NEW a \in clAcked
      PROVE  /\ \A n \in ClNodes : Len(clNode[n].log) > a.lsn => clNode[n].log[a.lsn + 1].id = a.id
             /\ Majority({n \in ClNodes : \E i \in DOMAIN clNode[n].raft : clNode[n].raft[i].id = a.id})
  <2>1. AnsweredAt(Rafts, a)
    BY DEF ClInv, ClAnswers
  <2>2. PICK m \in ClNodes : \E k \in DOMAIN Rafts[m] : \E i \in 1..k :
          /\ Chosen(Rafts, m, k) /\ Rafts[m][i].kind = "normal" /\ Rafts[m][i].id = a.id
          /\ Normals(Rafts[m], i) = a.lsn + 1
    BY <2>1 DEF AnsweredAt
  <2>3. PICK k \in DOMAIN Rafts[m] : \E i \in 1..k :
          /\ Chosen(Rafts, m, k) /\ Rafts[m][i].kind = "normal" /\ Rafts[m][i].id = a.id
          /\ Normals(Rafts[m], i) = a.lsn + 1
    BY <2>2
  <2>4. PICK i \in 1..k :
          /\ Chosen(Rafts, m, k) /\ Rafts[m][i].kind = "normal" /\ Rafts[m][i].id = a.id
          /\ Normals(Rafts[m], i) = a.lsn + 1
    BY <2>3
  <2>5. k \in Nat /\ i \in Nat /\ a.lsn \in Nat
    BY <1>1, <1>2, LogTypes DEF ClTyped
  <2>6. ASSUME NEW n \in ClNodes, Len(clNode[n].log) > a.lsn
        PROVE  clNode[n].log[a.lsn + 1].id = a.id
    <3>1. PICK h \in 0..Len(clNode[n].raft) : Covered(Rafts, n, h) /\ LogIs(clNode[n], h)
      BY <1>3
    <3>2. a.lsn + 1 \in DOMAIN clNode[n].log
      BY <1>2, <2>5, <2>6, NodeTypes
    <3> DEFINE x == a.lsn + 1
    <3>3. x = Normals(Rafts[m], i) /\ x \in DOMAIN clNode[n].log
      BY <2>4, <3>2
    <3> HIDE DEF x
    <3>4. clNode[n].log[x] = [id |-> Rafts[m][i].id, ts |-> 0]
      BY <1>2, <2>4, <2>5, <3>1, <3>3, LogsMeet
    <3>5. clNode[n].log[x].id = a.id
      BY <2>4, <3>4
    <3> QED BY <3>5 DEF x
  <2>7. Majority({n \in ClNodes : \E j \in DOMAIN clNode[n].raft : clNode[n].raft[j].id = a.id})
    <3> DEFINE S == {n \in ClNodes : Agree(Rafts[n], Rafts[m], k)}
               T == {n \in ClNodes : \E j \in DOMAIN clNode[n].raft : clNode[n].raft[j].id = a.id}
    <3>1. Majority(S)
      BY <2>4 DEF Chosen
    <3>2. ASSUME NEW n \in S PROVE n \in T
      <4>1. i \in DOMAIN Rafts[n] /\ Rafts[n][i] = Rafts[m][i]
        BY <1>2, <2>5, LogTypes DEF Agree
      <4> QED BY <4>1, <1>2, <2>4
    <3>3. S \subseteq T /\ S \subseteq ClNodes /\ T \subseteq ClNodes
      BY <3>2
    <3> HIDE DEF S, T
    <3>4. Majority(T)
      BY <3>1, <3>3, MajoritiesMeet
    <3> QED BY <3>4 DEF T
  <2> QED BY <2>6, <2>7
<1>7. ASSUME NEW n \in ClNodes, clNode[n].pc # "down" PROVE clNode[n].views = Indexed(clNode[n].log)
  BY <1>3, <1>7 DEF RunsTo
<1> QED BY <1>4, <1>5, <1>6, <1>7 DEF ReplicasExact

(***************************************************************************)
(* When no node is left without its cluster (ClSpawnFails is FALSE), the   *)
(* logs of the nodes agree as far as any two go, none holds an episode     *)
(* twice, an episode answered Ok has the LSN of its answer wherever it is  *)
(* and is held by a majority, and the views of a node are those of its     *)
(* log: for any nodes, callers, elections, lost requests and crashes.      *)
(***************************************************************************)
THEOREM ReplicasAreOneLog ==
  ASSUME ~ClSpawnFails
  PROVE  ClSpec => []ReplicasExact
<1>1. ClInit => ClInv
  BY ClInitInv
<1>2. ClInv /\ [ClNext]_clVars => ClInv'
  BY ClNextInv
<1>3. ClInv => ReplicasExact
  BY ClInvExact
<1> QED BY <1>1, <1>2, <1>3, PTL DEF ClSpec
=============================================================================
