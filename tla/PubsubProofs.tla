----------------------------- MODULE PubsubProofs -----------------------------
(***************************************************************************)
(* The publishing of a pubsub into queues and databases, proved for every  *)
(* set of channels, messages, options and clock values, any databases, and *)
(* any number of publications and deaths of the process.                   *)
(***************************************************************************)
EXTENDS Pubsub, ReplayLemmas

-----------------------------------------------------------------------------
(***************************************************************************)
(* Sums.  SumBy(g, f, I): g gives the sum of f over each subset of I.      *)
(***************************************************************************)
SumBy(g, f, I) ==
  g = [s \in SUBSET I |->
         IF s = {} THEN 0
         ELSE LET x == CHOOSE x \in s : TRUE IN f[x] + g[s \ {x}]]

LEMMA SumUnique ==
  ASSUME NEW I, NEW I2, NEW f, NEW f2, NEW g, NEW g2, SumBy(g, f, I), SumBy(g2, f2, I2),
         NEW J, IsFiniteSet(J), J \subseteq I, J \subseteq I2, \A x \in J : f[x] = f2[x]
  PROVE  g[J] = g2[J]
<1> SUFFICES ASSUME g[J] # g2[J]
             PROVE  FALSE
  OBVIOUS
<1> DEFINE F == {s \in SUBSET J : g[s] # g2[s]}
<1>1. F # {} /\ \A s \in F : s \subseteq J
  OBVIOUS
<1>2. \A s : s \in F <=> s \in SUBSET J /\ g[s] # g2[s]
  BY Zenon
<1> HIDE DEF F
<1>3. PICK s \in F : Minimal(s, F)
  BY <1>1, MinimalSubset, Zenon
<1>4. s \in SUBSET I /\ s \in SUBSET I2
  BY <1>1
<1> DEFINE x == CHOOSE x \in s : TRUE
<1>5. g[s] = IF s = {} THEN 0 ELSE f[x] + g[s \ {x}]
  BY <1>4, Zenon DEF SumBy
<1>6. g2[s] = IF s = {} THEN 0 ELSE f2[x] + g2[s \ {x}]
  BY <1>4, Zenon DEF SumBy
<1>7. s # {}
  BY <1>2, <1>5, <1>6, Zenon
<1>8. x \in s
  BY <1>7, Zenon
<1> HIDE DEF x
<1>9. s \ {x} \notin F
  <2>1. s \ {x} \subseteq s /\ s \ {x} # s
    BY <1>8
  <2> QED
    BY <1>3, <2>1, Zenon DEF Minimal
<1>10. g[s \ {x}] = g2[s \ {x}]
  <2>1. s \ {x} \in SUBSET J
    BY <1>1
  <2> QED
    BY <1>2, <1>9, <2>1, Zenon
<1>11. f[x] = f2[x]
  BY <1>1, <1>8
<1> QED
  BY <1>2, <1>5, <1>6, <1>7, <1>10, <1>11, Zenon

LEMMA SumExists ==
  ASSUME NEW f, NEW I, IsFiniteSet(I)
  PROVE  \E g : SumBy(g, f, I)
<1> SUFFICES ASSUME ~ \E g : SumBy(g, f, I)
             PROVE  FALSE
  OBVIOUS
<1> DEFINE F == {s \in SUBSET I : ~ \E g : SumBy(g, f, s)}
<1>1. F # {} /\ \A s \in F : s \subseteq I
  OBVIOUS
<1>2. \A s : s \in F <=> s \in SUBSET I /\ ~ \E g : SumBy(g, f, s)
  BY Zenon
<1> HIDE DEF F
<1>3. PICK s \in F : Minimal(s, F)
  BY <1>1, MinimalSubset, Zenon
<1> DEFINE G(u) == CHOOSE g : SumBy(g, f, u)
           V(u) == IF u = {} THEN 0
                   ELSE LET x == CHOOSE x \in u : TRUE IN f[x] + G(u \ {x})[u \ {x}]
           h == [u \in SUBSET s |-> V(u)]
<1>4. ASSUME NEW u \in SUBSET s, u # s
      PROVE  SumBy(G(u), f, u)
  <2>1. u \notin F
    BY <1>3, <1>4, Zenon DEF Minimal
  <2>2. \E g : SumBy(g, f, u)
    BY <1>1, <1>2, <1>4, <2>1
  <2> QED
    BY <2>2, Zenon
<1>5. ASSUME NEW u \in SUBSET s, u # s
      PROVE  G(u)[u] = V(u)
  <2> DEFINE x == CHOOSE x \in u : TRUE
             t == u \ {x}
  <2>1. SumBy(G(u), f, u)
    BY <1>4, <1>5, Zenon
  <2>2. G(u)[u] = IF u = {} THEN 0 ELSE f[x] + G(u)[t]
    <3> HIDE DEF G
    <3>1. u \in SUBSET u
      OBVIOUS
    <3> QED
      BY <2>1, <3>1, Zenon DEF SumBy
  <2>3. CASE u = {}
    BY <2>2, <2>3, Zenon
  <2>4. CASE u # {}
    <3>1. x \in u
      BY <2>4, Zenon
    <3> HIDE DEF x
    <3>2. t \in SUBSET s /\ t # s /\ t \subseteq u /\ t \subseteq t
      BY <1>5, <3>1
    <3>3. SumBy(G(t), f, t)
      BY <1>4, <3>2, Zenon
    <3>4. IsFiniteSet(t)
      BY <1>1, <3>2, FS_Subset
    <3> HIDE DEF G, t
    <3>5. G(u)[t] = G(t)[t]
      BY <2>1, <3>2, <3>3, <3>4, SumUnique
    <3> QED
      BY <2>2, <2>4, <3>5, Zenon DEF x, t
  <2> QED
    BY <2>3, <2>4
<1>6. ASSUME NEW u \in SUBSET s
      PROVE  h[u] = IF u = {} THEN 0 ELSE LET x == CHOOSE x \in u : TRUE IN f[x] + h[u \ {x}]
  <2> DEFINE x == CHOOSE x \in u : TRUE
  <2>1. h[u] = V(u)
    BY Zenon
  <2>2. CASE u = {}
    BY <2>1, <2>2, Zenon
  <2>3. CASE u # {}
    <3>1. x \in u
      BY <2>3, Zenon
    <3>2. V(u) = f[x] + G(u \ {x})[u \ {x}]
      BY <2>3, Zenon
    <3> HIDE DEF x, G
    <3>3. u \ {x} \in SUBSET s /\ u \ {x} # s
      BY <3>1
    <3>4. G(u \ {x})[u \ {x}] = V(u \ {x})
      BY <1>5, <3>3
    <3>5. h[u \ {x}] = V(u \ {x})
      BY <3>3, Zenon
    <3> HIDE DEF V, h
    <3>6. h[u] = f[x] + h[u \ {x}]
      BY <2>1, <3>2, <3>4, <3>5, Zenon
    <3> QED
      BY <2>3, <3>6, Zenon DEF x
  <2> QED
    BY <2>2, <2>3
<1>7. SumBy(h, f, s)
  <2> HIDE DEF V
  <2>1. DOMAIN h = SUBSET s /\ h = [u \in DOMAIN h |-> h[u]]
    BY Zenon
  <2> HIDE DEF h
  <2> QED
    BY <1>6, <2>1, Zenon DEF SumBy
<1> QED
  BY <1>2, <1>7, Zenon

LEMMA SumIsBy ==
  ASSUME NEW f, IsFiniteSet(DOMAIN f)
  PROVE  \E g : SumBy(g, f, DOMAIN f) /\ SumFunction(f) = g[DOMAIN f]
<1> DEFINE g == CHOOSE g : SumBy(g, f, DOMAIN f)
<1>1. SumBy(g, f, DOMAIN f)
  BY SumExists, Zenon
<1>2. SumFunction(f) = g[DOMAIN f]
  BY Zenon DEF SumFunction, SumFunctionOnSet, FoldFunctionOnSet, MapThenFoldSet, SumBy
<1> QED
  BY <1>1, <1>2, Zenon

LEMMA SumEmpty ==
  ASSUME NEW f, DOMAIN f = {}
  PROVE  SumFunction(f) = 0
<1>1. IsFiniteSet(DOMAIN f)
  BY FS_EmptySet
<1>2. PICK g : SumBy(g, f, DOMAIN f) /\ SumFunction(f) = g[DOMAIN f]
  BY <1>1, SumIsBy
<1>3. {} \in SUBSET (DOMAIN f)
  OBVIOUS
<1>4. g[{}] = 0
  BY <1>2, <1>3, Zenon DEF SumBy
<1> QED
  BY <1>2, <1>4

\* A sum is a number, and any element of the domain may be taken out of it first.
LEMMA SumTakesOut ==
  ASSUME NEW D, IsFiniteSet(D), NEW f \in [D -> Nat], NEW g, SumBy(g, f, D)
  PROVE  /\ \A s \in SUBSET D : g[s] \in Nat
         /\ \A s \in SUBSET D : \A c \in s : g[s] = f[c] + g[s \ {c}]
<1>1. \A s \in SUBSET D :
        g[s] = IF s = {} THEN 0 ELSE LET x == CHOOSE x \in s : TRUE IN f[x] + g[s \ {x}]
  BY Zenon DEF SumBy
<1>2. ASSUME NEW s \in SUBSET D
      PROVE  \/ s = {} /\ g[s] = 0
             \/ \E x \in s : g[s] = f[x] + g[s \ {x}]
  <2> DEFINE x == CHOOSE x \in s : TRUE
  <2>1. s # {} => x \in s
    BY Zenon
  <2>2. s # {} => g[s] = f[x] + g[s \ {x}]
    BY <1>1, Zenon
  <2>3. s = {} => g[s] = 0
    BY <1>1, Zenon
  <2> QED
    BY <2>1, <2>2, <2>3, Zenon
<1>3. \A s \in SUBSET D : g[s] \in Nat
  <2> SUFFICES ASSUME NEW bad \in SUBSET D, g[bad] \notin Nat
               PROVE  FALSE
    OBVIOUS
  <2> DEFINE F == {s \in SUBSET D : g[s] \notin Nat}
  <2>1. F # {} /\ \A s \in F : s \subseteq D
    OBVIOUS
  <2>2. \A s : s \in F <=> s \in SUBSET D /\ g[s] \notin Nat
    BY Zenon
  <2> HIDE DEF F
  <2>3. PICK s \in F : Minimal(s, F)
    BY <2>1, MinimalSubset, Zenon
  <2>4. PICK x \in s : g[s] = f[x] + g[s \ {x}]
    <3>1. s \in SUBSET D /\ g[s] # 0
      BY <2>2
    <3> QED
      BY <1>2, <3>1
  <2>5. s \ {x} \notin F /\ s \ {x} \in SUBSET D
    <3>1. s \ {x} \subseteq s /\ s \ {x} # s
      OBVIOUS
    <3> QED
      BY <2>1, <2>3, <3>1, Zenon DEF Minimal
  <2>6. g[s \ {x}] \in Nat /\ f[x] \in Nat
    BY <2>1, <2>2, <2>5
  <2> QED
    BY <2>2, <2>4, <2>6
<1>4. \A s \in SUBSET D : \A c \in s : g[s] = f[c] + g[s \ {c}]
  <2> SUFFICES ASSUME NEW bad \in SUBSET D, ~ \A c \in bad : g[bad] = f[c] + g[bad \ {c}]
               PROVE  FALSE
    OBVIOUS
  <2> DEFINE Good(s) == \A c \in s : g[s] = f[c] + g[s \ {c}]
             F == {s \in SUBSET D : ~ Good(s)}
  <2>1. F # {} /\ \A s \in F : s \subseteq D
    OBVIOUS
  <2>2. \A s : s \in F <=> s \in SUBSET D /\ ~ Good(s)
    BY Zenon
  <2> HIDE DEF F
  <2>3. PICK s \in F : Minimal(s, F)
    BY <2>1, MinimalSubset, Zenon
  <2>4. PICK c \in s : g[s] # f[c] + g[s \ {c}]
    BY <2>2
  <2>5. PICK x \in s : g[s] = f[x] + g[s \ {x}]
    BY <1>2, <2>1
  <2>6. x # c
    BY <2>4, <2>5
  <2> DEFINE rest == (s \ {x}) \ {c}
  <2>7. /\ s \ {x} \in SUBSET D /\ s \ {c} \in SUBSET D
        /\ s \ {x} \notin F /\ s \ {c} \notin F
        /\ c \in s \ {x} /\ x \in s \ {c}
        /\ (s \ {c}) \ {x} = rest
        /\ rest \in SUBSET D
    <3>1. /\ s \ {x} \subseteq s /\ s \ {x} # s
          /\ s \ {c} \subseteq s /\ s \ {c} # s
          /\ (s \ {c}) \ {x} = rest /\ rest \subseteq s
      OBVIOUS
    <3>2. s \ {x} \notin F /\ s \ {c} \notin F
      BY <2>3, <3>1, Zenon DEF Minimal
    <3> QED
      BY <2>1, <2>6, <3>1, <3>2
  <2> HIDE DEF rest
  <2>8. g[s \ {x}] = f[c] + g[rest]
    <3>1. Good(s \ {x})
      BY <2>2, <2>7, Zenon
    <3> QED
      BY <2>7, <3>1, Zenon DEF rest
  <2>9. g[s \ {c}] = f[x] + g[rest]
    <3>1. Good(s \ {c})
      BY <2>2, <2>7, Zenon
    <3>2. g[s \ {c}] = f[x] + g[(s \ {c}) \ {x}]
      BY <2>7, <3>1, Zenon
    <3> QED
      BY <2>7, <3>2, Zenon
  <2>10. f[x] \in Nat /\ f[c] \in Nat /\ g[rest] \in Nat
    BY <1>3, <2>1, <2>7
  <2> QED
    BY <2>4, <2>5, <2>8, <2>9, <2>10
<1> QED
  BY <1>3, <1>4

LEMMA SumSplit ==
  ASSUME NEW D, IsFiniteSet(D), NEW f \in [D -> Nat]
  PROVE  /\ SumFunction(f) \in Nat
         /\ \A c \in D : SumFunction(f) = f[c] + SumFunction([x \in D \ {c} |-> f[x]])
<1>1. DOMAIN f = D
  OBVIOUS
<1>2. PICK g : SumBy(g, f, D) /\ SumFunction(f) = g[D]
  BY <1>1, SumIsBy
<1>3. /\ \A s \in SUBSET D : g[s] \in Nat
      /\ \A s \in SUBSET D : \A c \in s : g[s] = f[c] + g[s \ {c}]
  BY <1>2, SumTakesOut
<1>4. ASSUME NEW c \in D
      PROVE  SumFunction([x \in D \ {c} |-> f[x]]) = g[D \ {c}]
  <2> DEFINE E == D \ {c}
             h == [x \in E |-> f[x]]
  <2>1. DOMAIN h = E /\ E \subseteq D /\ \A x \in E : h[x] = f[x]
    OBVIOUS
  <2>2. IsFiniteSet(E)
    BY <2>1, FS_Subset
  <2> HIDE DEF E, h
  <2>3. PICK g2 : SumBy(g2, h, E) /\ SumFunction(h) = g2[E]
    BY <2>1, <2>2, SumIsBy
  <2>4. g2[E] = g[E]
    BY <1>2, <2>1, <2>2, <2>3, SumUnique
  <2> QED
    BY <2>3, <2>4 DEF E, h
<1>5. D \in SUBSET D
  OBVIOUS
<1> QED
  BY <1>2, <1>3, <1>4, <1>5, Zenon

\* The sums of two functions that differ at c alone.
LEMMA SumChange ==
  ASSUME NEW D, IsFiniteSet(D), NEW f \in [D -> Nat], NEW h \in [D -> Nat], NEW c \in D,
         \A x \in D \ {c} : h[x] = f[x]
  PROVE  SumFunction(h) = SumFunction(f) - f[c] + h[c]
<1> DEFINE r == SumFunction([x \in D \ {c} |-> f[x]])
<1>1. [x \in D \ {c} |-> h[x]] = [x \in D \ {c} |-> f[x]]
  OBVIOUS
<1>2. SumFunction(f) = f[c] + r /\ SumFunction(f) \in Nat
  <2>1. /\ SumFunction(f) \in Nat
        /\ \A e \in D : SumFunction(f) = f[e] + SumFunction([x \in D \ {e} |-> f[x]])
    BY SumSplit
  <2> QED
    BY <2>1, Zenon
<1>3. SumFunction(h) = h[c] + r
  <2>1. \A e \in D : SumFunction(h) = h[e] + SumFunction([x \in D \ {e} |-> h[x]])
    BY SumSplit
  <2> QED
    BY <1>1, <2>1, Zenon
<1>4. r \in Nat
  <2> DEFINE E == D \ {c}
             k == [x \in E |-> f[x]]
  <2>1. IsFiniteSet(E) /\ k \in [E -> Nat]
    BY FS_Subset
  <2> HIDE DEF E, k
  <2>2. SumFunction(k) \in Nat
    BY <2>1, SumSplit
  <2> QED
    BY <2>2 DEF E, k
<1> HIDE DEF r
<1>5. f[c] \in Nat /\ h[c] \in Nat
  OBVIOUS
<1> QED
  BY <1>2, <1>3, <1>4, <1>5

LEMMA SumOfNone ==
  ASSUME NEW D, IsFiniteSet(D), NEW f \in [D -> Nat], \A x \in D : f[x] = 0
  PROVE  SumFunction(f) = 0
<1>1. DOMAIN f = D
  OBVIOUS
<1>2. PICK g : SumBy(g, f, D) /\ SumFunction(f) = g[D]
  BY <1>1, SumIsBy
<1>3. /\ \A s \in SUBSET D : g[s] \in Nat
      /\ \A s \in SUBSET D : \A c \in s : g[s] = f[c] + g[s \ {c}]
  BY <1>2, SumTakesOut
<1> DEFINE F == {s \in SUBSET D : g[s] # 0}
<1> SUFFICES ASSUME F # {}
             PROVE  FALSE
  BY <1>2
<1>4. \A s : s \in F <=> s \in SUBSET D /\ g[s] # 0
  BY Zenon
<1> HIDE DEF F
<1>5. PICK s \in F : Minimal(s, F)
  BY <1>4, MinimalSubset, Zenon
<1>6. s # {}
  <2>1. g[{}] = 0
    BY <1>2, Zenon DEF SumBy
  <2> QED
    BY <1>4, <2>1
<1>7. PICK c \in s : TRUE
  BY <1>6
<1>8. s \in SUBSET D /\ g[s] = f[c] + g[s \ {c}] /\ f[c] = 0
  BY <1>3, <1>4
<1>9. s \ {c} \notin F /\ s \ {c} \in SUBSET D
  <2>1. s \ {c} \subseteq s /\ s \ {c} # s
    OBVIOUS
  <2> QED
    BY <1>5, <1>8, <2>1, Zenon DEF Minimal
<1>10. g[s \ {c}] = 0
  BY <1>4, <1>9, Zenon
<1> QED
  BY <1>4, <1>8, <1>10

-----------------------------------------------------------------------------
\* No two messages of a list arrived together.
Distinct(s) == \A i, j \in DOMAIN s : s[i].arrival = s[j].arrival => i = j

Apart(A, B) == \A u \in A, v \in B : u.arrival # v.arrival

LEMMA DistinctJoined ==
  ASSUME NEW s \in Seq(Message), NEW ops \in Seq(Message), Distinct(s), Distinct(ops),
         Apart(ToSet(s), ToSet(ops))
  PROVE  Distinct(s \o ops)
<1> DEFINE w == s \o ops
           a == Len(s)
           b == Len(ops)
<1>1. /\ DOMAIN w = 1 .. a + b /\ DOMAIN s = 1 .. a /\ DOMAIN ops = 1 .. b
      /\ a \in Nat /\ b \in Nat
      /\ \A i \in 1 .. a : w[i] = s[i]
      /\ \A i \in 1 .. b : w[a + i] = ops[i]
  BY JoinedElements
<1> HIDE DEF w, a, b
<1>2. /\ \A i \in 1 .. a + b : i \in 1 .. a \/ (i - a \in 1 .. b /\ a + (i - a) = i)
      /\ \A i, j \in 1 .. a + b : i - a = j - a => i = j
  BY <1>1
<1>3. \A i \in 1 .. a, j \in 1 .. b : s[i].arrival # ops[j].arrival
  BY <1>1, Zenon DEF Apart, ToSet
<1>4. ASSUME NEW i \in 1 .. a + b, NEW j \in 1 .. a + b, w[i].arrival = w[j].arrival
      PROVE  i = j
  <2>1. \A k \in 1 .. a + b : (k \in 1 .. a /\ w[k] = s[k])
                              \/ (k - a \in 1 .. b /\ w[k] = ops[k - a])
    BY <1>1, <1>2, Zenon
  <2>2. CASE i \in 1 .. a /\ j \in 1 .. a
    BY <1>1, <1>4, <2>2, ZenonT(60) DEF Distinct
  <2>3. CASE i - a \in 1 .. b /\ j - a \in 1 .. b /\ w[i] = ops[i - a] /\ w[j] = ops[j - a]
    <3>1. i - a = j - a
      BY <1>1, <1>4, <2>3, ZenonT(60) DEF Distinct
    <3> QED
      BY <1>2, <3>1, Zenon
  <2>4. CASE i \in 1 .. a /\ j - a \in 1 .. b /\ w[i] = s[i] /\ w[j] = ops[j - a]
    BY <1>3, <1>4, <2>4, Zenon
  <2>5. CASE j \in 1 .. a /\ i - a \in 1 .. b /\ w[j] = s[j] /\ w[i] = ops[i - a]
    BY <1>3, <1>4, <2>5, Zenon
  <2> QED
    BY <2>1, <2>2, <2>3, <2>4, <2>5, Zenon
<1> QED
  BY <1>1, <1>4, Zenon DEF Distinct, w

LEMMA FlattenElements ==
  ASSUME NEW n \in Nat, NEW seqs \in Seq(Seq(Message)), Len(seqs) = n
  PROVE  /\ FlattenSeq(seqs) \in Seq(Message)
         /\ ToSet(FlattenSeq(seqs)) = UNION {ToSet(seqs[i]) : i \in 1 .. n}
         /\ (\A i \in 1 .. n : Distinct(seqs[i]))
              /\ (\A i, j \in 1 .. n : i # j => Apart(ToSet(seqs[i]), ToSet(seqs[j])))
            => Distinct(FlattenSeq(seqs))
<1> DEFINE Parts(k) == UNION {ToSet(seqs[i]) : i \in 1 .. k}
           Split == /\ \A i \in 1 .. n : Distinct(seqs[i])
                    /\ \A i, j \in 1 .. n : i # j => Apart(ToSet(seqs[i]), ToSet(seqs[j]))
           R == [k \in Nat |-> {s \in Seq(Message) : ToSet(s) = Parts(k) /\ (Split => Distinct(s))}]
<1>1. <<>> \in R[0]
  <2> DEFINE none == <<>>
  <2>1. none \in Seq(Message) /\ DOMAIN none = {}
    OBVIOUS
  <2>2. ToSet(none) = {} /\ Distinct(none) /\ Parts(0) = {}
    <3>1. 1 .. 0 = {}
      OBVIOUS
    <3> HIDE DEF none
    <3> QED
      BY <2>1, <3>1 DEF ToSet, Distinct
  <2> HIDE DEF none, Parts, Split
  <2>3. none \in R[0]
    BY <2>1, <2>2
  <2> QED
    BY <2>3 DEF none
<1>2. ASSUME NEW i \in 1 .. n, NEW s \in R[i - 1]
      PROVE  s \o seqs[i] \in R[i]
  <2>1. i \in Nat /\ i - 1 \in Nat /\ (\A j \in 1 .. i - 1 : j \in 1 .. n /\ j # i)
        /\ 1 .. i = (1 .. i - 1) \cup {i}
    BY SMTT(60)
  <2>2. seqs[i] \in Seq(Message)
    OBVIOUS
  <2>3. s \in Seq(Message) /\ ToSet(s) = Parts(i - 1) /\ (Split => Distinct(s))
    <3> HIDE DEF Parts, Split
    <3> QED
      BY <2>1
  <2>4. s \o seqs[i] \in Seq(Message) /\ ToSet(s \o seqs[i]) = ToSet(s) \cup ToSet(seqs[i])
    BY <2>2, <2>3, JoinedElements
  <2>5. Parts(i) = Parts(i - 1) \cup ToSet(seqs[i])
    BY <2>1
  <2>6. ASSUME Split
        PROVE  Distinct(s \o seqs[i])
    <3>1. Distinct(s) /\ Distinct(seqs[i])
      BY <2>3, <2>6
    <3>2. Apart(ToSet(s), ToSet(seqs[i]))
      <4> SUFFICES ASSUME NEW u \in Parts(i - 1), NEW v \in ToSet(seqs[i])
                   PROVE  u.arrival # v.arrival
        BY <2>3 DEF Apart
      <4>1. PICK j \in 1 .. i - 1 : u \in ToSet(seqs[j])
        OBVIOUS
      <4> QED
        BY <2>1, <2>6, <4>1, Zenon DEF Apart
    <3> QED
      BY <2>2, <2>3, <3>1, <3>2, DistinctJoined
  <2> HIDE DEF Parts, Split
  <2> QED
    BY <2>1, <2>3, <2>4, <2>5, <2>6
<1>3. \A s \in R[n] : ToSet(s) = Parts(n) /\ (Split => Distinct(s))
  <2> HIDE DEF Parts, Split
  <2> QED
    OBVIOUS
<1> HIDE DEF R
<1>4. FlattenSeq(seqs) \in R[n] /\ FlattenSeq(seqs) \in Seq(Message)
  BY <1>1, <1>2, FlattenInduction
<1> QED
  BY <1>3, <1>4

(***************************************************************************)
(* The databases one after another.                                        *)
(***************************************************************************)
LEMMA NthEnumerates ==
  ASSUME NEW I \in SUBSET Int, IsFiniteSet(I)
  PROVE  /\ Cardinality(I) \in Nat
         /\ \A k \in 1 .. Cardinality(I) : Nth(I, k) \in I
         /\ \A j, k \in 1 .. Cardinality(I) : Nth(I, j) = Nth(I, k) => j = k
         /\ \A i \in I : \E k \in 1 .. Cardinality(I) : Nth(I, k) = i
<1>1. Cardinality(I) \in Nat
  BY FS_CardinalityType
<1>2. ASSUME NEW k \in 1 .. Cardinality(I)
      PROVE  Nth(I, k) \in I /\ Rank(I, Nth(I, k)) = k
  <2>1. \E i \in I : Rank(I, i) = k
    BY RankTaken
  <2> QED
    BY <2>1, Zenon DEF Nth
<1>3. ASSUME NEW i \in I
      PROVE  \E k \in 1 .. Cardinality(I) : Nth(I, k) = i
  <2> DEFINE k == Rank(I, i)
             j == Nth(I, k)
  <2>1. k \in 1 .. Cardinality(I)
    BY RankType
  <2>2. j \in I /\ Rank(I, j) = k
    BY <1>2, <2>1
  <2> HIDE DEF j
  <2>3. ~ (i < j) /\ ~ (j < i)
    <3>1. k \in Int
      BY <1>1, <2>1
    <3>2. i < j => k < Rank(I, j)
      BY <2>2, RankGrows
    <3>3. j < i => Rank(I, j) < k
      BY <2>2, RankGrows
    <3> QED
      BY <2>2, <3>1, <3>2, <3>3
  <2>4. j = i
    BY <2>2, <2>3
  <2> QED
    BY <2>1, <2>4, Zenon DEF j
<1> QED
  BY <1>1, <1>2, <1>3, Zenon
-----------------------------------------------------------------------------
(***************************************************************************)
(* What always holds.  The log knows the publications by the number they   *)
(* arrived with.  What the databases hold under the name of a channel      *)
(* stands where publications to that channel stood, in turn, and no        *)
(* publication is in two databases; the same of the queues, which the      *)
(* publication in progress reaches later.                                  *)
(***************************************************************************)
EntryType ==
  [channel : Channels, msg : Message, persistent : BOOLEAN, fired : BOOLEAN,
   durable : BOOLEAN, cached : Nat]

KeyType == [value : Seq(Message), written : Nat, operands : Seq(Message)]

Content(key) == ToSet(key.value \o key.operands)

\* How many publications have reached the databases, and the queues.
Stored(at, l) == IF at = "store" THEN Len(l) - 1 ELSE Len(l)

Cached(at, l) == IF at \in {"store", "cache"} THEN Len(l) - 1 ELSE Len(l)

\* v stands for one of the first n publications, one to c.
Traces(v, c, n, l) ==
  /\ v.arrival \in 1 .. n
  /\ l[v.arrival].channel = c
  /\ v.cursor = l[v.arrival].msg.cursor

LogInv(l) ==
  /\ l \in Seq(EntryType)
  /\ Len(l) <= MaxPushes
  /\ \A i \in DOMAIN l : l[i].msg.arrival = i

KeySound(key, c, n, l) ==
  /\ key \in KeyType
  /\ InTurn(key.value \o key.operands)
  /\ \A v \in Content(key) : Traces(v, c, n, l)

DiskInv(d, n, l) ==
  /\ d \in [Lifetimes -> [Channels -> KeyType]]
  /\ \A t \in Lifetimes, c \in Channels : KeySound(d[t][c], c, n, l)
  /\ \A t, u \in Lifetimes, c \in Channels :
       t # u => Apart(Content(d[t][c]), Content(d[u][c]))

QueueSound(q, c, n, l) ==
  /\ SoundQueue(q)
  /\ \A v \in ToSet(q.msgs) : Traces(v, c, n, l)

MapInv(map, n, l) ==
  /\ DOMAIN map \subseteq Channels
  /\ IsFiniteSet(DOMAIN map)
  /\ \A c \in DOMAIN map : QueueSound(map[c], c, n, l)

Scalars ==
  /\ opt \in Options
  /\ open \subseteq Lifetimes
  /\ now \in Times
  /\ pc \in {"idle", "store", "cache", "fire"}
  /\ pc # "idle" => log # <<>>
  /\ placed \in Nat
  /\ reported \in Nat
  /\ epoch \in Nat

IndInv ==
  /\ Scalars
  /\ LogInv(log)
  /\ DiskInv(disk, Stored(pc, log), log)
  /\ MapInv(channels, Cached(pc, log), log)

LEMMA EntryFields ==
  ASSUME NEW l, LogInv(l)
  PROVE  /\ Len(l) \in Nat
         /\ DOMAIN l = 1 .. Len(l)
         /\ \A i \in 1 .. Len(l) : /\ l[i] \in EntryType
                                   /\ l[i].channel \in Channels
                                   /\ l[i].msg \in Message
                                   /\ l[i].msg.arrival = i
                                   /\ l[i].cached \in Nat
<1>1. l \in Seq(EntryType)
  BY DEF LogInv
<1>2. Len(l) \in Nat /\ DOMAIN l = 1 .. Len(l) /\ \A i \in 1 .. Len(l) : l[i] \in EntryType
  BY <1>1
<1>3. \A x \in EntryType : x.channel \in Channels /\ x.msg \in Message /\ x.cached \in Nat
  BY DEF EntryType
<1> QED
  BY <1>2, <1>3, Zenon DEF LogInv

LEMMA KeyFields ==
  \A key \in KeyType : /\ key.value \in Seq(Message)
                       /\ key.written \in Nat
                       /\ key.operands \in Seq(Message)
                       /\ key.value \o key.operands \in Seq(Message)
                       /\ Content(key) \subseteq Message
<1> SUFFICES ASSUME NEW key \in KeyType
             PROVE  /\ key.value \in Seq(Message)
                    /\ key.written \in Nat
                    /\ key.operands \in Seq(Message)
                    /\ key.value \o key.operands \in Seq(Message)
                    /\ Content(key) \subseteq Message
  BY Zenon
<1>1. key.value \in Seq(Message) /\ key.written \in Nat /\ key.operands \in Seq(Message)
  BY DEF KeyType
<1>2. key.value \o key.operands \in Seq(Message)
  BY <1>1
<1>3. Content(key) \subseteq Message
  <2> DEFINE w == key.value \o key.operands
  <2> HIDE DEF w
  <2>1. w \in Seq(Message)
    BY <1>2 DEF w
  <2>2. \A v \in ToSet(w) : v \in Message
    BY <2>1 DEF ToSet
  <2> QED
    BY <2>2 DEF Content, w
<1> QED
  BY <1>1, <1>2, <1>3

LEMMA FiniteLifetimes ==
  /\ IsFiniteSet(Lifetimes)
  /\ Lifetimes \subseteq Nat
  /\ \A n \in 0 .. Len(Ttls) : Opened(n) \subseteq Lifetimes
<1>1. Ttls \in Seq(Nat) /\ Len(Ttls) \in Nat /\ DOMAIN Ttls = 1 .. Len(Ttls)
  BY TtlsAssumption
<1>2. IsFiniteSet(1 .. Len(Ttls))
  BY <1>1, FS_Interval
<1>3. IsFiniteSet({Ttls[i] : i \in 1 .. Len(Ttls)})
  <2> DEFINE F == {Ttls[i] : i \in 1 .. Len(Ttls)}
             f == [i \in 1 .. Len(Ttls) |-> Ttls[i]]
  <2>1. f \in [1 .. Len(Ttls) -> F]
    OBVIOUS
  <2>2. \A y \in F : \E i \in 1 .. Len(Ttls) : f[i] = y
    OBVIOUS
  <2>3. f \in Surjection(1 .. Len(Ttls), F)
    BY <2>1, <2>2, Zenon DEF Surjection
  <2> HIDE DEF f, F
  <2>4. IsFiniteSet(F)
    BY <1>2, <2>3, FS_Surjection
  <2> QED
    BY <2>4 DEF F
<1>4. Lifetimes = {Ttls[i] : i \in 1 .. Len(Ttls)}
  BY <1>1 DEF Lifetimes, ToSet
<1>5. \A n \in 0 .. Len(Ttls) : Opened(n) \subseteq Lifetimes
  <2> SUFFICES ASSUME NEW n \in 0 .. Len(Ttls), NEW t \in Opened(n)
               PROVE  t \in Lifetimes
    BY Zenon
  <2> DEFINE s == SubSeq(Ttls, 1, n)
  <2>1. DOMAIN s = 1 .. n /\ \A i \in 1 .. n : s[i] = Ttls[i] /\ i \in 1 .. Len(Ttls)
    BY <1>1
  <2> HIDE DEF s
  <2>2. PICK i \in DOMAIN s : t = s[i]
    BY DEF Opened, ToSet, s
  <2> QED
    BY <1>4, <2>1, <2>2
<1> QED
  BY <1>1, <1>3, <1>4, <1>5

LEMMA InitIndInv == Init => IndInv
<1> SUFFICES ASSUME Init
             PROVE  IndInv
  OBVIOUS
<1> DEFINE none == <<>>
<1>1. none \in Seq(EntryType) /\ Len(none) = 0 /\ DOMAIN none = {} /\ 0 <= MaxPushes
  BY BoundsAssumption
<1>2. LogInv(log)
  BY <1>1 DEF Init, LogInv
<1>3. NoValue \in KeyType /\ Content(NoValue) = {} /\ InTurn(NoValue.value \o NoValue.operands)
  <2>1. NoValue.value \o NoValue.operands = none
    BY DEF NoValue
  <2>2. NoValue \in KeyType
    BY DEF NoValue, KeyType
  <2>3. ToSet(none) = {} /\ InTurn(none)
    BY DEF ToSet, InTurn
  <2> QED
    BY <2>1, <2>2, <2>3, Zenon DEF Content
<1>4. DiskInv(disk, Stored(pc, log), log)
  <2>1. \A t \in Lifetimes, c \in Channels : disk[t][c] = NoValue
    BY DEF Init
  <2>2. disk \in [Lifetimes -> [Channels -> KeyType]]
    BY <1>3 DEF Init
  <2> QED
    BY <1>3, <2>1, <2>2, Zenon DEF DiskInv, KeySound, Apart
<1>5. MapInv(channels, Cached(pc, log), log)
  <2>1. DOMAIN channels = {}
    BY DEF Init, NoChannels
  <2> QED
    BY <2>1, FS_EmptySet DEF MapInv
<1>6. Scalars
  BY FiniteLifetimes DEF Init, Scalars
<1> QED
  BY <1>2, <1>4, <1>5, <1>6 DEF IndInv
-----------------------------------------------------------------------------
(***************************************************************************)
(* The parts of the invariant while the log grows, and when a key or a     *)
(* queue changes.                                                          *)
(***************************************************************************)
SameOrigins(n, l, l2) == \A i \in 1 .. n : l2[i].channel = l[i].channel /\ l2[i].msg = l[i].msg

LEMMA TracesOn ==
  ASSUME NEW n \in Nat, NEW n2 \in Nat, n <= n2, NEW l, NEW l2, SameOrigins(n, l, l2)
  PROVE  \A v, c : Traces(v, c, n, l) => Traces(v, c, n2, l2)
<1> SUFFICES ASSUME NEW v, NEW c, Traces(v, c, n, l)
             PROVE  Traces(v, c, n2, l2)
  BY Zenon
<1>1. v.arrival \in 1 .. n /\ v.arrival \in 1 .. n2
  BY DEF Traces
<1> QED
  BY <1>1, Zenon DEF Traces, SameOrigins

LEMMA DiskOn ==
  ASSUME NEW n \in Nat, NEW n2 \in Nat, n <= n2, NEW l, NEW l2, SameOrigins(n, l, l2),
         NEW d, DiskInv(d, n, l)
  PROVE  DiskInv(d, n2, l2)
<1>1. \A v, c : Traces(v, c, n, l) => Traces(v, c, n2, l2)
  BY TracesOn
<1> QED
  BY <1>1, Zenon DEF DiskInv, KeySound

LEMMA MapOn ==
  ASSUME NEW n \in Nat, NEW n2 \in Nat, n <= n2, NEW l, NEW l2, SameOrigins(n, l, l2),
         NEW map, MapInv(map, n, l)
  PROVE  MapInv(map, n2, l2)
<1>1. \A v, c : Traces(v, c, n, l) => Traces(v, c, n2, l2)
  BY TracesOn
<1> QED
  BY <1>1, Zenon DEF MapInv, QueueSound

\* One key changed: each of its messages stands where one of it stood, or is new.
KeyStep(d, d2, t, c, n) ==
  /\ d2 \in [Lifetimes -> [Channels -> KeyType]]
  /\ \A u \in Lifetimes, e \in Channels : u # t \/ e # c => d2[u][e] = d[u][e]
  /\ \A v \in Content(d2[t][c]) :
       v.arrival \notin 1 .. n \/ \E w \in Content(d[t][c]) : w.arrival = v.arrival

LEMMA KeyChange ==
  ASSUME NEW n \in Nat, NEW n2 \in Nat, n <= n2, NEW l, NEW d, DiskInv(d, n, l),
         NEW t \in Lifetimes, NEW c \in Channels, NEW d2, KeyStep(d, d2, t, c, n),
         KeySound(d2[t][c], c, n2, l)
  PROVE  DiskInv(d2, n2, l)
<1>1. SameOrigins(n, l, l)
  BY DEF SameOrigins
<1>2. DiskInv(d, n2, l)
  BY <1>1, DiskOn
<1>3. \A u \in Lifetimes, e \in Channels : KeySound(d2[u][e], e, n2, l)
  BY <1>2, Zenon DEF DiskInv, KeyStep
<1>4. ASSUME NEW u \in Lifetimes, u # t
      PROVE  \A v \in Content(d2[t][c]), w \in Content(d2[u][c]) : v.arrival # w.arrival
  <2>1. d2[u][c] = d[u][c]
    BY <1>4, Zenon DEF KeyStep
  <2>2. \A w \in Content(d[u][c]) : w.arrival \in 1 .. n
    BY Zenon DEF DiskInv, KeySound, Traces
  <2>3. Apart(Content(d[t][c]), Content(d[u][c]))
    BY <1>4, Zenon DEF DiskInv
  <2> SUFFICES ASSUME NEW v \in Content(d2[t][c]), NEW w \in Content(d[u][c])
               PROVE  v.arrival # w.arrival
    BY <2>1, Zenon
  <2>4. v.arrival \notin 1 .. n \/ \E y \in Content(d[t][c]) : y.arrival = v.arrival
    BY Zenon DEF KeyStep
  <2> QED
    BY <2>2, <2>3, <2>4, Zenon DEF Apart
<1>5. ASSUME NEW u \in Lifetimes, NEW y \in Lifetimes, NEW e \in Channels, u # y
      PROVE  Apart(Content(d2[u][e]), Content(d2[y][e]))
  <2>1. CASE e = c /\ u = t
    BY <1>4, <1>5, <2>1, Zenon DEF Apart
  <2>2. CASE e = c /\ y = t
    BY <1>4, <1>5, <2>2, Zenon DEF Apart
  <2>3. CASE e # c \/ (u # t /\ y # t)
    <3>1. d2[u][e] = d[u][e] /\ d2[y][e] = d[y][e]
      BY <2>3, Zenon DEF KeyStep
    <3>2. Apart(Content(d[u][e]), Content(d[y][e]))
      BY <1>5, Zenon DEF DiskInv
    <3> QED
      BY <3>1, <3>2, Zenon
  <2> QED
    BY <2>1, <2>2, <2>3, Zenon
<1> QED
  BY <1>3, <1>5, Zenon DEF DiskInv, KeyStep

LEMMA ReplacedKey ==
  ASSUME NEW d \in [Lifetimes -> [Channels -> KeyType]], NEW t \in Lifetimes, NEW c \in Channels,
         NEW key \in KeyType, NEW d2, d2 = [d EXCEPT ![t][c] = key]
  PROVE  /\ d2 \in [Lifetimes -> [Channels -> KeyType]]
         /\ d2[t][c] = key
         /\ \A u \in Lifetimes, e \in Channels : u # t \/ e # c => d2[u][e] = d[u][e]
<1> HIDE DEF KeyType
<1> QED
  OBVIOUS

\* No message of w has arrived that did not stand in the key before.
LEMMA StandsTraces ==
  ASSUME NEW key \in KeyType, NEW n, NEW l, NEW c, KeySound(key, c, n, l),
         NEW v, Stands(v, key.value \o key.operands)
  PROVE  /\ Traces(v, c, n, l)
         /\ \E w \in Content(key) : w.arrival = v.arrival /\ w.cursor = v.cursor
<1> DEFINE w == key.value \o key.operands
<1> HIDE DEF w
<1>1. PICK j \in DOMAIN w : v.cursor = w[j].cursor /\ v.arrival = w[j].arrival
  BY Zenon DEF Stands, w
<1>2. w[j] \in Content(key)
  BY Zenon DEF Content, ToSet, w
<1>3. Traces(w[j], c, n, l)
  BY <1>2, Zenon DEF KeySound
<1> QED
  BY <1>1, <1>2, <1>3, Zenon DEF Traces

-----------------------------------------------------------------------------
(***************************************************************************)
(* The queues.  A map changes in one queue, or not at all.                 *)
(***************************************************************************)
\* The queue of c, or the one it would get.
QueueOf(map, c) == IF c \in DOMAIN map THEN map[c] ELSE EmptyQueue

\* The map but for the queue of c.
SameBut(map, map2, c) ==
  /\ DOMAIN map2 \cup {c} = DOMAIN map \cup {c}
  /\ \A e \in DOMAIN map2 : e # c => map2[e] = map[e]

LEMMA EmptySound == SoundQueue(EmptyQueue) /\ ToSet(EmptyQueue.msgs) = {}
<1>1. EmptyQueue \in QueueType /\ EmptyQueue.msgs = <<>>
  BY DEF EmptyQueue, QueueType
<1> QED
  BY <1>1 DEF SoundQueue, Ordered, DieTogether, ToSet

LEMMA PutQueue ==
  ASSUME NEW map, NEW c, NEW q
  PROVE  /\ DOMAIN WithQueue(map, c, q) = DOMAIN map \cup {c}
         /\ WithQueue(map, c, q)[c] = q
         /\ SameBut(map, WithQueue(map, c, q), c)
<1> DEFINE map2 == WithQueue(map, c, q)
<1>1. DOMAIN map2 = DOMAIN map \cup {c}
  BY Zenon DEF WithQueue
<1>2. map2[c] = q /\ \A e \in DOMAIN map : e # c => map2[e] = map[e]
  BY Zenon DEF WithQueue
<1> HIDE DEF map2
<1>3. SameBut(map, map2, c)
  BY <1>1, <1>2 DEF SameBut
<1> QED
  BY <1>1, <1>2, <1>3, Zenon DEF map2

LEMMA TakeQueue ==
  ASSUME NEW map, NEW c \in DOMAIN map
  PROVE  /\ DOMAIN WithoutQueue(map, c) = DOMAIN map \ {c}
         /\ SameBut(map, WithoutQueue(map, c), c)
<1> DEFINE map2 == WithoutQueue(map, c)
<1>1. DOMAIN map2 = DOMAIN map \ {c}
  BY Zenon DEF WithoutQueue, Restrict
<1>2. \A e \in DOMAIN map \ {c} : map2[e] = map[e]
  BY Zenon DEF WithoutQueue, Restrict
<1> HIDE DEF map2
<1>3. SameBut(map, map2, c)
  BY <1>1, <1>2 DEF SameBut
<1> QED
  BY <1>1, <1>3, Zenon DEF map2

\* What a push and a sweep for a reader make of the map.
Pushed(map, map2, t, c, m) ==
  \/ c \notin DOMAIN map /\ m.lifetime = 0 /\ m.limit = 0 /\ map2 = map
  \/ /\ DOMAIN map2 = DOMAIN map \cup {c}
     /\ SameBut(map, map2, c)
     /\ map2[c] = Push(QueueOf(map, c), t, m)

Swept(map, map2, t, c) ==
  \/ c \notin DOMAIN map /\ map2 = map
  \/ /\ c \in DOMAIN map
     /\ SameBut(map, map2, c)
     /\ \/ DOMAIN map2 = DOMAIN map /\ map2[c] = RemoveDeath(map[c], t)
        \/ DOMAIN map2 = DOMAIN map \ {c} /\ RemoveDeath(map[c], t).msgs = <<>>

LEMMA PushToQueue ==
  ASSUME NEW map, NEW t, NEW c, NEW m
  PROVE  Pushed(map, PushTo(map, t, c, m), t, c, m)
<1> DEFINE map2 == PushTo(map, t, c, m)
<1> DEFINE q == Push(QueueOf(map, c), t, m)
<1>1. CASE c \notin DOMAIN map /\ m.lifetime = 0 /\ m.limit = 0
  BY <1>1, Zenon DEF PushTo, Pushed
<1>2. CASE ~ (c \notin DOMAIN map /\ m.lifetime = 0 /\ m.limit = 0)
  <2>1. map2 = WithQueue(map, c, q)
    <3>1. CASE c \in DOMAIN map
      BY <3>1, Zenon DEF PushTo, QueueOf
    <3>2. CASE c \notin DOMAIN map
      BY <1>2, <3>2, Zenon DEF PushTo, QueueOf
    <3> QED
      BY <3>1, <3>2, Zenon
  <2> HIDE DEF q
  <2>2. /\ DOMAIN WithQueue(map, c, q) = DOMAIN map \cup {c}
        /\ WithQueue(map, c, q)[c] = q
        /\ SameBut(map, WithQueue(map, c, q), c)
    BY PutQueue
  <2> QED
    BY <2>1, <2>2, Zenon DEF Pushed, q
<1> QED
  BY <1>1, <1>2, Zenon

LEMMA SweptQueue ==
  ASSUME NEW map, NEW t, NEW c
  PROVE  Swept(map, FindAndRemoveDeath(map, t, c), t, c)
<1> DEFINE map2 == FindAndRemoveDeath(map, t, c)
           swept == RemoveDeath(map[c], t)
<1>1. CASE c \notin DOMAIN map
  BY <1>1, Zenon DEF FindAndRemoveDeath, Swept
<1>2. CASE c \in DOMAIN map /\ swept.msgs = <<>>
  <2>1. map2 = WithoutQueue(map, c)
    BY <1>2, Zenon DEF FindAndRemoveDeath
  <2>2. /\ DOMAIN WithoutQueue(map, c) = DOMAIN map \ {c}
        /\ SameBut(map, WithoutQueue(map, c), c)
    BY <1>2, TakeQueue
  <2> QED
    BY <1>2, <2>1, <2>2, Zenon DEF Swept
<1>3. CASE c \in DOMAIN map /\ swept.msgs # <<>>
  <2>1. map2 = WithQueue(map, c, swept)
    BY <1>3, Zenon DEF FindAndRemoveDeath
  <2>2. DOMAIN map \cup {c} = DOMAIN map
    BY <1>3
  <2> HIDE DEF swept
  <2>3. /\ DOMAIN WithQueue(map, c, swept) = DOMAIN map \cup {c}
        /\ WithQueue(map, c, swept)[c] = swept
        /\ SameBut(map, WithQueue(map, c, swept), c)
    BY PutQueue
  <2>4. DOMAIN map2 = DOMAIN map /\ map2[c] = swept /\ SameBut(map, map2, c)
    BY <2>1, <2>2, <2>3, Zenon
  <2> QED
    BY <1>3, <2>4, Zenon DEF Swept, swept
<1> QED
  BY <1>1, <1>2, <1>3, Zenon

LEMMA QueueChange ==
  ASSUME NEW map, NEW n, NEW l, MapInv(map, n, l), NEW c \in Channels, NEW map2,
         SameBut(map, map2, c), c \in DOMAIN map2 => QueueSound(map2[c], c, n, l)
  PROVE  MapInv(map2, n, l)
<1>1. DOMAIN map2 \subseteq DOMAIN map \cup {c}
  BY DEF SameBut
<1>2. IsFiniteSet(DOMAIN map2)
  <2>1. IsFiniteSet(DOMAIN map \cup {c})
    BY FS_AddElement DEF MapInv
  <2> QED
    BY <1>1, <2>1, FS_Subset
<1>3. DOMAIN map2 \subseteq Channels
  BY <1>1 DEF MapInv
<1>4. \A e \in DOMAIN map2 : e # c => e \in DOMAIN map /\ map2[e] = map[e]
  BY <1>1 DEF SameBut
<1> QED
  BY <1>2, <1>3, <1>4, Zenon DEF MapInv

LEMMA PushedMarks ==
  ASSUME NEW q, SoundQueue(q), NEW t \in Int, NEW m \in Message, NewerThan(m, q.msgs),
         NEW v \in ToSet(Push(q, t, m).msgs)
  PROVE  \E u \in ToSet(q.msgs) \cup {m} : v.cursor = u.cursor /\ v.arrival = u.arrival
<1>1. Origin(v, ToSet(q.msgs), m)
  BY PushOrigin
<1> QED
  BY <1>1, Zenon DEF Origin, Spared, Placement, Rewritten
-----------------------------------------------------------------------------
(***************************************************************************)
(* The steps of a publish.                                                 *)
(***************************************************************************)
\* The message that publish passes on.
Taken(input) ==
  LET m == Stamped(input.msg, Len(log) + 1) IN IF Passing(m) THEN m ELSE Filled(m)

LEMMA ScalarTypes ==
  ASSUME Scalars
  PROVE  /\ now \in Nat
         /\ now \in Int
         /\ opt.defaultLifetime \in Nat
         /\ opt.defaultLimit \in Nat
         /\ MaxPushes \in Nat
         /\ MaxEpochs \in Nat
BY BoundsAssumption, OptionsAssumption DEF Scalars, OptionsType

LEMMA FilledFields ==
  ASSUME NEW m \in Message, now \in Int, opt.defaultLifetime \in Nat, opt.defaultLimit \in Nat
  PROVE  /\ Filled(m) \in Message
         /\ Filled(m).arrival = m.arrival
         /\ Filled(m).cursor = m.cursor
         /\ Filled(m).action = m.action
         /\ Filled(m).birthtime = IF m.birthtime = 0 THEN now ELSE m.birthtime
         /\ Filled(m).lifetime = IF m.lifetime = 0 THEN opt.defaultLifetime ELSE m.lifetime
         /\ Filled(m).limit = IF m.limit = 0 THEN opt.defaultLimit ELSE m.limit
<1> DEFINE b == Born(m, now)
<1>1. /\ b \in Message
      /\ b.arrival = m.arrival
      /\ b.cursor = m.cursor
      /\ b.action = m.action
      /\ b.birthtime = IF m.birthtime = 0 THEN now ELSE m.birthtime
      /\ b.lifetime = m.lifetime
      /\ b.limit = m.limit
  BY DEF Born, Message
<1> HIDE DEF b
<1> DEFINE a == IF b.lifetime = 0 THEN opt.defaultLifetime ELSE b.lifetime
           k == IF b.limit = 0 THEN opt.defaultLimit ELSE b.limit
           f == [b EXCEPT !.lifetime = a, !.limit = k]
<1>2. Filled(m) = f
  BY DEF Filled, b
<1>3. a \in Int /\ k \in Nat
  BY <1>1 DEF Message
<1>4. /\ a = IF m.lifetime = 0 THEN opt.defaultLifetime ELSE m.lifetime
      /\ k = IF m.limit = 0 THEN opt.defaultLimit ELSE m.limit
  BY <1>1, Zenon
<1> HIDE DEF a, k
<1>5. /\ f \in Message
      /\ f.arrival = b.arrival
      /\ f.cursor = b.cursor
      /\ f.action = b.action
      /\ f.birthtime = b.birthtime
      /\ f.lifetime = a
      /\ f.limit = k
  BY <1>1, <1>3 DEF Message
<1> HIDE DEF f
<1> QED
  BY <1>1, <1>2, <1>4, <1>5, Zenon

LEMMA TakenFields ==
  ASSUME Scalars, LogInv(log), NEW input \in Inputs
  PROVE  /\ Taken(input) \in Message
         /\ Taken(input).arrival = Len(log) + 1
         /\ Taken(input).cursor = input.msg.cursor
         /\ Taken(input).action = input.msg.action
         /\ Passing(Taken(input)) <=> Passing(input.msg)
         /\ ~ Passing(Taken(input)) =>
              Taken(input).birthtime = IF input.msg.birthtime = 0 THEN now ELSE input.msg.birthtime
<1> DEFINE u == input.msg
           m == Stamped(u, Len(log) + 1)
           f == Filled(m)
<1>1. u \in Message /\ Len(log) + 1 \in Nat
  BY InputsAssumption, EntryFields
<1>2. /\ m \in Message
      /\ m.arrival = Len(log) + 1
      /\ m.cursor = u.cursor
      /\ m.action = u.action
      /\ m.birthtime = u.birthtime
      /\ m.lifetime = u.lifetime
      /\ m.limit = u.limit
  BY <1>1 DEF Stamped, Message
<1> HIDE DEF u, m
<1>3. /\ f \in Message
      /\ f.arrival = m.arrival
      /\ f.cursor = m.cursor
      /\ f.action = m.action
      /\ f.birthtime = IF m.birthtime = 0 THEN now ELSE m.birthtime
      /\ f.lifetime = IF m.lifetime = 0 THEN opt.defaultLifetime ELSE m.lifetime
      /\ f.limit = IF m.limit = 0 THEN opt.defaultLimit ELSE m.limit
  BY <1>2, ScalarTypes, FilledFields
<1>4. Passing(m) <=> Passing(u)
  BY <1>2 DEF Passing
<1>5. Passing(f) => Passing(m)
  BY <1>3 DEF Passing
<1>6. Taken(input) = IF Passing(m) THEN m ELSE f
  BY Zenon DEF Taken, m, u
<1> HIDE DEF f
<1> QED
  BY <1>2, <1>3, <1>4, <1>5, <1>6, Zenon DEF u

\* The log after a publish.
LEMMA PublishLogs ==
  ASSUME IndInv, NEW c \in Channels, NEW input \in Inputs, Publish(c, input)
  PROVE  /\ log' = Append(log, Entry(c, Taken(input), input.persistent))
         /\ pc' = IF Passing(input.msg) THEN "fire" ELSE "store"
         /\ Entry(c, Taken(input), input.persistent) \in EntryType
         /\ Len(log') = Len(log) + 1
         /\ \A i \in 1 .. Len(log) : log'[i] = log[i]
         /\ log'[Len(log) + 1] = Entry(c, Taken(input), input.persistent)
         /\ LogInv(log')
<1> DEFINE e == Entry(c, Taken(input), input.persistent)
           n == Len(log)
<1>1. Scalars /\ LogInv(log) /\ log \in Seq(EntryType) /\ n \in Nat /\ n < MaxPushes
  BY EntryFields DEF IndInv, LogInv, Publish
<1>2. log' = Append(log, e)
  BY Zenon DEF Publish, Taken
<1>3. pc' = IF Passing(input.msg) THEN "fire" ELSE "store"
  <2>1. Passing(Stamped(input.msg, Len(log) + 1)) <=> Passing(input.msg)
    <3>1. input.msg \in Message
      BY InputsAssumption
    <3> QED
      BY <3>1 DEF Passing, Stamped, Message
  <2> QED
    BY <2>1, Zenon DEF Publish
<1>4. e \in EntryType /\ e.msg = Taken(input)
  <2>1. input.persistent \in BOOLEAN /\ epoch \in Nat /\ Taken(input) \in Message
    BY <1>1, InputsAssumption, TakenFields DEF Scalars
  <2> DEFINE m == Taken(input)
             p == input.persistent
             durable == ToStore(p) /\ \E t \in open : t >= m.lifetime
             cached == IF ToCache(p) THEN epoch ELSE 0
  <2>2. e = [channel |-> c, msg |-> m, persistent |-> p, fired |-> FALSE,
             durable |-> durable, cached |-> cached]
    BY Zenon DEF Entry
  <2>3. durable \in BOOLEAN /\ cached \in Nat
    BY <2>1
  <2> HIDE DEF durable, cached, m, p
  <2>4. m \in Message /\ p \in BOOLEAN
    BY <2>1 DEF m, p
  <2> QED
    BY <2>2, <2>3, <2>4 DEF EntryType, m
<1> HIDE DEF e
<1>5. /\ log' \in Seq(EntryType)
      /\ Len(log') = n + 1
      /\ DOMAIN log' = 1 .. n + 1
      /\ \A i \in 1 .. n : log'[i] = log[i]
      /\ log'[n + 1] = e
  BY <1>1, <1>2, <1>4
<1>6. LogInv(log')
  <2>1. Len(log') <= MaxPushes
    BY <1>1, <1>5, BoundsAssumption
  <2>2. ASSUME NEW i \in DOMAIN log'
        PROVE  log'[i].msg.arrival = i
    <3>1. i \in 1 .. n \/ i = n + 1
      BY <1>1, <1>5
    <3>2. \A j \in 1 .. n : log[j].msg.arrival = j
      BY <1>1, EntryFields
    <3>3. Taken(input).arrival = n + 1
      BY <1>1, TakenFields
    <3> QED
      BY <1>4, <1>5, <3>1, <3>2, <3>3, Zenon
  <2> QED
    BY <1>5, <2>1, <2>2, Zenon DEF LogInv
<1> QED
  BY <1>2, <1>3, <1>4, <1>5, <1>6, Zenon DEF e

LEMMA PublishIndInv ==
  ASSUME IndInv, NEW c \in Channels, NEW input \in Inputs, Publish(c, input)
  PROVE  IndInv'
<1> DEFINE n == Len(log)
<1>1. /\ n \in Nat
      /\ pc = "idle"
      /\ pc' \in {"fire", "store"}
      /\ Len(log') = n + 1
      /\ \A i \in 1 .. n : log'[i] = log[i]
      /\ LogInv(log')
  BY PublishLogs, EntryFields DEF IndInv, Publish
<1>2. /\ opt' = opt /\ channels' = channels /\ open' = open /\ disk' = disk /\ now' = now
      /\ epoch' = epoch /\ placed' = placed /\ reported' = reported
  BY DEF Publish, store
<1>3. log' # <<>>
  BY <1>1
<1>4. /\ Stored(pc, log) = n /\ Cached(pc, log) = n
      /\ Stored(pc', log') \in Nat /\ n <= Stored(pc', log')
      /\ Cached(pc', log') \in Nat /\ n <= Cached(pc', log')
  BY <1>1 DEF Stored, Cached
<1>5. SameOrigins(n, log, log')
  BY <1>1 DEF SameOrigins
<1>6. DiskInv(disk, Stored(pc', log'), log')
  BY <1>1, <1>4, <1>5, DiskOn DEF IndInv
<1>7. MapInv(channels, Cached(pc', log'), log')
  BY <1>1, <1>4, <1>5, MapOn DEF IndInv
<1>8. Scalars'
  BY <1>1, <1>2, <1>3 DEF IndInv, Scalars
<1> QED
  BY <1>1, <1>2, <1>6, <1>7, <1>8, Zenon DEF IndInv

\* The publication in progress.
LEMMA ThisFields ==
  ASSUME IndInv, pc # "idle"
  PROVE  /\ Len(log) \in Nat
         /\ Len(log) \in 1 .. Len(log)
         /\ This = log[Len(log)]
         /\ This \in EntryType
         /\ This.channel \in Channels
         /\ This.msg \in Message
         /\ This.msg.arrival = Len(log)
<1>1. LogInv(log) /\ log # <<>> /\ log \in Seq(EntryType)
  BY DEF IndInv, Scalars, LogInv
<1>2. Len(log) \in 1 .. Len(log) /\ Len(log) \in Nat
  BY <1>1
<1> QED
  BY <1>1, <1>2, EntryFields, Zenon DEF This
LEMMA LastDatabase ==
  ASSUME NEW I \in SUBSET Int, IsFiniteSet(I), I # {}
  PROVE  Max(I) \in I
<1> DEFINE n == Cardinality(I)
<1>1. n \in Nat /\ n # 0 /\ n \in 1 .. n
  <2>1. n \in Nat /\ n # 0
    BY FS_CardinalityType, FS_EmptySet
  <2> QED
    BY <2>1
<1>2. PICK x \in I : Rank(I, x) = n
  BY <1>1, RankTaken
<1>3. \A i \in I : x >= i
  <2> SUFFICES ASSUME NEW i \in I, ~ (x >= i)
               PROVE  FALSE
    OBVIOUS
  <2>1. Rank(I, x) < Rank(I, i)
    BY RankGrows
  <2>2. Rank(I, i) \in 1 .. n
    BY RankType
  <2> QED
    BY <1>1, <1>2, <2>1, <2>2
<1> QED
  BY <1>3, Zenon DEF Max

\* multi_rocksdb::get_db_ finds a database that is open, and one that covers the lifetime if
\* there is one.
LEMMA DatabaseIsOpen ==
  ASSUME open \subseteq Lifetimes, open # {}, NEW lifetime \in Int
  PROVE  /\ Database(lifetime) \in open
         /\ (\E t \in open : t >= lifetime) => Database(lifetime) >= lifetime
<1> DEFINE I == {t \in open : t >= lifetime}
<1>1. open \in SUBSET Int /\ IsFiniteSet(open) /\ I \in SUBSET Int /\ IsFiniteSet(I)
  <2>0. Lifetimes \subseteq Nat
    BY FiniteLifetimes
  <2>1. open \in SUBSET Int /\ I \subseteq open /\ I \in SUBSET Int
    <3>1. \A t \in open : t \in Int
      BY <2>0
    <3>2. \A t \in I : t \in open
      OBVIOUS
    <3> HIDE DEF I
    <3> QED
      BY <3>1, <3>2
  <2> HIDE DEF I
  <2>2. IsFiniteSet(open)
    BY FiniteLifetimes, FS_Subset
  <2>3. IsFiniteSet(I)
    BY <2>1, <2>2, FS_Subset
  <2> QED
    BY <2>1, <2>2, <2>3
<1>2. CASE I # {}
  <2>1. Min(I) \in I
    BY <1>1, <1>2, LeastElement
  <2>2. Database(lifetime) = Min(I)
    BY <1>2 DEF Database
  <2> QED
    BY <2>1, <2>2
<1>3. CASE I = {}
  <2>1. Max(open) \in open
    BY <1>1, LastDatabase
  <2>2. Database(lifetime) = Max(open)
    BY <1>3 DEF Database
  <2> QED
    BY <1>3, <2>1, <2>2
<1> QED
  BY <1>2, <1>3

\* An entry of the log is noted down anew.
LEMMA LogRewritten ==
  ASSUME NEW l, LogInv(l), NEW n \in 1 .. Len(l), NEW e \in EntryType,
         e.msg = l[n].msg, e.channel = l[n].channel, NEW l2, l2 = [l EXCEPT ![n] = e]
  PROVE  /\ LogInv(l2)
         /\ Len(l2) = Len(l)
         /\ l2[n] = e
         /\ \A i \in 1 .. Len(l) : i # n => l2[i] = l[i]
         /\ SameOrigins(Len(l), l, l2)
<1>1. l \in Seq(EntryType) /\ Len(l) <= MaxPushes /\ Len(l) \in Nat /\ DOMAIN l = 1 .. Len(l)
  BY EntryFields DEF LogInv
<1>2. /\ l2 \in Seq(EntryType)
      /\ Len(l2) = Len(l)
      /\ DOMAIN l2 = 1 .. Len(l)
      /\ l2[n] = e
      /\ \A i \in 1 .. Len(l) : i # n => l2[i] = l[i]
  BY <1>1
<1>3. SameOrigins(Len(l), l, l2)
  BY <1>2, Zenon DEF SameOrigins
<1>4. \A i \in DOMAIN l2 : l2[i].msg.arrival = i
  BY <1>1, <1>2, <1>3, Zenon DEF SameOrigins, LogInv
<1> QED
  BY <1>1, <1>2, <1>3, <1>4, Zenon DEF LogInv

\* A Merge that failed is not durable, and that is all.
Failed(l2) ==
  /\ LogInv(l2)
  /\ Len(l2) = Len(log)
  /\ l2[Len(log)] = [This EXCEPT !.durable = FALSE]
  /\ \A i \in 1 .. Len(log) : i # Len(log) => l2[i] = log[i]
  /\ SameOrigins(Len(log), log, l2)

Fired(l2) ==
  /\ LogInv(l2)
  /\ Len(l2) = Len(log)
  /\ l2[Len(log)] = [This EXCEPT !.fired = TRUE]
  /\ \A i \in 1 .. Len(log) : i # Len(log) => l2[i] = log[i]
  /\ SameOrigins(Len(log), log, l2)

LEMMA MarkThis ==
  ASSUME IndInv, pc # "idle"
  PROVE  /\ Failed([log EXCEPT ![Len(log)].durable = FALSE])
         /\ Fired([log EXCEPT ![Len(log)].fired = TRUE])
<1> DEFINE n == Len(log)
           d == [This EXCEPT !.durable = FALSE]
           f == [This EXCEPT !.fired = TRUE]
<1>1. n \in 1 .. n /\ This = log[n] /\ This \in EntryType /\ LogInv(log)
  BY ThisFields DEF IndInv
<1>2. /\ d \in EntryType /\ d.msg = This.msg /\ d.channel = This.channel
      /\ f \in EntryType /\ f.msg = This.msg /\ f.channel = This.channel
  BY <1>1 DEF EntryType
<1>3. /\ [log EXCEPT ![n].durable = FALSE] = [log EXCEPT ![n] = d]
      /\ [log EXCEPT ![n].fired = TRUE] = [log EXCEPT ![n] = f]
  BY <1>1
<1> HIDE DEF d, f, n
<1>4. /\ \A l2 : l2 = [log EXCEPT ![n] = d] =>
           /\ LogInv(l2)
           /\ Len(l2) = Len(log)
           /\ l2[n] = d
           /\ \A i \in 1 .. Len(log) : i # n => l2[i] = log[i]
           /\ SameOrigins(Len(log), log, l2)
      /\ \A l2 : l2 = [log EXCEPT ![n] = f] =>
           /\ LogInv(l2)
           /\ Len(l2) = Len(log)
           /\ l2[n] = f
           /\ \A i \in 1 .. Len(log) : i # n => l2[i] = log[i]
           /\ SameOrigins(Len(log), log, l2)
  <2>1. n \in 1 .. Len(log)
    BY <1>1 DEF n
  <2> QED
    BY <1>1, <1>2, <2>1, LogRewritten
<1>5. Failed([log EXCEPT ![n].durable = FALSE])
  BY <1>3, <1>4, Zenon DEF Failed, n, d
<1>6. Fired([log EXCEPT ![n].fired = TRUE])
  BY <1>3, <1>4, Zenon DEF Fired, n, f
<1> QED
  BY <1>5, <1>6, Zenon DEF n

\* What a Merge adds to a key.
LEMMA MergedInto ==
  ASSUME IndInv, pc = "store", open # {},
         MergeInto(Database(This.msg.lifetime), This.channel, This.msg)
  PROVE  LET t == Database(This.msg.lifetime)
             c == This.channel
         IN  /\ t \in open
             /\ t \in Lifetimes
             /\ KeyStep(disk, disk', t, c, Len(log) - 1)
             /\ KeySound(disk'[t][c], c, Len(log), log)
             /\ disk'[t][c].value = disk[t][c].value
             /\ disk'[t][c].written = disk[t][c].written
             /\ Content(disk'[t][c]) = Content(disk[t][c]) \cup {This.msg}
<1> DEFINE t == Database(This.msg.lifetime)
           c == This.channel
           m == This.msg
           n == Len(log)
           key == disk[t][c]
           key2 == [key EXCEPT !.operands = Append(key.operands, m)]
<1>1. /\ n \in Nat /\ n \in 1 .. n /\ c \in Channels /\ m \in Message /\ m.arrival = n
      /\ This = log[n] /\ n - 1 \in Nat /\ n - 1 <= n
  <2>1. n \in Nat /\ n \in 1 .. n
    BY ThisFields
  <2>2. n - 1 \in Nat /\ n - 1 <= n
    BY <2>1
  <2> QED
    BY <2>1, <2>2, ThisFields
<1>2. t \in open /\ t \in Lifetimes
  <2>1. m.lifetime \in Int
    BY <1>1, MessageFields
  <2> QED
    BY <2>1, DatabaseIsOpen DEF IndInv, Scalars
<1>3. disk' = [disk EXCEPT ![t][c].operands = Append(@, m)]
  BY Zenon DEF MergeInto
<1>4. /\ DiskInv(disk, n - 1, log)
      /\ disk \in [Lifetimes -> [Channels -> KeyType]]
      /\ key \in KeyType
      /\ KeySound(key, c, n - 1, log)
  <2>1. DiskInv(disk, n - 1, log)
    BY DEF IndInv, Stored
  <2> QED
    BY <1>1, <1>2, <2>1, Zenon DEF DiskInv, KeySound
<1> HIDE DEF t, c, m, n
<1>5. disk' = [disk EXCEPT ![t][c] = key2]
  <2>1. t \in DOMAIN disk /\ c \in DOMAIN disk[t]
    BY <1>1, <1>2, <1>4
  <2> HIDE DEF KeyType
  <2> QED
    BY <1>3, <2>1
<1> HIDE DEF key
<1>6. key.value \in Seq(Message) /\ key.operands \in Seq(Message) /\ InTurn(key.value \o key.operands)
  BY <1>4, KeyFields DEF KeySound
<1>7. \A v \in Content(key) : v.arrival \in 1 .. n - 1 /\ v.arrival < m.arrival /\ Traces(v, c, n, log)
  <2>1. \A v \in Content(key) : Traces(v, c, n - 1, log)
    BY <1>4, Zenon DEF KeySound
  <2>2. \A v \in Content(key) : Traces(v, c, n, log)
    <3>1. SameOrigins(n - 1, log, log)
      BY DEF SameOrigins
    <3>2. \A v, e : Traces(v, e, n - 1, log) => Traces(v, e, n, log)
      BY <1>1, <3>1, TracesOn
    <3> QED
      BY <2>1, <3>2, Zenon
  <2>3. \A v \in Content(key) : v.arrival \in 1 .. n - 1
    BY <2>1, Zenon DEF Traces
  <2>4. \A i \in 1 .. n - 1 : i < n
    BY <1>1
  <2> QED
    BY <1>1, <2>2, <2>3, <2>4, Zenon
<1>8. /\ Append(key.operands, m) \in Seq(Message)
      /\ ToSet(key.value \o Append(key.operands, m)) = ToSet(key.value \o key.operands) \cup {m}
      /\ InTurn(key.value \o Append(key.operands, m))
  <2>1. \A v \in ToSet(key.value \o key.operands) : v.arrival < m.arrival
    BY <1>7, Zenon DEF Content
  <2> QED
    BY <1>1, <1>6, <2>1, AppendInTurn
<1>9. /\ key2 \in KeyType
      /\ key2.value = key.value
      /\ key2.written = key.written
      /\ key2.operands = Append(key.operands, m)
  BY <1>4, <1>8 DEF KeyType
<1> HIDE DEF key2
<1>10. Content(key2) = Content(key) \cup {m}
  BY <1>8, <1>9, Zenon DEF Content
<1>11. KeySound(key2, c, n, log)
  <2>1. Traces(m, c, n, log)
    BY <1>1, Zenon DEF Traces, c, m
  <2>2. \A v \in Content(key2) : v \in Content(key) \/ v = m
    BY <1>10
  <2> QED
    BY <1>7, <1>8, <1>9, <2>1, <2>2, Zenon DEF KeySound
<1>12. /\ disk' \in [Lifetimes -> [Channels -> KeyType]]
       /\ disk'[t][c] = key2
       /\ \A u \in Lifetimes, e \in Channels : u # t \/ e # c => disk'[u][e] = disk[u][e]
  BY <1>1, <1>2, <1>4, <1>5, <1>9, ReplacedKey
<1>13. KeyStep(disk, disk', t, c, n - 1)
  <2>1. n \notin 1 .. n - 1
    BY <1>1
  <2>2. \A v \in Content(key2) : v \in Content(key) \/ v = m
    BY <1>10
  <2> QED
    BY <1>1, <1>12, <2>1, <2>2, Zenon DEF KeyStep, key
<1> QED
  BY <1>2, <1>9, <1>10, <1>11, <1>12, <1>13, Zenon DEF t, c, m, n, key
LEMMA StoreIndInv ==
  ASSUME IndInv, Store
  PROVE  IndInv'
<1> DEFINE n == Len(log)
<1>1. /\ pc = "store" /\ pc' = "cache"
      /\ opt' = opt /\ channels' = channels /\ open' = open /\ now' = now
      /\ epoch' = epoch /\ placed' = placed /\ reported' = reported
  BY DEF Store
<1>2. n \in Nat /\ n - 1 \in Nat /\ n - 1 <= n /\ n # 0
  <2>1. n \in 1 .. n /\ n \in Nat
    BY <1>1, ThisFields
  <2> QED
    BY <2>1
<1>3. LogInv(log) /\ DiskInv(disk, n - 1, log) /\ MapInv(channels, n - 1, log) /\ Scalars
  BY <1>1 DEF IndInv, Stored, Cached
<1>4. SameOrigins(n - 1, log, log)
  BY DEF SameOrigins
<1>5. \/ log' = log /\ DiskInv(disk', n, log)
      \/ Failed(log') /\ disk' = disk
  <2>1. CASE ~ (ToStore(This.persistent) /\ open # {})
    <3>1. log' = log /\ disk' = disk
      BY <2>1, Zenon DEF Store
    <3> QED
      BY <1>2, <1>3, <1>4, <3>1, DiskOn
  <2>2. CASE open # {} /\ MergeInto(Database(This.msg.lifetime), This.channel, This.msg) /\ log' = log
    <3> DEFINE t == Database(This.msg.lifetime)
               c == This.channel
    <3>1. t \in Lifetimes /\ KeyStep(disk, disk', t, c, n - 1) /\ KeySound(disk'[t][c], c, n, log)
      BY <1>1, <2>2, MergedInto, Zenon
    <3>2. c \in Channels
      BY <1>1, ThisFields
    <3> HIDE DEF t, c
    <3> QED
      BY <1>2, <1>3, <2>2, <3>1, <3>2, KeyChange
  <2>3. CASE log' = [log EXCEPT ![Len(log)].durable = FALSE] /\ disk' = disk
    <3>1. Failed([log EXCEPT ![Len(log)].durable = FALSE])
      BY <1>1, MarkThis
    <3> QED
      BY <2>3, <3>1, Zenon
  <2> QED
    BY <2>1, <2>2, <2>3, Zenon DEF Store
<1>6. /\ LogInv(log') /\ Len(log') = n /\ SameOrigins(n, log, log')
      /\ DiskInv(disk', n, log')
  <2>1. CASE log' = log /\ DiskInv(disk', n, log)
    <3>1. SameOrigins(n, log, log)
      BY DEF SameOrigins
    <3> QED
      BY <1>3, <2>1, <3>1, Zenon
  <2>2. CASE Failed(log') /\ disk' = disk
    <3>1. LogInv(log') /\ Len(log') = n /\ SameOrigins(n, log, log')
      BY <2>2 DEF Failed
    <3>2. SameOrigins(n - 1, log, log')
      BY <1>2, <3>1 DEF SameOrigins
    <3>3. DiskInv(disk, n, log')
      BY <1>2, <1>3, <3>2, DiskOn
    <3> QED
      BY <2>2, <3>1, <3>3
  <2> QED
    BY <1>5, <2>1, <2>2
<1>7. MapInv(channels', n - 1, log')
  <2>1. SameOrigins(n - 1, log, log') /\ n - 1 <= n - 1
    BY <1>2, <1>6 DEF SameOrigins
  <2>2. MapInv(channels, n - 1, log')
    BY <1>2, <1>3, <2>1, MapOn
  <2> QED
    BY <1>1, <2>2
<1>8. Stored(pc', log') = n /\ Cached(pc', log') = n - 1
  BY <1>1, <1>6 DEF Stored, Cached
<1>9. log' # <<>>
  BY <1>2, <1>6
<1>10. Scalars'
  BY <1>1, <1>3, <1>9 DEF Scalars
<1> QED
  BY <1>6, <1>7, <1>8, <1>10, Zenon DEF IndInv

\* The queue that a message is pushed to.
LEMMA QueueOfFields ==
  ASSUME NEW map, NEW n, NEW l, MapInv(map, n, l), NEW c
  PROVE  QueueSound(QueueOf(map, c), c, n, l)
<1>1. CASE c \in DOMAIN map
  BY <1>1, Zenon DEF QueueOf, MapInv
<1>2. CASE c \notin DOMAIN map
  BY <1>2, EmptySound DEF QueueOf, QueueSound
<1> QED
  BY <1>1, <1>2

LEMMA PushIsSound ==
  ASSUME IndInv, pc = "cache"
  PROVE  LET q == QueueOf(channels, This.channel)
             n == Len(log)
         IN  /\ QueueSound(q, This.channel, n - 1, log)
             /\ NewerThan(This.msg, q.msgs)
             /\ QueueSound(Push(q, now, This.msg), This.channel, n, log)
<1> DEFINE q == QueueOf(channels, This.channel)
           c == This.channel
           m == This.msg
           n == Len(log)
<1>1. /\ n \in Nat /\ n \in 1 .. n /\ c \in Channels /\ m \in Message /\ m.arrival = n
      /\ This = log[n] /\ now \in Int
  BY ThisFields, ScalarTypes DEF IndInv
<1>2. n - 1 \in Nat /\ n - 1 <= n
  BY <1>1
<1>3. QueueSound(q, c, n - 1, log)
  <2>1. MapInv(channels, n - 1, log)
    BY DEF IndInv, Cached
  <2> QED
    BY <2>1, QueueOfFields
<1> HIDE DEF q, c, m, n
<1>4. \A v \in ToSet(q.msgs) : Traces(v, c, n, log) /\ v.arrival < m.arrival
  <2>1. \A v \in ToSet(q.msgs) : Traces(v, c, n - 1, log)
    BY <1>3, Zenon DEF QueueSound
  <2>2. SameOrigins(n - 1, log, log)
    BY DEF SameOrigins
  <2>3. \A v, e : Traces(v, e, n - 1, log) => Traces(v, e, n, log)
    BY <1>1, <1>2, <2>2, TracesOn
  <2>4. \A i \in 1 .. n - 1 : i < n
    BY <1>1
  <2> QED
    BY <1>1, <2>1, <2>3, <2>4, Zenon DEF Traces
<1>5. NewerThan(m, q.msgs)
  BY <1>4, Zenon DEF NewerThan
<1>6. SoundQueue(q) /\ SoundQueue(Push(q, now, m))
  BY <1>1, <1>3, <1>5, PushSound DEF QueueSound
<1>7. ASSUME NEW v \in ToSet(Push(q, now, m).msgs)
      PROVE  Traces(v, c, n, log)
  <2>1. PICK u \in ToSet(q.msgs) \cup {m} : v.cursor = u.cursor /\ v.arrival = u.arrival
    BY <1>1, <1>5, <1>6, PushedMarks
  <2>2. Traces(m, c, n, log)
    BY <1>1, Zenon DEF Traces, c, m
  <2>3. Traces(u, c, n, log)
    BY <1>4, <2>1, <2>2
  <2> QED
    BY <2>1, <2>3, Zenon DEF Traces
<1>8. QueueSound(Push(q, now, m), c, n, log)
  BY <1>6, <1>7, Zenon DEF QueueSound
<1> QED
  BY <1>3, <1>5, <1>8, Zenon DEF q, c, m, n

LEMMA CacheIndInv ==
  ASSUME IndInv, Cache
  PROVE  IndInv'
<1> DEFINE n == Len(log)
           c == This.channel
<1>1. /\ pc = "cache" /\ pc' = "fire"
      /\ opt' = opt /\ open' = open /\ now' = now /\ disk' = disk /\ log' = log
      /\ epoch' = epoch /\ reported' = reported
  BY DEF Cache, store
<1>2. n \in Nat /\ n - 1 \in Nat /\ n - 1 <= n /\ c \in Channels /\ log # <<>>
  <2>1. n \in 1 .. n /\ n \in Nat /\ c \in Channels
    BY <1>1, ThisFields
  <2> QED
    BY <2>1
<1>3. LogInv(log) /\ DiskInv(disk, n, log) /\ MapInv(channels, n - 1, log) /\ Scalars
  BY <1>1 DEF IndInv, Stored, Cached
<1>4. SameOrigins(n - 1, log, log)
  BY DEF SameOrigins
<1>5. MapInv(channels, n, log)
  BY <1>2, <1>3, <1>4, MapOn
<1>6. MapInv(channels', n, log)
  <2>1. CASE ToCache(This.persistent)
    <3>1. channels' = PushTo(channels, now, c, This.msg)
      BY <2>1, Zenon DEF Cache
    <3>2. QueueSound(Push(QueueOf(channels, c), now, This.msg), c, n, log)
      BY <1>1, PushIsSound, Zenon
    <3> HIDE DEF c, n
    <3>3. CASE channels' = channels
      BY <1>5, <3>3
    <3>4. CASE SameBut(channels, channels', c)
               /\ channels'[c] = Push(QueueOf(channels, c), now, This.msg)
      <4>1. c \in DOMAIN channels' => QueueSound(channels'[c], c, n, log)
        BY <3>2, <3>4, Zenon
      <4> QED
        BY <1>2, <1>5, <3>4, <4>1, QueueChange
    <3>5. \/ channels' = channels
          \/ /\ SameBut(channels, channels', c)
             /\ channels'[c] = Push(QueueOf(channels, c), now, This.msg)
      <4>1. Pushed(channels, channels', now, c, This.msg)
        BY <3>1, PushToQueue, Zenon
      <4> QED
        BY <4>1, Zenon DEF Pushed
    <3> QED
      BY <3>3, <3>4, <3>5, Zenon
  <2>2. CASE ~ ToCache(This.persistent)
    BY <1>5, <2>2, Zenon DEF Cache
  <2> QED
    BY <2>1, <2>2
<1>7. placed' \in Nat
  BY <1>3 DEF Cache, Scalars
<1>8. Stored(pc', log') = n /\ Cached(pc', log') = n
  BY <1>1 DEF Stored, Cached
<1>9. Scalars'
  BY <1>1, <1>2, <1>3, <1>7 DEF Scalars
<1> QED
  BY <1>1, <1>3, <1>6, <1>8, <1>9, Zenon DEF IndInv

LEMMA FireIndInv ==
  ASSUME IndInv, Fire
  PROVE  IndInv'
<1> DEFINE n == Len(log)
<1>1. /\ pc = "fire" /\ pc' = "idle"
      /\ opt' = opt /\ channels' = channels /\ open' = open /\ disk' = disk /\ now' = now
      /\ epoch' = epoch /\ placed' = placed /\ reported' = reported
  BY DEF Fire, store
<1>2. Fired(log')
  <2>1. Fired([log EXCEPT ![Len(log)].fired = TRUE])
    BY <1>1, MarkThis
  <2> QED
    BY <2>1, Zenon DEF Fire
<1>3. LogInv(log') /\ Len(log') = n /\ SameOrigins(n, log, log') /\ n \in Nat /\ n <= n
  BY <1>2, EntryFields DEF Fired, IndInv
<1>4. DiskInv(disk, n, log) /\ MapInv(channels, n, log) /\ Scalars
  BY <1>1 DEF IndInv, Stored, Cached
<1>5. DiskInv(disk, n, log') /\ MapInv(channels, n, log')
  BY <1>3, <1>4, DiskOn, MapOn
<1>6. Stored(pc', log') = n /\ Cached(pc', log') = n
  BY <1>1, <1>3 DEF Stored, Cached
<1>7. Scalars'
  BY <1>1, <1>4 DEF Scalars
<1> QED
  BY <1>1, <1>3, <1>5, <1>6, <1>7, Zenon DEF IndInv
-----------------------------------------------------------------------------
(***************************************************************************)
(* Reading, the idle handler, and what happens to the queues and the       *)
(* databases in between.                                                   *)
(***************************************************************************)
LEMMA ReadIndInv ==
  ASSUME IndInv, NEW c \in Channels, channels' = FindAndRemoveDeath(channels, now, c),
         UNCHANGED <<opt, store, now, pc, observers>>
  PROVE  IndInv'
<1> DEFINE n == Cached(pc, log)
<1>1. /\ opt' = opt /\ open' = open /\ disk' = disk /\ now' = now /\ pc' = pc /\ log' = log
      /\ epoch' = epoch /\ placed' = placed /\ reported' = reported
  BY DEF store, observers
<1>2. LogInv(log) /\ DiskInv(disk, Stored(pc, log), log) /\ MapInv(channels, n, log) /\ Scalars
  BY DEF IndInv
<1> HIDE DEF n
<1>3. MapInv(channels', n, log)
  <2>1. CASE channels' = channels
    BY <1>2, <2>1
  <2>2. CASE /\ c \in DOMAIN channels
             /\ SameBut(channels, channels', c)
             /\ c \in DOMAIN channels' => channels'[c] = RemoveDeath(channels[c], now)
    <3>1. SoundQueue(channels[c]) /\ \A v \in ToSet(channels[c].msgs) : Traces(v, c, n, log)
      BY <1>2, <2>2, Zenon DEF MapInv, QueueSound
    <3>2. now \in Int
      BY <1>2, ScalarTypes
    <3>3. /\ SoundQueue(RemoveDeath(channels[c], now))
          /\ ToSet(RemoveDeath(channels[c], now).msgs) \subseteq ToSet(channels[c].msgs)
      BY <3>1, <3>2, RemoveDeathSound
    <3>4. c \in DOMAIN channels' => QueueSound(channels'[c], c, n, log)
      BY <2>2, <3>1, <3>3, Zenon DEF QueueSound
    <3> QED
      BY <1>2, <2>2, <3>4, QueueChange
  <2>3. \/ channels' = channels
        \/ /\ c \in DOMAIN channels
           /\ SameBut(channels, channels', c)
           /\ \/ channels'[c] = RemoveDeath(channels[c], now)
              \/ DOMAIN channels' = DOMAIN channels \ {c}
    <3>1. Swept(channels, channels', now, c)
      BY SweptQueue, Zenon
    <3> QED
      BY <3>1, Zenon DEF Swept
  <2>4. DOMAIN channels' = DOMAIN channels \ {c} => c \notin DOMAIN channels'
    OBVIOUS
  <2> QED
    BY <2>1, <2>2, <2>3, <2>4, Zenon
<1>4. Scalars'
  BY <1>1, <1>2 DEF Scalars
<1> QED
  BY <1>1, <1>2, <1>3, <1>4, Zenon DEF IndInv, n

LEMMA ResetSound ==
  ASSUME NEW q, SoundQueue(q)
  PROVE  /\ SoundQueue(ResetRemoved(q))
         /\ ResetRemoved(q).msgs = q.msgs
         /\ ResetRemoved(q).removed = 0
<1> DEFINE r == ResetRemoved(q)
<1>1. r \in QueueType /\ r.msgs = q.msgs /\ r.sequenced = q.sequenced /\ r.removed = 0
  BY DEF ResetRemoved, SoundQueue, QueueType
<1> HIDE DEF r
<1>2. SoundQueue(r)
  BY <1>1, Zenon DEF SoundQueue
<1> QED
  BY <1>1, <1>2, Zenon DEF r

LEMMA ResetMap ==
  ASSUME NEW map, NEW n, NEW l, MapInv(map, n, l)
  PROVE  /\ DOMAIN ResetCounters(map) = DOMAIN map
         /\ \A c \in DOMAIN map : ResetCounters(map)[c] = ResetRemoved(map[c])
         /\ MapInv(ResetCounters(map), n, l)
<1> DEFINE map2 == ResetCounters(map)
<1>1. DOMAIN map2 = DOMAIN map /\ \A c \in DOMAIN map : map2[c] = ResetRemoved(map[c])
  BY Zenon DEF ResetCounters
<1> HIDE DEF map2
<1>2. \A c \in DOMAIN map : QueueSound(ResetRemoved(map[c]), c, n, l)
  <2>1. ASSUME NEW c \in DOMAIN map
        PROVE  QueueSound(ResetRemoved(map[c]), c, n, l)
    <3>1. SoundQueue(map[c]) /\ \A v \in ToSet(map[c].msgs) : Traces(v, c, n, l)
      BY Zenon DEF MapInv, QueueSound
    <3>2. SoundQueue(ResetRemoved(map[c])) /\ ResetRemoved(map[c]).msgs = map[c].msgs
      BY <3>1, ResetSound
    <3> QED
      BY <3>1, <3>2, Zenon DEF QueueSound
  <2> QED
    BY <2>1, Zenon
<1>3. MapInv(map2, n, l)
  BY <1>1, <1>2, Zenon DEF MapInv
<1> QED
  BY <1>1, <1>3, Zenon DEF map2

LEMMA NoChannelsSound ==
  ASSUME NEW n, NEW l
  PROVE  DOMAIN NoChannels = {} /\ MapInv(NoChannels, n, l)
<1>1. DOMAIN NoChannels = {}
  BY DEF NoChannels
<1> QED
  BY <1>1, FS_EmptySet DEF MapInv

\* What a removal of the counters counts.
LEMMA RemovedIsNat ==
  ASSUME NEW map, NEW n, NEW l, MapInv(map, n, l)
  PROVE  RemovedCount(map) \in Nat /\ MessageCount(map) \in Nat
<1> DEFINE D == DOMAIN map
           r == [c \in D |-> map[c].removed]
           m == [c \in D |-> Len(map[c].msgs)]
<1>1. IsFiniteSet(D)
  BY DEF MapInv
<1>2. \A c \in D : map[c].removed \in Nat /\ Len(map[c].msgs) \in Nat
  <2>1. \A c \in D : SoundQueue(map[c])
    BY Zenon DEF MapInv, QueueSound
  <2> QED
    BY <2>1, TypeOfSound
<1>3. r \in [D -> Nat] /\ m \in [D -> Nat]
  BY <1>2
<1>4. RemovedCount(map) = SumFunction(r) /\ MessageCount(map) = SumFunction(m)
  BY Zenon DEF RemovedCount, MessageCount
<1> HIDE DEF D, r, m
<1> QED
  BY <1>1, <1>3, <1>4, SumSplit

LEMMA GetRemovedIndInv ==
  ASSUME IndInv, DoGetRemoved
  PROVE  IndInv'
<1>1. /\ opt' = opt /\ open' = open /\ disk' = disk /\ now' = now /\ pc' = pc /\ log' = log
      /\ epoch' = epoch /\ placed' = placed
      /\ reported' = reported + RemovedCount(channels)
      /\ channels' = ResetCounters(channels)
  BY DEF DoGetRemoved, store
<1>2. /\ LogInv(log) /\ DiskInv(disk, Stored(pc, log), log) /\ Scalars
      /\ MapInv(channels, Cached(pc, log), log)
  BY DEF IndInv
<1>3. MapInv(channels', Cached(pc, log), log) /\ RemovedCount(channels) \in Nat
  BY <1>1, <1>2, ResetMap, RemovedIsNat
<1>4. Scalars'
  BY <1>1, <1>2, <1>3 DEF Scalars
<1> QED
  BY <1>1, <1>2, <1>3, <1>4, Zenon DEF IndInv

\* The queues are lost; what was published until then has arrived, or never will.
LEMMA LostIndInv ==
  ASSUME IndInv, epoch' = epoch + 1, channels' = NoChannels, pc' = "idle",
         opt' \in Options, open' \subseteq Lifetimes, UNCHANGED <<disk, now, log, placed, reported>>
  PROVE  IndInv'
<1> DEFINE n == Len(log)
<1>1. LogInv(log) /\ DiskInv(disk, Stored(pc, log), log) /\ Scalars
  BY DEF IndInv
<1>2. Stored(pc, log) \in Nat /\ n \in Nat /\ Stored(pc, log) <= n
  <2>1. pc = "store" => n \in 1 .. n
    BY ThisFields
  <2>2. n \in Nat
    BY <1>1, EntryFields
  <2> QED
    BY <2>1, <2>2 DEF Stored
<1>3. DiskInv(disk, n, log)
  <2>1. SameOrigins(Stored(pc, log), log, log)
    BY DEF SameOrigins
  <2> QED
    BY <1>1, <1>2, <2>1, DiskOn
<1>4. Stored(pc', log') = n /\ Cached(pc', log') = n
  BY DEF Stored, Cached
<1>5. MapInv(channels', n, log)
  BY NoChannelsSound
<1>6. Scalars'
  BY <1>1 DEF Scalars
<1> QED
  BY <1>1, <1>3, <1>4, <1>5, <1>6, Zenon DEF IndInv

LEMMA ResetIndInv ==
  ASSUME IndInv, Reset
  PROVE  IndInv'
<1>1. opt' = opt /\ open' = open /\ opt \in Options /\ open \subseteq Lifetimes
  BY DEF Reset, store, IndInv, Scalars
<1>2. epoch' = epoch + 1 /\ channels' = NoChannels /\ pc' = "idle"
      /\ UNCHANGED <<disk, now, log, placed, reported>>
  BY DEF Reset, store
<1> QED
  BY <1>1, <1>2, LostIndInv

LEMMA RestartIndInv ==
  ASSUME IndInv, NEW o \in Options, NEW n \in 0 .. Len(Ttls), Restart(o, n)
  PROVE  IndInv'
<1>1. opt' \in Options /\ open' \subseteq Lifetimes
  BY FiniteLifetimes DEF Restart
<1>2. epoch' = epoch + 1 /\ channels' = NoChannels /\ pc' = "idle"
      /\ UNCHANGED <<disk, now, log, placed, reported>>
  BY DEF Restart
<1> QED
  BY <1>1, <1>2, LostIndInv

\* A database changes on its own: nothing is under a key that was not there before.
LostOnly(d, d2, t, c) ==
  /\ \A u \in Lifetimes, e \in Channels : u # t \/ e # c => d2[u][e] = d[u][e]
  /\ \A v \in Content(d2[t][c]) : \E w \in Content(d[t][c]) : w.arrival = v.arrival

LEMMA DatabaseIndInv ==
  ASSUME IndInv, NEW t \in Lifetimes, NEW c \in Channels, NEW key \in KeyType,
         InTurn(key.value \o key.operands),
         \A v \in Content(key) : Stands(v, disk[t][c].value \o disk[t][c].operands),
         disk' = [disk EXCEPT ![t][c] = key],
         UNCHANGED <<opt, channels, open, now, pc, observers>>
  PROVE  /\ IndInv'
         /\ disk'[t][c] = key
         /\ LostOnly(disk, disk', t, c)
<1> DEFINE n == Stored(pc, log)
<1>1. /\ opt' = opt /\ channels' = channels /\ open' = open /\ now' = now /\ pc' = pc /\ log' = log
      /\ epoch' = epoch /\ placed' = placed /\ reported' = reported
  BY DEF observers
<1>2. LogInv(log) /\ DiskInv(disk, n, log) /\ MapInv(channels, Cached(pc, log), log) /\ Scalars
  BY DEF IndInv
<1>3. n \in Nat /\ n <= n
  <2>1. pc = "store" => Len(log) \in 1 .. Len(log)
    BY ThisFields
  <2>2. Len(log) \in Nat
    BY <1>2, EntryFields
  <2> QED
    BY <2>1, <2>2 DEF Stored
<1> HIDE DEF n
<1>4. /\ disk \in [Lifetimes -> [Channels -> KeyType]]
      /\ disk[t][c] \in KeyType
      /\ KeySound(disk[t][c], c, n, log)
  BY <1>2, Zenon DEF DiskInv, KeySound
<1>5. \A v \in Content(key) : /\ Traces(v, c, n, log)
                              /\ \E w \in Content(disk[t][c]) : w.arrival = v.arrival
  <2> SUFFICES ASSUME NEW v \in Content(key)
               PROVE  /\ Traces(v, c, n, log)
                      /\ \E w \in Content(disk[t][c]) : w.arrival = v.arrival
    BY Zenon
  <2> DEFINE old == disk[t][c]
  <2>1. Stands(v, old.value \o old.operands)
    BY Zenon
  <2> HIDE DEF old
  <2>2. old \in KeyType /\ KeySound(old, c, n, log)
    BY <1>4 DEF old
  <2>3. /\ Traces(v, c, n, log)
        /\ \E w \in Content(old) : w.arrival = v.arrival /\ w.cursor = v.cursor
    BY <2>1, <2>2, StandsTraces
  <2> QED
    BY <2>3, Zenon DEF old
<1>6. /\ disk' \in [Lifetimes -> [Channels -> KeyType]]
      /\ disk'[t][c] = key
      /\ \A u \in Lifetimes, e \in Channels : u # t \/ e # c => disk'[u][e] = disk[u][e]
  BY <1>4, ReplacedKey
<1>7. KeyStep(disk, disk', t, c, n)
  BY <1>5, <1>6, Zenon DEF KeyStep
<1>8. KeySound(disk'[t][c], c, n, log)
  BY <1>5, <1>6, Zenon DEF KeySound
<1>9. DiskInv(disk', n, log)
  BY <1>2, <1>3, <1>7, <1>8, KeyChange
<1>10. Scalars'
  BY <1>1, <1>2 DEF Scalars
<1>11. IndInv'
  BY <1>1, <1>2, <1>9, <1>10, Zenon DEF IndInv, n
<1>12. LostOnly(disk, disk', t, c)
  BY <1>5, <1>6, Zenon DEF LostOnly
<1> QED
  BY <1>6, <1>11, <1>12, Zenon
CompactedKey(key, n, time) ==
  [value    |-> FullMerge(key.value, SubSeq(key.operands, 1, n), time, 0, time),
   written  |-> time,
   operands |-> SubSeq(key.operands, n + 1, Len(key.operands))]

ExpiredKey(key) == [key EXCEPT !.value = <<>>]

LEMMA CompactStands ==
  ASSUME NEW key \in KeyType, InTurn(key.value \o key.operands), NEW time \in Nat,
         NEW n \in 1 .. Len(key.operands)
  PROVE  /\ CompactedKey(key, n, time) \in KeyType
         /\ InTurn(CompactedKey(key, n, time).value \o CompactedKey(key, n, time).operands)
         /\ \A v \in Content(CompactedKey(key, n, time)) : Stands(v, key.value \o key.operands)
<1> DEFINE s == key.value
           ops == key.operands
           r == FullMerge(s, SubSeq(ops, 1, n), time, 0, time)
           rest == SubSeq(ops, n + 1, Len(ops))
<1>1. s \in Seq(Message) /\ ops \in Seq(Message) /\ InTurn(s \o ops)
  BY KeyFields
<1>2. n \in 0 .. Len(ops) /\ time \in Int /\ 0 \in 0 .. Len(s) + n
  BY <1>1
<1> HIDE DEF s, ops
<1>3. /\ r \in Seq(Message)
      /\ rest \in Seq(Message)
      /\ InTurn(r \o rest)
      /\ \A v \in ToSet(r \o rest) : Stands(v, s \o ops)
  BY <1>1, <1>2, MergeStands
<1>4. CompactedKey(key, n, time) = [value |-> r, written |-> time, operands |-> rest]
  BY Zenon DEF CompactedKey, s, ops
<1> HIDE DEF r, rest
<1>5. /\ CompactedKey(key, n, time) \in KeyType
      /\ CompactedKey(key, n, time).value = r
      /\ CompactedKey(key, n, time).operands = rest
  BY <1>3, <1>4 DEF KeyType
<1> QED
  BY <1>3, <1>5, Zenon DEF Content, s, ops

LEMMA ExpireStands ==
  ASSUME NEW key \in KeyType, InTurn(key.value \o key.operands)
  PROVE  /\ ExpiredKey(key) \in KeyType
         /\ InTurn(ExpiredKey(key).value \o ExpiredKey(key).operands)
         /\ Content(ExpiredKey(key)) = ToSet(key.operands)
         /\ \A v \in Content(ExpiredKey(key)) : Stands(v, key.value \o key.operands)
<1> DEFINE s == key.value
           ops == key.operands
           none == <<>>
           e == ExpiredKey(key)
<1>1. s \in Seq(Message) /\ ops \in Seq(Message) /\ InTurn(s \o ops)
  BY KeyFields
<1>2. e \in KeyType /\ e.value = none /\ e.operands = ops
  <2>1. none \in Seq(Message) /\ e = [key EXCEPT !.value = none]
    BY DEF ExpiredKey
  <2> HIDE DEF none, e
  <2> QED
    BY <2>1 DEF KeyType
<1>3. none \o ops = ops /\ none \in Seq(Message)
  BY <1>1
<1>4. InTurn(ops) /\ ToSet(s \o ops) = ToSet(s) \cup ToSet(ops)
  BY <1>1, JoinedInTurn, JoinedElements
<1> HIDE DEF none, e, s, ops
<1>5. e.value \o e.operands = ops
  BY <1>2, <1>3, Zenon
<1>6. \A v \in ToSet(ops) : Stands(v, s \o ops)
  <2> SUFFICES ASSUME NEW v \in ToSet(ops)
               PROVE  Stands(v, s \o ops)
    OBVIOUS
  <2>1. v \in ToSet(s \o ops)
    BY <1>4
  <2> QED
    BY <2>1, ElementStands
<1> QED
  BY <1>2, <1>4, <1>5, <1>6, Zenon DEF Content, e, s, ops

LEMMA KeyOfDisk ==
  ASSUME IndInv, NEW t \in Lifetimes, NEW c \in Channels
  PROVE  /\ disk[t][c] \in KeyType
         /\ KeySound(disk[t][c], c, Stored(pc, log), log)
         /\ InTurn(disk[t][c].value \o disk[t][c].operands)
BY Zenon DEF IndInv, DiskInv, KeySound

LEMMA CompactIndInv ==
  ASSUME IndInv, NEW t \in open, NEW c \in Channels, NEW n \in 1 .. Len(disk[t][c].operands),
         Compact(t, c, n)
  PROVE  /\ IndInv'
         /\ t \in Lifetimes
         /\ disk'[t][c] = CompactedKey(disk[t][c], n, now)
         /\ LostOnly(disk, disk', t, c)
<1> DEFINE key == disk[t][c]
           key2 == CompactedKey(key, n, now)
<1>1. t \in Lifetimes /\ now \in Nat
  BY ScalarTypes DEF IndInv, Scalars
<1>2. disk' = [disk EXCEPT ![t][c] = key2]
  BY Zenon DEF Compact, CompactedKey
<1>3. /\ key2 \in KeyType
      /\ InTurn(key2.value \o key2.operands)
      /\ \A v \in Content(key2) : Stands(v, key.value \o key.operands)
  <2>1. key \in KeyType /\ InTurn(key.value \o key.operands) /\ n \in 1 .. Len(key.operands)
    BY <1>1, KeyOfDisk
  <2> HIDE DEF key
  <2> QED
    BY <1>1, <2>1, CompactStands
<1>4. UNCHANGED <<opt, channels, open, now, pc, observers>>
  BY DEF Compact
<1> HIDE DEF key2
<1>5. /\ IndInv'
      /\ disk'[t][c] = key2
      /\ LostOnly(disk, disk', t, c)
  BY <1>1, <1>2, <1>3, <1>4, DatabaseIndInv
<1> QED
  BY <1>1, <1>5 DEF key2

LEMMA ExpireIndInv ==
  ASSUME IndInv, NEW t \in open, NEW c \in Channels, Expire(t, c)
  PROVE  /\ IndInv'
         /\ t \in Lifetimes
         /\ disk'[t][c] = ExpiredKey(disk[t][c])
         /\ LostOnly(disk, disk', t, c)
<1> DEFINE key == disk[t][c]
           key2 == ExpiredKey(key)
<1>1. t \in Lifetimes
  BY DEF IndInv, Scalars
<1>2. disk' = [disk EXCEPT ![t][c] = key2]
  <2>1. disk' = [disk EXCEPT ![t][c].value = <<>>]
    BY DEF Expire
  <2>2. t \in DOMAIN disk /\ c \in DOMAIN disk[t]
    BY <1>1 DEF IndInv, DiskInv
  <2> QED
    BY <2>1, <2>2 DEF ExpiredKey
<1>3. /\ key2 \in KeyType
      /\ InTurn(key2.value \o key2.operands)
      /\ \A v \in Content(key2) : Stands(v, key.value \o key.operands)
  <2>1. key \in KeyType /\ InTurn(key.value \o key.operands)
    BY <1>1, KeyOfDisk
  <2> HIDE DEF key
  <2> QED
    BY <2>1, ExpireStands
<1>4. UNCHANGED <<opt, channels, open, now, pc, observers>>
  BY DEF Expire
<1> HIDE DEF key2
<1>5. /\ IndInv'
      /\ disk'[t][c] = key2
      /\ LostOnly(disk, disk', t, c)
  BY <1>1, <1>2, <1>3, <1>4, DatabaseIndInv
<1> QED
  BY <1>1, <1>5 DEF key2

LEMMA IdleIndInv ==
  ASSUME IndInv, opt' = opt, channels' = channels, open' \subseteq Lifetimes, now' \in Times,
         UNCHANGED <<disk, pc, observers>>
  PROVE  IndInv'
<1>1. disk' = disk /\ pc' = pc /\ log' = log /\ epoch' = epoch /\ placed' = placed
      /\ reported' = reported
  BY DEF observers
<1>2. Scalars'
  BY <1>1 DEF Scalars, IndInv
<1> QED
  BY <1>1, <1>2, Zenon DEF IndInv

LEMMA NextIndInv == IndInv /\ [Next]_vars => IndInv'
<1> SUFFICES ASSUME IndInv, [Next]_vars
             PROVE  IndInv'
  OBVIOUS
<1>1. ASSUME NEW c \in Channels, NEW input \in Inputs, Publish(c, input)
      PROVE  IndInv'
  BY <1>1, PublishIndInv
<1>2. CASE Store
  BY <1>2, StoreIndInv
<1>3. CASE Cache
  BY <1>3, CacheIndInv
<1>4. CASE Fire
  BY <1>4, FireIndInv
<1>5. ASSUME NEW c \in Channels, NEW cursor, DoGetMessages(c, cursor, MaxPushes)
      PROVE  IndInv'
  BY <1>5, ReadIndInv DEF DoGetMessages
<1>6. CASE DoGetRemoved
  BY <1>6, GetRemovedIndInv
<1>7. CASE Reset
  BY <1>7, ResetIndInv
<1>8. ASSUME NEW o \in Options, NEW n \in 0 .. Len(Ttls), Restart(o, n)
      PROVE  IndInv'
  BY <1>8, RestartIndInv
<1>9. ASSUME NEW t \in open, NEW c \in Channels, Expire(t, c)
      PROVE  IndInv'
  BY <1>9, ExpireIndInv
<1>10. ASSUME NEW t \in open, NEW c \in Channels, NEW n \in 1 .. Len(disk[t][c].operands),
              Compact(t, c, n)
       PROVE  IndInv'
  BY <1>10, CompactIndInv
<1>11. now \in Times /\ open \subseteq Lifetimes
  BY DEF IndInv, Scalars
<1>12. CASE Close
  BY <1>11, <1>12, IdleIndInv DEF Close
<1>13. ASSUME NEW time \in From(now), SetClock(time)
       PROVE  IndInv'
  BY <1>11, <1>13, IdleIndInv DEF SetClock, From, store
<1>14. CASE UNCHANGED vars
  BY <1>11, <1>14, IdleIndInv DEF vars, store
<1> QED
  BY <1>1, <1>2, <1>3, <1>4, <1>5, <1>6, <1>7, <1>8, <1>9, <1>10, <1>12, <1>13, <1>14, Zenon DEF Next

(***************************************************************************)
(* Wherever the process dies, whatever RocksDB merges or drops and however *)
(* often the queues are lost, the log, the queues and the databases belong *)
(* together: the argument of all that follows.                             *)
(***************************************************************************)
THEOREM PubsubInvariance == Spec => []IndInv
BY InitIndInv, NextIndInv, PTL DEF Spec

(***************************************************************************)
(* The queues, the databases and the counters keep their types             *)
(* (pubsub.cpp:22-128, channel_map.cpp:12-57, multi_rocksdb.cpp:20-116).   *)
(***************************************************************************)
THEOREM PubsubTypeCorrect == Spec => []TypeOK
<1>1. IndInv => TypeOK
  <2> SUFFICES ASSUME IndInv
               PROVE  TypeOK
    OBVIOUS
  <2>1. \A c \in DOMAIN channels : channels[c] \in QueueType
    BY Zenon DEF IndInv, MapInv, QueueSound, SoundQueue
  <2>2. \A t \in Lifetimes, c \in Channels : disk[t][c] \in KeyType
    BY Zenon DEF IndInv, DiskInv, KeySound
  <2> QED
    BY <2>1, <2>2 DEF TypeOK, IndInv, Scalars, MapInv, KeyType
<1> QED
  BY PubsubInvariance, <1>1, PTL
-----------------------------------------------------------------------------
(***************************************************************************)
(* What a reader gets: from each database, from all that are open, and     *)
(* from the queue.                                                         *)
(***************************************************************************)
LEMMA TracedDistinct ==
  ASSUME NEW s \in Seq(Message), Ordered(s), NEW c, NEW n, NEW l,
         \A v \in ToSet(s) : Traces(v, c, n, l)
  PROVE  Distinct(s)
<1> SUFFICES ASSUME NEW i \in DOMAIN s, NEW j \in DOMAIN s, s[i].arrival = s[j].arrival
             PROVE  i = j
  BY Zenon DEF Distinct
<1>1. s[i] \in ToSet(s) /\ s[j] \in ToSet(s)
  BY Zenon DEF ToSet
<1>2. s[i].cursor = s[j].cursor
  BY <1>1, Zenon DEF Traces
<1>3. /\ i \in Int /\ j \in Int
      /\ s[i].cursor \in Int /\ s[i].arrival \in Nat /\ s[j].cursor \in Int /\ s[j].arrival \in Nat
  BY SequenceFields
<1>4. ~ (i < j)
  <2> SUFFICES ASSUME i < j
               PROVE  FALSE
    OBVIOUS
  <2>1. s[i].cursor < s[j].cursor \/ s[i].arrival < s[j].arrival
    BY Zenon DEF Ordered
  <2> QED
    BY <1>2, <1>3, <2>1
<1>5. ~ (j < i)
  <2> SUFFICES ASSUME j < i
               PROVE  FALSE
    OBVIOUS
  <2>1. s[j].cursor < s[i].cursor \/ s[j].arrival < s[i].arrival
    BY Zenon DEF Ordered
  <2> QED
    BY <1>2, <1>3, <2>1
<1> QED
  BY <1>3, <1>4, <1>5

LEMMA DatabaseReads ==
  ASSUME IndInv, NEW t \in Lifetimes, NEW c \in Channels, NEW cursor \in Int, NEW limit \in Nat
  PROVE  LET r == FromDatabase(t, c, cursor, limit)
         IN  /\ r \in Seq(Message)
             /\ Distinct(r)
             /\ \A v \in ToSet(r) : /\ ~ Dead(v, now)
                                    /\ \E w \in Content(disk[t][c]) : w.arrival = v.arrival
<1> DEFINE key == disk[t][c]
           r == FromDatabase(t, c, cursor, limit)
           n == Stored(pc, log)
<1>1. /\ key \in KeyType /\ KeySound(key, c, n, log)
      /\ key.value \in Seq(Message) /\ key.operands \in Seq(Message)
      /\ InTurn(key.value \o key.operands)
  BY KeyOfDisk, KeyFields
<1>2. now \in Int
  BY ScalarTypes DEF IndInv
<1>3. r = GetMessages(key.value, key.operands, now, cursor, limit)
  BY Zenon DEF FromDatabase
<1> HIDE DEF r, key, n
<1>4. /\ r \in Seq(Message)
      /\ Ordered(r)
      /\ \A v \in ToSet(r) : ~ Dead(v, now) /\ Stands(v, key.value \o key.operands)
  BY <1>1, <1>2, <1>3, ReadStands
<1>5. \A v \in ToSet(r) : Traces(v, c, n, log) /\ \E w \in Content(key) : w.arrival = v.arrival
  <2> SUFFICES ASSUME NEW v \in ToSet(r)
               PROVE  Traces(v, c, n, log) /\ \E w \in Content(key) : w.arrival = v.arrival
    BY Zenon
  <2>1. Stands(v, key.value \o key.operands)
    BY <1>4
  <2>2. /\ Traces(v, c, n, log)
        /\ \E w \in Content(key) : w.arrival = v.arrival /\ w.cursor = v.cursor
    BY <1>1, <2>1, StandsTraces
  <2> QED
    BY <2>2, Zenon
<1>6. Distinct(r)
  BY <1>4, <1>5, TracedDistinct
<1> QED
  BY <1>4, <1>5, <1>6, Zenon DEF r, key

LEMMA StoreReads ==
  ASSUME IndInv, NEW c \in Channels, NEW cursor \in Int, NEW limit \in Nat
  PROVE  LET s == FromStore(c, cursor, limit)
         IN  /\ s \in Seq(Message)
             /\ Distinct(s)
             /\ \A v \in ToSet(s) : \E t \in open : v \in ToSet(FromDatabase(t, c, cursor, limit))
             /\ ~ opt.rocksdbDisabled =>
                  \A t \in open : ToSet(FromDatabase(t, c, cursor, limit)) \subseteq ToSet(s)
<1> DEFINE s == FromStore(c, cursor, limit)
           k == Cardinality(open)
           R(t) == FromDatabase(t, c, cursor, limit)
           seqs == [i \in 1 .. k |-> R(Nth(open, i))]
<1>1. CASE opt.rocksdbDisabled
  <2> DEFINE none == <<>>
  <2>1. s = none
    BY <1>1, Zenon DEF FromStore
  <2>2. none \in Seq(Message) /\ Distinct(none) /\ ToSet(none) = {}
    BY DEF Distinct, ToSet
  <2> HIDE DEF none, s
  <2>3. s \in Seq(Message) /\ Distinct(s) /\ \A v \in ToSet(s) : FALSE
    BY <2>1, <2>2, Zenon
  <2> QED
    BY <1>1, <2>3, Zenon DEF s
<1>2. CASE ~ opt.rocksdbDisabled
  <2>1. open \in SUBSET Int /\ IsFiniteSet(open) /\ open \subseteq Lifetimes
    <3>1. open \subseteq Lifetimes /\ Lifetimes \subseteq Nat
      BY FiniteLifetimes DEF IndInv, Scalars
    <3>2. IsFiniteSet(open)
      BY <3>1, FiniteLifetimes, FS_Subset
    <3>3. open \in SUBSET Int
      <4>1. \A t \in Nat : t \in Int
        OBVIOUS
      <4> QED
        BY <3>1, <4>1
    <3> QED
      BY <3>1, <3>2, <3>3
  <2>2. /\ k \in Nat
        /\ \A i \in 1 .. k : Nth(open, i) \in open
        /\ \A i, j \in 1 .. k : Nth(open, i) = Nth(open, j) => i = j
        /\ \A t \in open : \E i \in 1 .. k : Nth(open, i) = t
    BY <2>1, NthEnumerates
  <2>3. \A t \in open : /\ R(t) \in Seq(Message)
                        /\ Distinct(R(t))
                        /\ \A v \in ToSet(R(t)) : \E w \in Content(disk[t][c]) : w.arrival = v.arrival
    <3>1. \A t \in Lifetimes : /\ R(t) \in Seq(Message)
                               /\ Distinct(R(t))
                               /\ \A v \in ToSet(R(t)) :
                                    \E w \in Content(disk[t][c]) : w.arrival = v.arrival
      <4> SUFFICES ASSUME NEW t \in Lifetimes
                   PROVE  /\ R(t) \in Seq(Message)
                          /\ Distinct(R(t))
                          /\ \A v \in ToSet(R(t)) :
                               \E w \in Content(disk[t][c]) : w.arrival = v.arrival
        BY Zenon
      <4>1. LET r == FromDatabase(t, c, cursor, limit)
            IN  /\ r \in Seq(Message)
                /\ Distinct(r)
                /\ \A v \in ToSet(r) : /\ ~ Dead(v, now)
                                       /\ \E w \in Content(disk[t][c]) : w.arrival = v.arrival
        BY DatabaseReads
      <4> QED
        BY <4>1, Zenon
    <3> QED
      BY <2>1, <3>1, Zenon
  <2>4. \A t, u \in open : t # u => Apart(ToSet(R(t)), ToSet(R(u)))
    <3> SUFFICES ASSUME NEW t \in open, NEW u \in open, t # u
                 PROVE  Apart(ToSet(R(t)), ToSet(R(u)))
      BY Zenon
    <3>1. Apart(Content(disk[t][c]), Content(disk[u][c]))
      BY <2>1, Zenon DEF IndInv, DiskInv
    <3> HIDE DEF R
    <3> SUFFICES ASSUME NEW v \in ToSet(R(t)), NEW w \in ToSet(R(u))
                 PROVE  v.arrival # w.arrival
      BY Zenon DEF Apart
    <3>2. PICK y \in Content(disk[t][c]) : y.arrival = v.arrival
      BY <2>3, Zenon
    <3>3. PICK z \in Content(disk[u][c]) : z.arrival = w.arrival
      BY <2>3, Zenon
    <3> QED
      BY <3>1, <3>2, <3>3, Zenon DEF Apart
  <2>5. s = FlattenSeq(seqs)
    BY <1>2, Zenon DEF FromStore
  <2> HIDE DEF R, s, k
  <2>6. /\ DOMAIN seqs = 1 .. k
        /\ \A i \in 1 .. k : seqs[i] = R(Nth(open, i)) /\ seqs[i] \in Seq(Message)
    BY <2>2, <2>3, Zenon
  <2>7. seqs \in Seq(Seq(Message)) /\ Len(seqs) = k
    <3>1. seqs \in [1 .. k -> Seq(Message)]
      BY <2>6, Zenon
    <3> HIDE DEF seqs
    <3>2. seqs \in Seq(Seq(Message))
      BY <2>2, <3>1
    <3> QED
      BY <2>2, <3>1, <3>2
  <2> HIDE DEF seqs
  <2>8. /\ FlattenSeq(seqs) \in Seq(Message)
        /\ ToSet(FlattenSeq(seqs)) = UNION {ToSet(seqs[i]) : i \in 1 .. k}
        /\ (\A i \in 1 .. k : Distinct(seqs[i]))
             /\ (\A i, j \in 1 .. k : i # j => Apart(ToSet(seqs[i]), ToSet(seqs[j])))
           => Distinct(FlattenSeq(seqs))
    BY <2>2, <2>7, FlattenElements, ZenonT(60)
  <2>9. \A i, j \in 1 .. k : i # j => Apart(ToSet(seqs[i]), ToSet(seqs[j]))
    BY <2>2, <2>4, <2>6, Zenon
  <2>10. ASSUME NEW i \in 1 .. k
         PROVE  Distinct(seqs[i])
    <3>1. Nth(open, i) \in open /\ seqs[i] = R(Nth(open, i))
      BY <2>2, <2>6, Zenon
    <3>2. Distinct(R(Nth(open, i)))
      BY <2>3, <3>1, Zenon
    <3> QED
      BY <3>1, <3>2, Zenon
  <2>11. s \in Seq(Message) /\ Distinct(s)
    BY <2>5, <2>8, <2>9, <2>10, Zenon
  <2>12. \A v : v \in ToSet(s) <=> \E i \in 1 .. k : v \in ToSet(seqs[i])
    BY <2>5, <2>8, Zenon
  <2>13. \A v \in ToSet(s) : \E t \in open : v \in ToSet(R(t))
    BY <2>2, <2>6, <2>12, Zenon
  <2>14. \A t \in open : ToSet(R(t)) \subseteq ToSet(s)
    <3> SUFFICES ASSUME NEW t \in open, NEW v \in ToSet(R(t))
                 PROVE  v \in ToSet(s)
      BY Zenon
    <3>1. PICK i \in 1 .. k : Nth(open, i) = t
      BY <2>2, Zenon
    <3>2. seqs[i] = R(t)
      BY <2>6, <3>1, Zenon
    <3> QED
      BY <2>12, <3>2, Zenon
  <2> QED
    BY <2>11, <2>13, <2>14, Zenon DEF R, s
<1> QED
  BY <1>1, <1>2, Zenon

LEMMA QueueReads ==
  ASSUME IndInv, NEW c \in Channels, NEW cursor \in Int, NEW limit \in Nat
  PROVE  LET r == CopyFrom(channels, now, c, cursor, limit)
         IN  /\ r \in Seq(Message)
             /\ Distinct(r)
             /\ \A v \in ToSet(r) : /\ ~ Dead(v, now)
                                    /\ c \in DOMAIN channels
                                    /\ v \in ToSet(channels[c].msgs)
<1> DEFINE r == CopyFrom(channels, now, c, cursor, limit)
           found == FindAndRemoveDeath(channels, now, c)
           q == RemoveDeath(channels[c], now)
<1>1. Swept(channels, found, now, c)
  BY SweptQueue
<1> HIDE DEF found
<1>2. CASE c \in DOMAIN found
  <2>1. c \in DOMAIN channels /\ found[c] = q
    <3>1. DOMAIN found = DOMAIN channels \ {c} => c \notin DOMAIN found
      OBVIOUS
    <3> QED
      BY <1>1, <1>2, <3>1, Zenon DEF Swept
  <2>2. now \in Int
    BY ScalarTypes DEF IndInv
  <2>3. SoundQueue(channels[c]) /\ \A v \in ToSet(channels[c].msgs) : Traces(v, c, Cached(pc, log), log)
    BY <2>1, Zenon DEF IndInv, MapInv, QueueSound
  <2>4. SoundQueue(q) /\ ToSet(q.msgs) = {v \in ToSet(channels[c].msgs) : ~ Dead(v, now)}
    BY <2>2, <2>3, RemoveDeathSound
  <2>5. r = CopyTo(q, cursor, limit)
    BY <1>2, <2>1, Zenon DEF CopyFrom, found
  <2> HIDE DEF r, q
  <2>6. r \in Seq(Message) /\ Ordered(r) /\ ToSet(r) \subseteq ToSet(q.msgs)
    BY <2>4, <2>5, CopyToPart
  <2>7. \A v \in ToSet(r) : v \in ToSet(channels[c].msgs) /\ ~ Dead(v, now)
    BY <2>4, <2>6
  <2>8. Distinct(r)
    BY <2>3, <2>6, <2>7, TracedDistinct
  <2> QED
    BY <2>1, <2>6, <2>7, <2>8, Zenon DEF r
<1>3. CASE c \notin DOMAIN found
  <2> DEFINE none == <<>>
  <2>1. r = none
    BY <1>3, Zenon DEF CopyFrom, found
  <2>2. none \in Seq(Message) /\ Distinct(none) /\ ToSet(none) = {}
    BY DEF Distinct, ToSet
  <2> HIDE DEF none, r
  <2>3. r \in Seq(Message) /\ Distinct(r) /\ \A v \in ToSet(r) : FALSE
    BY <2>1, <2>2, Zenon
  <2> QED
    BY <2>3, Zenon DEF r
<1> QED
  BY <1>2, <1>3

\* The cursor from which everything is read.
Start == Min({x.msg.cursor : x \in Inputs})

LEMMA StartIsFirst == Start \in Int /\ \A x \in Inputs : Start <= x.msg.cursor
<1> DEFINE S == {x.msg.cursor : x \in Inputs}
<1>1. \A x \in Inputs : x.msg.cursor \in Int
  BY InputsAssumption, MessageFields
<1>2. \E i \in S : \A j \in S : i <= j
  BY CursorsAssumption, Zenon
<1>3. Min(S) \in S /\ \A j \in S : Min(S) <= j
  BY <1>2, Zenon DEF Min
<1> QED
  BY <1>1, <1>3, Zenon DEF Start
-----------------------------------------------------------------------------
(***************************************************************************)
(* No message twice.  A message on disk is persistent, or its queue was    *)
(* lost since, or the process runs with persistent_default and asks the    *)
(* queues only if the databases have nothing; a message in a queue was put *)
(* there since the queues were last lost, and is not persistent.           *)
(***************************************************************************)
OnDisk(entry, e, o) == entry.persistent \/ entry.cached < e \/ o.persistentDefault

InQueue(entry, e) == entry.cached = e /\ ~ entry.persistent

DiskMarked(d, l, e, o) ==
  \A t \in Lifetimes, c \in Channels : \A v \in Content(d[t][c]) : OnDisk(l[v.arrival], e, o)

QueuesMarked(map, l, e) ==
  \A c \in DOMAIN map : \A v \in ToSet(map[c].msgs) : InQueue(l[v.arrival], e)

EpochInv ==
  /\ epoch >= 1
  /\ \A i \in 1 .. Len(log) : log[i].cached <= epoch
  /\ pc \in {"store", "cache"} => This.cached = IF ToCache(This.persistent) THEN epoch ELSE 0

TwiceInv ==
  /\ EpochInv
  /\ DiskMarked(disk, log, epoch, opt)
  /\ QueuesMarked(channels, log, epoch)

LEMMA InitTwiceInv == Init => TwiceInv
<1> SUFFICES ASSUME Init
             PROVE  TwiceInv
  OBVIOUS
<1>1. EpochInv
  BY DEF Init, EpochInv
<1>2. DiskMarked(disk, log, epoch, opt)
  <2>1. Content(NoValue) = {}
    BY DEF NoValue, Content, ToSet
  <2>2. \A t \in Lifetimes, c \in Channels : disk[t][c] = NoValue
    BY DEF Init
  <2> QED
    BY <2>1, <2>2 DEF DiskMarked
<1>3. QueuesMarked(channels, log, epoch)
  <2>1. DOMAIN channels = {}
    BY DEF Init, NoChannels
  <2> QED
    BY <2>1 DEF QueuesMarked
<1> QED
  BY <1>1, <1>2, <1>3 DEF TwiceInv

\* What the databases and the queues hold has arrived.
LEMMA HasArrived ==
  ASSUME IndInv
  PROVE  /\ Len(log) \in Nat
         /\ \A t \in Lifetimes, c \in Channels : \A v \in Content(disk[t][c]) :
              v.arrival \in 1 .. Len(log) /\ Traces(v, c, Len(log), log)
         /\ \A c \in DOMAIN channels : \A v \in ToSet(channels[c].msgs) :
              v.arrival \in 1 .. Len(log) /\ Traces(v, c, Len(log), log)
<1> DEFINE n == Len(log)
           k == Stored(pc, log)
           q == Cached(pc, log)
<1>1. n \in Nat
  BY EntryFields DEF IndInv
<1>2. k \in Nat /\ k <= n /\ q \in Nat /\ q <= n
  <2>1. pc \in {"store", "cache"} => n \in 1 .. n
    BY ThisFields
  <2> QED
    BY <1>1, <2>1 DEF Stored, Cached
<1>3. SameOrigins(k, log, log) /\ SameOrigins(q, log, log)
  BY DEF SameOrigins
<1> HIDE DEF n, k, q
<1>4. DiskInv(disk, n, log)
  <2>1. DiskInv(disk, k, log)
    BY DEF IndInv, k
  <2> QED
    BY <1>1, <1>2, <1>3, <2>1, DiskOn
<1>5. MapInv(channels, n, log)
  <2>1. MapInv(channels, q, log)
    BY DEF IndInv, q
  <2> QED
    BY <1>1, <1>2, <1>3, <2>1, MapOn
<1>6. \A v, c : Traces(v, c, n, log) => v.arrival \in 1 .. n
  BY Zenon DEF Traces
<1> QED
  BY <1>1, <1>4, <1>5, <1>6, Zenon DEF DiskInv, KeySound, MapInv, QueueSound, n
SameReceipts(n, l, l2) ==
  \A i \in 1 .. n : l2[i].cached = l[i].cached /\ l2[i].persistent = l[i].persistent

LEMMA DiskMarksOn ==
  ASSUME NEW n, NEW l, NEW l2, SameReceipts(n, l, l2), NEW e, NEW o, NEW d, NEW d2,
         \A t \in Lifetimes, c \in Channels : \A v \in Content(d[t][c]) : v.arrival \in 1 .. n,
         DiskMarked(d, l, e, o),
         \A t \in Lifetimes, c \in Channels : \A v \in Content(d2[t][c]) :
           \/ \E w \in Content(d[t][c]) : w.arrival = v.arrival
           \/ OnDisk(l2[v.arrival], e, o)
  PROVE  DiskMarked(d2, l2, e, o)
<1> SUFFICES ASSUME NEW t \in Lifetimes, NEW c \in Channels, NEW v \in Content(d2[t][c]),
                    NEW w \in Content(d[t][c]), w.arrival = v.arrival
             PROVE  OnDisk(l2[v.arrival], e, o)
  BY Zenon DEF DiskMarked
<1>1. OnDisk(l[v.arrival], e, o) /\ v.arrival \in 1 .. n
  BY Zenon DEF DiskMarked
<1>2. l2[v.arrival].cached = l[v.arrival].cached /\ l2[v.arrival].persistent = l[v.arrival].persistent
  BY <1>1, Zenon DEF SameReceipts
<1> QED
  BY <1>1, <1>2, Zenon DEF OnDisk

LEMMA QueueMarksOn ==
  ASSUME NEW n, NEW l, NEW l2, SameReceipts(n, l, l2), NEW e, NEW map, NEW map2,
         \A c \in DOMAIN map : \A v \in ToSet(map[c].msgs) : v.arrival \in 1 .. n,
         QueuesMarked(map, l, e),
         \A c \in DOMAIN map2 : \A v \in ToSet(map2[c].msgs) :
           \/ c \in DOMAIN map /\ \E w \in ToSet(map[c].msgs) : w.arrival = v.arrival
           \/ InQueue(l2[v.arrival], e)
  PROVE  QueuesMarked(map2, l2, e)
<1> SUFFICES ASSUME NEW c \in DOMAIN map2, NEW v \in ToSet(map2[c].msgs), c \in DOMAIN map,
                    NEW w \in ToSet(map[c].msgs), w.arrival = v.arrival
             PROVE  InQueue(l2[v.arrival], e)
  BY Zenon DEF QueuesMarked
<1>1. InQueue(l[v.arrival], e) /\ v.arrival \in 1 .. n
  BY Zenon DEF QueuesMarked
<1>2. l2[v.arrival].cached = l[v.arrival].cached /\ l2[v.arrival].persistent = l[v.arrival].persistent
  BY <1>1, Zenon DEF SameReceipts
<1> QED
  BY <1>1, <1>2, Zenon DEF InQueue

\* The queues after a step that changes neither the log nor what they hold but for the dead.
LEMMA SweptElements ==
  ASSUME IndInv, NEW c \in Channels, NEW map2, Swept(channels, map2, now, c)
  PROVE  \A e \in DOMAIN map2 :
           e \in DOMAIN channels /\ ToSet(map2[e].msgs) \subseteq ToSet(channels[e].msgs)
<1> SUFFICES ASSUME NEW e \in DOMAIN map2
             PROVE  e \in DOMAIN channels /\ ToSet(map2[e].msgs) \subseteq ToSet(channels[e].msgs)
  BY Zenon
<1>1. CASE map2 = channels
  BY <1>1
<1>2. CASE map2 # channels
  <2>1. c \in DOMAIN channels /\ SameBut(channels, map2, c)
        /\ (e = c => map2[c] = RemoveDeath(channels[c], now))
    <3>1. DOMAIN map2 = DOMAIN channels \ {c} => c \notin DOMAIN map2
      OBVIOUS
    <3> QED
      BY <1>2, <3>1, Zenon DEF Swept
  <2>2. e \in DOMAIN channels
    BY <2>1 DEF SameBut
  <2>3. CASE e # c
    <3>1. map2[e] = channels[e]
      BY <2>1, <2>3, Zenon DEF SameBut
    <3> QED
      BY <2>2, <3>1
  <2>4. CASE e = c
    <3>1. SoundQueue(channels[c]) /\ now \in Int
      BY <2>1, ScalarTypes, Zenon DEF IndInv, MapInv, QueueSound
    <3>2. ToSet(RemoveDeath(channels[c], now).msgs) \subseteq ToSet(channels[c].msgs)
      BY <3>1, RemoveDeathSound
    <3> QED
      BY <2>1, <2>2, <2>4, <3>2, Zenon
  <2> QED
    BY <2>3, <2>4
<1> QED
  BY <1>1, <1>2

LEMMA PublishTwiceInv ==
  ASSUME IndInv, TwiceInv, NEW c \in Channels, NEW input \in Inputs, Publish(c, input)
  PROVE  TwiceInv'
<1> DEFINE n == Len(log)
           e == Entry(c, Taken(input), input.persistent)
<1>1. /\ n \in Nat
      /\ \A t \in Lifetimes, k \in Channels : \A v \in Content(disk[t][k]) : v.arrival \in 1 .. n
      /\ \A k \in DOMAIN channels : \A v \in ToSet(channels[k].msgs) : v.arrival \in 1 .. n
  BY HasArrived
<1>2. EpochInv /\ DiskMarked(disk, log, epoch, opt) /\ QueuesMarked(channels, log, epoch)
  BY DEF TwiceInv
<1>3. /\ Len(log') = n + 1
      /\ \A i \in 1 .. n : log'[i] = log[i]
      /\ log'[n + 1] = e
  BY PublishLogs
<1>4. opt' = opt /\ channels' = channels /\ disk' = disk /\ epoch' = epoch
  BY DEF Publish, store
<1>5. SameReceipts(n, log, log')
  BY <1>3, Zenon DEF SameReceipts
<1>6. DiskMarked(disk, log', epoch, opt)
  <2>1. \A t \in Lifetimes, k \in Channels : \A v \in Content(disk[t][k]) :
          \E w \in Content(disk[t][k]) : w.arrival = v.arrival
    BY Zenon
  <2> QED
    BY <1>1, <1>2, <1>5, <2>1, DiskMarksOn
<1>7. QueuesMarked(channels, log', epoch)
  <2>1. \A k \in DOMAIN channels : \A v \in ToSet(channels[k].msgs) :
          k \in DOMAIN channels /\ \E w \in ToSet(channels[k].msgs) : w.arrival = v.arrival
    BY Zenon
  <2> QED
    BY <1>1, <1>2, <1>5, <2>1, QueueMarksOn
<1>8. /\ e.persistent = input.persistent
      /\ e.cached = IF ToCache(input.persistent) THEN epoch ELSE 0
  BY DEF Entry
<1>9. EpochInv'
  <2>1. epoch \in Nat /\ epoch >= 1 /\ e.cached <= epoch
    BY <1>2, <1>8 DEF EpochInv, IndInv, Scalars
  <2>2. \A i \in 1 .. n + 1 : log'[i].cached <= epoch
    <3>1. \A i \in 1 .. n : log[i].cached <= epoch
      BY <1>2, Zenon DEF EpochInv
    <3>2. \A i \in 1 .. n + 1 : i \in 1 .. n \/ i = n + 1
      BY <1>1
    <3> QED
      BY <1>3, <2>1, <3>1, <3>2, Zenon
  <2>3. This' = e
    BY <1>3, Zenon DEF This
  <2>4. ToCache(input.persistent)' <=> ToCache(input.persistent)
    BY <1>4 DEF ToCache
  <2>5. ToCache(This.persistent)' <=> ToCache(input.persistent)
    BY <1>4, <1>8, <2>3 DEF ToCache
  <2> HIDE DEF e
  <2> QED
    BY <1>3, <1>4, <1>8, <2>1, <2>2, <2>3, <2>5, Zenon DEF EpochInv
<1> QED
  BY <1>4, <1>6, <1>7, <1>9, Zenon DEF TwiceInv
LEMMA StoreTwiceInv ==
  ASSUME IndInv, TwiceInv, Store
  PROVE  TwiceInv'
<1> DEFINE n == Len(log)
<1>1. /\ n \in Nat
      /\ \A t \in Lifetimes, k \in Channels : \A v \in Content(disk[t][k]) : v.arrival \in 1 .. n
      /\ \A k \in DOMAIN channels : \A v \in ToSet(channels[k].msgs) : v.arrival \in 1 .. n
  BY HasArrived
<1>2. EpochInv /\ DiskMarked(disk, log, epoch, opt) /\ QueuesMarked(channels, log, epoch)
  BY DEF TwiceInv
<1>3. /\ pc = "store" /\ pc' = "cache" /\ opt' = opt /\ channels' = channels /\ epoch' = epoch
      /\ open' = open
  BY DEF Store
<1>4. n \in 1 .. n /\ This = log[n] /\ This \in EntryType /\ This.msg.arrival = n
  BY <1>3, ThisFields
<1>5. /\ Len(log') = n
      /\ SameReceipts(n, log, log')
      /\ This'.cached = This.cached
      /\ This'.persistent = This.persistent
      /\ log' = log \/ disk' = disk
  <2>1. CASE log' = log
    <3>1. This' = This
      BY <2>1, Zenon DEF This
    <3> QED
      BY <2>1, <3>1, Zenon DEF SameReceipts
  <2>2. CASE Failed(log') /\ disk' = disk
    <3> DEFINE d == [This EXCEPT !.durable = FALSE]
    <3>1. d.cached = This.cached /\ d.persistent = This.persistent
      BY <1>4 DEF EntryType
    <3>2. Len(log') = n /\ log'[n] = d /\ \A i \in 1 .. n : i # n => log'[i] = log[i]
      BY <2>2, Zenon DEF Failed
    <3>3. This' = d
      BY <3>2, Zenon DEF This
    <3> HIDE DEF d
    <3>4. \A i \in 1 .. n : log'[i].cached = log[i].cached /\ log'[i].persistent = log[i].persistent
      BY <1>4, <3>1, <3>2, Zenon
    <3> QED
      BY <2>2, <3>1, <3>2, <3>3, <3>4, Zenon DEF SameReceipts
  <2>3. log' = log \/ (log' = [log EXCEPT ![Len(log)].durable = FALSE] /\ disk' = disk)
    BY Zenon DEF Store
  <2>4. Failed([log EXCEPT ![Len(log)].durable = FALSE])
    BY <1>3, MarkThis
  <2> QED
    BY <2>1, <2>2, <2>3, <2>4, Zenon
<1>6. \A t \in Lifetimes, k \in Channels : \A v \in Content(disk'[t][k]) :
        \/ \E w \in Content(disk[t][k]) : w.arrival = v.arrival
        \/ OnDisk(log'[v.arrival], epoch, opt)
  <2>1. CASE disk' = disk
    BY <2>1, Zenon
  <2>2. CASE /\ log' = log /\ ToStore(This.persistent) /\ open # {}
             /\ MergeInto(Database(This.msg.lifetime), This.channel, This.msg)
    <3> DEFINE t == Database(This.msg.lifetime)
               c == This.channel
    <3>1. /\ KeyStep(disk, disk', t, c, n - 1)
          /\ Content(disk'[t][c]) = Content(disk[t][c]) \cup {This.msg}
      BY <1>3, <2>2, MergedInto, Zenon
    <3>2. OnDisk(log'[n], epoch, opt)
      <4>1. This.persistent \/ opt.persistentDefault
        BY <2>2, Zenon DEF ToStore
      <4> QED
        BY <1>4, <2>2, <4>1, Zenon DEF OnDisk
    <3> HIDE DEF t, c
    <3> SUFFICES ASSUME NEW u \in Lifetimes, NEW k \in Channels, NEW v \in Content(disk'[u][k])
                 PROVE  \/ \E w \in Content(disk[u][k]) : w.arrival = v.arrival
                        \/ OnDisk(log'[v.arrival], epoch, opt)
      BY Zenon
    <3>3. CASE u = t /\ k = c
      <4>1. v \in Content(disk[t][c]) \/ v = This.msg
        BY <3>1, <3>3
      <4> QED
        BY <1>4, <3>2, <3>3, <4>1, Zenon
    <3>4. CASE u # t \/ k # c
      <4>1. disk'[u][k] = disk[u][k]
        BY <3>1, <3>4, Zenon DEF KeyStep
      <4> QED
        BY <4>1, Zenon
    <3> QED
      BY <3>3, <3>4, Zenon
  <2> QED
    BY <2>1, <2>2, Zenon DEF Store
<1>7. DiskMarked(disk', log', epoch, opt)
  BY <1>1, <1>2, <1>5, <1>6, DiskMarksOn
<1>8. QueuesMarked(channels, log', epoch)
  <2>1. \A k \in DOMAIN channels : \A v \in ToSet(channels[k].msgs) :
          k \in DOMAIN channels /\ \E w \in ToSet(channels[k].msgs) : w.arrival = v.arrival
    BY Zenon
  <2> QED
    BY <1>1, <1>2, <1>5, <2>1, QueueMarksOn
<1>9. EpochInv'
  <2>1. \A i \in 1 .. Len(log') : log'[i].cached <= epoch
    BY <1>2, <1>5, Zenon DEF EpochInv, SameReceipts
  <2>2. This.cached = IF ToCache(This.persistent) THEN epoch ELSE 0
    BY <1>2, <1>3, Zenon DEF EpochInv
  <2>3. ToCache(This.persistent)' <=> ToCache(This.persistent)
    BY <1>3, <1>5 DEF ToCache
  <2> QED
    BY <1>2, <1>3, <1>5, <2>1, <2>2, <2>3, Zenon DEF EpochInv
<1> QED
  BY <1>3, <1>7, <1>8, <1>9, Zenon DEF TwiceInv

LEMMA CacheTwiceInv ==
  ASSUME IndInv, TwiceInv, Cache
  PROVE  TwiceInv'
<1> DEFINE n == Len(log)
           c == This.channel
<1>1. /\ n \in Nat
      /\ \A k \in DOMAIN channels : \A v \in ToSet(channels[k].msgs) : v.arrival \in 1 .. n
  BY HasArrived
<1>2. EpochInv /\ DiskMarked(disk, log, epoch, opt) /\ QueuesMarked(channels, log, epoch)
  BY DEF TwiceInv
<1>3. /\ pc = "cache" /\ pc' = "fire" /\ opt' = opt /\ disk' = disk /\ log' = log
      /\ epoch' = epoch
  BY DEF Cache, store
<1>4. This = log[n] /\ This.msg.arrival = n /\ This.msg \in Message /\ now \in Int
  BY <1>3, ThisFields, ScalarTypes DEF IndInv
<1>5. \A k \in DOMAIN channels' : \A v \in ToSet(channels'[k].msgs) :
        \/ k \in DOMAIN channels /\ \E w \in ToSet(channels[k].msgs) : w.arrival = v.arrival
        \/ InQueue(log[v.arrival], epoch)
  <2>1. CASE channels' = channels
    BY <2>1, Zenon
  <2>2. CASE ToCache(This.persistent) /\ channels' # channels
    <3> DEFINE q == QueueOf(channels, c)
               m == This.msg
    <3>1. channels' = PushTo(channels, now, c, m)
      BY <2>2, Zenon DEF Cache
    <3>2. Pushed(channels, channels', now, c, m)
      BY <3>1, PushToQueue, Zenon
    <3>3. SameBut(channels, channels', c) /\ channels'[c] = Push(q, now, m)
      BY <2>2, <3>2, Zenon DEF Pushed
    <3>4. SoundQueue(q) /\ NewerThan(m, q.msgs)
      BY <1>3, PushIsSound, Zenon DEF QueueSound
    <3>5. ToSet(q.msgs) = IF c \in DOMAIN channels THEN ToSet(channels[c].msgs) ELSE {}
      BY EmptySound, Zenon DEF QueueOf
    <3>6. InQueue(log[m.arrival], epoch)
      BY <1>2, <1>3, <1>4, <2>2, Zenon DEF EpochInv, InQueue, ToCache
    <3> SUFFICES ASSUME NEW k \in DOMAIN channels', NEW v \in ToSet(channels'[k].msgs)
                 PROVE  \/ /\ k \in DOMAIN channels
                           /\ \E w \in ToSet(channels[k].msgs) : w.arrival = v.arrival
                        \/ InQueue(log[v.arrival], epoch)
      BY Zenon
    <3>7. CASE k # c
      <4>1. k \in DOMAIN channels /\ channels'[k] = channels[k]
        BY <3>3, <3>7 DEF SameBut
      <4> QED
        BY <4>1, Zenon
    <3>8. CASE k = c
      <4> HIDE DEF q, m, c
      <4>1. v \in ToSet(Push(q, now, m).msgs) /\ m \in Message
        BY <1>4, <3>3, <3>8 DEF m
      <4>2. PICK u \in ToSet(q.msgs) \cup {m} : v.cursor = u.cursor /\ v.arrival = u.arrival
        BY <1>4, <3>4, <4>1, PushedMarks
      <4>3. u \in ToSet(q.msgs) \/ u = m
        BY <4>2
      <4>4. u \in ToSet(q.msgs) => c \in DOMAIN channels /\ u \in ToSet(channels[c].msgs)
        BY <3>5
      <4> QED
        BY <3>6, <3>8, <4>2, <4>3, <4>4, Zenon
    <3> QED
      BY <3>7, <3>8
  <2> QED
    BY <2>1, <2>2, Zenon DEF Cache
<1>6. SameReceipts(n, log, log)
  BY DEF SameReceipts
<1>7. QueuesMarked(channels', log, epoch)
  BY <1>1, <1>2, <1>5, <1>6, QueueMarksOn
<1>8. EpochInv'
  BY <1>2, <1>3 DEF EpochInv
<1> QED
  BY <1>2, <1>3, <1>7, <1>8, Zenon DEF TwiceInv

LEMMA FireTwiceInv ==
  ASSUME IndInv, TwiceInv, Fire
  PROVE  TwiceInv'
<1> DEFINE n == Len(log)
           f == [This EXCEPT !.fired = TRUE]
<1>1. /\ n \in Nat
      /\ \A t \in Lifetimes, k \in Channels : \A v \in Content(disk[t][k]) : v.arrival \in 1 .. n
      /\ \A k \in DOMAIN channels : \A v \in ToSet(channels[k].msgs) : v.arrival \in 1 .. n
  BY HasArrived
<1>2. EpochInv /\ DiskMarked(disk, log, epoch, opt) /\ QueuesMarked(channels, log, epoch)
  BY DEF TwiceInv
<1>3. /\ pc = "fire" /\ pc' = "idle" /\ opt' = opt /\ channels' = channels /\ disk' = disk
      /\ epoch' = epoch
  BY DEF Fire, store
<1>4. n \in 1 .. n /\ This = log[n] /\ This \in EntryType
  BY <1>3, ThisFields
<1>5. Fired(log')
  <2>1. Fired([log EXCEPT ![Len(log)].fired = TRUE])
    BY <1>3, MarkThis
  <2> QED
    BY <2>1, Zenon DEF Fire
<1>6. Len(log') = n /\ log'[n] = f /\ \A i \in 1 .. n : i # n => log'[i] = log[i]
  BY <1>5, Zenon DEF Fired
<1>7. f.cached = This.cached /\ f.persistent = This.persistent
  BY <1>4 DEF EntryType
<1> HIDE DEF f
<1>8. SameReceipts(n, log, log')
  BY <1>4, <1>6, <1>7, Zenon DEF SameReceipts
<1>9. DiskMarked(disk, log', epoch, opt)
  <2>1. \A t \in Lifetimes, k \in Channels : \A v \in Content(disk[t][k]) :
          \E w \in Content(disk[t][k]) : w.arrival = v.arrival
    BY Zenon
  <2> QED
    BY <1>1, <1>2, <1>8, <2>1, DiskMarksOn
<1>10. QueuesMarked(channels, log', epoch)
  <2>1. \A k \in DOMAIN channels : \A v \in ToSet(channels[k].msgs) :
          k \in DOMAIN channels /\ \E w \in ToSet(channels[k].msgs) : w.arrival = v.arrival
    BY Zenon
  <2> QED
    BY <1>1, <1>2, <1>8, <2>1, QueueMarksOn
<1>11. EpochInv'
  <2>1. \A i \in 1 .. Len(log') : log'[i].cached <= epoch
    BY <1>2, <1>6, <1>8, Zenon DEF EpochInv, SameReceipts
  <2> QED
    BY <1>2, <1>3, <2>1 DEF EpochInv
<1> QED
  BY <1>3, <1>9, <1>10, <1>11, Zenon DEF TwiceInv
\* Steps after which the queues hold no more than before, and nothing is noted down.
LEMMA FewerTwiceInv ==
  ASSUME IndInv, TwiceInv, log' = log, epoch' = epoch, opt' = opt, pc' = pc,
         \A t \in Lifetimes, c \in Channels : \A v \in Content(disk'[t][c]) :
           \E w \in Content(disk[t][c]) : w.arrival = v.arrival,
         \A c \in DOMAIN channels' :
           c \in DOMAIN channels /\ ToSet(channels'[c].msgs) \subseteq ToSet(channels[c].msgs)
  PROVE  TwiceInv'
<1> DEFINE n == Len(log)
<1>1. /\ \A t \in Lifetimes, k \in Channels : \A v \in Content(disk[t][k]) : v.arrival \in 1 .. n
      /\ \A k \in DOMAIN channels : \A v \in ToSet(channels[k].msgs) : v.arrival \in 1 .. n
  BY HasArrived
<1>2. EpochInv /\ DiskMarked(disk, log, epoch, opt) /\ QueuesMarked(channels, log, epoch)
  BY DEF TwiceInv
<1>3. SameReceipts(n, log, log)
  BY DEF SameReceipts
<1>4. DiskMarked(disk', log, epoch, opt)
  BY <1>1, <1>2, <1>3, DiskMarksOn
<1>5. QueuesMarked(channels', log, epoch)
  <2>1. \A c \in DOMAIN channels' : \A v \in ToSet(channels'[c].msgs) :
          c \in DOMAIN channels /\ \E w \in ToSet(channels[c].msgs) : w.arrival = v.arrival
    BY Zenon
  <2> QED
    BY <1>1, <1>2, <1>3, <2>1, QueueMarksOn
<1>6. EpochInv'
  <2>1. This' = This
    BY Zenon DEF This
  <2>2. ToCache(This.persistent)' <=> ToCache(This.persistent)
    BY <2>1 DEF ToCache
  <2> QED
    BY <1>2, <2>1, <2>2, Zenon DEF EpochInv
<1> QED
  BY <1>4, <1>5, <1>6, Zenon DEF TwiceInv

LEMMA LostTwiceInv ==
  ASSUME IndInv, TwiceInv, epoch' = epoch + 1, channels' = NoChannels, pc' = "idle",
         disk' = disk, log' = log
  PROVE  TwiceInv'
<1>1. /\ epoch \in Nat /\ epoch >= 1
      /\ \A i \in 1 .. Len(log) : log[i].cached \in Nat /\ log[i].cached <= epoch
  BY EntryFields DEF IndInv, Scalars, TwiceInv, EpochInv
<1>2. \A i \in 1 .. Len(log) : log[i].cached < epoch + 1 /\ log[i].cached <= epoch + 1
  BY <1>1
<1>3. DiskMarked(disk, log, epoch + 1, opt')
  <2>1. \A t \in Lifetimes, k \in Channels : \A v \in Content(disk[t][k]) :
          v.arrival \in 1 .. Len(log)
    BY HasArrived
  <2> QED
    BY <1>2, <2>1, Zenon DEF DiskMarked, OnDisk
<1>4. QueuesMarked(channels', log, epoch + 1)
  <2>1. DOMAIN channels' = {}
    BY NoChannelsSound
  <2> QED
    BY <2>1 DEF QueuesMarked
<1>5. EpochInv'
  BY <1>1, <1>2 DEF EpochInv
<1> QED
  BY <1>3, <1>4, <1>5, Zenon DEF TwiceInv

LEMMA NextTwiceInv == IndInv /\ TwiceInv /\ [Next]_vars => TwiceInv'
<1> SUFFICES ASSUME IndInv, TwiceInv, [Next]_vars
             PROVE  TwiceInv'
  OBVIOUS
<1>1. ASSUME NEW c \in Channels, NEW input \in Inputs, Publish(c, input)
      PROVE  TwiceInv'
  BY <1>1, PublishTwiceInv
<1>2. CASE Store
  BY <1>2, StoreTwiceInv
<1>3. CASE Cache
  BY <1>3, CacheTwiceInv
<1>4. CASE Fire
  BY <1>4, FireTwiceInv
<1>5. /\ \A t \in Lifetimes, c \in Channels : \A v \in Content(disk[t][c]) :
           \E w \in Content(disk[t][c]) : w.arrival = v.arrival
      /\ \A c \in DOMAIN channels :
           c \in DOMAIN channels /\ ToSet(channels[c].msgs) \subseteq ToSet(channels[c].msgs)
  BY Zenon
<1>6. ASSUME NEW c \in Channels, NEW cursor, DoGetMessages(c, cursor, MaxPushes)
      PROVE  TwiceInv'
  <2>1. /\ channels' = FindAndRemoveDeath(channels, now, c)
        /\ log' = log /\ epoch' = epoch /\ opt' = opt /\ pc' = pc /\ disk' = disk
    BY <1>6 DEF DoGetMessages, store, observers
  <2>2. Swept(channels, channels', now, c)
    BY <2>1, SweptQueue, Zenon
  <2>3. \A e \in DOMAIN channels' :
          e \in DOMAIN channels /\ ToSet(channels'[e].msgs) \subseteq ToSet(channels[e].msgs)
    BY <2>2, SweptElements
  <2> QED
    BY <1>5, <2>1, <2>3, FewerTwiceInv
<1>7. CASE DoGetRemoved
  <2>1. /\ channels' = ResetCounters(channels)
        /\ log' = log /\ epoch' = epoch /\ opt' = opt /\ pc' = pc /\ disk' = disk
    BY <1>7 DEF DoGetRemoved, store
  <2>2. \A c \in DOMAIN channels' : c \in DOMAIN channels /\ channels'[c].msgs = channels[c].msgs
    <3>1. MapInv(channels, Cached(pc, log), log)
      BY DEF IndInv
    <3>2. /\ DOMAIN channels' = DOMAIN channels
          /\ \A c \in DOMAIN channels : channels'[c] = ResetRemoved(channels[c])
      BY <2>1, <3>1, ResetMap
    <3>3. \A c \in DOMAIN channels : ResetRemoved(channels[c]).msgs = channels[c].msgs
      BY <3>1, ResetSound, Zenon DEF MapInv, QueueSound
    <3> QED
      BY <3>2, <3>3, Zenon
  <2>3. \A e \in DOMAIN channels' :
          e \in DOMAIN channels /\ ToSet(channels'[e].msgs) \subseteq ToSet(channels[e].msgs)
    BY <2>2, Zenon
  <2> QED
    BY <1>5, <2>1, <2>3, FewerTwiceInv
<1>8. CASE Reset
  BY <1>8, LostTwiceInv DEF Reset, store
<1>9. ASSUME NEW o \in Options, NEW n \in 0 .. Len(Ttls), Restart(o, n)
      PROVE  TwiceInv'
  BY <1>9, LostTwiceInv DEF Restart
<1>10. ASSUME NEW t \in Lifetimes, NEW c \in Channels, LostOnly(disk, disk', t, c),
              UNCHANGED <<opt, channels, open, now, pc, observers>>
       PROVE  TwiceInv'
  <2>1. log' = log /\ epoch' = epoch /\ opt' = opt /\ pc' = pc /\ channels' = channels
    BY <1>10 DEF observers
  <2>2. \A u \in Lifetimes, k \in Channels : \A v \in Content(disk'[u][k]) :
          \E w \in Content(disk[u][k]) : w.arrival = v.arrival
    BY <1>10, Zenon DEF LostOnly
  <2> QED
    BY <1>5, <2>1, <2>2, FewerTwiceInv
<1>11. ASSUME NEW t \in open, NEW c \in Channels, Expire(t, c)
       PROVE  TwiceInv'
  <2>1. t \in Lifetimes /\ LostOnly(disk, disk', t, c)
    BY <1>11, ExpireIndInv
  <2> QED
    BY <1>10, <1>11, <2>1 DEF Expire
<1>12. ASSUME NEW t \in open, NEW c \in Channels, NEW n \in 1 .. Len(disk[t][c].operands),
              Compact(t, c, n)
       PROVE  TwiceInv'
  <2>1. t \in Lifetimes /\ LostOnly(disk, disk', t, c)
    BY <1>12, CompactIndInv
  <2> QED
    BY <1>10, <1>12, <2>1 DEF Compact
<1>13. CASE Close
  BY <1>5, <1>13, FewerTwiceInv DEF Close, observers
<1>14. ASSUME NEW time \in From(now), SetClock(time)
       PROVE  TwiceInv'
  BY <1>5, <1>14, FewerTwiceInv DEF SetClock, store, observers
<1>15. CASE UNCHANGED vars
  BY <1>5, <1>15, FewerTwiceInv DEF vars, store, observers
<1> QED
  BY <1>1, <1>2, <1>3, <1>4, <1>6, <1>7, <1>8, <1>9, <1>11, <1>12, <1>13, <1>14, <1>15, Zenon
     DEF Next

\* Between two publishes a list from the databases and a list from the queue have nothing in
\* common where both are read.
LEMMA ReadDistinct ==
  ASSUME IndInv, TwiceInv, NEW c \in Channels, NEW cursor \in Int, NEW limit \in Nat
  PROVE  Distinct(Read(c, cursor, limit))
<1> DEFINE s == FromStore(c, cursor, limit)
           r == CopyFrom(channels, now, c, cursor, limit)
           none == <<>>
<1>1. /\ s \in Seq(Message)
      /\ Distinct(s)
      /\ \A v \in ToSet(s) : \E t \in open : v \in ToSet(FromDatabase(t, c, cursor, limit))
  <2>1. LET x == FromStore(c, cursor, limit)
        IN  /\ x \in Seq(Message)
            /\ Distinct(x)
            /\ \A v \in ToSet(x) : \E t \in open : v \in ToSet(FromDatabase(t, c, cursor, limit))
            /\ ~ opt.rocksdbDisabled =>
                 \A t \in open : ToSet(FromDatabase(t, c, cursor, limit)) \subseteq ToSet(x)
    BY StoreReads
  <2> QED
    BY <2>1, Zenon
<1>2. /\ r \in Seq(Message)
      /\ Distinct(r)
      /\ \A v \in ToSet(r) : c \in DOMAIN channels /\ v \in ToSet(channels[c].msgs)
  <2>1. LET x == CopyFrom(channels, now, c, cursor, limit)
        IN  /\ x \in Seq(Message)
            /\ Distinct(x)
            /\ \A v \in ToSet(x) : /\ ~ Dead(v, now)
                                   /\ c \in DOMAIN channels
                                   /\ v \in ToSet(channels[c].msgs)
    BY QueueReads
  <2> QED
    BY <2>1, Zenon
<1>3. \A v \in ToSet(s) : OnDisk(log[v.arrival], epoch, opt)
  <2> SUFFICES ASSUME NEW v \in ToSet(s)
               PROVE  OnDisk(log[v.arrival], epoch, opt)
    OBVIOUS
  <2>1. PICK t \in open : v \in ToSet(FromDatabase(t, c, cursor, limit))
    BY <1>1
  <2>2. t \in Lifetimes
    BY DEF IndInv, Scalars
  <2>3. \E w \in Content(disk[t][c]) : w.arrival = v.arrival
    <3>1. LET x == FromDatabase(t, c, cursor, limit)
          IN  /\ x \in Seq(Message)
              /\ Distinct(x)
              /\ \A y \in ToSet(x) : /\ ~ Dead(y, now)
                                     /\ \E w \in Content(disk[t][c]) : w.arrival = y.arrival
      BY <2>2, DatabaseReads
    <3> QED
      BY <2>1, <3>1, Zenon
  <2> QED
    BY <2>2, <2>3, Zenon DEF TwiceInv, DiskMarked
<1>4. \A v \in ToSet(r) : InQueue(log[v.arrival], epoch)
  BY <1>2, Zenon DEF TwiceInv, QueuesMarked
<1>5. Read(c, cursor, limit) = s \o (IF AsksCache(c, cursor, limit) THEN r ELSE none)
  BY Zenon DEF Read
<1>6. none \in Seq(Message) /\ s \o none = s
  BY <1>1
<1> HIDE DEF s, r, none
<1>7. CASE ~ AsksCache(c, cursor, limit)
  BY <1>1, <1>5, <1>6, <1>7, Zenon
<1>8. CASE AsksCache(c, cursor, limit)
  <2>1. Apart(ToSet(s), ToSet(r))
    <3>1. CASE opt.persistentDefault
      <4>1. s = <<>>
        BY <1>8, <3>1 DEF AsksCache, s
      <4>2. ToSet(s) = {}
        BY <4>1 DEF ToSet
      <4> QED
        BY <4>2 DEF Apart
    <3>2. CASE ~ opt.persistentDefault
      <4> SUFFICES ASSUME NEW v \in ToSet(s), NEW w \in ToSet(r), v.arrival = w.arrival
                   PROVE  FALSE
        BY Zenon DEF Apart
      <4>1. log[v.arrival].persistent \/ log[v.arrival].cached < epoch
        BY <1>3, <3>2 DEF OnDisk
      <4>2. ~ log[v.arrival].persistent /\ log[v.arrival].cached = epoch
        BY <1>4, Zenon DEF InQueue
      <4>3. epoch \in Nat
        BY DEF IndInv, Scalars
      <4> QED
        BY <4>1, <4>2, <4>3
    <3> QED
      BY <3>1, <3>2
  <2>2. Distinct(s \o r)
    BY <1>1, <1>2, <2>1, DistinctJoined
  <2> QED
    BY <1>5, <1>8, <2>2, Zenon
<1> QED
  BY <1>7, <1>8

(***************************************************************************)
(* A reader gets no message twice, for all that a message may be both in a *)
(* database and in the queue, in two databases after a change of ttls, or  *)
(* read while operands wait to be merged (pubsub.cpp:41-60).               *)
(***************************************************************************)
THEOREM NoMessageTwice == Spec => []NothingTwice
<1>1. IndInv /\ TwiceInv => NothingTwice
  <2> SUFFICES ASSUME IndInv, TwiceInv, NEW c \in Channels
               PROVE  IsInjective(Everything(c))
    BY Zenon DEF NothingTwice
  <2>1. MaxPushes \in Nat /\ Start \in Int
    BY BoundsAssumption, StartIsFirst
  <2>2. Distinct(Read(c, Start, MaxPushes))
    BY <2>1, ReadDistinct
  <2>3. Everything(c) = Read(c, Start, MaxPushes)
    BY Zenon DEF Everything, Start
  <2> QED
    BY <2>2, <2>3, Zenon DEF Distinct, IsInjective
<1>2. Spec => []TwiceInv
  BY PubsubInvariance, InitTwiceInv, NextTwiceInv, PTL DEF Spec
<1> QED
  BY PubsubInvariance, <1>1, <1>2, PTL
-----------------------------------------------------------------------------
(***************************************************************************)
(* Only the living.  Without update and modify nothing changes a message   *)
(* once publish has passed it on with a birthtime: whatever is pushed,     *)
(* merged, replayed or read is, field by field, what was published.        *)
(***************************************************************************)
PlainInputs == \A x \in Inputs : x.msg.action \notin {"update", "modify"}

\* The publications to c that were passed on to be kept.
Real(l, c) == {l[i].msg : i \in {j \in 1 .. Len(l) : l[j].channel = c /\ l[j].msg.birthtime # 0}}

RealDisk(d, l) == \A t \in Lifetimes, c \in Channels : Content(d[t][c]) \subseteq Real(l, c)

RealQueues(map, l) == \A c \in DOMAIN map : ToSet(map[c].msgs) \subseteq Real(l, c)

AliveInv ==
  /\ \A i \in 1 .. Len(log) : log[i].msg.action \notin {"update", "modify"}
  /\ pc \in {"store", "cache"} => This.msg.birthtime # 0
  /\ RealDisk(disk, log)
  /\ RealQueues(channels, log)

LEMMA InitAliveInv == Init => AliveInv
<1> SUFFICES ASSUME Init
             PROVE  AliveInv
  OBVIOUS
<1>1. RealDisk(disk, log)
  <2>1. Content(NoValue) = {}
    BY DEF NoValue, Content, ToSet
  <2>2. \A t \in Lifetimes, c \in Channels : disk[t][c] = NoValue
    BY DEF Init
  <2> QED
    BY <2>1, <2>2 DEF RealDisk
<1>2. RealQueues(channels, log)
  <2>1. DOMAIN channels = {}
    BY DEF Init, NoChannels
  <2> QED
    BY <2>1 DEF RealQueues
<1> QED
  BY <1>1, <1>2 DEF Init, AliveInv

\* What is published stays published.
LEMMA RealOn ==
  ASSUME NEW l, NEW l2, Len(l) \in Nat, Len(l2) \in Nat, Len(l) <= Len(l2),
         SameOrigins(Len(l), l, l2)
  PROVE  \A c : Real(l, c) \subseteq Real(l2, c)
<1> SUFFICES ASSUME NEW c, NEW i \in 1 .. Len(l), l[i].channel = c, l[i].msg.birthtime # 0
             PROVE  l[i].msg \in Real(l2, c)
  BY Zenon DEF Real
<1>1. l2[i].channel = l[i].channel /\ l2[i].msg = l[i].msg
  BY Zenon DEF SameOrigins
<1>2. i \in 1 .. Len(l2)
  OBVIOUS
<1> QED
  BY <1>1, <1>2, Zenon DEF Real

LEMMA RealFields ==
  ASSUME IndInv, AliveInv, NEW c
  PROVE  /\ Real(log, c) \in SUBSET Message
         /\ \A m \in Real(log, c) : m.birthtime # 0 /\ m.action \notin {"update", "modify"}
<1>1. \A m \in Real(log, c) : \E i \in 1 .. Len(log) : m = log[i].msg /\ log[i].msg.birthtime # 0
  BY Zenon DEF Real
<1>2. \A i \in 1 .. Len(log) : log[i].msg \in Message
  BY EntryFields DEF IndInv
<1>3. \A i \in 1 .. Len(log) : log[i].msg.action \notin {"update", "modify"}
  BY Zenon DEF AliveInv
<1>4. \A m \in Real(log, c) : m \in Message /\ m.birthtime # 0 /\ m.action \notin {"update", "modify"}
  BY <1>1, <1>2, <1>3, Zenon
<1> QED
  BY <1>4

\* No action of theirs leads out of them.
LEMMA RealClosed ==
  ASSUME NEW U \in SUBSET Message,
         \A m \in U : m.birthtime # 0 /\ m.action \notin {"update", "modify"}
  PROVE  \A A \in SUBSET U : ClosedBy(U, A)
<1> SUFFICES ASSUME NEW A \in SUBSET U, NEW m \in A, NEW S \in SUBSET U, NEW t \in Int
             PROVE  Effect(S, m, t) \subseteq U
  BY Zenon DEF ClosedBy
<1>1. m \in U /\ m.action \in Actions /\ m.action \notin {"update", "modify"}
  BY DEF Message
<1>2. Born(m, t) = m
  BY <1>1 DEF Born
<1>3. {Born(m, t)} \subseteq U
  BY <1>1, <1>2
<1>4. Others(S, m) \subseteq U
  BY DEF Others
<1>5. m.action \in {"publish", "replace", "remove"}
  BY <1>1 DEF Actions
<1> HIDE DEF Others
<1> QED
  BY <1>3, <1>4, <1>5 DEF Effect

LEMMA PublishAliveInv ==
  ASSUME PlainInputs, 0 \notin Times, IndInv, AliveInv,
         NEW c \in Channels, NEW input \in Inputs, Publish(c, input)
  PROVE  AliveInv'
<1> DEFINE n == Len(log)
           e == Entry(c, Taken(input), input.persistent)
<1>1. /\ n \in Nat
      /\ Len(log') = n + 1
      /\ \A i \in 1 .. n : log'[i] = log[i]
      /\ log'[n + 1] = e
      /\ pc' = IF Passing(input.msg) THEN "fire" ELSE "store"
  BY PublishLogs, EntryFields DEF IndInv
<1>2. channels' = channels /\ disk' = disk
  BY DEF Publish, store
<1>3. SameOrigins(n, log, log')
  BY <1>1, Zenon DEF SameOrigins
<1>4. \A k : Real(log, k) \subseteq Real(log', k)
  <2>1. Len(log') \in Nat /\ n <= Len(log')
    BY <1>1
  <2> QED
    BY <1>1, <1>3, <2>1, RealOn
<1>5. RealDisk(disk, log') /\ RealQueues(channels, log')
  BY <1>4 DEF AliveInv, RealDisk, RealQueues
<1>6. e.msg = Taken(input)
  BY DEF Entry
<1>7. /\ Taken(input).action = input.msg.action
      /\ Passing(Taken(input)) <=> Passing(input.msg)
      /\ ~ Passing(Taken(input)) =>
           Taken(input).birthtime = IF input.msg.birthtime = 0 THEN now ELSE input.msg.birthtime
  BY TakenFields DEF IndInv
<1> HIDE DEF e
<1>8. \A i \in 1 .. Len(log') : log'[i].msg.action \notin {"update", "modify"}
  <2>1. \A i \in 1 .. n + 1 : i \in 1 .. n \/ i = n + 1
    BY <1>1
  <2>2. e.msg.action \notin {"update", "modify"}
    BY <1>6, <1>7, Zenon DEF PlainInputs
  <2> QED
    BY <1>1, <2>1, <2>2, Zenon DEF AliveInv
<1>9. pc' \in {"store", "cache"} => This'.msg.birthtime # 0
  <2>1. This' = e
    BY <1>1, Zenon DEF This
  <2>2. now # 0
    BY DEF IndInv, Scalars
  <2>3. ~ Passing(input.msg) => e.msg.birthtime # 0
    BY <1>6, <1>7, <2>2, Zenon
  <2>4. Passing(input.msg) => pc' \notin {"store", "cache"}
    BY <1>1
  <2> QED
    BY <2>1, <2>3, <2>4, Zenon
<1> QED
  BY <1>2, <1>5, <1>8, <1>9, Zenon DEF AliveInv

\* The message in progress is one of them.
LEMMA ThisIsReal ==
  ASSUME IndInv, AliveInv, pc \in {"store", "cache"}
  PROVE  This.msg \in Real(log, This.channel)
<1>1. Len(log) \in 1 .. Len(log) /\ This = log[Len(log)]
  BY ThisFields
<1>2. This.msg.birthtime # 0
  BY Zenon DEF AliveInv
<1> QED
  BY <1>1, <1>2, Zenon DEF Real

LEMMA StoreAliveInv ==
  ASSUME IndInv, AliveInv, Store
  PROVE  AliveInv'
<1> DEFINE n == Len(log)
<1>1. pc = "store" /\ pc' = "cache" /\ channels' = channels
  BY DEF Store
<1>2. n \in Nat /\ n \in 1 .. n
  BY <1>1, ThisFields
<1>3. SameOrigins(n, log, log') /\ Len(log') = n
  <2>1. CASE log' = log
    BY <2>1 DEF SameOrigins
  <2>2. CASE log' = [log EXCEPT ![Len(log)].durable = FALSE]
    <3>1. Failed([log EXCEPT ![Len(log)].durable = FALSE])
      BY <1>1, MarkThis
    <3> QED
      BY <2>2, <3>1, Zenon DEF Failed
  <2> QED
    BY <2>1, <2>2, Zenon DEF Store
<1>4. \A k : Real(log, k) \subseteq Real(log', k)
  BY <1>2, <1>3, RealOn
<1>5. RealDisk(disk', log)
  <2>1. CASE disk' = disk
    BY <2>1, Zenon DEF AliveInv
  <2>2. CASE open # {} /\ MergeInto(Database(This.msg.lifetime), This.channel, This.msg)
    <3> DEFINE t == Database(This.msg.lifetime)
               c == This.channel
    <3>1. /\ KeyStep(disk, disk', t, c, n - 1)
          /\ Content(disk'[t][c]) = Content(disk[t][c]) \cup {This.msg}
      BY <1>1, <2>2, MergedInto, Zenon
    <3>2. This.msg \in Real(log, c)
      BY <1>1, ThisIsReal
    <3> HIDE DEF t, c
    <3>3. \A u \in Lifetimes, k \in Channels : u # t \/ k # c => disk'[u][k] = disk[u][k]
      BY <3>1, Zenon DEF KeyStep
    <3> SUFFICES ASSUME NEW u \in Lifetimes, NEW k \in Channels
                 PROVE  Content(disk'[u][k]) \subseteq Real(log, k)
      BY Zenon DEF RealDisk
    <3>4. Content(disk[u][k]) \subseteq Real(log, k)
      BY Zenon DEF AliveInv, RealDisk
    <3> QED
      BY <3>1, <3>2, <3>3, <3>4
  <2> QED
    BY <2>1, <2>2, Zenon DEF Store
<1>6. RealDisk(disk', log') /\ RealQueues(channels, log')
  BY <1>4, <1>5 DEF AliveInv, RealDisk, RealQueues
<1>7. \A i \in 1 .. n : log'[i].msg = log[i].msg
  BY <1>3, Zenon DEF SameOrigins
<1>8. This'.msg = This.msg
  BY <1>2, <1>3, <1>7, Zenon DEF This
<1> QED
  BY <1>1, <1>3, <1>6, <1>7, <1>8, Zenon DEF AliveInv

LEMMA CacheAliveInv ==
  ASSUME IndInv, AliveInv, Cache
  PROVE  AliveInv'
<1> DEFINE c == This.channel
           q == QueueOf(channels, c)
           m == This.msg
           U == Real(log, c)
<1>1. pc = "cache" /\ pc' = "fire" /\ log' = log /\ disk' = disk
  BY DEF Cache, store
<1>2. m \in Message /\ now \in Int
  BY <1>1, ThisFields, ScalarTypes DEF IndInv
<1>3. CASE channels' = channels
  BY <1>1, <1>3, Zenon DEF AliveInv
<1>4. CASE channels' = PushTo(channels, now, c, m) /\ channels' # channels
  <2>1. SameBut(channels, channels', c) /\ channels'[c] = Push(q, now, m)
    <3>1. Pushed(channels, channels', now, c, m)
      BY <1>4, PushToQueue, Zenon
    <3> QED
      BY <1>4, <3>1, Zenon DEF Pushed
  <2>2. SoundQueue(q) /\ NewerThan(m, q.msgs)
    BY <1>1, PushIsSound, Zenon DEF QueueSound
  <2>3. ToSet(q.msgs) \subseteq U
    <3>1. CASE c \in DOMAIN channels
      BY <3>1, Zenon DEF AliveInv, RealQueues, QueueOf
    <3>2. CASE c \notin DOMAIN channels
      BY <3>2, EmptySound DEF QueueOf
    <3> QED
      BY <3>1, <3>2
  <2>4. U \in SUBSET Message /\ \A x \in U : x.birthtime # 0 /\ x.action \notin {"update", "modify"}
    BY RealFields
  <2>5. m \in U
    BY <1>1, ThisIsReal
  <2> HIDE DEF U, m, q
  <2>6. ClosedBy(U, U)
    BY <2>4, RealClosed
  <2>7. ToSet(Push(q, now, m).msgs) \subseteq U
    <3>1. PICK expired \in SUBSET {y \in ToSet(q.msgs) : Dead(y, now)} :
            ToSet(Push(q, now, m).msgs) =
              IF HandedBack(m) THEN (IF m.limit = 0 THEN {} ELSE ToSet(q.msgs) \ expired)
              ELSE Latest(m.limit, Effect(ToSet(q.msgs) \ expired, m, now))
      BY <1>2, <2>2, PushElements, Zenon DEF m
    <3>2. ToSet(q.msgs) \ expired \in SUBSET U
      BY <2>3
    <3>3. Effect(ToSet(q.msgs) \ expired, m, now) \subseteq U
      BY <1>2, <2>5, <2>6, <3>2, Zenon DEF ClosedBy
    <3>4. Latest(m.limit, Effect(ToSet(q.msgs) \ expired, m, now)) \subseteq U
      BY <3>3 DEF Latest
    <3> QED
      BY <3>1, <3>2, <3>4
  <2>8. RealQueues(channels', log)
    <3> SUFFICES ASSUME NEW k \in DOMAIN channels'
                 PROVE  ToSet(channels'[k].msgs) \subseteq Real(log, k)
      BY Zenon DEF RealQueues
    <3>1. CASE k = c
      BY <2>1, <2>7, <3>1 DEF U
    <3>2. CASE k # c
      <4>1. k \in DOMAIN channels /\ channels'[k] = channels[k]
        BY <2>1, <3>2 DEF SameBut
      <4> QED
        BY <4>1, Zenon DEF AliveInv, RealQueues
    <3> QED
      BY <3>1, <3>2
  <2> QED
    BY <1>1, <2>8, Zenon DEF AliveInv
<1> QED
  BY <1>3, <1>4, Zenon DEF Cache

LEMMA FireAliveInv ==
  ASSUME IndInv, AliveInv, Fire
  PROVE  AliveInv'
<1> DEFINE n == Len(log)
<1>1. pc = "fire" /\ pc' = "idle" /\ channels' = channels /\ disk' = disk
  BY DEF Fire, store
<1>2. n \in Nat
  BY <1>1, ThisFields
<1>3. SameOrigins(n, log, log') /\ Len(log') = n
  <2>1. Fired([log EXCEPT ![Len(log)].fired = TRUE])
    BY <1>1, MarkThis
  <2> QED
    BY <2>1, Zenon DEF Fire, Fired
<1>4. \A k : Real(log, k) \subseteq Real(log', k)
  BY <1>2, <1>3, RealOn
<1>5. RealDisk(disk, log') /\ RealQueues(channels, log')
  BY <1>4 DEF AliveInv, RealDisk, RealQueues
<1>6. \A i \in 1 .. n : log'[i].msg = log[i].msg
  BY <1>3, Zenon DEF SameOrigins
<1>7. pc' \notin {"store", "cache"}
  BY <1>1
<1> QED
  BY <1>1, <1>3, <1>5, <1>6, <1>7, Zenon DEF AliveInv

\* Steps after which nobody holds more than before.
LEMMA FewerAliveInv ==
  ASSUME IndInv, AliveInv, log' = log, pc' = pc \/ pc' = "idle",
         \A t \in Lifetimes, c \in Channels : Content(disk'[t][c]) \subseteq Real(log, c),
         \A c \in DOMAIN channels' :
           c \in DOMAIN channels /\ ToSet(channels'[c].msgs) \subseteq ToSet(channels[c].msgs)
  PROVE  AliveInv'
<1>1. RealQueues(channels', log)
  BY Zenon DEF AliveInv, RealQueues
<1>2. RealDisk(disk', log)
  BY Zenon DEF RealDisk
<1>3. This' = This
  BY Zenon DEF This
<1>4. pc' \in {"store", "cache"} => pc \in {"store", "cache"}
  OBVIOUS
<1> QED
  BY <1>1, <1>2, <1>3, <1>4, Zenon DEF AliveInv

LEMMA CompactReal ==
  ASSUME IndInv, AliveInv, NEW t \in open, NEW c \in Channels,
         NEW n \in 1 .. Len(disk[t][c].operands)
  PROVE  Content(CompactedKey(disk[t][c], n, now)) \subseteq Real(log, c)
<1> DEFINE key == disk[t][c]
           s == key.value
           ops == key.operands
           r == FullMerge(s, SubSeq(ops, 1, n), now, 0, now)
           rest == SubSeq(ops, n + 1, Len(ops))
           U == Real(log, c)
<1>1. t \in Lifetimes /\ now \in Int /\ now \in Nat
  BY ScalarTypes DEF IndInv, Scalars
<1>2. /\ key \in KeyType /\ s \in Seq(Message) /\ ops \in Seq(Message) /\ InTurn(s \o ops)
      /\ ToSet(s \o ops) \subseteq U
  <2>1. key \in KeyType /\ InTurn(s \o ops)
    BY <1>1, KeyOfDisk
  <2>2. Content(key) \subseteq U
    BY <1>1, Zenon DEF AliveInv, RealDisk
  <2> QED
    BY <2>1, <2>2, KeyFields, Zenon DEF Content
<1>3. ClosedBy(U, ToSet(s \o ops))
  BY <1>2, RealFields, RealClosed
<1>4. CompactedKey(key, n, now) = [value |-> r, written |-> now, operands |-> rest]
  BY Zenon DEF CompactedKey
<1>5. n \in 1 .. Len(ops)
  OBVIOUS
<1> HIDE DEF s, ops, U, key
<1>6. n \in 0 .. Len(ops) /\ 0 \in 0 .. Len(s) + n
  <2>1. Len(s) \in Nat /\ Len(ops) \in Nat
    BY <1>2
  <2> QED
    BY <1>5, <2>1
<1>7. ToSet(r) \subseteq U
  BY <1>1, <1>2, <1>3, <1>6, MergeWithin
<1>8. ToSet(rest) \subseteq ToSet(ops) /\ rest \in Seq(Message)
  <2> DEFINE first == SubSeq(ops, 1, n)
  <2>1. first \in Seq(Message) /\ rest \in Seq(Message) /\ first \o rest = ops
    BY <1>2, <1>6, SplitOperands
  <2> HIDE DEF first, rest
  <2>2. ToSet(first \o rest) = ToSet(first) \cup ToSet(rest)
    BY <2>1, JoinedElements
  <2> QED
    BY <2>1, <2>2
<1>9. r \in Seq(Message)
  BY <1>1, <1>2, <1>6, MergeStands
<1> HIDE DEF r, rest
<1>10. ToSet(r \o rest) = ToSet(r) \cup ToSet(rest) /\ ToSet(ops) \subseteq U
  <2>1. ToSet(s \o ops) = ToSet(s) \cup ToSet(ops)
    BY <1>2, JoinedElements
  <2> QED
    BY <1>2, <1>8, <1>9, <2>1, JoinedElements
<1>11. Content(CompactedKey(key, n, now)) = ToSet(r \o rest)
  BY <1>4 DEF Content
<1> QED
  BY <1>7, <1>8, <1>10, <1>11 DEF key, U

LEMMA ExpireReal ==
  ASSUME IndInv, NEW t \in Lifetimes, NEW c \in Channels
  PROVE  Content(ExpiredKey(disk[t][c])) \subseteq Content(disk[t][c])
<1> DEFINE key == disk[t][c]
<1>1. key \in KeyType /\ InTurn(key.value \o key.operands)
  BY KeyOfDisk
<1> HIDE DEF key
<1>2. Content(ExpiredKey(key)) = ToSet(key.operands)
  BY <1>1, ExpireStands
<1>3. ToSet(key.value \o key.operands) = ToSet(key.value) \cup ToSet(key.operands)
  BY <1>1, KeyFields, JoinedElements
<1> QED
  BY <1>2, <1>3 DEF Content, key

LEMMA NextAliveInv ==
  ASSUME PlainInputs, 0 \notin Times
  PROVE  IndInv /\ AliveInv /\ [Next]_vars => AliveInv'
<1> SUFFICES ASSUME IndInv, AliveInv, [Next]_vars
             PROVE  AliveInv'
  OBVIOUS
<1>1. ASSUME NEW c \in Channels, NEW input \in Inputs, Publish(c, input)
      PROVE  AliveInv'
  BY <1>1, PublishAliveInv
<1>2. CASE Store
  BY <1>2, StoreAliveInv
<1>3. CASE Cache
  BY <1>3, CacheAliveInv
<1>4. CASE Fire
  BY <1>4, FireAliveInv
<1>5. /\ \A t \in Lifetimes, c \in Channels : Content(disk[t][c]) \subseteq Real(log, c)
      /\ \A c \in DOMAIN channels :
           c \in DOMAIN channels /\ ToSet(channels[c].msgs) \subseteq ToSet(channels[c].msgs)
  BY Zenon DEF AliveInv, RealDisk
<1>6. ASSUME NEW c \in Channels, NEW cursor, DoGetMessages(c, cursor, MaxPushes)
      PROVE  AliveInv'
  <2>1. channels' = FindAndRemoveDeath(channels, now, c) /\ log' = log /\ pc' = pc /\ disk' = disk
    BY <1>6 DEF DoGetMessages, store, observers
  <2>2. Swept(channels, channels', now, c)
    BY <2>1, SweptQueue, Zenon
  <2>3. \A e \in DOMAIN channels' :
          e \in DOMAIN channels /\ ToSet(channels'[e].msgs) \subseteq ToSet(channels[e].msgs)
    BY <2>2, SweptElements
  <2> QED
    BY <1>5, <2>1, <2>3, FewerAliveInv
<1>7. CASE DoGetRemoved
  <2>1. channels' = ResetCounters(channels) /\ log' = log /\ pc' = pc /\ disk' = disk
    BY <1>7 DEF DoGetRemoved, store
  <2>2. \A c \in DOMAIN channels' : c \in DOMAIN channels /\ channels'[c].msgs = channels[c].msgs
    <3>1. MapInv(channels, Cached(pc, log), log)
      BY DEF IndInv
    <3>2. /\ DOMAIN channels' = DOMAIN channels
          /\ \A c \in DOMAIN channels : channels'[c] = ResetRemoved(channels[c])
      BY <2>1, <3>1, ResetMap
    <3>3. \A c \in DOMAIN channels : ResetRemoved(channels[c]).msgs = channels[c].msgs
      BY <3>1, ResetSound, Zenon DEF MapInv, QueueSound
    <3> QED
      BY <3>2, <3>3, Zenon
  <2>3. \A e \in DOMAIN channels' :
          e \in DOMAIN channels /\ ToSet(channels'[e].msgs) \subseteq ToSet(channels[e].msgs)
    BY <2>2, Zenon
  <2> QED
    BY <1>5, <2>1, <2>3, FewerAliveInv
<1>8. ASSUME channels' = NoChannels, log' = log, disk' = disk, pc' = pc \/ pc' = "idle"
      PROVE  AliveInv'
  <2>1. DOMAIN channels' = {}
    BY <1>8, NoChannelsSound
  <2> QED
    BY <1>5, <1>8, <2>1, FewerAliveInv
<1>9. CASE Reset
  BY <1>8, <1>9 DEF Reset, store
<1>10. ASSUME NEW o \in Options, NEW n \in 0 .. Len(Ttls), Restart(o, n)
       PROVE  AliveInv'
  BY <1>8, <1>10 DEF Restart
<1>11. ASSUME NEW t \in Lifetimes, NEW c \in Channels, LostOnly(disk, disk', t, c),
              Content(disk'[t][c]) \subseteq Real(log, c),
              UNCHANGED <<opt, channels, open, now, pc, observers>>
       PROVE  AliveInv'
  <2>1. log' = log /\ pc' = pc /\ channels' = channels
    BY <1>11 DEF observers
  <2>2. \A u \in Lifetimes, k \in Channels : Content(disk'[u][k]) \subseteq Real(log, k)
    BY <1>5, <1>11, Zenon DEF LostOnly
  <2> QED
    BY <1>5, <2>1, <2>2, FewerAliveInv
<1>12. ASSUME NEW t \in open, NEW c \in Channels, Expire(t, c)
       PROVE  AliveInv'
  <2>1. t \in Lifetimes /\ LostOnly(disk, disk', t, c) /\ disk'[t][c] = ExpiredKey(disk[t][c])
    BY <1>12, ExpireIndInv
  <2>2. Content(disk[t][c]) \subseteq Real(log, c)
    BY <1>5, <2>1
  <2>3. Content(disk'[t][c]) \subseteq Real(log, c)
    BY <2>1, <2>2, ExpireReal
  <2> QED
    BY <1>11, <1>12, <2>1, <2>3 DEF Expire
<1>13. ASSUME NEW t \in open, NEW c \in Channels, NEW n \in 1 .. Len(disk[t][c].operands),
              Compact(t, c, n)
       PROVE  AliveInv'
  <2>1. /\ t \in Lifetimes /\ LostOnly(disk, disk', t, c)
        /\ disk'[t][c] = CompactedKey(disk[t][c], n, now)
    BY <1>13, CompactIndInv
  <2>2. Content(disk'[t][c]) \subseteq Real(log, c)
    BY <2>1, CompactReal
  <2> QED
    BY <1>11, <1>13, <2>1, <2>2 DEF Compact
<1>14. CASE Close
  BY <1>5, <1>14, FewerAliveInv DEF Close, observers
<1>15. ASSUME NEW time \in From(now), SetClock(time)
       PROVE  AliveInv'
  BY <1>5, <1>15, FewerAliveInv DEF SetClock, store, observers
<1>16. CASE UNCHANGED vars
  BY <1>5, <1>16, FewerAliveInv DEF vars, store, observers
<1> QED
  BY <1>1, <1>2, <1>3, <1>4, <1>6, <1>7, <1>9, <1>10, <1>12, <1>13, <1>14, <1>15, <1>16, Zenon
     DEF Next

\* What a database gives was published, and is alive.
LEMMA DatabaseReal ==
  ASSUME IndInv, AliveInv, NEW t \in open, NEW c \in Channels, NEW cursor \in Int, NEW limit \in Nat
  PROVE  \A v \in ToSet(FromDatabase(t, c, cursor, limit)) : ~ Dead(v, now) /\ v \in Real(log, c)
<1> DEFINE key == disk[t][c]
           s == key.value
           ops == key.operands
           U == Real(log, c)
           r == FromDatabase(t, c, cursor, limit)
<1>1. t \in Lifetimes /\ now \in Int
  BY ScalarTypes DEF IndInv, Scalars
<1>2. /\ s \in Seq(Message) /\ ops \in Seq(Message) /\ InTurn(s \o ops)
      /\ ToSet(s \o ops) \subseteq U
  <2>1. key \in KeyType /\ InTurn(s \o ops)
    BY <1>1, KeyOfDisk
  <2>2. Content(key) \subseteq U
    BY <1>1, Zenon DEF AliveInv, RealDisk
  <2> QED
    BY <2>1, <2>2, KeyFields, Zenon DEF Content
<1>3. r = GetMessages(s, ops, now, cursor, limit)
  BY Zenon DEF FromDatabase
<1>4. U \in SUBSET Message /\ \A m \in U : m.birthtime # 0 /\ m.action \notin {"update", "modify"}
  BY RealFields
<1>5. \A v \in ToSet(r) : ~ Dead(v, now)
  <2>1. LET x == FromDatabase(t, c, cursor, limit)
        IN  /\ x \in Seq(Message)
            /\ Distinct(x)
            /\ \A y \in ToSet(x) : /\ ~ Dead(y, now)
                                   /\ \E w \in Content(disk[t][c]) : w.arrival = y.arrival
    BY <1>1, DatabaseReads
  <2> QED
    BY <2>1, Zenon
<1> HIDE DEF key, s, ops, U, r
<1>6. ClosedBy(U, U) /\ ClosedBy(U, ToSet(s \o ops)) /\ ToSet(s) \subseteq U
  <2>1. ToSet(s \o ops) = ToSet(s) \cup ToSet(ops)
    BY <1>2, JoinedElements
  <2>2. U \in SUBSET U /\ ToSet(s \o ops) \in SUBSET U /\ ToSet(s) \subseteq U
    BY <1>2, <2>1
  <2>3. \A A \in SUBSET U : ClosedBy(U, A)
    BY <1>4, RealClosed
  <2> QED
    BY <2>2, <2>3
<1>7. ToSet(r) \subseteq U
  BY <1>1, <1>2, <1>3, <1>6, ReadWithin
<1> QED
  BY <1>5, <1>7 DEF r, U

(***************************************************************************)
(* Where no client updates or modifies a message, whatever a reader gets,  *)
(* from a database, from the queue or from both, was published to that     *)
(* channel, field by field, and is alive (pubsub.cpp:41-60).  The clock is *)
(* never 0: a birthtime of 0 stands for none.                              *)
(***************************************************************************)
THEOREM ReadersGetTheLiving ==
  ASSUME PlainInputs, 0 \notin Times
  PROVE  Spec => []ReadAlive
<1>1. IndInv /\ AliveInv => ReadAlive
  <2> SUFFICES ASSUME IndInv, AliveInv, NEW c \in Channels, NEW m \in ToSet(Everything(c))
               PROVE  ~ Dead(m, now) /\ \E x \in Published(c) : x.msg = m
    BY Zenon DEF ReadAlive
  <2> DEFINE s == FromStore(c, Start, MaxPushes)
             r == CopyFrom(channels, now, c, Start, MaxPushes)
             none == <<>>
  <2>1. MaxPushes \in Nat /\ Start \in Int
    BY BoundsAssumption, StartIsFirst
  <2>2. /\ s \in Seq(Message)
        /\ \A v \in ToSet(s) : \E t \in open : v \in ToSet(FromDatabase(t, c, Start, MaxPushes))
    <3>1. LET x == FromStore(c, Start, MaxPushes)
          IN  /\ x \in Seq(Message)
              /\ Distinct(x)
              /\ \A v \in ToSet(x) : \E t \in open : v \in ToSet(FromDatabase(t, c, Start, MaxPushes))
              /\ ~ opt.rocksdbDisabled =>
                   \A t \in open : ToSet(FromDatabase(t, c, Start, MaxPushes)) \subseteq ToSet(x)
      BY <2>1, StoreReads
    <3> QED
      BY <3>1, Zenon
  <2>3. /\ r \in Seq(Message)
        /\ \A v \in ToSet(r) : ~ Dead(v, now) /\ c \in DOMAIN channels /\ v \in ToSet(channels[c].msgs)
    <3>1. LET x == CopyFrom(channels, now, c, Start, MaxPushes)
          IN  /\ x \in Seq(Message)
              /\ Distinct(x)
              /\ \A v \in ToSet(x) : /\ ~ Dead(v, now)
                                     /\ c \in DOMAIN channels
                                     /\ v \in ToSet(channels[c].msgs)
      BY <2>1, QueueReads
    <3> QED
      BY <3>1, Zenon
  <2>4. Everything(c) = s \o (IF AsksCache(c, Start, MaxPushes) THEN r ELSE none)
    BY Zenon DEF Everything, Read, Start
  <2>5. m \in ToSet(s) \/ m \in ToSet(r)
    <3>1. none \in Seq(Message) /\ ToSet(none) = {}
      BY DEF ToSet
    <3> HIDE DEF s, r, none
    <3>2. ToSet(s \o r) = ToSet(s) \cup ToSet(r) /\ ToSet(s \o none) = ToSet(s) \cup ToSet(none)
      BY <2>2, <2>3, <3>1, JoinedElements
    <3>3. ToSet(Everything(c)) = ToSet(s \o r) \/ ToSet(Everything(c)) = ToSet(s \o none)
      BY <2>4, Zenon
    <3> QED
      BY <3>1, <3>2, <3>3
  <2> HIDE DEF s, r
  <2>6. ~ Dead(m, now) /\ m \in Real(log, c)
    <3>1. CASE m \in ToSet(s)
      BY <2>1, <2>2, <3>1, DatabaseReal
    <3>2. CASE m \in ToSet(r)
      BY <2>3, <3>2, Zenon DEF AliveInv, RealQueues
    <3> QED
      BY <2>5, <3>1, <3>2
  <2>7. PICK i \in 1 .. Len(log) : log[i].channel = c /\ log[i].msg = m
    BY <2>6, Zenon DEF Real
  <2>8. DOMAIN log = 1 .. Len(log)
    BY EntryFields DEF IndInv
  <2> QED
    BY <2>6, <2>7, <2>8, Zenon DEF Published, ToSet
<1>2. Spec => []AliveInv
  BY PubsubInvariance, InitAliveInv, NextAliveInv, PTL DEF Spec
<1> QED
  BY PubsubInvariance, <1>1, <1>2, PTL
-----------------------------------------------------------------------------
(***************************************************************************)
(* The statistics.  A step changes one queue, so that the sums over the    *)
(* queues are taken apart at that one: what it holds and has removed, and  *)
(* the rest, which stays.                                                  *)
(***************************************************************************)
RestOf(map, c) ==
  SumFunction([x \in DOMAIN map \ {c} |-> Len(map[x].msgs)])
    + SumFunction([x \in DOMAIN map \ {c} |-> map[x].removed])

TotalOf(map, c) == IF c \in DOMAIN map THEN Total(map[c]) ELSE 0

Counted(map) == MessageCount(map) + RemovedCount(map)

\* The sum of f over D but for c.
SumBut(f, D, c) == SumFunction([x \in D \ {c} |-> f[x]])

LEMMA SumAt ==
  ASSUME NEW D, IsFiniteSet(D), NEW f \in [D -> Nat], NEW c
  PROVE  /\ SumFunction(f) \in Nat
         /\ SumBut(f, D, c) \in Nat
         /\ SumFunction(f) = (IF c \in D THEN f[c] ELSE 0) + SumBut(f, D, c)
<1> DEFINE E == D \ {c}
           g == [x \in E |-> f[x]]
<1>1. IsFiniteSet(E)
  BY FS_Subset
<1>2. g \in [E -> Nat]
  OBVIOUS
<1>3. SumFunction(f) \in Nat /\ \A e \in D : SumFunction(f) = f[e] + SumFunction([x \in D \ {e} |-> f[x]])
  BY SumSplit
<1>4. SumFunction(g) \in Nat
  <2> HIDE DEF E, g
  <2> QED
    BY <1>1, <1>2, SumSplit
<1>5. SumBut(f, D, c) = SumFunction(g)
  BY Zenon DEF SumBut
<1> HIDE DEF g, E
<1>6. CASE c \in D
  <2>1. SumFunction(f) = f[c] + SumFunction(g)
    BY <1>3, <1>6, Zenon DEF g, E
  <2> QED
    BY <1>3, <1>4, <1>6, <2>1, <1>5
<1>7. CASE c \notin D
  <2>1. g = f
    BY <1>7 DEF g, E
  <2>2. SumFunction(f) = SumFunction(g)
    BY <2>1
  <2>3. SumFunction(f) = 0 + SumFunction(g)
    BY <1>4, <2>2
  <2> QED
    BY <1>3, <1>4, <1>7, <1>5, <2>3, Zenon
<1> QED
  BY <1>6, <1>7

LEMMA CountedAt ==
  ASSUME NEW map, NEW n, NEW l, MapInv(map, n, l), NEW c
  PROVE  /\ RestOf(map, c) \in Nat
         /\ TotalOf(map, c) \in Nat
         /\ Counted(map) = TotalOf(map, c) + RestOf(map, c)
<1> DEFINE D == DOMAIN map
           r == [x \in D |-> map[x].removed]
           m == [x \in D |-> Len(map[x].msgs)]
           r2 == [x \in D \ {c} |-> map[x].removed]
           m2 == [x \in D \ {c} |-> Len(map[x].msgs)]
<1>1. IsFiniteSet(D)
  BY DEF MapInv
<1>2. \A x \in D : map[x].removed \in Nat /\ Len(map[x].msgs) \in Nat
  <2>1. \A x \in D : SoundQueue(map[x])
    BY Zenon DEF MapInv, QueueSound
  <2> QED
    BY <2>1, TypeOfSound
<1>3. r \in [D -> Nat] /\ m \in [D -> Nat]
  BY <1>2
<1>4. RemovedCount(map) = SumFunction(r) /\ MessageCount(map) = SumFunction(m)
  BY Zenon DEF RemovedCount, MessageCount
<1>5. r2 = [x \in D \ {c} |-> r[x]] /\ m2 = [x \in D \ {c} |-> m[x]]
  OBVIOUS
<1>6. c \in D => r[c] = map[c].removed /\ m[c] = Len(map[c].msgs)
  OBVIOUS
<1>7. RestOf(map, c) = SumFunction(m2) + SumFunction(r2)
  BY Zenon DEF RestOf
<1>8. TotalOf(map, c) = IF c \in D THEN map[c].removed + Len(map[c].msgs) ELSE 0
  BY DEF TotalOf, Total
<1>9. c \in D => map[c].removed \in Nat /\ Len(map[c].msgs) \in Nat
  BY <1>2
<1> HIDE DEF D, r, m, r2, m2
<1>10. /\ SumFunction(r) \in Nat /\ SumFunction(r2) \in Nat
       /\ SumFunction(r) = (IF c \in D THEN r[c] ELSE 0) + SumFunction(r2)
  <2>1. /\ SumFunction(r) \in Nat /\ SumBut(r, D, c) \in Nat
        /\ SumFunction(r) = (IF c \in D THEN r[c] ELSE 0) + SumBut(r, D, c)
    BY <1>1, <1>3, SumAt
  <2> QED
    BY <1>5, <2>1, Zenon DEF SumBut
<1>11. /\ SumFunction(m) \in Nat /\ SumFunction(m2) \in Nat
       /\ SumFunction(m) = (IF c \in D THEN m[c] ELSE 0) + SumFunction(m2)
  <2>1. /\ SumFunction(m) \in Nat /\ SumBut(m, D, c) \in Nat
        /\ SumFunction(m) = (IF c \in D THEN m[c] ELSE 0) + SumBut(m, D, c)
    BY <1>1, <1>3, SumAt
  <2> QED
    BY <1>5, <2>1, Zenon DEF SumBut
<1>12. Counted(map) = SumFunction(m) + SumFunction(r)
  BY <1>4, Zenon DEF Counted
<1>13. CASE c \in D
  <2>1. /\ SumFunction(r) = map[c].removed + SumFunction(r2)
        /\ SumFunction(m) = Len(map[c].msgs) + SumFunction(m2)
        /\ TotalOf(map, c) = map[c].removed + Len(map[c].msgs)
    BY <1>6, <1>8, <1>10, <1>11, <1>13, Zenon
  <2> DEFINE a == map[c].removed
             b == Len(map[c].msgs)
             r0 == SumFunction(r2)
             m0 == SumFunction(m2)
  <2>2. a \in Nat /\ b \in Nat /\ r0 \in Nat /\ m0 \in Nat
    BY <1>9, <1>10, <1>11, <1>13
  <2>3. RestOf(map, c) = m0 + r0 /\ TotalOf(map, c) = a + b /\ Counted(map) = (b + m0) + (a + r0)
    BY <1>7, <1>12, <2>1, Zenon
  <2> HIDE DEF a, b, r0, m0
  <2> QED
    BY <2>2, <2>3
<1>14. CASE c \notin D
  BY <1>7, <1>8, <1>10, <1>11, <1>12, <1>14
<1> QED
  BY <1>13, <1>14

LEMMA SameRest ==
  ASSUME NEW map, NEW map2, NEW c, SameBut(map, map2, c)
  PROVE  RestOf(map2, c) = RestOf(map, c)
<1>1. DOMAIN map2 \ {c} = DOMAIN map \ {c} /\ \A x \in DOMAIN map \ {c} : map2[x] = map[x]
  <2>1. DOMAIN map2 \cup {c} = DOMAIN map \cup {c}
    BY DEF SameBut
  <2>2. \A x \in DOMAIN map \ {c} : x \in DOMAIN map2 /\ x # c
    BY <2>1
  <2> QED
    BY <2>1, <2>2 DEF SameBut
<1>2. /\ [x \in DOMAIN map2 \ {c} |-> Len(map2[x].msgs)] = [x \in DOMAIN map \ {c} |-> Len(map[x].msgs)]
      /\ [x \in DOMAIN map2 \ {c} |-> map2[x].removed] = [x \in DOMAIN map \ {c} |-> map[x].removed]
  BY <1>1
<1> QED
  BY <1>2, Zenon DEF RestOf

\* What is counted changes as the one queue does.
LEMMA CountedChange ==
  ASSUME NEW map, NEW map2, NEW n, NEW n2, NEW l, NEW l2, MapInv(map, n, l), MapInv(map2, n2, l2),
         NEW c, SameBut(map, map2, c)
  PROVE  Counted(map2) - TotalOf(map2, c) = Counted(map) - TotalOf(map, c)
<1>1. /\ RestOf(map, c) \in Nat /\ TotalOf(map, c) \in Nat
      /\ Counted(map) = TotalOf(map, c) + RestOf(map, c)
  BY CountedAt
<1>2. /\ RestOf(map2, c) \in Nat /\ TotalOf(map2, c) \in Nat
      /\ Counted(map2) = TotalOf(map2, c) + RestOf(map2, c)
  BY CountedAt
<1>3. RestOf(map2, c) = RestOf(map, c)
  BY SameRest
<1> QED
  BY <1>1, <1>2, <1>3

LEMMA CountedIsNat ==
  ASSUME NEW map, NEW n, NEW l, MapInv(map, n, l), NEW c
  PROVE  Counted(map) \in Nat /\ TotalOf(map, c) \in Nat
<1>1. /\ RestOf(map, c) \in Nat /\ TotalOf(map, c) \in Nat
      /\ Counted(map) = TotalOf(map, c) + RestOf(map, c)
  BY CountedAt
<1> QED
  BY <1>1

LEMMA CountedNone == Counted(NoChannels) = 0
<1>1. DOMAIN NoChannels = {}
  BY DEF NoChannels
<1> DEFINE r == [x \in DOMAIN NoChannels |-> NoChannels[x].removed]
           m == [x \in DOMAIN NoChannels |-> Len(NoChannels[x].msgs)]
<1>2. DOMAIN r = {} /\ DOMAIN m = {}
  BY <1>1
<1>3. RemovedCount(NoChannels) = SumFunction(r) /\ MessageCount(NoChannels) = SumFunction(m)
  BY Zenon DEF RemovedCount, MessageCount
<1> HIDE DEF r, m
<1>4. SumFunction(r) = 0 /\ SumFunction(m) = 0
  BY <1>2, SumEmpty
<1> QED
  BY <1>3, <1>4 DEF Counted

CountInv == Counted(channels) + reported <= placed

LEMMA PushCounted ==
  ASSUME IndInv, CountInv, Cache
  PROVE  CountInv'
<1> DEFINE c == This.channel
           m == This.msg
           q == QueueOf(channels, c)
           one == IF HandedBack(m) THEN 0 ELSE 1
<1>1. pc = "cache" /\ reported' = reported
  BY DEF Cache
<1>2. IndInv'
  BY CacheIndInv
<1>3. MapInv(channels, Cached(pc, log), log) /\ MapInv(channels', Cached(pc', log'), log')
  BY <1>2 DEF IndInv
<1>4. placed \in Nat /\ reported \in Nat /\ one \in {0, 1} /\ m \in Message /\ now \in Int
  BY <1>1, ThisFields, ScalarTypes DEF IndInv, Scalars
<1>5. /\ Counted(channels) \in Nat /\ TotalOf(channels, c) \in Nat
      /\ Counted(channels') \in Nat /\ TotalOf(channels', c) \in Nat
  BY <1>3, CountedIsNat
<1>6. Counted(channels) + reported <= placed
  BY DEF CountInv
<1>7. CASE channels' = channels /\ placed' = placed
  BY <1>1, <1>7 DEF CountInv
<1>8. CASE channels' = PushTo(channels, now, c, m) /\ placed' = placed + one
  <2>1. Pushed(channels, channels', now, c, m)
    BY <1>8, PushToQueue, Zenon
  <2>2. SoundQueue(q) /\ NewerThan(m, q.msgs)
    BY <1>1, PushIsSound, Zenon DEF QueueSound
  <2>3. Total(Push(q, now, m)) <= Total(q) + one
    <3> HIDE DEF q, m
    <3> QED
      BY <1>4, <2>2, PushGrows
  <2>4. TotalOf(channels, c) = Total(q)
    <3>1. CASE c \in DOMAIN channels
      BY <3>1, Zenon DEF TotalOf, QueueOf
    <3>2. CASE c \notin DOMAIN channels
      <4>1. Total(EmptyQueue) = 0
        BY DEF Total, EmptyQueue
      <4> QED
        BY <3>2, <4>1, Zenon DEF TotalOf, QueueOf
    <3> QED
      BY <3>1, <3>2
  <2> HIDE DEF q, m, c, one
  <2>5. CASE channels' = channels
    <3>1. Counted(channels') + reported' <= placed'
      BY <1>1, <1>4, <1>5, <1>6, <1>8, <2>5
    <3> QED
      BY <3>1 DEF CountInv
  <2>6. CASE channels' # channels
    <3>1. SameBut(channels, channels', c) /\ DOMAIN channels' = DOMAIN channels \cup {c}
          /\ channels'[c] = Push(q, now, m)
      BY <2>1, <2>6, Zenon DEF Pushed, q
    <3>2. TotalOf(channels', c) = Total(Push(q, now, m))
      <4>1. c \in DOMAIN channels'
        BY <3>1
      <4> QED
        BY <3>1, <4>1, Zenon DEF TotalOf
    <3>3. Counted(channels') - TotalOf(channels', c) = Counted(channels) - TotalOf(channels, c)
      BY <1>3, <3>1, CountedChange
    <3>4. TotalOf(channels', c) <= TotalOf(channels, c) + one
      BY <2>3, <2>4, <3>2
    <3>5. Counted(channels') + reported' <= placed'
      BY <1>1, <1>4, <1>5, <1>6, <1>8, <3>3, <3>4
    <3> QED
      BY <3>5 DEF CountInv
  <2> QED
    BY <2>5, <2>6
<1> QED
  BY <1>7, <1>8, Zenon DEF Cache

LEMMA SweepCounted ==
  ASSUME IndInv, CountInv, NEW c \in Channels, channels' = FindAndRemoveDeath(channels, now, c),
         UNCHANGED <<opt, store, now, pc, observers>>
  PROVE  CountInv'
<1>1. reported' = reported /\ placed' = placed
  BY DEF observers
<1>2. IndInv'
  BY ReadIndInv
<1>3. MapInv(channels, Cached(pc, log), log) /\ MapInv(channels', Cached(pc', log'), log')
  BY <1>2 DEF IndInv
<1>4. placed \in Nat /\ reported \in Nat /\ now \in Int
  BY ScalarTypes DEF IndInv, Scalars
<1>5. /\ Counted(channels) \in Nat /\ TotalOf(channels, c) \in Nat
      /\ Counted(channels') \in Nat /\ TotalOf(channels', c) \in Nat
  BY <1>3, CountedIsNat
<1>6. CASE channels' = channels
  BY <1>1, <1>6 DEF CountInv
<1>7. CASE channels' # channels
  <2>1. Swept(channels, channels', now, c)
    BY SweptQueue, Zenon
  <2>2. c \in DOMAIN channels /\ SameBut(channels, channels', c)
    BY <1>7, <2>1, Zenon DEF Swept
  <2>3. SoundQueue(channels[c])
    BY <1>3, <2>2, Zenon DEF MapInv, QueueSound
  <2>4. Total(RemoveDeath(channels[c], now)) = Total(channels[c])
    BY <1>4, <2>3, RemoveDeathTotal
  <2>5. TotalOf(channels', c) = TotalOf(channels, c) \/ TotalOf(channels', c) = 0
    <3>1. CASE DOMAIN channels' = DOMAIN channels /\ channels'[c] = RemoveDeath(channels[c], now)
      BY <2>2, <2>4, <3>1, Zenon DEF TotalOf
    <3>2. CASE DOMAIN channels' = DOMAIN channels \ {c}
      <4>1. c \notin DOMAIN channels'
        BY <3>2
      <4> QED
        BY <4>1, Zenon DEF TotalOf
    <3> QED
      BY <1>7, <2>1, <3>1, <3>2, Zenon DEF Swept
  <2>6. Counted(channels') - TotalOf(channels', c) = Counted(channels) - TotalOf(channels, c)
    BY <1>3, <2>2, CountedChange
  <2> QED
    BY <1>1, <1>4, <1>5, <2>5, <2>6 DEF CountInv
<1> QED
  BY <1>6, <1>7

LEMMA ReportCounted ==
  ASSUME IndInv, CountInv, DoGetRemoved
  PROVE  CountInv'
<1> DEFINE D == DOMAIN channels
           map2 == ResetCounters(channels)
           r == [x \in DOMAIN map2 |-> map2[x].removed]
           m == [x \in D |-> Len(channels[x].msgs)]
           m2 == [x \in DOMAIN map2 |-> Len(map2[x].msgs)]
<1>1. placed' = placed /\ reported' = reported + RemovedCount(channels) /\ channels' = map2
  BY DEF DoGetRemoved
<1>2. MapInv(channels, Cached(pc, log), log)
  BY DEF IndInv
<1>3. /\ DOMAIN map2 = D /\ IsFiniteSet(D)
      /\ \A c \in D : map2[c] = ResetRemoved(channels[c])
  BY <1>2, ResetMap DEF MapInv
<1>4. \A c \in D : map2[c].msgs = channels[c].msgs /\ map2[c].removed = 0
  <2>1. \A c \in D : SoundQueue(channels[c])
    BY <1>2, Zenon DEF MapInv, QueueSound
  <2> HIDE DEF map2
  <2> QED
    BY <1>3, <2>1, ResetSound
<1> HIDE DEF map2
<1>5. r \in [D -> Nat] /\ \A c \in D : r[c] = 0
  BY <1>3, <1>4
<1>6. m2 = m
  BY <1>3, <1>4
<1>7. RemovedCount(map2) = SumFunction(r) /\ MessageCount(map2) = SumFunction(m2)
  BY Zenon DEF RemovedCount, MessageCount
<1>8. MessageCount(channels) = SumFunction(m)
  BY Zenon DEF MessageCount
<1> HIDE DEF r, m, m2, D
<1>9. SumFunction(r) = 0
  BY <1>3, <1>5, SumOfNone
<1>10. /\ RemovedCount(channels) \in Nat /\ MessageCount(channels) \in Nat
       /\ reported \in Nat /\ placed \in Nat
  BY <1>2, RemovedIsNat DEF IndInv, Scalars
<1>11. RemovedCount(map2) = 0 /\ MessageCount(map2) = MessageCount(channels)
  BY <1>6, <1>7, <1>8, <1>9, Zenon
<1>12. MessageCount(channels) + RemovedCount(channels) + reported <= placed
  BY DEF CountInv, Counted
<1>13. MessageCount(map2) + RemovedCount(map2) + reported' <= placed'
  BY <1>1, <1>10, <1>11, <1>12
<1> QED
  BY <1>1, <1>13, Zenon DEF CountInv, Counted

LEMMA NextCountInv == IndInv /\ CountInv /\ [Next]_vars => CountInv'
<1> SUFFICES ASSUME IndInv, CountInv, [Next]_vars
             PROVE  CountInv'
  OBVIOUS
<1>1. ASSUME channels' = channels, reported' = reported, placed' = placed
      PROVE  CountInv'
  BY <1>1, Zenon DEF CountInv
<1>2. ASSUME channels' = NoChannels, reported' = reported, placed' = placed
      PROVE  CountInv'
  <2>1. MapInv(channels, Cached(pc, log), log) /\ reported \in Nat /\ placed \in Nat
    BY DEF IndInv, Scalars
  <2>2. Counted(channels) \in Nat
    BY <2>1, CountedIsNat
  <2> QED
    BY <1>2, <2>1, <2>2, CountedNone DEF CountInv
<1>3. ASSUME NEW c \in Channels, NEW input \in Inputs, Publish(c, input)
      PROVE  CountInv'
  BY <1>1, <1>3 DEF Publish
<1>4. CASE Store
  BY <1>1, <1>4 DEF Store
<1>5. CASE Cache
  BY <1>5, PushCounted
<1>6. CASE Fire
  BY <1>1, <1>6 DEF Fire
<1>7. ASSUME NEW c \in Channels, NEW cursor, DoGetMessages(c, cursor, MaxPushes)
      PROVE  CountInv'
  BY <1>7, SweepCounted DEF DoGetMessages
<1>8. CASE DoGetRemoved
  BY <1>8, ReportCounted
<1>9. CASE Reset
  BY <1>2, <1>9 DEF Reset
<1>10. ASSUME NEW o \in Options, NEW n \in 0 .. Len(Ttls), Restart(o, n)
       PROVE  CountInv'
  BY <1>2, <1>10 DEF Restart
<1>11. ASSUME NEW t \in open, NEW c \in Channels,
              Expire(t, c) \/ \E n \in 1 .. Len(disk[t][c].operands) : Compact(t, c, n)
       PROVE  CountInv'
  <2>1. UNCHANGED <<opt, channels, open, now, pc, observers>>
    BY <1>11 DEF Expire, Compact
  <2> QED
    BY <1>1, <2>1 DEF observers
<1>12. CASE Close
  BY <1>1, <1>12 DEF Close, observers
<1>13. ASSUME NEW time \in From(now), SetClock(time)
       PROVE  CountInv'
  BY <1>1, <1>13 DEF SetClock, observers
<1>14. CASE UNCHANGED vars
  BY <1>1, <1>14 DEF vars, observers
<1> QED
  BY <1>3, <1>4, <1>5, <1>6, <1>7, <1>8, <1>9, <1>10, <1>11, <1>12, <1>13, <1>14, Zenon DEF Next

(***************************************************************************)
(* However the queues are swept, cut, erased, reset or lost between two    *)
(* calls of the idle handler, the statistics count no message twice        *)
(* (channel_map.cpp:12-57, pubsub.cpp:118-128, pubsub_domain.cpp:46-58).   *)
(***************************************************************************)
THEOREM StatisticsCountOnce == Spec => []NothingCountedTwice
<1>1. Init => CountInv
  <2> SUFFICES ASSUME Init
               PROVE  CountInv
    OBVIOUS
  <2>1. channels = NoChannels /\ reported = 0 /\ placed = 0
    BY DEF Init
  <2> QED
    BY <2>1, CountedNone DEF CountInv
<1>2. CountInv => NothingCountedTwice
  BY DEF CountInv, Counted, NothingCountedTwice
<1> QED
  BY PubsubInvariance, <1>1, <1>2, NextCountInv, PTL DEF Spec
-----------------------------------------------------------------------------
(***************************************************************************)
(* Nothing lost.  Of the messages of a channel that have a lifetime, those *)
(* every limit in use has room for can be taken away by their death only:  *)
(* by no push, merge, replay or sweep, and by no ttl, since what a value   *)
(* was written with was born before it was written.                        *)
(***************************************************************************)
PublishOnly == \A x \in Inputs : x.msg.action = "publish"

NotFromTheFuture == \A x \in Inputs, t \in Times : x.msg.birthtime <= t

\* The publications to c that a queue may hold, and the least of their limits.
Held(l, c) == {l[i].msg : i \in {j \in 1 .. Len(l) : l[j].channel = c /\ l[j].msg.lifetime # 0}}

Room(l, c) == IF Held(l, c) = {} THEN 0 ELSE Min({m.limit : m \in Held(l, c)})

\* v is in S, dead, or not among the latest.
StillIn(v, S, time, l, c) == Remains(v, S, time, Room(l, c), Held(l, c))

LogKept(l, time) ==
  \A i \in 1 .. Len(l) :
    /\ l[i].msg.action = "publish"
    /\ Start <= l[i].msg.cursor
    /\ ~ Passing(l[i].msg) => l[i].msg.birthtime # 0 /\ l[i].msg.birthtime <= time

LEMMA HeldFields ==
  ASSUME NEW l, LogInv(l), NEW time, LogKept(l, time), NEW c
  PROVE  \A v \in Held(l, c) : /\ v \in Message
                               /\ v.action = "publish"
                               /\ v.lifetime # 0
                               /\ v.birthtime # 0
                               /\ v.birthtime <= time
                               /\ Start <= v.cursor
                               /\ v.limit \in Nat
<1> SUFFICES ASSUME NEW i \in 1 .. Len(l), l[i].msg.lifetime # 0
             PROVE  /\ l[i].msg \in Message
                    /\ l[i].msg.action = "publish"
                    /\ l[i].msg.birthtime # 0
                    /\ l[i].msg.birthtime <= time
                    /\ Start <= l[i].msg.cursor
                    /\ l[i].msg.limit \in Nat
  BY Zenon DEF Held
<1>1. l[i].msg \in Message
  BY EntryFields
<1>2. ~ Passing(l[i].msg)
  BY DEF Passing
<1> QED
  BY <1>1, <1>2, MessageFields, Zenon DEF LogKept

LEMMA RoomIsLeast ==
  ASSUME NEW l, LogInv(l), NEW time, LogKept(l, time), NEW c
  PROVE  /\ Room(l, c) \in Nat
         /\ \A v \in Held(l, c) : Room(l, c) <= v.limit
         /\ Held(l, c) # {} => \E v \in Held(l, c) : Room(l, c) = v.limit
<1> DEFINE H == Held(l, c)
           S == {m.limit : m \in H}
<1>1. \A v \in H : v.limit \in Nat
  BY HeldFields
<1> HIDE DEF H
<1>2. CASE H = {}
  BY <1>2 DEF Room, H
<1>3. CASE H # {}
  <2>1. S \in SUBSET Nat /\ S # {}
    BY <1>1, <1>3
  <2>2. \E x \in S : \A y \in S : x <= y
    BY <2>1, Smallest
  <2>3. Min(S) \in S /\ \A y \in S : Min(S) <= y
    BY <2>2, Zenon DEF Min
  <2>4. Room(l, c) = Min(S)
    BY <1>3, Zenon DEF Room, H
  <2> QED
    BY <1>1, <2>3, <2>4, Zenon DEF H
<1> QED
  BY <1>2, <1>3

LEMMA HeldKeepable ==
  ASSUME NEW l, LogInv(l), NEW time, LogKept(l, time), NEW c
  PROVE  /\ Keepable(Room(l, c), Held(l, c))
         /\ Cardinality(Held(l, c)) <= Len(l)
<1> DEFINE s == [i \in 1 .. Len(l) |-> l[i].msg]
<1>1. Len(l) \in Nat /\ \A i \in 1 .. Len(l) : l[i].msg \in Message
  BY EntryFields
<1>2. s \in Seq(Message) /\ Len(s) = Len(l) /\ DOMAIN s = 1 .. Len(l)
  BY <1>1
<1>3. Held(l, c) \subseteq ToSet(s)
  BY <1>2 DEF Held, ToSet
<1> HIDE DEF s
<1>4. IsFiniteSet(ToSet(s)) /\ Cardinality(ToSet(s)) <= Len(s)
  BY <1>2, ListedSize
<1>5. IsFiniteSet(Held(l, c)) /\ Cardinality(Held(l, c)) <= Cardinality(ToSet(s))
  BY <1>3, <1>4, FS_Subset
<1>6. \A v \in Held(l, c) : Lasting(v, Room(l, c))
  <2>1. /\ Room(l, c) \in Nat
        /\ \A v \in Held(l, c) : Room(l, c) <= v.limit
    BY RoomIsLeast
  <2> SUFFICES ASSUME NEW v \in Held(l, c)
               PROVE  Lasting(v, Room(l, c))
    BY Zenon
  <2>2. /\ v \in Message /\ v.action = "publish" /\ v.lifetime # 0 /\ v.birthtime # 0 /\ v.limit \in Nat
    BY HeldFields
  <2>3. v.limit >= Room(l, c)
    BY <2>1, <2>2
  <2> QED
    BY <2>2, <2>3, Zenon DEF Lasting
<1>7. Cardinality(Held(l, c)) <= Len(l)
  <2>1. Cardinality(Held(l, c)) \in Nat /\ Cardinality(ToSet(s)) \in Nat
    BY <1>4, <1>5, FS_CardinalityType
  <2> QED
    BY <1>1, <1>2, <1>4, <1>5, <2>1
<1> QED
  BY <1>5, <1>6, <1>7, RoomIsLeast, Zenon DEF Keepable

LEMMA HeldOn ==
  ASSUME NEW l, LogInv(l), NEW l2, LogInv(l2), SameOrigins(Len(l), l, l2), Len(l) <= Len(l2)
  PROVE  \A c : Held(l, c) \subseteq Held(l2, c)
<1> SUFFICES ASSUME NEW c, NEW i \in 1 .. Len(l), l[i].channel = c, l[i].msg.lifetime # 0
             PROVE  l[i].msg \in Held(l2, c)
  BY ZenonT(60) DEF Held
<1>1. i \in 1 .. Len(l2)
  <2>1. Len(l) \in Nat /\ Len(l2) \in Nat
    BY EntryFields
  <2> QED
    BY <2>1
<1> QED
  BY <1>1, Zenon DEF Held, SameOrigins

\* A publication that had to be kept and was not lost is so later.
LEMMA StillInOn ==
  ASSUME NEW l, LogInv(l), NEW time \in Int, LogKept(l, time),
         NEW l2, LogInv(l2), NEW time2 \in Int, LogKept(l2, time2), time <= time2,
         SameOrigins(Len(l), l, l2), Len(l) <= Len(l2), NEW c,
         NEW S, NEW S2, S \subseteq S2, NEW v \in Held(l, c), StillIn(v, S, time, l, c)
  PROVE  v \in Held(l2, c) /\ StillIn(v, S2, time2, l2, c)
<1> DEFINE H == Held(l, c)
           H2 == Held(l2, c)
           n == Room(l, c)
           n2 == Room(l2, c)
<1>1. H \subseteq H2
  BY HeldOn, Zenon
<1>2. /\ n \in Nat
      /\ H # {} => \E u \in H : n = u.limit
  BY RoomIsLeast
<1>3. /\ n2 \in Nat
      /\ \A u \in H2 : n2 <= u.limit
  BY RoomIsLeast
<1>4. IsFiniteSet(H2)
  BY HeldKeepable, Zenon DEF Keepable
<1>5. v \in Message
  BY HeldFields
<1>6. Remains(v, S, time, n, H)
  BY DEF StillIn
<1> HIDE DEF H, H2, n, n2
<1>7. v \in H /\ n2 <= n
  <2>1. v \in H
    BY DEF H
  <2> QED
    BY <1>1, <1>2, <1>3, <2>1
<1>8. Remains(v, S2, time2, n2, H2)
  BY <1>1, <1>2, <1>3, <1>4, <1>5, <1>6, <1>7, RemainsOn
<1> QED
  BY <1>1, <1>7, <1>8 DEF StillIn, H2, n2

\* The publications that a database should have, and those the queues should: the one in
\* progress from the step on that puts it there.
OnceStored(i, at, l) ==
  /\ l[i].durable
  /\ l[i].msg.lifetime # 0
  /\ l[i].fired \/ (i = Len(l) /\ at \in {"cache", "fire"})

OnceCached(i, at, l, e) ==
  /\ l[i].cached = e
  /\ l[i].msg.lifetime # 0
  /\ l[i].fired \/ (i = Len(l) /\ at = "fire")

HeldBy(map, c) == IF c \in DOMAIN map THEN ToSet(map[c].msgs) ELSE {}

\* A database whose ttl covers its lifetime has publication i.
Covered(i, d, time, l) ==
  \E t \in Lifetimes :
    /\ t >= l[i].msg.lifetime
    /\ StillIn(l[i].msg, Content(d[t][l[i].channel]), time, l, l[i].channel)

DisksKeep(d, time, at, l) ==
  \A i \in 1 .. Len(l) : OnceStored(i, at, l) => Covered(i, d, time, l)

QueuesKeep(map, time, at, l, e) ==
  \A i \in 1 .. Len(l) :
    OnceCached(i, at, l, e) => StillIn(l[i].msg, HeldBy(map, l[i].channel), time, l, l[i].channel)

DisksHeld(d, l) ==
  \A t \in Lifetimes, c \in Channels :
    /\ \A v \in Content(d[t][c]) : v \in Held(l, c) \/ Passed(v)
    /\ \A v \in ToSet(d[t][c].value) : v \in Held(l, c) /\ v.birthtime <= d[t][c].written

QueuesHeld(map, l) == \A c \in DOMAIN map : ToSet(map[c].msgs) \subseteq Held(l, c)

CachesUsed(l, e, o) == \A i \in 1 .. Len(l) : l[i].cached = e => ~ o.cacheDisabled

Progress ==
  /\ pc \in {"store", "cache"} => ~ Passing(This.msg)
  /\ pc # "idle" => ~ This.fired
  /\ pc = "store" /\ This.durable =>
       ToStore(This.persistent) /\ \E t \in open : t >= This.msg.lifetime

KeepInv ==
  /\ LogKept(log, now)
  /\ Progress
  /\ CachesUsed(log, epoch, opt)
  /\ DisksHeld(disk, log)
  /\ QueuesHeld(channels, log)
  /\ DisksKeep(disk, now, pc, log)
  /\ QueuesKeep(channels, now, pc, log, epoch)

\* No database loses what it covers, and no queue anything.
NoDiskLoses(d, time, l, d2, time2, l2) ==
  \A t \in Lifetimes, c \in Channels : \A v \in Held(l, c) :
    t >= v.lifetime /\ StillIn(v, Content(d[t][c]), time, l, c)
      => StillIn(v, Content(d2[t][c]), time2, l2, c)

NoQueueLoses(map, time, l, map2, time2, l2) ==
  \A c \in Channels : \A v \in Held(l, c) :
    StillIn(v, HeldBy(map, c), time, l, c) => StillIn(v, HeldBy(map2, c), time2, l2, c)

LEMMA InitKeepInv == Init => KeepInv
<1> SUFFICES ASSUME Init
             PROVE  KeepInv
  OBVIOUS
<1>1. log = <<>> /\ pc = "idle" /\ Len(log) = 0 /\ 1 .. Len(log) = {}
  BY DEF Init
<1>2. DisksHeld(disk, log)
  <2>1. Content(NoValue) = {} /\ ToSet(NoValue.value) = {}
    BY DEF NoValue, Content, ToSet
  <2>2. \A t \in Lifetimes, c \in Channels : disk[t][c] = NoValue
    BY DEF Init
  <2> QED
    BY <2>1, <2>2 DEF DisksHeld
<1>3. QueuesHeld(channels, log)
  <2>1. DOMAIN channels = {}
    BY DEF Init, NoChannels
  <2> QED
    BY <2>1 DEF QueuesHeld
<1>4. Progress
  BY <1>1 DEF Progress
<1> QED
  BY <1>1, <1>2, <1>3, <1>4, Zenon DEF KeepInv, LogKept, CachesUsed, DisksKeep, QueuesKeep

\* The parts of the invariant when the log grows or is noted down anew.
LEMMA LogKeptOn ==
  ASSUME NEW l, LogInv(l), NEW time \in Int, LogKept(l, time), NEW time2 \in Int, time <= time2,
         NEW l2, SameOrigins(Len(l), l, l2), Len(l2) = Len(l)
  PROVE  LogKept(l2, time2)
<1> SUFFICES ASSUME NEW i \in 1 .. Len(l)
             PROVE  /\ l[i].msg.action = "publish"
                    /\ Start <= l[i].msg.cursor
                    /\ ~ Passing(l[i].msg) =>
                         l[i].msg.birthtime # 0 /\ l[i].msg.birthtime <= time2
  BY Zenon DEF LogKept, SameOrigins
<1>1. l[i].msg \in Message
  BY EntryFields
<1>2. l[i].msg.birthtime \in Int
  BY <1>1, MessageFields
<1>3. /\ l[i].msg.action = "publish"
      /\ Start <= l[i].msg.cursor
      /\ ~ Passing(l[i].msg) => l[i].msg.birthtime # 0 /\ l[i].msg.birthtime <= time
  BY Zenon DEF LogKept
<1> QED
  BY <1>2, <1>3

LEMMA HeldPartsOn ==
  ASSUME NEW l, LogInv(l), NEW l2, LogInv(l2), SameOrigins(Len(l), l, l2), Len(l) <= Len(l2),
         NEW d, DisksHeld(d, l), NEW map, QueuesHeld(map, l)
  PROVE  DisksHeld(d, l2) /\ QueuesHeld(map, l2)
<1>1. \A c : Held(l, c) \subseteq Held(l2, c)
  BY HeldOn
<1>2. DisksHeld(d, l2)
  BY <1>1, Zenon DEF DisksHeld
<1>3. QueuesHeld(map, l2)
  BY <1>1, Zenon DEF QueuesHeld
<1> QED
  BY <1>2, <1>3

LEMMA NothingLost ==
  ASSUME NEW l, LogInv(l), NEW time \in Int, LogKept(l, time),
         NEW l2, LogInv(l2), NEW time2 \in Int, LogKept(l2, time2), time <= time2,
         SameOrigins(Len(l), l, l2), Len(l) <= Len(l2)
  PROVE  /\ \A d, d2 : (\A t \in Lifetimes, c \in Channels : Content(d[t][c]) \subseteq Content(d2[t][c]))
                         => NoDiskLoses(d, time, l, d2, time2, l2)
         /\ \A map : NoQueueLoses(map, time, l, map, time2, l2)
<1>1. \A c, S, S2 : \A v \in Held(l, c) :
        S \subseteq S2 /\ StillIn(v, S, time, l, c) => StillIn(v, S2, time2, l2, c)
  <2> SUFFICES ASSUME NEW c, NEW S, NEW S2, NEW v \in Held(l, c), S \subseteq S2,
                      StillIn(v, S, time, l, c)
               PROVE  StillIn(v, S2, time2, l2, c)
    BY Zenon
  <2> QED
    BY StillInOn
<1>2. \A map, c : HeldBy(map, c) \subseteq HeldBy(map, c)
  OBVIOUS
<1> QED
  BY <1>1, <1>2, Zenon DEF NoDiskLoses, NoQueueLoses

LEMMA DisksKeepOn ==
  ASSUME NEW l, LogInv(l), NEW l2, SameOrigins(Len(l), l, l2), NEW d, NEW d2,
         NEW time, NEW time2, NEW at, NEW at2, DisksKeep(d, time, at, l),
         NoDiskLoses(d, time, l, d2, time2, l2),
         \A i \in 1 .. Len(l2) : OnceStored(i, at2, l2) =>
           (i \in 1 .. Len(l) /\ OnceStored(i, at, l)) \/ Covered(i, d2, time2, l2)
  PROVE  DisksKeep(d2, time2, at2, l2)
<1> SUFFICES ASSUME NEW i \in 1 .. Len(l), OnceStored(i, at, l)
             PROVE  Covered(i, d2, time2, l2)
  BY Zenon DEF DisksKeep
<1> DEFINE c == l[i].channel
           v == l[i].msg
<1>1. c \in Channels
  BY EntryFields
<1>2. v \in Held(l, c)
  BY Zenon DEF Held, OnceStored
<1>3. PICK t \in Lifetimes : t >= v.lifetime /\ StillIn(v, Content(d[t][c]), time, l, c)
  BY Zenon DEF DisksKeep, Covered
<1>4. StillIn(v, Content(d2[t][c]), time2, l2, c)
  BY <1>1, <1>2, <1>3, Zenon DEF NoDiskLoses
<1>5. l2[i].channel = c /\ l2[i].msg = v
  BY Zenon DEF SameOrigins
<1> QED
  BY <1>3, <1>4, <1>5, Zenon DEF Covered

LEMMA QueuesKeepOn ==
  ASSUME NEW l, LogInv(l), NEW l2, SameOrigins(Len(l), l, l2), NEW map, NEW map2,
         NEW time, NEW time2, NEW at, NEW at2, NEW e, QueuesKeep(map, time, at, l, e),
         NoQueueLoses(map, time, l, map2, time2, l2),
         \A i \in 1 .. Len(l2) : OnceCached(i, at2, l2, e) =>
           \/ i \in 1 .. Len(l) /\ OnceCached(i, at, l, e)
           \/ StillIn(l2[i].msg, HeldBy(map2, l2[i].channel), time2, l2, l2[i].channel)
  PROVE  QueuesKeep(map2, time2, at2, l2, e)
<1> SUFFICES ASSUME NEW i \in 1 .. Len(l), OnceCached(i, at, l, e)
             PROVE  StillIn(l2[i].msg, HeldBy(map2, l2[i].channel), time2, l2, l2[i].channel)
  BY Zenon DEF QueuesKeep
<1> DEFINE c == l[i].channel
           v == l[i].msg
<1>1. c \in Channels
  BY EntryFields
<1>2. v \in Held(l, c)
  BY Zenon DEF Held, OnceCached
<1>3. StillIn(v, HeldBy(map, c), time, l, c)
  BY Zenon DEF QueuesKeep
<1>4. StillIn(v, HeldBy(map2, c), time2, l2, c)
  BY <1>1, <1>2, <1>3, Zenon DEF NoQueueLoses
<1>5. l2[i].channel = c /\ l2[i].msg = v
  BY Zenon DEF SameOrigins
<1> QED
  BY <1>4, <1>5, Zenon

\* Steps that note nothing down and leave the publish in progress where it is.
LEMMA QuietKeepInv ==
  ASSUME IndInv, KeepInv, log' = log, epoch' = epoch, pc' = pc, opt' = opt,
         open' = open \/ pc = "idle", now' \in Int, now <= now',
         DisksHeld(disk', log), NoDiskLoses(disk, now, log, disk', now', log),
         QueuesHeld(channels', log), NoQueueLoses(channels, now, log, channels', now', log)
  PROVE  KeepInv'
<1>1. LogInv(log) /\ now \in Int
  BY ScalarTypes DEF IndInv
<1>2. SameOrigins(Len(log), log, log)
  BY DEF SameOrigins
<1>3. LogKept(log, now')
  BY <1>1, <1>2, LogKeptOn DEF KeepInv
<1>4. DisksKeep(disk', now', pc, log)
  <2>1. DisksKeep(disk, now, pc, log)
    BY DEF KeepInv
  <2> QED
    BY <1>1, <1>2, <2>1, DisksKeepOn
<1>5. QueuesKeep(channels', now', pc, log, epoch)
  <2>1. QueuesKeep(channels, now, pc, log, epoch)
    BY DEF KeepInv
  <2> QED
    BY <1>1, <1>2, <2>1, QueuesKeepOn
<1>6. Progress'
  <2>1. This' = This
    BY Zenon DEF This
  <2>2. ToStore(This.persistent)' <=> ToStore(This.persistent)
    BY <2>1 DEF ToStore
  <2>3. Progress
    BY DEF KeepInv
  <2> QED
    BY <2>1, <2>2, <2>3 DEF Progress
<1>7. CachesUsed(log, epoch, opt)
  BY DEF KeepInv
<1> QED
  BY <1>3, <1>4, <1>5, <1>6, <1>7, Zenon DEF KeepInv

\* A step that does not touch the databases, and one that does not touch the queues.
LEMMA NothingLostNow ==
  ASSUME IndInv, KeepInv, NEW time \in Int, now <= time
  PROVE  /\ NoDiskLoses(disk, now, log, disk, time, log)
         /\ NoQueueLoses(channels, now, log, channels, time, log)
<1>1. LogInv(log) /\ now \in Int /\ LogKept(log, now)
  BY ScalarTypes DEF IndInv, KeepInv
<1>2. SameOrigins(Len(log), log, log) /\ Len(log) <= Len(log)
  <2>1. Len(log) \in Nat
    BY <1>1, EntryFields
  <2> QED
    BY <2>1 DEF SameOrigins
<1>3. LogKept(log, time)
  BY <1>1, <1>2, LogKeptOn
<1>4. /\ \A d, d2 : (\A t \in Lifetimes, c \in Channels : Content(d[t][c]) \subseteq Content(d2[t][c]))
                      => NoDiskLoses(d, now, log, d2, time, log)
      /\ \A map : NoQueueLoses(map, now, log, map, time, log)
  BY <1>1, <1>2, <1>3, NothingLost
<1>5. \A t \in Lifetimes, c \in Channels : Content(disk[t][c]) \subseteq Content(disk[t][c])
  OBVIOUS
<1> QED
  BY <1>4, <1>5, Zenon

LEMMA SweptHeld ==
  ASSUME IndInv, NEW c \in Channels, NEW map2, Swept(channels, map2, now, c)
  PROVE  \A e : \A v \in HeldBy(channels, e) : v \in HeldBy(map2, e) \/ Dead(v, now)
<1> SUFFICES ASSUME NEW e, NEW v \in HeldBy(channels, e)
             PROVE  v \in HeldBy(map2, e) \/ Dead(v, now)
  BY Zenon
<1>1. CASE map2 = channels
  BY <1>1
<1>2. CASE map2 # channels
  <2>1. /\ c \in DOMAIN channels
        /\ SameBut(channels, map2, c)
        /\ \/ DOMAIN map2 = DOMAIN channels /\ map2[c] = RemoveDeath(channels[c], now)
           \/ DOMAIN map2 = DOMAIN channels \ {c} /\ RemoveDeath(channels[c], now).msgs = <<>>
    BY <1>2, Zenon DEF Swept
  <2>2. e \in DOMAIN channels /\ v \in ToSet(channels[e].msgs)
    BY DEF HeldBy
  <2>3. CASE e # c
    <3>1. e \in DOMAIN map2
      BY <2>1, <2>2, <2>3
    <3>2. map2[e] = channels[e]
      BY <2>1, <2>3, <3>1, Zenon DEF SameBut
    <3> QED
      BY <2>2, <3>1, <3>2, Zenon DEF HeldBy
  <2>4. CASE e = c
    <3>1. SoundQueue(channels[c]) /\ now \in Int
      BY <2>1, ScalarTypes, Zenon DEF IndInv, MapInv, QueueSound
    <3>2. ToSet(RemoveDeath(channels[c], now).msgs) = {y \in ToSet(channels[c].msgs) : ~ Dead(y, now)}
      BY <3>1, RemoveDeathSound
    <3>3. v \in ToSet(RemoveDeath(channels[c], now).msgs) \/ Dead(v, now)
      BY <2>2, <2>4, <3>2
    <3>4. CASE DOMAIN map2 = DOMAIN channels /\ map2[c] = RemoveDeath(channels[c], now)
      BY <2>2, <2>4, <3>3, <3>4, Zenon DEF HeldBy
    <3>5. CASE RemoveDeath(channels[c], now).msgs = <<>>
      <4>1. ToSet(RemoveDeath(channels[c], now).msgs) = {}
        BY <3>5 DEF ToSet
      <4> QED
        BY <3>3, <4>1
    <3> QED
      BY <2>1, <3>4, <3>5, Zenon
  <2> QED
    BY <2>3, <2>4
<1> QED
  BY <1>1, <1>2

LEMMA ReadKeepInv ==
  ASSUME IndInv, KeepInv, NEW c \in Channels, channels' = FindAndRemoveDeath(channels, now, c),
         UNCHANGED <<opt, store, now, pc, observers>>
  PROVE  KeepInv'
<1>1. /\ opt' = opt /\ open' = open /\ disk' = disk /\ now' = now /\ pc' = pc /\ log' = log
      /\ epoch' = epoch /\ now \in Int /\ now <= now
  BY ScalarTypes DEF IndInv, store, observers
<1>2. Swept(channels, channels', now, c)
  BY SweptQueue, Zenon
<1>3. QueuesHeld(channels', log)
  <2>1. \A e \in DOMAIN channels' :
          e \in DOMAIN channels /\ ToSet(channels'[e].msgs) \subseteq ToSet(channels[e].msgs)
    BY <1>2, SweptElements
  <2> QED
    BY <2>1, Zenon DEF KeepInv, QueuesHeld
<1>4. NoQueueLoses(channels, now, log, channels', now, log)
  <2>1. \A e : \A v \in HeldBy(channels, e) : v \in HeldBy(channels', e) \/ Dead(v, now)
    BY <1>2, SweptHeld
  <2> QED
    BY <2>1, Zenon DEF NoQueueLoses, StillIn, Remains
<1>5. NoDiskLoses(disk, now, log, disk, now, log)
  BY <1>1, NothingLostNow
<1>6. DisksHeld(disk, log)
  BY DEF KeepInv
<1> QED
  BY <1>1, <1>3, <1>4, <1>5, <1>6, QuietKeepInv

LEMMA GetRemovedKeepInv ==
  ASSUME IndInv, KeepInv, DoGetRemoved
  PROVE  KeepInv'
<1>1. /\ opt' = opt /\ open' = open /\ disk' = disk /\ now' = now /\ pc' = pc /\ log' = log
      /\ epoch' = epoch /\ now \in Int /\ now <= now
      /\ channels' = ResetCounters(channels)
  BY ScalarTypes DEF IndInv, DoGetRemoved, store
<1>2. /\ DOMAIN channels' = DOMAIN channels
      /\ \A c \in DOMAIN channels : channels'[c].msgs = channels[c].msgs
  <2>1. MapInv(channels, Cached(pc, log), log)
    BY DEF IndInv
  <2>2. /\ DOMAIN channels' = DOMAIN channels
        /\ \A c \in DOMAIN channels : channels'[c] = ResetRemoved(channels[c])
    BY <1>1, <2>1, ResetMap
  <2>3. \A c \in DOMAIN channels : ResetRemoved(channels[c]).msgs = channels[c].msgs
    BY <2>1, ResetSound, Zenon DEF MapInv, QueueSound
  <2> QED
    BY <2>2, <2>3, Zenon
<1>3. QueuesHeld(channels', log)
  BY <1>2, Zenon DEF KeepInv, QueuesHeld
<1>4. NoQueueLoses(channels, now, log, channels', now, log)
  <2>1. \A e : HeldBy(channels, e) = HeldBy(channels', e)
    BY <1>2, Zenon DEF HeldBy
  <2> QED
    BY <2>1, Zenon DEF NoQueueLoses
<1>5. NoDiskLoses(disk, now, log, disk, now, log)
  BY <1>1, NothingLostNow
<1>6. DisksHeld(disk, log)
  BY DEF KeepInv
<1> QED
  BY <1>1, <1>3, <1>4, <1>5, <1>6, QuietKeepInv

\* The queues are lost; the databases have what they had.
LEMMA LostKeepInv ==
  ASSUME IndInv, TwiceInv, KeepInv, epoch' = epoch + 1, channels' = NoChannels, pc' = "idle",
         disk' = disk, log' = log, now' = now
  PROVE  KeepInv'
<1>1. LogInv(log) /\ now \in Int /\ now <= now /\ LogKept(log, now) /\ DisksHeld(disk, log)
  BY ScalarTypes DEF IndInv, KeepInv
<1>2. \A i \in 1 .. Len(log) : log[i].cached # epoch + 1
  <2>1. /\ epoch \in Nat
        /\ \A i \in 1 .. Len(log) : log[i].cached \in Nat /\ log[i].cached <= epoch
    BY EntryFields DEF IndInv, Scalars, TwiceInv, EpochInv
  <2> QED
    BY <2>1
<1>3. CachesUsed(log, epoch + 1, opt')
  BY <1>2, Zenon DEF CachesUsed
<1>4. QueuesHeld(channels', log)
  <2>1. DOMAIN channels' = {}
    BY NoChannelsSound
  <2> QED
    BY <2>1 DEF QueuesHeld
<1>5. QueuesKeep(channels', now, "idle", log, epoch + 1)
  BY <1>2, Zenon DEF QueuesKeep, OnceCached
<1>6. DisksKeep(disk, now, "idle", log)
  <2>1. NoDiskLoses(disk, now, log, disk, now, log)
    BY <1>1, NothingLostNow
  <2>2. SameOrigins(Len(log), log, log)
    BY DEF SameOrigins
  <2>3. \A i \in 1 .. Len(log) : OnceStored(i, "idle", log) => OnceStored(i, pc, log)
    BY DEF OnceStored
  <2>4. DisksKeep(disk, now, pc, log)
    BY DEF KeepInv
  <2> QED
    BY <1>1, <2>1, <2>2, <2>3, <2>4, DisksKeepOn
<1>7. Progress'
  BY DEF Progress
<1> QED
  BY <1>1, <1>3, <1>4, <1>5, <1>6, <1>7 DEF KeepInv

\* What a database holds, as replays need it.
LEMMA KeyKeepable ==
  ASSUME IndInv, KeepInv, NEW t \in Lifetimes, NEW c \in Channels
  PROVE  /\ Keepable(Room(log, c), Held(log, c))
         /\ disk[t][c].value \in Seq(Message)
         /\ disk[t][c].operands \in Seq(Message)
         /\ InTurn(disk[t][c].value \o disk[t][c].operands)
         /\ \A v \in ToSet(disk[t][c].value \o disk[t][c].operands) : v \in Held(log, c) \/ Passed(v)
<1>1. disk[t][c] \in KeyType /\ InTurn(disk[t][c].value \o disk[t][c].operands)
  BY KeyOfDisk
<1>2. disk[t][c].value \in Seq(Message) /\ disk[t][c].operands \in Seq(Message)
  BY <1>1, KeyFields
<1>3. Keepable(Room(log, c), Held(log, c))
  BY HeldKeepable DEF IndInv, KeepInv
<1>4. \A v \in Content(disk[t][c]) : v \in Held(log, c) \/ Passed(v)
  BY Zenon DEF KeepInv, DisksHeld
<1> QED
  BY <1>1, <1>2, <1>3, <1>4, Zenon DEF Content

LEMMA DatabaseKeepInv ==
  ASSUME IndInv, KeepInv, NEW t \in Lifetimes, NEW c \in Channels,
         \A u \in Lifetimes, e \in Channels : u # t \/ e # c => disk'[u][e] = disk[u][e],
         \A v \in Content(disk'[t][c]) : v \in Held(log, c) \/ Passed(v),
         \A v \in ToSet(disk'[t][c].value) : v \in Held(log, c) /\ v.birthtime <= disk'[t][c].written,
         \A v \in Held(log, c) :
           t >= v.lifetime /\ StillIn(v, Content(disk[t][c]), now, log, c)
             => StillIn(v, Content(disk'[t][c]), now, log, c),
         UNCHANGED <<opt, channels, open, now, pc, observers>>
  PROVE  KeepInv'
<1>1. /\ opt' = opt /\ open' = open /\ channels' = channels /\ now' = now /\ pc' = pc /\ log' = log
      /\ epoch' = epoch /\ now \in Int /\ now <= now
  BY ScalarTypes DEF IndInv, observers
<1>2. DisksHeld(disk', log)
  <2>1. DisksHeld(disk, log)
    BY DEF KeepInv
  <2> SUFFICES ASSUME NEW u \in Lifetimes, NEW e \in Channels
               PROVE  /\ \A v \in Content(disk'[u][e]) : v \in Held(log, e) \/ Passed(v)
                      /\ \A v \in ToSet(disk'[u][e].value) :
                           v \in Held(log, e) /\ v.birthtime <= disk'[u][e].written
    BY Zenon DEF DisksHeld
  <2>2. CASE u = t /\ e = c
    BY <2>2, Zenon
  <2>3. CASE u # t \/ e # c
    <3>1. disk'[u][e] = disk[u][e]
      BY <2>3, Zenon
    <3> QED
      BY <2>1, <3>1, Zenon DEF DisksHeld
  <2> QED
    BY <2>2, <2>3
<1>3. NoDiskLoses(disk, now, log, disk', now, log)
  <2> SUFFICES ASSUME NEW u \in Lifetimes, NEW e \in Channels, NEW v \in Held(log, e),
                      u >= v.lifetime, StillIn(v, Content(disk[u][e]), now, log, e)
               PROVE  StillIn(v, Content(disk'[u][e]), now, log, e)
    BY Zenon DEF NoDiskLoses
  <2>1. CASE u = t /\ e = c
    BY <2>1, Zenon
  <2>2. CASE u # t \/ e # c
    BY <2>2, Zenon
  <2> QED
    BY <2>1, <2>2
<1>4. NoQueueLoses(channels, now, log, channels, now, log)
  BY <1>1, NothingLostNow
<1>5. QueuesHeld(channels, log)
  BY DEF KeepInv
<1> QED
  BY <1>1, <1>2, <1>3, <1>4, <1>5, QuietKeepInv

\* A merge in which the clock stands still.
LEMMA MergeKeepsNow ==
  ASSUME NEW T, NEW d, Keepable(d, T),
         NEW s \in Seq(Message), NEW ops \in Seq(Message), InTurn(s \o ops),
         \A v \in ToSet(s \o ops) : v \in T \/ Passed(v),
         NEW n \in 0 .. Len(ops), NEW time \in Int
  PROVE  LET r == FullMerge(s, SubSeq(ops, 1, n), time, 0, time)
             rest == SubSeq(ops, n + 1, Len(ops))
         IN  /\ ToSet(r) \subseteq T
             /\ \A v \in T : Remains(v, ToSet(s \o ops), time, d, T)
                               => Remains(v, ToSet(r \o rest), time, d, T)
<1>1. time <= time /\ 0 \in 0 .. Len(s) + n
  <2>1. Len(s) \in Nat /\ n \in Nat
    OBVIOUS
  <2> QED
    BY <2>1
<1>2. \A before \in Int, after \in Int, k \in 0 .. Len(s) + n : \A r, rest :
        before <= after /\ r = FullMerge(s, SubSeq(ops, 1, n), before, k, after)
          /\ rest = SubSeq(ops, n + 1, Len(ops)) =>
            /\ ToSet(r) \subseteq T
            /\ \A v \in T : Remains(v, ToSet(s \o ops), before, d, T)
                              => Remains(v, ToSet(r \o rest), after, d, T)
  BY MergeKeeps
<1> QED
  BY <1>1, <1>2, Zenon

\* A merge.
LEMMA CompactKeepInv ==
  ASSUME IndInv, KeepInv, NEW t \in open, NEW c \in Channels,
         NEW n \in 1 .. Len(disk[t][c].operands), Compact(t, c, n)
  PROVE  KeepInv'
<1> DEFINE key == disk[t][c]
           s == key.value
           ops == key.operands
           r == FullMerge(s, SubSeq(ops, 1, n), now, 0, now)
           rest == SubSeq(ops, n + 1, Len(ops))
           T == Held(log, c)
           d == Room(log, c)
<1>1. /\ t \in Lifetimes /\ LostOnly(disk, disk', t, c)
      /\ disk'[t][c] = CompactedKey(key, n, now)
      /\ now \in Int /\ now <= now
  BY CompactIndInv, ScalarTypes DEF IndInv
<1>2. /\ Keepable(d, T)
      /\ s \in Seq(Message) /\ ops \in Seq(Message) /\ InTurn(s \o ops)
      /\ \A v \in ToSet(s \o ops) : v \in T \/ Passed(v)
  BY <1>1, KeyKeepable
<1>3. disk'[t][c].value = r /\ disk'[t][c].operands = rest /\ disk'[t][c].written = now
  BY <1>1 DEF CompactedKey
<1>4. n \in 1 .. Len(ops)
  OBVIOUS
<1>5. \A v \in T : v.birthtime <= now
  BY HeldFields DEF IndInv, KeepInv
<1>6. Content(key) = ToSet(s \o ops)
  BY DEF Content
<1>7. /\ UNCHANGED <<opt, channels, open, now, pc, observers>>
      /\ \A u \in Lifetimes, e \in Channels : u # t \/ e # c => disk'[u][e] = disk[u][e]
  BY <1>1 DEF Compact, LostOnly
<1>8. Content(disk'[t][c]) = ToSet(r \o rest)
  BY <1>3, Zenon DEF Content
<1>9. \A v : StillIn(v, Content(key), now, log, c) <=> Remains(v, Content(key), now, d, T)
  BY Zenon DEF StillIn
<1>10. \A v : StillIn(v, Content(disk'[t][c]), now, log, c)
               <=> Remains(v, Content(disk'[t][c]), now, d, T)
  BY Zenon DEF StillIn
<1> HIDE DEF s, ops, T, d
<1>11. n \in 0 .. Len(ops) /\ 0 \in 0 .. Len(s) + n
  <2>1. Len(s) \in Nat /\ Len(ops) \in Nat
    BY <1>2
  <2> QED
    BY <1>4, <2>1
<1>12. /\ ToSet(r) \subseteq T
       /\ \A v \in T : Remains(v, ToSet(s \o ops), now, d, T) => Remains(v, ToSet(r \o rest), now, d, T)
  <2>1. n \in 0 .. Len(ops) /\ now \in Int
    BY <1>1, <1>11
  <2>2. LET r2 == FullMerge(s, SubSeq(ops, 1, n), now, 0, now)
            rest2 == SubSeq(ops, n + 1, Len(ops))
        IN  /\ ToSet(r2) \subseteq T
            /\ \A v \in T : Remains(v, ToSet(s \o ops), now, d, T)
                              => Remains(v, ToSet(r2 \o rest2), now, d, T)
    BY <1>2, <2>1, MergeKeepsNow
  <2> QED
    BY <2>2, Zenon
<1>13. ToSet(r \o rest) \subseteq ToSet(r) \cup ToSet(s \o ops)
  <2>1. r \in Seq(Message)
    BY <1>1, <1>2, <1>11, MergeStands
  <2>2. rest \in Seq(Message) /\ ToSet(rest) \subseteq ToSet(ops)
    <3> DEFINE first == SubSeq(ops, 1, n)
    <3>1. first \in Seq(Message) /\ rest \in Seq(Message) /\ first \o rest = ops
      BY <1>2, <1>11, SplitOperands
    <3> HIDE DEF first, rest
    <3>2. ToSet(first \o rest) = ToSet(first) \cup ToSet(rest)
      BY <3>1, JoinedElements
    <3> QED
      BY <3>1, <3>2
  <2> HIDE DEF r, rest
  <2>3. ToSet(r \o rest) = ToSet(r) \cup ToSet(rest) /\ ToSet(s \o ops) = ToSet(s) \cup ToSet(ops)
    BY <1>2, <2>1, <2>2, JoinedElements
  <2> QED
    BY <2>2, <2>3
<1> HIDE DEF r, rest, key
<1>14. \A v \in Content(disk'[t][c]) : v \in T \/ Passed(v)
  BY <1>2, <1>8, <1>12, <1>13
<1>15. \A v \in ToSet(disk'[t][c].value) : v \in T /\ v.birthtime <= disk'[t][c].written
  BY <1>3, <1>5, <1>12
<1>16. \A v \in T : StillIn(v, Content(key), now, log, c) => StillIn(v, Content(disk'[t][c]), now, log, c)
  BY <1>6, <1>8, <1>9, <1>10, <1>12, Zenon
<1>17. /\ \A v \in Content(disk'[t][c]) : v \in Held(log, c) \/ Passed(v)
       /\ \A v \in ToSet(disk'[t][c].value) : v \in Held(log, c) /\ v.birthtime <= disk'[t][c].written
       /\ \A v \in Held(log, c) :
            t >= v.lifetime /\ StillIn(v, Content(disk[t][c]), now, log, c)
              => StillIn(v, Content(disk'[t][c]), now, log, c)
  BY <1>14, <1>15, <1>16, Zenon DEF T, key
<1> QED
  BY <1>1, <1>7, <1>17, DatabaseKeepInv

\* The filter of DBWithTTL takes only what has died.
LEMMA ExpireKeepInv ==
  ASSUME IndInv, KeepInv, NEW t \in open, NEW c \in Channels, Expire(t, c)
  PROVE  KeepInv'
<1> DEFINE key == disk[t][c]
           T == Held(log, c)
           none == <<>>
<1>1. /\ t \in Lifetimes /\ LostOnly(disk, disk', t, c)
      /\ disk'[t][c] = ExpiredKey(key)
      /\ now \in Int
  BY ExpireIndInv, ScalarTypes DEF IndInv
<1>2. /\ UNCHANGED <<opt, channels, open, now, pc, observers>>
      /\ \A u \in Lifetimes, e \in Channels : u # t \/ e # c => disk'[u][e] = disk[u][e]
      /\ key.written + t < now
  BY <1>1 DEF Expire, LostOnly
<1>3. key \in KeyType /\ InTurn(key.value \o key.operands)
  BY <1>1, KeyOfDisk
<1>4. /\ \A v \in Content(key) : v \in T \/ Passed(v)
      /\ \A v \in ToSet(key.value) : v \in T /\ v.birthtime <= key.written
  BY <1>1, Zenon DEF KeepInv, DisksHeld
<1>5. \A v \in T : v \in Message
  BY HeldFields DEF IndInv, KeepInv
<1> HIDE DEF key, T
<1>6. Content(disk'[t][c]) = ToSet(key.operands)
  <2>1. Content(ExpiredKey(key)) = ToSet(key.operands)
    BY <1>3, ExpireStands
  <2> QED
    BY <1>1, <2>1, Zenon
<1>7. Content(key) = ToSet(key.value) \cup ToSet(key.operands)
  BY <1>3, KeyFields, JoinedElements, ZenonT(60) DEF Content
<1>8. ToSet(disk'[t][c].value) = {}
  <2>1. ExpiredKey(key) = [key EXCEPT !.value = none]
    BY DEF ExpiredKey
  <2>2. ToSet(none) = {}
    BY DEF ToSet
  <2> HIDE DEF none
  <2>3. ExpiredKey(key).value = none
    BY <1>3, <2>1 DEF KeyType
  <2> QED
    BY <1>1, <2>2, <2>3, Zenon
<1>9. ASSUME NEW v \in T, t >= v.lifetime, StillIn(v, Content(key), now, log, c)
      PROVE  StillIn(v, Content(disk'[t][c]), now, log, c)
  <2>1. CASE v \in ToSet(key.value)
    <3>1. /\ v.birthtime \in Int /\ v.lifetime \in Int /\ key.written \in Nat /\ t \in Nat
          /\ v.birthtime <= key.written
      BY <1>1, <1>3, <1>4, <1>5, <2>1, MessageFields, KeyFields, FiniteLifetimes
    <3>2. v.birthtime + v.lifetime < now
      BY <1>1, <1>2, <1>9, <3>1
    <3> QED
      BY <3>2 DEF StillIn, Remains, Dead, Deathtime
  <2>2. CASE v \notin ToSet(key.value)
    <3>1. v \in Content(key) => v \in Content(disk'[t][c])
      BY <1>6, <1>7, <2>2
    <3> QED
      BY <1>9, <3>1, Zenon DEF StillIn, Remains
  <2> QED
    BY <2>1, <2>2
<1>10. /\ \A v \in Content(disk'[t][c]) : v \in Held(log, c) \/ Passed(v)
       /\ \A v \in ToSet(disk'[t][c].value) : v \in Held(log, c) /\ v.birthtime <= disk'[t][c].written
  BY <1>4, <1>6, <1>7, <1>8 DEF T
<1>11. \A v \in Held(log, c) :
         t >= v.lifetime /\ StillIn(v, Content(disk[t][c]), now, log, c)
           => StillIn(v, Content(disk'[t][c]), now, log, c)
  BY <1>9, Zenon DEF T, key
<1> QED
  BY <1>1, <1>2, <1>10, <1>11, DatabaseKeepInv

LEMMA PublishKeepInv ==
  ASSUME PublishOnly, NotFromTheFuture, 0 \notin Times, IndInv, TwiceInv, KeepInv,
         NEW c \in Channels, NEW input \in Inputs, Publish(c, input)
  PROVE  KeepInv'
<1> DEFINE n == Len(log)
           m == Taken(input)
           e == Entry(c, m, input.persistent)
<1>1. /\ n \in Nat
      /\ Len(log') = n + 1
      /\ \A i \in 1 .. n : log'[i] = log[i]
      /\ log'[n + 1] = e
      /\ pc' = IF Passing(input.msg) THEN "fire" ELSE "store"
      /\ LogInv(log') /\ LogInv(log)
  BY PublishLogs, EntryFields DEF IndInv
<1>2. /\ pc = "idle" /\ channels' = channels /\ disk' = disk /\ open' = open /\ opt' = opt
      /\ now' = now /\ epoch' = epoch /\ now \in Int /\ now <= now
  BY ScalarTypes DEF Publish, store, IndInv
<1>3. SameOrigins(n, log, log') /\ n <= Len(log') /\ \A i \in 1 .. Len(log') : i \in 1 .. n \/ i = n + 1
  BY <1>1 DEF SameOrigins
<1>4. /\ e.msg = m /\ e.channel = c /\ e.persistent = input.persistent /\ e.fired = FALSE
      /\ e.durable => ToStore(input.persistent) /\ \E t \in open : t >= m.lifetime
      /\ e.cached = epoch => ~ opt.cacheDisabled
  <2>1. /\ e.msg = m /\ e.channel = c /\ e.persistent = input.persistent /\ e.fired = FALSE
        /\ e.durable = (ToStore(input.persistent) /\ \E t \in open : t >= m.lifetime)
        /\ e.cached = IF ToCache(input.persistent) THEN epoch ELSE 0
    BY DEF Entry
  <2>2. epoch # 0
    BY DEF TwiceInv, EpochInv
  <2> HIDE DEF e
  <2> QED
    BY <2>1, <2>2, Zenon DEF ToCache
<1>5. /\ m \in Message
      /\ m.action = "publish"
      /\ Start <= m.cursor
      /\ Passing(m) <=> Passing(input.msg)
      /\ ~ Passing(m) => m.birthtime # 0 /\ m.birthtime <= now
  <2>1. /\ m \in Message
        /\ m.cursor = input.msg.cursor
        /\ m.action = input.msg.action
        /\ Passing(m) <=> Passing(input.msg)
        /\ ~ Passing(m) =>
             m.birthtime = IF input.msg.birthtime = 0 THEN now ELSE input.msg.birthtime
    BY TakenFields DEF IndInv
  <2>2. now \in Times /\ now # 0
    BY DEF IndInv, Scalars
  <2>3. input.msg.birthtime <= now /\ input.msg.action = "publish" /\ Start <= input.msg.cursor
    BY <2>2, StartIsFirst, Zenon DEF NotFromTheFuture, PublishOnly
  <2> HIDE DEF m
  <2> QED
    BY <1>2, <2>1, <2>2, <2>3, Zenon
<1> HIDE DEF e, m
<1>6. LogKept(log', now)
  <2>1. LogKept(log, now)
    BY DEF KeepInv
  <2> QED
    BY <1>1, <1>3, <1>4, <1>5, <2>1, Zenon DEF LogKept
<1>7. DisksHeld(disk, log') /\ QueuesHeld(channels, log')
  BY <1>1, <1>3, HeldPartsOn DEF KeepInv
<1>8. NoDiskLoses(disk, now, log, disk, now, log') /\ NoQueueLoses(channels, now, log, channels, now, log')
  <2>1. LogKept(log, now)
    BY DEF KeepInv
  <2>2. /\ \A d, d2 : (\A t \in Lifetimes, k \in Channels : Content(d[t][k]) \subseteq Content(d2[t][k]))
                        => NoDiskLoses(d, now, log, d2, now, log')
        /\ \A map : NoQueueLoses(map, now, log, map, now, log')
    BY <1>1, <1>2, <1>3, <1>6, <2>1, NothingLost
  <2>3. \A t \in Lifetimes, k \in Channels : Content(disk[t][k]) \subseteq Content(disk[t][k])
    OBVIOUS
  <2> QED
    BY <2>2, <2>3, Zenon
<1>9. \A i \in 1 .. Len(log') : /\ OnceStored(i, pc', log') => i \in 1 .. n /\ OnceStored(i, pc, log)
                                /\ OnceCached(i, pc', log', epoch) => i \in 1 .. n /\ OnceCached(i, pc, log, epoch)
  <2> SUFFICES ASSUME NEW i \in 1 .. Len(log')
               PROVE  /\ OnceStored(i, pc', log') => i \in 1 .. n /\ OnceStored(i, pc, log)
                      /\ OnceCached(i, pc', log', epoch) => i \in 1 .. n /\ OnceCached(i, pc, log, epoch)
    BY Zenon
  <2>1. CASE i \in 1 .. n
    <3>1. log'[i] = log[i] /\ i # Len(log')
      BY <1>1, <2>1
    <3> QED
      BY <2>1, <3>1, Zenon DEF OnceStored, OnceCached
  <2>2. CASE i = n + 1
    <3>1. log'[i] = e
      BY <1>1, <2>2
    <3>2. pc' \in {"cache", "fire"} => m.lifetime = 0
      BY <1>1, <1>5 DEF Passing
    <3>3. ~ OnceStored(i, pc', log')
      BY <1>4, <3>1, <3>2 DEF OnceStored
    <3>4. ~ OnceCached(i, pc', log', epoch)
      BY <1>4, <3>1, <3>2 DEF OnceCached
    <3> QED
      BY <3>3, <3>4
  <2> QED
    BY <1>3, <2>1, <2>2
<1>10. DisksKeep(disk, now, pc', log')
  <2>1. DisksKeep(disk, now, pc, log)
    BY DEF KeepInv
  <2> QED
    BY <1>1, <1>3, <1>8, <1>9, <2>1, DisksKeepOn
<1>11. QueuesKeep(channels, now, pc', log', epoch)
  <2>1. QueuesKeep(channels, now, pc, log, epoch)
    BY DEF KeepInv
  <2> QED
    BY <1>1, <1>3, <1>8, <1>9, <2>1, QueuesKeepOn
<1>12. CachesUsed(log', epoch, opt)
  <2>1. CachesUsed(log, epoch, opt)
    BY DEF KeepInv
  <2> QED
    BY <1>1, <1>3, <1>4, <2>1, Zenon DEF CachesUsed
<1>13. Progress'
  <2>1. This' = e
    BY <1>1, Zenon DEF This
  <2>2. pc' \in {"store", "cache"} => ~ Passing(m)
    BY <1>1, <1>5
  <2>3. ToStore(This.persistent)' <=> ToStore(input.persistent)
    BY <1>2, <1>4, <2>1 DEF ToStore
  <2> QED
    BY <1>2, <1>4, <2>1, <2>2, <2>3, Zenon DEF Progress
<1> QED
  BY <1>2, <1>6, <1>7, <1>10, <1>11, <1>12, <1>13, Zenon DEF KeepInv

\* The message in progress may be kept, or takes nothing with it.
LEMMA ThisIsHeld ==
  ASSUME IndInv, KeepInv, pc \in {"store", "cache"}
  PROVE  This.msg \in Held(log, This.channel) \/ Passed(This.msg)
<1>1. Len(log) \in 1 .. Len(log) /\ This = log[Len(log)] /\ This.msg \in Message
  BY ThisFields
<1>2. This.msg.action = "publish" /\ ~ Passing(This.msg)
  <2>1. ~ Passing(This.msg)
    BY DEF KeepInv, Progress
  <2> QED
    BY <1>1, <2>1, Zenon DEF KeepInv, LogKept
<1>3. CASE This.msg.lifetime = 0
  <2>1. This.msg.limit # 0
    BY <1>2, <1>3 DEF Passing
  <2> QED
    BY <1>1, <1>2, <1>3, <2>1, Zenon DEF Passed
<1>4. CASE This.msg.lifetime # 0
  BY <1>1, <1>4, Zenon DEF Held
<1> QED
  BY <1>3, <1>4

\* multi_rocksdb::push.
LEMMA StoreKeepInv ==
  ASSUME IndInv, KeepInv, Store
  PROVE  KeepInv'
<1> DEFINE n == Len(log)
           t == Database(This.msg.lifetime)
           c == This.channel
<1>1. /\ pc = "store" /\ pc' = "cache" /\ channels' = channels /\ open' = open /\ opt' = opt
      /\ now' = now /\ epoch' = epoch /\ now \in Int /\ now <= now
  BY ScalarTypes DEF Store, IndInv
<1>2. /\ n \in Nat /\ n \in 1 .. n /\ This = log[n] /\ c \in Channels /\ This.msg \in Message
      /\ This \in EntryType /\ LogInv(log) /\ LogKept(log, now)
  BY <1>1, ThisFields DEF IndInv, KeepInv
<1>3. /\ ~ Passing(This.msg) /\ ~ This.fired
      /\ This.durable => ToStore(This.persistent) /\ \E u \in open : u >= This.msg.lifetime
  BY <1>1 DEF KeepInv, Progress
<1>4. \/ /\ ToStore(This.persistent) /\ open # {} /\ log' = log
         /\ MergeInto(t, c, This.msg)
      \/ Failed(log') /\ disk' = disk
      \/ log' = log /\ disk' = disk /\ ~ (ToStore(This.persistent) /\ open # {})
  <2>1. Failed([log EXCEPT ![Len(log)].durable = FALSE])
    BY <1>1, MarkThis
  <2> QED
    BY <2>1, Zenon DEF Store
<1>5. /\ LogInv(log') /\ Len(log') = n /\ SameOrigins(n, log, log')
      /\ \A i \in 1 .. n : /\ log'[i].cached = log[i].cached
                           /\ log'[i].fired = log[i].fired
                           /\ log'[i].durable => log[i].durable
      /\ ~ (log' = log) => ~ log'[n].durable
  <2>1. CASE log' = log
    BY <1>2, <2>1 DEF SameOrigins
  <2>2. CASE Failed(log')
    <3>1. LogInv(log') /\ Len(log') = n /\ SameOrigins(n, log, log')
          /\ log'[n] = [This EXCEPT !.durable = FALSE]
          /\ \A i \in 1 .. n : i # n => log'[i] = log[i]
      BY <2>2 DEF Failed
    <3>2. /\ log'[n].cached = log[n].cached
          /\ log'[n].fired = log[n].fired
          /\ ~ log'[n].durable
      BY <1>2, <3>1 DEF EntryType
    <3> QED
      BY <3>1, <3>2, Zenon
  <2> QED
    BY <1>4, <2>1, <2>2, Zenon
<1>6. LogKept(log', now)
  BY <1>1, <1>2, <1>5, LogKeptOn
<1>7. \A k \in Lifetimes, e \in Channels : Content(disk[k][e]) \subseteq Content(disk'[k][e])
  <2>1. CASE disk' = disk
    BY <2>1
  <2>2. CASE open # {} /\ MergeInto(t, c, This.msg)
    <3>1. /\ KeyStep(disk, disk', t, c, n - 1)
          /\ Content(disk'[t][c]) = Content(disk[t][c]) \cup {This.msg}
      BY <1>1, <2>2, MergedInto, Zenon
    <3> HIDE DEF t, c
    <3>2. \A u \in Lifetimes, k \in Channels : u # t \/ k # c => disk'[u][k] = disk[u][k]
      BY <3>1, Zenon DEF KeyStep
    <3> SUFFICES ASSUME NEW k \in Lifetimes, NEW e \in Channels
                 PROVE  Content(disk[k][e]) \subseteq Content(disk'[k][e])
      BY Zenon
    <3>3. CASE k = t /\ e = c
      BY <3>1, <3>3
    <3>4. CASE k # t \/ e # c
      BY <3>2, <3>4
    <3> QED
      BY <3>3, <3>4
  <2> QED
    BY <1>4, <2>1, <2>2, Zenon
<1>8. DisksHeld(disk', log)
  <2>0. DisksHeld(disk, log)
    BY DEF KeepInv
  <2>1. CASE disk' = disk
    BY <2>0, <2>1
  <2>2. CASE open # {} /\ MergeInto(t, c, This.msg)
    <3>1. /\ KeyStep(disk, disk', t, c, n - 1)
          /\ Content(disk'[t][c]) = Content(disk[t][c]) \cup {This.msg}
          /\ disk'[t][c].value = disk[t][c].value
          /\ disk'[t][c].written = disk[t][c].written
      BY <1>1, <2>2, MergedInto, Zenon
    <3>2. This.msg \in Held(log, c) \/ Passed(This.msg)
      BY <1>1, ThisIsHeld
    <3> HIDE DEF t, c
    <3>3. \A u \in Lifetimes, k \in Channels : u # t \/ k # c => disk'[u][k] = disk[u][k]
      BY <3>1, Zenon DEF KeyStep
    <3> SUFFICES ASSUME NEW k \in Lifetimes, NEW e \in Channels
                 PROVE  /\ \A v \in Content(disk'[k][e]) : v \in Held(log, e) \/ Passed(v)
                        /\ \A v \in ToSet(disk'[k][e].value) :
                             v \in Held(log, e) /\ v.birthtime <= disk'[k][e].written
      BY Zenon DEF DisksHeld
    <3>4. /\ \A v \in Content(disk[k][e]) : v \in Held(log, e) \/ Passed(v)
          /\ \A v \in ToSet(disk[k][e].value) :
               v \in Held(log, e) /\ v.birthtime <= disk[k][e].written
      BY <2>0, Zenon DEF DisksHeld
    <3>5. CASE k = t /\ e = c
      <4>1. \A v \in Content(disk'[t][c]) : v \in Content(disk[t][c]) \/ v = This.msg
        BY <3>1
      <4> QED
        BY <3>1, <3>2, <3>4, <3>5, <4>1, Zenon
    <3>6. CASE k # t \/ e # c
      <4>1. disk'[k][e] = disk[k][e]
        BY <3>3, <3>6, Zenon
      <4> QED
        BY <3>4, <4>1, Zenon
    <3> QED
      BY <3>5, <3>6
  <2> QED
    BY <1>4, <2>1, <2>2, Zenon
<1>9. DisksHeld(disk', log') /\ QueuesHeld(channels, log')
  <2>1. Len(log) <= Len(log') /\ QueuesHeld(channels, log)
    BY <1>2, <1>5 DEF KeepInv
  <2> QED
    BY <1>2, <1>5, <1>8, <2>1, HeldPartsOn
<1>10. NoDiskLoses(disk, now, log, disk', now, log') /\ NoQueueLoses(channels, now, log, channels, now, log')
  <2>1. Len(log) <= Len(log')
    BY <1>2, <1>5
  <2>2. /\ \A d, d2 : (\A u \in Lifetimes, k \in Channels : Content(d[u][k]) \subseteq Content(d2[u][k]))
                        => NoDiskLoses(d, now, log, d2, now, log')
        /\ \A map : NoQueueLoses(map, now, log, map, now, log')
    BY <1>1, <1>2, <1>5, <1>6, <2>1, NothingLost
  <2> QED
    BY <1>7, <2>2, Zenon
<1>11. ASSUME log'[n].durable
       PROVE  Covered(n, disk', now, log')
  <2>1. log' = log /\ This.durable
    BY <1>2, <1>5, <1>11
  <2>2. ToStore(This.persistent) /\ \E u \in open : u >= This.msg.lifetime
    BY <1>3, <2>1
  <2>3. open # {} /\ MergeInto(t, c, This.msg)
    <3>1. ~ Failed(log')
      <4>1. ~ [This EXCEPT !.durable = FALSE].durable
        BY <1>2 DEF EntryType
      <4> QED
        BY <1>11, <4>1, Zenon DEF Failed
    <3>2. open # {}
      BY <2>2
    <3> QED
      BY <1>4, <2>2, <3>1, <3>2, Zenon
  <2>4. t \in Lifetimes /\ Content(disk'[t][c]) = Content(disk[t][c]) \cup {This.msg}
    BY <1>1, <2>3, MergedInto, Zenon
  <2>5. t >= This.msg.lifetime
    <3>1. open \subseteq Lifetimes /\ This.msg.lifetime \in Int
      BY <1>2, MessageFields DEF IndInv, Scalars
    <3> QED
      BY <2>2, <2>3, <3>1, DatabaseIsOpen
  <2> HIDE DEF t
  <2>6. This.msg \in Content(disk'[t][c])
    BY <2>4
  <2>7. StillIn(This.msg, Content(disk'[t][c]), now, log, c)
    BY <2>6, Zenon DEF StillIn, Remains
  <2> QED
    BY <1>2, <2>1, <2>4, <2>5, <2>7, Zenon DEF Covered
<1>12. \A i \in 1 .. Len(log') : OnceStored(i, pc', log') =>
         (i \in 1 .. n /\ OnceStored(i, pc, log)) \/ Covered(i, disk', now, log')
  <2> SUFFICES ASSUME NEW i \in 1 .. n, OnceStored(i, pc', log'), ~ Covered(i, disk', now, log')
               PROVE  OnceStored(i, pc, log)
    BY <1>5, Zenon
  <2>1. i # n
    BY <1>11, Zenon DEF OnceStored
  <2>2. log'[i].msg = log[i].msg /\ log'[i].fired = log[i].fired /\ (log'[i].durable => log[i].durable)
    BY <1>5, Zenon DEF SameOrigins
  <2> QED
    BY <1>5, <2>1, <2>2, Zenon DEF OnceStored
<1>13. \A i \in 1 .. Len(log') : OnceCached(i, pc', log', epoch) =>
         i \in 1 .. n /\ OnceCached(i, pc, log, epoch)
  <2> SUFFICES ASSUME NEW i \in 1 .. n, OnceCached(i, pc', log', epoch)
               PROVE  OnceCached(i, pc, log, epoch)
    BY <1>5, Zenon
  <2>1. log'[i].msg = log[i].msg /\ log'[i].fired = log[i].fired /\ log'[i].cached = log[i].cached
    BY <1>5, Zenon DEF SameOrigins
  <2>2. pc' # "fire"
    BY <1>1
  <2> QED
    BY <2>1, <2>2, Zenon DEF OnceCached
<1>14. DisksKeep(disk', now, pc', log')
  <2>1. DisksKeep(disk, now, pc, log)
    BY DEF KeepInv
  <2> QED
    BY <1>2, <1>5, <1>10, <1>12, <2>1, DisksKeepOn
<1>15. QueuesKeep(channels, now, pc', log', epoch)
  <2>1. QueuesKeep(channels, now, pc, log, epoch)
    BY DEF KeepInv
  <2> QED
    BY <1>2, <1>5, <1>10, <1>13, <2>1, QueuesKeepOn
<1>16. CachesUsed(log', epoch, opt)
  BY <1>5, Zenon DEF KeepInv, CachesUsed
<1>17. Progress'
  <2>1. This' = log'[n]
    BY <1>5, Zenon DEF This
  <2>2. This'.msg = This.msg /\ This'.fired = This.fired
    BY <1>2, <1>5, <2>1, Zenon DEF SameOrigins
  <2>3. pc' # "store"
    BY <1>1
  <2> QED
    BY <1>3, <2>2, <2>3, Zenon DEF Progress
<1> QED
  BY <1>1, <1>6, <1>9, <1>14, <1>15, <1>16, <1>17, Zenon DEF KeepInv

\* channel_map::push.
LEMMA CacheKeepInv ==
  ASSUME IndInv, TwiceInv, KeepInv, Cache
  PROVE  KeepInv'
<1> DEFINE n == Len(log)
           c == This.channel
           m == This.msg
           q == QueueOf(channels, c)
           after == Push(q, now, m)
           T == Held(log, c)
           d == Room(log, c)
<1>1. /\ pc = "cache" /\ pc' = "fire" /\ disk' = disk /\ open' = open /\ opt' = opt
      /\ now' = now /\ epoch' = epoch /\ log' = log /\ now \in Int /\ now <= now
  BY ScalarTypes DEF Cache, IndInv, store
<1>2. /\ n \in Nat /\ n \in 1 .. n /\ This = log[n] /\ c \in Channels /\ m \in Message
      /\ LogInv(log) /\ LogKept(log, now) /\ SameOrigins(n, log, log) /\ n <= n
  BY <1>1, ThisFields DEF IndInv, KeepInv, SameOrigins
<1>3. ~ Passing(m) /\ ~ This.fired
  BY <1>1 DEF KeepInv, Progress
<1>4. NoDiskLoses(disk, now, log, disk, now, log) /\ NoQueueLoses(channels, now, log, channels, now, log)
  BY <1>1, NothingLostNow
<1>5. QueuesHeld(channels, log) /\ DisksHeld(disk, log)
  BY DEF KeepInv
<1>6. ASSUME ToCache(This.persistent)
      PROVE  /\ QueuesHeld(channels', log)
             /\ NoQueueLoses(channels, now, log, channels', now, log)
             /\ m.lifetime # 0 => StillIn(m, HeldBy(channels', c), now, log, c)
  <2>1. Pushed(channels, channels', now, c, m)
    <3>1. channels' = PushTo(channels, now, c, m)
      BY <1>6, Zenon DEF Cache
    <3> QED
      BY <3>1, PushToQueue, Zenon
  <2>2. /\ DOMAIN channels' = DOMAIN channels \cup {c}
        /\ SameBut(channels, channels', c)
        /\ channels'[c] = after
    BY <1>3, <2>1, Zenon DEF Pushed, Passing
  <2>3. SoundQueue(q) /\ NewerThan(m, q.msgs)
    BY <1>1, PushIsSound, Zenon DEF QueueSound
  <2>4. ToSet(q.msgs) = HeldBy(channels, c) /\ ToSet(q.msgs) \subseteq T
    <3>1. CASE c \in DOMAIN channels
      BY <1>5, <3>1, Zenon DEF QueueOf, HeldBy, QueuesHeld
    <3>2. CASE c \notin DOMAIN channels
      <4>1. ToSet(q.msgs) = {}
        BY <3>2, EmptySound, Zenon DEF QueueOf
      <4>2. HeldBy(channels, c) = {}
        BY <3>2, Zenon DEF HeldBy
      <4> QED
        BY <4>1, <4>2
    <3> QED
      BY <3>1, <3>2
  <2>5. Keepable(d, T) /\ (m \in T \/ Passed(m))
    BY <1>1, <1>2, HeldKeepable, ThisIsHeld
  <2>6. c \in DOMAIN channels' /\ HeldBy(channels', c) = ToSet(after.msgs)
    <3>1. c \in DOMAIN channels'
      BY <2>2
    <3> QED
      BY <2>2, <3>1, Zenon DEF HeldBy
  <2>7. \A e : e # c => /\ e \in DOMAIN channels' <=> e \in DOMAIN channels
                        /\ e \in DOMAIN channels' => channels'[e] = channels[e]
    <3> HIDE DEF c
    <3>1. \A e : e # c => (e \in DOMAIN channels' <=> e \in DOMAIN channels)
      BY <2>2
    <3> QED
      BY <2>2, <3>1, Zenon DEF SameBut
  <2> HIDE DEF q, after, T, d
  <2>8. /\ ToSet(after.msgs) \subseteq T
        /\ \A v \in ToSet(q.msgs) : Remains(v, ToSet(after.msgs), now, d, T)
        /\ m \in T => Remains(m, ToSet(after.msgs), now, d, T)
    <3> HIDE DEF m
    <3> QED
      BY <1>1, <2>3, <2>4, <2>5, PushKeeps DEF after
  <2>9. QueuesHeld(channels', log)
    <3> SUFFICES ASSUME NEW e \in DOMAIN channels'
                 PROVE  ToSet(channels'[e].msgs) \subseteq Held(log, e)
      BY Zenon DEF QueuesHeld
    <3>1. CASE e = c
      BY <2>2, <2>8, <3>1, Zenon DEF T
    <3>2. CASE e # c
      BY <1>5, <2>7, <3>2, Zenon DEF QueuesHeld
    <3> QED
      BY <3>1, <3>2
  <2>10. NoQueueLoses(channels, now, log, channels', now, log)
    <3> SUFFICES ASSUME NEW e \in Channels, NEW v \in Held(log, e),
                        StillIn(v, HeldBy(channels, e), now, log, e)
                 PROVE  StillIn(v, HeldBy(channels', e), now, log, e)
      BY Zenon DEF NoQueueLoses
    <3>1. CASE e = c
      <4>1. v \in ToSet(q.msgs) \/ Dead(v, now) \/ v \notin Latest(d, T)
        BY <2>4, <3>1, Zenon DEF StillIn, Remains, T, d
      <4>2. Remains(v, ToSet(after.msgs), now, d, T)
        BY <2>8, <4>1, Zenon DEF Remains
      <4> QED
        BY <2>6, <3>1, <4>2, Zenon DEF StillIn, T, d
    <3>2. CASE e # c
      <4>1. HeldBy(channels', e) = HeldBy(channels, e)
        BY <2>7, <3>2, Zenon DEF HeldBy
      <4> QED
        BY <4>1, Zenon
    <3> QED
      BY <3>1, <3>2
  <2>11. m.lifetime # 0 => StillIn(m, HeldBy(channels', c), now, log, c)
    <3>1. m.lifetime # 0 => m \in T
      BY <2>5, Zenon DEF Passed
    <3> QED
      BY <2>6, <2>8, <3>1, Zenon DEF StillIn, T, d
  <2> QED
    BY <2>9, <2>10, <2>11
<1>7. ASSUME ~ ToCache(This.persistent)
      PROVE  channels' = channels /\ This.cached # epoch
  <2>1. This.cached = 0 /\ epoch >= 1 /\ epoch \in Nat
    BY <1>1, <1>7 DEF TwiceInv, EpochInv, IndInv, Scalars
  <2> QED
    BY <1>7, <2>1 DEF Cache
<1>8. /\ QueuesHeld(channels', log)
      /\ NoQueueLoses(channels, now, log, channels', now, log)
  BY <1>4, <1>5, <1>6, <1>7, Zenon
<1>9. \A i \in 1 .. Len(log) : OnceCached(i, pc', log, epoch) =>
        \/ i \in 1 .. Len(log) /\ OnceCached(i, pc, log, epoch)
        \/ StillIn(log[i].msg, HeldBy(channels', log[i].channel), now, log, log[i].channel)
  <2> SUFFICES ASSUME NEW i \in 1 .. Len(log), OnceCached(i, pc', log, epoch),
                      ~ OnceCached(i, pc, log, epoch)
               PROVE  StillIn(log[i].msg, HeldBy(channels', log[i].channel), now, log, log[i].channel)
    BY Zenon
  <2>1. i = n /\ log[i].cached = epoch /\ log[i].msg.lifetime # 0
    BY Zenon DEF OnceCached
  <2>2. ToCache(This.persistent)
    BY <1>2, <1>7, <2>1, Zenon
  <2> QED
    BY <1>2, <1>6, <2>1, <2>2, Zenon
<1>10. QueuesKeep(channels', now, pc', log, epoch)
  <2>1. QueuesKeep(channels, now, pc, log, epoch)
    BY DEF KeepInv
  <2> QED
    BY <1>2, <1>8, <1>9, <2>1, QueuesKeepOn
<1>11. DisksKeep(disk, now, pc', log)
  <2>1. DisksKeep(disk, now, pc, log)
    BY DEF KeepInv
  <2>2. \A i \in 1 .. Len(log) : OnceStored(i, pc', log) => OnceStored(i, pc, log)
    BY <1>1, Zenon DEF OnceStored
  <2> QED
    BY <2>1, <2>2, Zenon DEF DisksKeep
<1>12. Progress'
  <2>1. This' = This
    BY <1>1, Zenon DEF This
  <2> QED
    BY <1>1, <1>3, <2>1, Zenon DEF Progress
<1>13. CachesUsed(log, epoch, opt)
  BY DEF KeepInv
<1> QED
  BY <1>1, <1>2, <1>5, <1>8, <1>10, <1>11, <1>12, <1>13, Zenon DEF KeepInv

\* fire_: what was put where it belongs is now noted down as fired.
LEMMA FireKeepInv ==
  ASSUME IndInv, KeepInv, Fire
  PROVE  KeepInv'
<1> DEFINE n == Len(log)
<1>1. /\ pc = "fire" /\ pc' = "idle" /\ disk' = disk /\ channels' = channels /\ opt' = opt
      /\ now' = now /\ epoch' = epoch /\ now \in Int /\ now <= now
  BY ScalarTypes DEF Fire, IndInv, store
<1>2. /\ n \in Nat /\ n \in 1 .. n /\ This = log[n] /\ This \in EntryType
      /\ LogInv(log) /\ LogKept(log, now) /\ n <= n
  BY <1>1, ThisFields DEF IndInv, KeepInv
<1>3. Fired(log')
  <2>1. Fired([log EXCEPT ![Len(log)].fired = TRUE])
    BY <1>1, MarkThis
  <2> QED
    BY <2>1, Zenon DEF Fire
<1>4. LogInv(log') /\ Len(log') = n /\ SameOrigins(n, log, log')
  BY <1>3 DEF Fired
<1>5. \A i \in 1 .. n : /\ log'[i].cached = log[i].cached
                        /\ log'[i].durable = log[i].durable
                        /\ log'[i].msg = log[i].msg
                        /\ i # n => log'[i].fired = log[i].fired
  <2>1. log'[n] = [This EXCEPT !.fired = TRUE] /\ \A i \in 1 .. n : i # n => log'[i] = log[i]
    BY <1>3 DEF Fired
  <2>2. /\ log'[n].cached = log[n].cached
        /\ log'[n].durable = log[n].durable
        /\ log'[n].msg = log[n].msg
    BY <1>2, <2>1 DEF EntryType
  <2> QED
    BY <2>1, <2>2, Zenon
<1>6. LogKept(log', now)
  BY <1>1, <1>2, <1>4, LogKeptOn
<1>7. DisksHeld(disk, log') /\ QueuesHeld(channels, log')
  BY <1>2, <1>4, HeldPartsOn DEF KeepInv
<1>8. NoDiskLoses(disk, now, log, disk, now, log') /\ NoQueueLoses(channels, now, log, channels, now, log')
  <2>1. Len(log) <= Len(log')
    BY <1>2, <1>4
  <2>2. /\ \A d, d2 : (\A u \in Lifetimes, k \in Channels : Content(d[u][k]) \subseteq Content(d2[u][k]))
                        => NoDiskLoses(d, now, log, d2, now, log')
        /\ \A map : NoQueueLoses(map, now, log, map, now, log')
    BY <1>1, <1>2, <1>4, <1>6, <2>1, NothingLost
  <2>3. \A u \in Lifetimes, k \in Channels : Content(disk[u][k]) \subseteq Content(disk[u][k])
    OBVIOUS
  <2> QED
    BY <2>2, <2>3, Zenon
<1>9. \A i \in 1 .. Len(log') :
        /\ OnceStored(i, pc', log') => i \in 1 .. n /\ OnceStored(i, pc, log)
        /\ OnceCached(i, pc', log', epoch) => i \in 1 .. n /\ OnceCached(i, pc, log, epoch)
  <2> SUFFICES ASSUME NEW i \in 1 .. n
               PROVE  /\ OnceStored(i, pc', log') => OnceStored(i, pc, log)
                      /\ OnceCached(i, pc', log', epoch) => OnceCached(i, pc, log, epoch)
    BY <1>4, Zenon
  <2>1. pc = "fire" /\ (i # n => log'[i].fired = log[i].fired)
    BY <1>1, <1>5
  <2>2. OnceStored(i, pc', log') => OnceStored(i, pc, log)
    BY <1>1, <1>5, <2>1 DEF OnceStored
  <2>3. OnceCached(i, pc', log', epoch) => OnceCached(i, pc, log, epoch)
    BY <1>1, <1>5, <2>1 DEF OnceCached
  <2> QED
    BY <2>2, <2>3
<1>10. DisksKeep(disk, now, pc', log')
  <2>1. DisksKeep(disk, now, pc, log)
    BY DEF KeepInv
  <2> QED
    BY <1>2, <1>4, <1>8, <1>9, <2>1, DisksKeepOn
<1>11. QueuesKeep(channels, now, pc', log', epoch)
  <2>1. QueuesKeep(channels, now, pc, log, epoch)
    BY DEF KeepInv
  <2> QED
    BY <1>2, <1>4, <1>8, <1>9, <2>1, QueuesKeepOn
<1>12. CachesUsed(log', epoch, opt)
  <2>1. CachesUsed(log, epoch, opt)
    BY DEF KeepInv
  <2> QED
    BY <1>4, <1>5, <2>1, Zenon DEF CachesUsed
<1>13. Progress'
  <2>1. pc' \notin {"store", "cache"} /\ pc' = "idle" /\ pc' # "store"
    BY <1>1
  <2> QED
    BY <2>1, Zenon DEF Progress
<1> QED
  BY <1>1, <1>6, <1>7, <1>10, <1>11, <1>12, <1>13, Zenon DEF KeepInv

LEMMA NextKeepInv ==
  ASSUME PublishOnly, NotFromTheFuture, 0 \notin Times
  PROVE  IndInv /\ TwiceInv /\ KeepInv /\ [Next]_vars => KeepInv'
<1> SUFFICES ASSUME IndInv, TwiceInv, KeepInv, [Next]_vars
             PROVE  KeepInv'
  OBVIOUS
<1>1. now \in Int /\ now <= now /\ DisksHeld(disk, log) /\ QueuesHeld(channels, log)
  BY ScalarTypes DEF IndInv, KeepInv
<1>2. /\ NoDiskLoses(disk, now, log, disk, now, log)
      /\ NoQueueLoses(channels, now, log, channels, now, log)
  BY <1>1, NothingLostNow
<1>3. ASSUME NEW c \in Channels, NEW input \in Inputs, Publish(c, input)
      PROVE  KeepInv'
  BY <1>3, PublishKeepInv
<1>4. CASE Store
  BY <1>4, StoreKeepInv
<1>5. CASE Cache
  BY <1>5, CacheKeepInv
<1>6. CASE Fire
  BY <1>6, FireKeepInv
<1>7. ASSUME NEW c \in Channels, NEW cursor, DoGetMessages(c, cursor, MaxPushes)
      PROVE  KeepInv'
  BY <1>7, ReadKeepInv DEF DoGetMessages
<1>8. CASE DoGetRemoved
  BY <1>8, GetRemovedKeepInv
<1>9. CASE Reset
  BY <1>9, LostKeepInv DEF Reset, store
<1>10. ASSUME NEW o \in Options, NEW n \in 0 .. Len(Ttls), Restart(o, n)
       PROVE  KeepInv'
  BY <1>10, LostKeepInv DEF Restart
<1>11. ASSUME NEW t \in open, NEW c \in Channels, Expire(t, c)
       PROVE  KeepInv'
  BY <1>11, ExpireKeepInv
<1>12. ASSUME NEW t \in open, NEW c \in Channels, NEW n \in 1 .. Len(disk[t][c].operands),
              Compact(t, c, n)
       PROVE  KeepInv'
  BY <1>12, CompactKeepInv
<1>13. CASE Close
  <2>1. /\ pc = "idle" /\ log' = log /\ epoch' = epoch /\ pc' = pc /\ opt' = opt /\ now' = now
        /\ disk' = disk /\ channels' = channels
    BY <1>13 DEF Close, observers
  <2> QED
    BY <1>1, <1>2, <2>1, QuietKeepInv
<1>14. ASSUME NEW time \in From(now), SetClock(time)
       PROVE  KeepInv'
  <2>1. /\ log' = log /\ epoch' = epoch /\ pc' = pc /\ opt' = opt /\ open' = open /\ now' = time
        /\ disk' = disk /\ channels' = channels
    BY <1>14 DEF SetClock, store, observers
  <2>2. time \in Int /\ now <= time
    BY BoundsAssumption, <1>1 DEF From
  <2>3. /\ NoDiskLoses(disk, now, log, disk, time, log)
        /\ NoQueueLoses(channels, now, log, channels, time, log)
    BY <2>2, NothingLostNow
  <2> QED
    BY <1>1, <2>1, <2>2, <2>3, QuietKeepInv
<1>15. CASE UNCHANGED vars
  <2>1. /\ log' = log /\ epoch' = epoch /\ pc' = pc /\ opt' = opt /\ open' = open /\ now' = now
        /\ disk' = disk /\ channels' = channels
    BY <1>15 DEF vars, store, observers
  <2> QED
    BY <1>1, <1>2, <2>1, QuietKeepInv
<1> QED
  BY <1>3, <1>4, <1>5, <1>6, <1>7, <1>8, <1>9, <1>10, <1>11, <1>12, <1>13, <1>14, <1>15, Zenon
     DEF Next

\* LatestOf, in terms of the log.
LEMMA LatestAreHeld ==
  ASSUME IndInv, NEW c \in Channels, NEW x \in LatestOf(c)
  PROVE  /\ \E i \in 1 .. Len(log) : log[i] = x
         /\ x.channel = c
         /\ x.msg.lifetime # 0
         /\ x.msg \in Held(log, c)
         /\ x.msg \in Latest(Room(log, c), Held(log, c))
<1> DEFINE H == Holdable(c)
<1>1. DOMAIN log = 1 .. Len(log)
  BY EntryFields DEF IndInv
<1>2. \A y : y \in H <=> \E i \in 1 .. Len(log) : y = log[i] /\ y.channel = c /\ y.msg.lifetime # 0
  BY <1>1, Zenon DEF Holdable, Published, ToSet
<1>3. {y.msg : y \in H} = Held(log, c)
  <2> HIDE DEF H
  <2>1. ASSUME NEW y \in H
        PROVE  y.msg \in Held(log, c)
    <3>1. PICK i \in 1 .. Len(log) : y = log[i] /\ y.channel = c /\ y.msg.lifetime # 0
      BY <1>2, Zenon
    <3> QED
      BY <3>1, Zenon DEF Held
  <2>2. ASSUME NEW v \in Held(log, c)
        PROVE  \E y \in H : v = y.msg
    <3>1. PICK i \in 1 .. Len(log) : log[i].channel = c /\ log[i].msg.lifetime # 0 /\ log[i].msg = v
      BY Zenon DEF Held
    <3> QED
      BY <1>2, <3>1, Zenon
  <2> QED
    BY <2>1, <2>2
<1>4. {y.msg.limit : y \in H} = {v.limit : v \in {y.msg : y \in H}}
  <2> HIDE DEF H
  <2>1. \A v : v \in {y.msg.limit : y \in H} <=> v \in {u.limit : u \in {y.msg : y \in H}}
    BY Zenon
  <2> QED
    BY <2>1
<1>5. x \in H /\ x.msg \in Latest(Min({y.msg.limit : y \in H}), {y.msg : y \in H})
  BY Zenon DEF LatestOf
<1> HIDE DEF H
<1>6. x.msg \in Held(log, c)
  BY <1>3, <1>5, Zenon
<1>7. Min({y.msg.limit : y \in H}) = Room(log, c)
  BY <1>3, <1>4, <1>6, Zenon DEF Room
<1> QED
  BY <1>2, <1>3, <1>5, <1>6, <1>7, Zenon

\* The read of a channel has what the databases gave, and what the queue gave if it is asked.
LEMMA EverythingHas ==
  ASSUME IndInv, NEW c \in Channels
  PROVE  /\ ToSet(FromStore(c, Start, MaxPushes)) \subseteq ToSet(Everything(c))
         /\ AsksCache(c, Start, MaxPushes) =>
              ToSet(CopyFrom(channels, now, c, Start, MaxPushes)) \subseteq ToSet(Everything(c))
<1> DEFINE s == FromStore(c, Start, MaxPushes)
           r == CopyFrom(channels, now, c, Start, MaxPushes)
           none == <<>>
<1>1. MaxPushes \in Nat /\ Start \in Int
  BY BoundsAssumption, StartIsFirst
<1>2. s \in Seq(Message)
  <2>1. LET x == FromStore(c, Start, MaxPushes)
        IN  /\ x \in Seq(Message)
            /\ Distinct(x)
            /\ \A v \in ToSet(x) : \E t \in open : v \in ToSet(FromDatabase(t, c, Start, MaxPushes))
            /\ ~ opt.rocksdbDisabled =>
                 \A t \in open : ToSet(FromDatabase(t, c, Start, MaxPushes)) \subseteq ToSet(x)
    BY <1>1, StoreReads
  <2> QED
    BY <2>1, Zenon
<1>3. r \in Seq(Message)
  <2>1. LET x == CopyFrom(channels, now, c, Start, MaxPushes)
        IN  /\ x \in Seq(Message)
            /\ Distinct(x)
            /\ \A v \in ToSet(x) : /\ ~ Dead(v, now)
                                   /\ c \in DOMAIN channels
                                   /\ v \in ToSet(channels[c].msgs)
    BY <1>1, QueueReads
  <2> QED
    BY <2>1, Zenon
<1>4. Everything(c) = s \o (IF AsksCache(c, Start, MaxPushes) THEN r ELSE none)
  BY Zenon DEF Everything, Read, Start
<1>5. none \in Seq(Message) /\ ToSet(none) = {}
  BY DEF ToSet
<1> HIDE DEF s, r, none
<1>6. ToSet(s \o r) = ToSet(s) \cup ToSet(r) /\ ToSet(s \o none) = ToSet(s) \cup ToSet(none)
  BY <1>2, <1>3, <1>5, JoinedElements
<1>7. ToSet(s) \subseteq ToSet(s \o r) /\ ToSet(r) \subseteq ToSet(s \o r) /\ ToSet(s) \subseteq ToSet(s \o none)
  BY <1>6
<1> QED
  BY <1>4, <1>7, Zenon DEF s, r

\* From the databases.
LEMMA StoredIsRead ==
  ASSUME IndInv, KeepInv, NEW i \in 1 .. Len(log), OnceStored(i, pc, log),
         open = Lifetimes, ~ opt.rocksdbDisabled, Len(log) <= MaxPushes
  PROVE  LET c == log[i].channel
         IN  StillIn(log[i].msg, ToSet(FromStore(c, Start, MaxPushes)), now, log, c)
<1> DEFINE c == log[i].channel
           v == log[i].msg
           T == Held(log, c)
           d == Room(log, c)
<1>1. /\ MaxPushes \in Nat /\ Start \in Int /\ now \in Int /\ c \in Channels /\ Len(log) \in Nat
      /\ LogInv(log) /\ LogKept(log, now)
  BY BoundsAssumption, StartIsFirst, ScalarTypes, EntryFields DEF IndInv, KeepInv
<1>2. PICK t \in Lifetimes : StillIn(v, Content(disk[t][c]), now, log, c)
  BY Zenon DEF KeepInv, DisksKeep, Covered
<1>3. v \in T
  BY Zenon DEF Held, OnceStored
<1> DEFINE s == disk[t][c].value
           ops == disk[t][c].operands
           got == FromDatabase(t, c, Start, MaxPushes)
<1>4. /\ Keepable(d, T) /\ s \in Seq(Message) /\ ops \in Seq(Message) /\ InTurn(s \o ops)
      /\ \A u \in ToSet(s \o ops) : u \in T \/ Passed(u)
  BY <1>1, KeyKeepable
<1>5. \A u \in T : u.cursor >= Start
  <2>1. \A u \in T : u \in Message /\ Start <= u.cursor
    BY <1>1, HeldFields
  <2>2. \A u \in Message : u.cursor \in Int
    BY MessageFields
  <2> HIDE DEF T
  <2> QED
    BY <1>1, <2>1, <2>2
<1>6. Cardinality(T) <= MaxPushes
  <2>1. Cardinality(T) <= Len(log)
    BY <1>1, HeldKeepable
  <2>2. Cardinality(T) \in Nat
    BY <1>4, FS_CardinalityType DEF Keepable
  <2> QED
    BY <1>1, <2>1, <2>2
<1>7. Remains(v, ToSet(s \o ops), now, d, T)
  BY <1>2, Zenon DEF StillIn, Content
<1>8. got = GetMessages(s, ops, now, Start, MaxPushes)
  BY Zenon DEF FromDatabase
<1>9. ToSet(got) \subseteq ToSet(FromStore(c, Start, MaxPushes))
  <2>1. LET x == FromStore(c, Start, MaxPushes)
        IN  /\ x \in Seq(Message)
            /\ Distinct(x)
            /\ \A u \in ToSet(x) : \E k \in open : u \in ToSet(FromDatabase(k, c, Start, MaxPushes))
            /\ ~ opt.rocksdbDisabled =>
                 \A k \in open : ToSet(FromDatabase(k, c, Start, MaxPushes)) \subseteq ToSet(x)
    BY <1>1, StoreReads
  <2> QED
    BY <2>1, Zenon
<1> HIDE DEF T, d, s, ops, v, got
<1>10. Remains(v, ToSet(got), now, d, T)
  BY <1>1, <1>3, <1>4, <1>5, <1>6, <1>7, <1>8, ReadKeeps
<1> QED
  BY <1>9, <1>10 DEF StillIn, Remains, T, d, v

\* From the queue.
LEMMA CachedIsRead ==
  ASSUME IndInv, KeepInv, NEW c \in Channels, NEW v \in HeldBy(channels, c), ~ Dead(v, now),
         Len(log) <= MaxPushes
  PROVE  v \in ToSet(CopyFrom(channels, now, c, Start, MaxPushes))
<1> DEFINE found == FindAndRemoveDeath(channels, now, c)
           q == RemoveDeath(channels[c], now)
           T == Held(log, c)
<1>1. /\ MaxPushes \in Nat /\ Start \in Int /\ now \in Int /\ Len(log) \in Nat
      /\ LogInv(log) /\ LogKept(log, now)
  BY BoundsAssumption, StartIsFirst, ScalarTypes, EntryFields DEF IndInv, KeepInv
<1>2. c \in DOMAIN channels /\ v \in ToSet(channels[c].msgs)
  BY DEF HeldBy
<1>3. SoundQueue(channels[c]) /\ ToSet(channels[c].msgs) \subseteq T
  BY <1>2, Zenon DEF IndInv, MapInv, QueueSound, KeepInv, QueuesHeld
<1>4. SoundQueue(q) /\ ToSet(q.msgs) = {u \in ToSet(channels[c].msgs) : ~ Dead(u, now)}
  BY <1>1, <1>3, RemoveDeathSound
<1>5. v \in ToSet(q.msgs) /\ ToSet(q.msgs) \subseteq T
  BY <1>2, <1>3, <1>4
<1>6. c \in DOMAIN found /\ found[c] = q
  <2>1. Swept(channels, found, now, c)
    BY SweptQueue
  <2>2. q.msgs # <<>>
    <3>1. q.msgs = <<>> => ToSet(q.msgs) = {}
      BY DEF ToSet
    <3> QED
      BY <1>5, <3>1
  <2> HIDE DEF found
  <2> QED
    BY <1>2, <2>1, <2>2, Zenon DEF Swept
<1>7. CopyFrom(channels, now, c, Start, MaxPushes) = CopyTo(q, Start, MaxPushes)
  BY <1>6, Zenon DEF CopyFrom
<1> HIDE DEF found, q
<1>8. Len(q.msgs) <= MaxPushes
  <2>1. q.msgs \in Seq(Message) /\ Ordered(q.msgs) /\ Len(q.msgs) \in Nat
    BY <1>4, TypeOfSound
  <2>2. Cardinality(ToSet(q.msgs)) = Len(q.msgs)
    BY <2>1, HeldSize
  <2>3. IsFiniteSet(T) /\ Cardinality(T) <= Len(log)
    BY <1>1, HeldKeepable DEF Keepable
  <2> HIDE DEF T
  <2>4. Cardinality(ToSet(q.msgs)) <= Cardinality(T) /\ Cardinality(T) \in Nat
    BY <1>5, <2>3, FS_Subset, FS_CardinalityType
  <2> QED
    BY <1>1, <2>1, <2>2, <2>3, <2>4
<1>9. \A u \in ToSet(q.msgs) : u.cursor >= Start
  <2>1. \A u \in T : u \in Message /\ Start <= u.cursor
    BY <1>1, HeldFields
  <2>2. \A u \in Message : u.cursor \in Int
    BY MessageFields
  <2> HIDE DEF T
  <2> QED
    BY <1>1, <1>5, <2>1, <2>2
<1>10. ToSet(CopyTo(q, Start, MaxPushes)) = ToSet(q.msgs)
  BY <1>1, <1>4, <1>8, <1>9, CopyToAll
<1> QED
  BY <1>5, <1>7, <1>10, Zenon

(***************************************************************************)
(* Between two calls a reader gets every message the handlers were called  *)
(* with that still lives and is among the latest of its channel: from the  *)
(* queues until they are lost, and from the databases across every death   *)
(* of the process, every merge of operands and every expiry of a value     *)
(* (pubsub.cpp:17-60, multi_rocksdb.cpp:60-110, merge_operator.cpp).  The  *)
(* clients only publish, and give no birthtime that is yet to come: the    *)
(* ttl of a database counts from when a value was written.                 *)
(***************************************************************************)
THEOREM FiredMessagesAreKept ==
  ASSUME PublishOnly, NotFromTheFuture, 0 \notin Times
  PROVE  Spec => []FiredIsKept
<1>1. IndInv /\ TwiceInv /\ KeepInv => FiredIsKept
  <2> SUFFICES ASSUME IndInv, TwiceInv, KeepInv, pc = "idle", NEW c \in Channels,
                      NEW x \in LatestOf(c), x.fired, Kept(x), ~ Dead(x.msg, now)
               PROVE  x.msg \in ToSet(Everything(c))
    BY Zenon DEF FiredIsKept
  <2>1. /\ \E i \in 1 .. Len(log) : log[i] = x
        /\ x.channel = c
        /\ x.msg.lifetime # 0
        /\ x.msg \in Held(log, c)
        /\ x.msg \in Latest(Room(log, c), Held(log, c))
    BY LatestAreHeld
  <2>2. PICK i \in 1 .. Len(log) : log[i] = x
    BY <2>1
  <2>3. Len(log) <= MaxPushes
    BY DEF IndInv, LogInv
  <2>4. /\ ToSet(FromStore(c, Start, MaxPushes)) \subseteq ToSet(Everything(c))
        /\ AsksCache(c, Start, MaxPushes) =>
             ToSet(CopyFrom(channels, now, c, Start, MaxPushes)) \subseteq ToSet(Everything(c))
    BY EverythingHas
  <2>5. CASE x.durable /\ open = Lifetimes /\ ~ opt.rocksdbDisabled
    <3>1. OnceStored(i, pc, log)
      BY <2>1, <2>2, <2>5, Zenon DEF OnceStored
    <3>2. LET e == log[i].channel
          IN  StillIn(log[i].msg, ToSet(FromStore(e, Start, MaxPushes)), now, log, e)
      BY <2>3, <2>5, <3>1, StoredIsRead
    <3>3. x.msg \in ToSet(FromStore(c, Start, MaxPushes))
      BY <2>1, <2>2, <3>2, Zenon DEF StillIn, Remains
    <3> QED
      BY <2>4, <3>3
  <2>6. CASE x.cached = epoch /\ ~ opt.persistentDefault
    <3>1. OnceCached(i, pc, log, epoch)
      BY <2>1, <2>2, <2>6, Zenon DEF OnceCached
    <3>2. StillIn(log[i].msg, HeldBy(channels, log[i].channel), now, log, log[i].channel)
      BY <3>1, Zenon DEF KeepInv, QueuesKeep
    <3>3. x.msg \in HeldBy(channels, c)
      BY <2>1, <2>2, <3>2, Zenon DEF StillIn, Remains
    <3>4. x.msg \in ToSet(CopyFrom(channels, now, c, Start, MaxPushes))
      BY <2>3, <3>3, CachedIsRead
    <3>5. AsksCache(c, Start, MaxPushes)
      <4>1. ~ opt.cacheDisabled
        BY <2>2, <2>6, Zenon DEF KeepInv, CachesUsed
      <4> QED
        BY <2>6, <4>1, Zenon DEF AsksCache
    <3> QED
      BY <2>4, <3>4, <3>5
  <2> QED
    BY <2>5, <2>6, Zenon DEF Kept
<1>2. Spec => []TwiceInv
  BY PubsubInvariance, InitTwiceInv, NextTwiceInv, PTL DEF Spec
<1>3. Spec => []KeepInv
  BY PubsubInvariance, <1>2, InitKeepInv, NextKeepInv, PTL DEF Spec
<1> QED
  BY PubsubInvariance, <1>1, <1>2, <1>3, PTL
===============================================================================
