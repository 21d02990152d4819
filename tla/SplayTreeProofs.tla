--------------------------- MODULE SplayTreeProofs ---------------------------
(***************************************************************************)
(* Proofs about SplayTree, for every set of addresses and of nodes: in     *)
(* every step the tree is a valid search tree, and the calls implement     *)
(* IntervalMap.                                                            *)
(***************************************************************************)
EXTENDS SplayTree, FiniteSetTheorems, WellFoundedInduction, SequenceTheorems, TLAPS

(* The links of a tree with nodes N, where sub[n] is the subtree of n.     *)
Struct(N, r, ch, pa, si, sub) ==
  /\ sub \in [N -> SUBSET N]
  /\ r = Null => N = {}
  /\ r # Null => r \in N /\ pa[r] = Null /\ sub[r] = N
  /\ \A n \in N : n \in sub[n]
  /\ \A n \in N, s \in Sides : ch[n][s] # Null =>
       /\ ch[n][s] \in N /\ pa[ch[n][s]] = n /\ si[ch[n][s]] = s
       /\ sub[ch[n][s]] \subseteq sub[n] /\ n \notin sub[ch[n][s]]
  /\ \A n \in N : \A m \in sub[n] :
       m = n \/ \E s \in Sides : ch[n][s] # Null /\ m \in sub[ch[n][s]]
  /\ \A n \in N : \A m \in sub[n] : sub[m] \subseteq sub[n]
  /\ \A n \in N : \A m \in sub[n] : m # n => pa[m] \in sub[n]
  /\ \A n \in N : n # r => pa[n] \in N /\ si[n] \in Sides /\ ch[pa[n]][si[n]] = n

(* i lies on side s of j *)
Beside(i, j, s) == IF s = "left" THEN i.bound <= j.base ELSE j.bound <= i.base

Sorted(N, ch, sp, sub) ==
  \A n \in N, s \in Sides : ch[n][s] # Null => \A m \in sub[ch[n][s]] : Beside(sp[m], sp[n], s)

ClosedIn(S, ch) == \A m \in S, s \in Sides : ch[m][s] \in S \cup {Null}

-----------------------------------------------------------------------------
(* Trees as values                                                         *)

LEMMA OtherSide ==
  /\ "left" \in Sides /\ "right" \in Sides /\ "left" # "right"
  /\ \A s \in Sides : Other(s) \in Sides /\ Other(s) # s
  /\ \A s, u \in Sides : s = u \/ s = Other(u)
  BY DEF Sides, Other

LEMMA LeastNumber ==
  ASSUME NEW S, S \subseteq Nat, S # {}
  PROVE  \E n \in S : \A m \in S : n <= m
<1>1. PICK n \in S : \A m \in Nat : <<m, n>> \in OpToRel(<, Nat) => m \notin S
  BY NatLessThanWellFounded, WFMin
<1>2. \A m \in S : ~(m < n)
  BY <1>1 DEF OpToRel
<1> QED BY <1>2

(* The subtree of a node is what its links reach. *)
LEMMA SubtreesUnique ==
  ASSUME NEW N, NEW r, NEW ch, NEW pa, NEW si, NEW sub,
         Struct(N, r, ch, pa, si, sub), IsFiniteSet(N), NEW n \in N
  PROVE  sub[n] = {m \in N : \A S \in SUBSET N : n \in S /\ ClosedIn(S, ch) => m \in S}
<1>1. ASSUME NEW m \in sub[n], NEW S \in SUBSET N, n \in S, ClosedIn(S, ch)
      PROVE  m \in S
  <2> SUFFICES ASSUME m \notin S PROVE FALSE
    OBVIOUS
  <2> DEFINE T == {k \in S : m \in sub[k]}
             C == {Cardinality(sub[k]) : k \in T}
  <2>1. \A k \in N : IsFiniteSet(sub[k]) /\ Cardinality(sub[k]) \in Nat
    BY FS_Subset, FS_CardinalityType DEF Struct
  <2>2. C \subseteq Nat /\ C # {}
    BY <1>1, <2>1
  <2>3. PICK c \in C : \A d \in C : c <= d
    BY <2>2, LeastNumber
  <2>4. PICK k \in T : c = Cardinality(sub[k])
    OBVIOUS
  <2>5. k \in N /\ k # m /\ m \in sub[k]
    BY <2>4
  <2>6. PICK s \in Sides : ch[k][s] # Null /\ m \in sub[ch[k][s]]
    BY <2>5 DEF Struct
  <2> DEFINE j == ch[k][s]
  <2>7. j \in S /\ j \in T /\ j \in N
    BY <1>1, <2>4, <2>6 DEF ClosedIn
  <2>8. sub[j] \subseteq sub[k] /\ k \in sub[k] /\ k \notin sub[j]
    BY <2>5, <2>6 DEF Struct
  <2>9. Cardinality(sub[j]) <= Cardinality(sub[k]) /\ Cardinality(sub[j]) # Cardinality(sub[k])
    BY <2>1, <2>5, <2>8, FS_Subset
  <2>10. Cardinality(sub[k]) <= Cardinality(sub[j])
    BY <2>3, <2>4, <2>7
  <2> QED BY <2>1, <2>5, <2>7, <2>9, <2>10
<1>2. sub[n] \in SUBSET N /\ n \in sub[n]
  BY DEF Struct
<1>3. ClosedIn(sub[n], ch)
  <2> SUFFICES ASSUME NEW m \in sub[n], NEW s \in Sides, ch[m][s] # Null
               PROVE  ch[m][s] \in sub[n]
    BY DEF ClosedIn
  <2>1. m \in N
    BY <1>2
  <2>2. ch[m][s] \in N /\ sub[ch[m][s]] \subseteq sub[m] /\ sub[m] \subseteq sub[n]
    BY <2>1 DEF Struct
  <2>3. ch[m][s] \in sub[ch[m][s]]
    BY <2>2 DEF Struct
  <2> QED BY <2>2, <2>3
<1> QED BY <1>1, <1>2, <1>3

(* Where the children of a node stand. *)
LEMMA Apartness ==
  ASSUME NEW N, NEW r, NEW ch, NEW pa, NEW si, NEW sub,
         Struct(N, r, ch, pa, si, sub), Null \notin N, NEW n \in N, NEW s \in Sides,
         ch[n][s] # Null
  PROVE  /\ ch[n][s] # n
         /\ ch[n][Other(s)] # ch[n][s]
         /\ ch[n][Other(s)] # Null => ch[n][s] \notin sub[ch[n][Other(s)]]
<1> DEFINE x == ch[n][s]
           c == ch[n][Other(s)]
<1>1. x \in N /\ pa[x] = n /\ si[x] = s /\ x \in sub[x] /\ n \notin sub[x]
  BY DEF Struct
<1>2. Other(s) \in Sides /\ Other(s) # s
  BY OtherSide
<1>3. x # n
  BY <1>1
<1>4. c # Null => c \in N /\ si[c] = Other(s) /\ n \notin sub[c]
  BY <1>2 DEF Struct
<1>5. c # x
  BY <1>1, <1>2, <1>4
<1>6. ASSUME c # Null, x \in sub[c] PROVE FALSE
  <2>1. pa[x] \in sub[c]
    BY <1>4, <1>5, <1>6 DEF Struct
  <2> QED BY <1>1, <1>4, <1>6, <2>1
<1> QED BY <1>3, <1>5, <1>6

(* Rotating the edge from p to x = ch[p][s]: only p and x change their      *)
(* subtrees.                                                                *)
Rotated(ch, sub, p, s) ==
  LET x == ch[p][s]
      Sub(n) == IF n = Null THEN {} ELSE sub[n]
  IN  [n \in DOMAIN sub |->
         IF n = x THEN sub[p]
         ELSE IF n = p THEN {p} \cup Sub(ch[x][Other(s)]) \cup Sub(ch[p][Other(s)])
         ELSE sub[n]]

(* What a rotation does to the links *)
Rotates(N, r, ch, pa, si, p, s, r2, ch2, pa2, si2) ==
  LET x == ch[p][s]
      b == ch[x][Other(s)]
  IN  /\ r2 = IF pa[p] = Null THEN x ELSE r
      /\ \A n \in N, t \in Sides :
           ch2[n][t] = IF n = x /\ t = Other(s) THEN p
                       ELSE IF n = p /\ t = s THEN b
                       ELSE IF n = pa[p] /\ t = si[p] THEN x
                       ELSE ch[n][t]
      /\ \A n \in N : pa2[n] = IF n = b THEN p ELSE IF n = p THEN x
                               ELSE IF n = x THEN pa[p] ELSE pa[n]
      /\ \A n \in N : si2[n] = IF n = b THEN s ELSE IF n = p THEN Other(s)
                               ELSE IF n = x THEN si[p] ELSE si[n]

LEMMA RotatedStruct ==
  ASSUME NEW N, NEW r, NEW ch, NEW pa, NEW si, NEW sub,
         Struct(N, r, ch, pa, si, sub), Null \notin N,
         NEW p \in N, NEW s \in Sides, ch[p][s] # Null,
         NEW r2, NEW ch2, NEW pa2, NEW si2,
         Rotates(N, r, ch, pa, si, p, s, r2, ch2, pa2, si2)
  PROVE  Struct(N, r2, ch2, pa2, si2, Rotated(ch, sub, p, s))
<1> DEFINE x == ch[p][s]
           b == ch[x][Other(s)]
<1>0. /\ x = ch[p][s] /\ b = ch[x][Other(s)] /\ x # Null
      /\ r2 = IF pa[p] = Null THEN x ELSE r
      /\ \A n \in N, t \in Sides :
           ch2[n][t] = IF n = x /\ t = Other(s) THEN p
                       ELSE IF n = p /\ t = s THEN b
                       ELSE IF n = pa[p] /\ t = si[p] THEN x
                       ELSE ch[n][t]
      /\ \A n \in N : pa2[n] = IF n = b THEN p ELSE IF n = p THEN x
                               ELSE IF n = x THEN pa[p] ELSE pa[n]
      /\ \A n \in N : si2[n] = IF n = b THEN s ELSE IF n = p THEN Other(s)
                               ELSE IF n = x THEN si[p] ELSE si[n]
  BY DEF Rotates
<1> HIDE DEF x, b
<1> USE <1>0
<1> DEFINE o == Other(s)
           a == ch[x][s]
           c == ch[p][o]
           g == pa[p]
           Sub(n) == IF n = Null THEN {} ELSE sub[n]
           w == Rotated(ch, sub, p, s)
<1>1. o \in Sides /\ o # s /\ Other(o) = s /\ \A t \in Sides : t = s \/ t = o
  BY DEF Sides, Other
<1>2. /\ x \in N /\ pa[x] = p /\ si[x] = s /\ p \notin sub[x] /\ sub[x] \subseteq sub[p]
      /\ x # p /\ x \in sub[p] /\ p \in sub[p] /\ x \in sub[x]
  BY DEF Struct
<1>3. a # Null => /\ a \in N /\ pa[a] = x /\ si[a] = s /\ x \notin sub[a] /\ a # x /\ a # p
                  /\ sub[a] \subseteq sub[x]
  BY <1>2 DEF Struct
<1>4. b # Null => /\ b \in N /\ pa[b] = x /\ si[b] = o /\ x \notin sub[b] /\ b # x /\ b # p /\ a # b
                  /\ sub[b] \subseteq sub[x] /\ b \in sub[b] /\ p \notin sub[b]
  BY <1>1, <1>2 DEF Struct
<1>5. c # Null => /\ c \in N /\ pa[c] = p /\ si[c] = o /\ p \notin sub[c] /\ c # p /\ c # x
                  /\ sub[c] \subseteq sub[p] /\ x \notin sub[c] /\ c # b /\ c # a
  <2>1. c # Null => /\ c \in N /\ pa[c] = p /\ si[c] = o /\ p \notin sub[c] /\ sub[c] \subseteq sub[p]
    BY <1>1 DEF Struct
  <2>2. c # Null => p \in sub[p] /\ c \in sub[c]
    BY <2>1 DEF Struct
  <2>3. c # x /\ (c # Null => x \notin sub[c])
    BY <1>2, Apartness
  <2> QED BY <1>2, <1>3, <1>4, <2>1, <2>2, <2>3
<1>6. g # Null => /\ g \in N /\ p # r /\ ch[g][si[p]] = p /\ si[p] \in Sides /\ g \notin sub[p]
                  /\ g # p /\ g # x /\ g # b /\ g # a /\ g # c
  <2>1. p # r => g \in N /\ si[p] \in Sides /\ ch[g][si[p]] = p
    BY DEF Struct
  <2>2. p = r => g = Null
    BY DEF Struct
  <2>3. p # r => g \notin sub[p]
    BY <2>1 DEF Struct
  <2>4. a # Null => a \in sub[p]
    BY <1>2, <1>3 DEF Struct
  <2>5. c # Null => c \in sub[p]
    BY <1>5 DEF Struct
  <2> QED BY <1>2, <1>4, <2>1, <2>2, <2>3, <2>4, <2>5
<1>7. /\ w \in [N -> SUBSET N]
      /\ w[x] = sub[p] /\ w[p] = {p} \cup Sub(b) \cup Sub(c)
      /\ \A n \in N : n # x /\ n # p => w[n] = sub[n]
  BY <1>2, <1>4, <1>5 DEF Rotated, Struct
<1>8. /\ ch2[x][o] = p /\ ch2[x][s] = a /\ ch2[p][s] = b /\ ch2[p][o] = c
      /\ g # Null => ch2[g][si[p]] = x
      /\ \A n \in N, t \in Sides :
           n # x /\ n # p /\ (n # g \/ t # si[p]) => ch2[n][t] = ch[n][t]
  BY <1>1, <1>2, <1>6
<1>9. /\ b # Null => pa2[b] = p /\ si2[b] = s
      /\ pa2[p] = x /\ si2[p] = o /\ pa2[x] = g /\ si2[x] = si[p]
      /\ \A n \in N : n # b /\ n # p /\ n # x => pa2[n] = pa[n] /\ si2[n] = si[n]
  BY <1>2, <1>4
<1> HIDE DEF o, a, c, g, Sub, w
<1>10. r # Null /\ r \in N /\ pa[r] = Null /\ sub[r] = N /\ r # x
  BY <1>2 DEF Struct
<1>11. r2 = (IF g = Null THEN x ELSE r) /\ (g = Null <=> p = r)
  BY <1>6, <1>10 DEF g, Struct
<1>12. r2 # Null /\ r2 \in N /\ pa2[r2] = Null /\ w[r2] = N
  <2>1. b # r
    BY <1>2, <1>4, <1>10
  <2> QED BY <1>2, <1>7, <1>9, <1>10, <1>11, <2>1
<1>13. \A n \in N : n \in w[n]
  BY <1>2, <1>7 DEF Struct
<1>14. ASSUME NEW n \in N, NEW t \in Sides, ch2[n][t] # Null
       PROVE  /\ ch2[n][t] \in N /\ pa2[ch2[n][t]] = n /\ si2[ch2[n][t]] = t
              /\ w[ch2[n][t]] \subseteq w[n] /\ n \notin w[ch2[n][t]]
  <2>1. CASE n = x /\ t = o
    BY <1>2, <1>4, <1>5, <1>7, <1>8, <1>9, <2>1 DEF Sub
  <2>2. CASE n = x /\ t = s
    BY <1>2, <1>3, <1>4, <1>7, <1>8, <1>9, <1>14, <2>2
  <2>3. CASE n = p /\ t = s
    BY <1>2, <1>4, <1>7, <1>8, <1>9, <1>14, <2>3 DEF Sub
  <2>4. CASE n = p /\ t = o
    BY <1>2, <1>5, <1>7, <1>8, <1>9, <1>14, <2>4 DEF Sub
  <2>5. CASE n = g /\ t = si[p]
    <3>1. sub[p] \subseteq sub[g]
      BY <1>6, <2>5 DEF Struct
    <3> QED BY <1>2, <1>6, <1>7, <1>8, <1>9, <2>5, <3>1
  <2>6. CASE n # x /\ n # p /\ (n # g \/ t # si[p])
    <3> DEFINE k == ch[n][t]
    <3>1. ch2[n][t] = k
      BY <1>8, <2>6
    <3>2. k \in N /\ pa[k] = n /\ si[k] = t /\ sub[k] \subseteq sub[n] /\ n \notin sub[k]
      BY <1>14, <3>1 DEF Struct
    <3>3. k # x /\ k # p /\ k # b
      BY <1>2, <1>4, <2>6, <3>2 DEF g
    <3> QED BY <1>7, <1>9, <2>6, <3>1, <3>2, <3>3
  <2> QED BY <1>1, <2>1, <2>2, <2>3, <2>4, <2>5, <2>6
<1>15. ASSUME NEW n \in N, NEW m \in w[n]
       PROVE  m = n \/ \E t \in Sides : ch2[n][t] # Null /\ m \in w[ch2[n][t]]
  <2>1. p # Null /\ x # Null
    BY <1>2
  <2>2. ASSUME NEW k \in N, NEW j \in sub[k]
        PROVE  j = k \/ \E t \in Sides : ch[k][t] # Null /\ j \in sub[ch[k][t]]
    BY DEF Struct
  <2>3. CASE n = x
    <3>1. m \in sub[p]
      BY <1>7, <2>3
    <3>2. m = p \/ m \in sub[x] \/ (c # Null /\ m \in sub[c])
      BY <1>1, <2>2, <3>1 DEF c
    <3>3. CASE m = p \/ (c # Null /\ m \in sub[c])
      BY <1>1, <1>7, <1>8, <2>1, <2>3, <3>3 DEF Sub
    <3>4. CASE m \in sub[x]
      <4>1. m = x \/ (a # Null /\ m \in sub[a]) \/ (b # Null /\ m \in sub[b])
        BY <1>1, <1>2, <2>2, <3>4 DEF a, o
      <4> QED BY <1>1, <1>3, <1>7, <1>8, <2>1, <2>3, <4>1 DEF Sub
    <3> QED BY <3>2, <3>3, <3>4
  <2>4. CASE n = p
    BY <1>1, <1>4, <1>5, <1>7, <1>8, <2>4 DEF Sub
  <2>5. CASE n # x /\ n # p
    <3>1. m \in sub[n]
      BY <1>7, <2>5
    <3>2. CASE m = n
      BY <3>2
    <3>3. ASSUME NEW t \in Sides, ch[n][t] # Null, m \in sub[ch[n][t]]
          PROVE  ch2[n][t] # Null /\ m \in w[ch2[n][t]]
      <4>1. CASE n = g /\ t = si[p]
        BY <1>6, <1>7, <1>8, <2>1, <3>3, <4>1
      <4>2. CASE n # g \/ t # si[p]
        <5>1. ch2[n][t] = ch[n][t]
          BY <1>8, <2>5, <4>2
        <5>2. ch[n][t] \in N /\ pa[ch[n][t]] = n /\ si[ch[n][t]] = t
          BY <3>3 DEF Struct
        <5>3. ch[n][t] # x /\ ch[n][t] # p
          BY <1>2, <2>5, <4>2, <5>2 DEF g
        <5> QED BY <1>7, <3>3, <5>1, <5>2, <5>3
      <4> QED BY <4>1, <4>2
    <3> QED BY <2>2, <3>1, <3>2, <3>3
  <2> QED BY <2>3, <2>4, <2>5
<1>16. ASSUME NEW n \in N, NEW m \in w[n]
       PROVE  w[m] \subseteq w[n]
  <2>1. \A k \in N : \A j \in sub[k] : sub[j] \subseteq sub[k]
    BY DEF Struct
  <2>2. \A k \in N : x \in sub[k] /\ k # x => p \in sub[k]
    BY <1>2 DEF Struct
  <2>3. w[p] \subseteq sub[p] /\ x \notin w[p]
    BY <1>2, <1>4, <1>5, <1>7 DEF Sub
  <2>4. m \in N
    BY <1>7
  <2>5. CASE m = x
    BY <1>7, <2>1, <2>2, <2>3, <2>5
  <2>6. CASE m = p
    BY <1>7, <2>1, <2>3, <2>6
  <2>7. CASE m # x /\ m # p
    BY <1>4, <1>5, <1>7, <2>1, <2>4, <2>7 DEF Sub
  <2> QED BY <2>5, <2>6, <2>7
<1>17. ASSUME NEW n \in N, NEW m \in w[n], m # n
       PROVE  pa2[m] \in w[n]
  <2>1. \A k \in N : \A j \in sub[k] : sub[j] \subseteq sub[k]
    BY DEF Struct
  <2>2. \A k \in N : \A j \in sub[k] : j # k => pa[j] \in sub[k]
    BY DEF Struct
  <2>3. x \notin w[p]
    BY <1>2, <1>4, <1>5, <1>7 DEF Sub
  <2>4. m \in N
    BY <1>7
  <2>5. CASE m = b
    BY <1>2, <1>4, <1>7, <1>9, <1>17, <2>2, <2>4, <2>5
  <2>6. CASE m = p
    BY <1>2, <1>7, <1>9, <1>17, <2>1, <2>6
  <2>7. CASE m = x
    BY <1>2, <1>7, <1>9, <1>17, <2>2, <2>3, <2>7 DEF g
  <2>8. CASE m # b /\ m # p /\ m # x
    <3>1. pa2[m] = pa[m]
      BY <1>9, <2>4, <2>8
    <3>2. CASE n = p
      BY <1>4, <1>5, <1>7, <2>2, <2>8, <3>1, <3>2 DEF Sub
    <3>3. CASE n # p
      BY <1>2, <1>7, <1>17, <2>2, <2>8, <3>1, <3>3
    <3> QED BY <3>2, <3>3
  <2> QED BY <2>5, <2>6, <2>7, <2>8
<1>18. ASSUME NEW n \in N, n # r2
       PROVE  pa2[n] \in N /\ si2[n] \in Sides /\ ch2[pa2[n]][si2[n]] = n
  <2>1. CASE n = b
    BY <1>8, <1>9, <1>18, <2>1
  <2>2. CASE n = p
    BY <1>1, <1>2, <1>8, <1>9, <2>2
  <2>3. CASE n = x
    BY <1>6, <1>8, <1>9, <1>11, <1>18, <2>3
  <2>4. CASE n # b /\ n # p /\ n # x
    <3>1. n # r
      BY <1>11, <1>18, <2>4
    <3>2. pa[n] \in N /\ si[n] \in Sides /\ ch[pa[n]][si[n]] = n
      BY <3>1 DEF Struct
    <3>3. pa2[n] = pa[n] /\ si2[n] = si[n]
      BY <1>9, <2>4
    <3> QED BY <1>1, <1>6, <1>8, <2>4, <3>2, <3>3 DEF a, c
  <2> QED BY <2>1, <2>2, <2>3, <2>4
<1>19. w \in [N -> SUBSET N]
  BY <1>7
<1> QED BY <1>12, <1>13, <1>14, <1>15, <1>16, <1>17, <1>18, <1>19 DEF Struct, w

LEMMA ProperBounds ==
  \A i \in Proper : i.base \in Nat /\ i.bound \in Nat /\ i.base < i.bound
  BY TreeAssumption DEF Proper

LEMMA BesideFacts ==
  ASSUME NEW i \in Proper, NEW j \in Proper, NEW k \in Proper, NEW s \in Sides
  PROVE  /\ Beside(i, j, s) <=> Beside(j, i, Other(s))
         /\ Beside(i, j, s) /\ Beside(j, k, s) => Beside(i, k, s)
         /\ Beside(i, j, s) => ~Overlaps(i, j) /\ ~Overlaps(j, i)
         /\ ~Overlaps(i, j) => Beside(i, j, "left") \/ Beside(i, j, "right")
  BY ProperBounds DEF Beside, Other, Sides, Overlaps

LEMMA RotatedSorted ==
  ASSUME NEW N, NEW r, NEW ch, NEW pa, NEW si, NEW sub, NEW sp \in [N -> Proper],
         Struct(N, r, ch, pa, si, sub), Sorted(N, ch, sp, sub), Null \notin N,
         NEW p \in N, NEW s \in Sides, ch[p][s] # Null,
         NEW r2, NEW ch2, NEW pa2, NEW si2,
         Rotates(N, r, ch, pa, si, p, s, r2, ch2, pa2, si2)
  PROVE  Sorted(N, ch2, sp, Rotated(ch, sub, p, s))
<1> DEFINE x == ch[p][s]
           b == ch[x][Other(s)]
<1>0. /\ x = ch[p][s] /\ b = ch[x][Other(s)] /\ x # Null
      /\ \A n \in N, t \in Sides :
           ch2[n][t] = IF n = x /\ t = Other(s) THEN p
                       ELSE IF n = p /\ t = s THEN b
                       ELSE IF n = pa[p] /\ t = si[p] THEN x
                       ELSE ch[n][t]
  BY DEF Rotates
<1> HIDE DEF x, b
<1> USE <1>0
<1> DEFINE o == Other(s)
           c == ch[p][o]
           g == pa[p]
           Sub(n) == IF n = Null THEN {} ELSE sub[n]
           w == Rotated(ch, sub, p, s)
<1>1. o \in Sides /\ o # s /\ Other(o) = s /\ \A t \in Sides : t = s \/ t = o
  BY DEF Sides, Other
<1>2. /\ x \in N /\ pa[x] = p /\ p \notin sub[x] /\ x \in sub[x] /\ x # p
      /\ sub[x] \subseteq N /\ sub[p] \subseteq N
  BY DEF Struct
<1>3. b # Null => b \in N /\ sub[b] \subseteq sub[x] /\ pa[b] = x /\ b # x /\ b # p
  BY <1>1, <1>2 DEF Struct
<1>4. c # Null => c \in N /\ sub[c] \subseteq sub[p] /\ p \notin sub[c] /\ c \in sub[c] /\ c # p
  BY <1>1, <1>2 DEF Struct
<1>5. c # Null => c # x
  BY Apartness
<1>6. /\ w[x] = sub[p] /\ w[p] = {p} \cup Sub(b) \cup Sub(c)
      /\ \A n \in N : n # x /\ n # p => w[n] = sub[n]
  BY <1>2 DEF Rotated, Struct
<1>7. \A m \in sub[x] : Beside(sp[m], sp[p], s)
  BY DEF Sorted
<1>8. Beside(sp[p], sp[x], o)
  BY <1>1, <1>2, <1>7, BesideFacts
<1>9. \A m \in Sub(b) : Beside(sp[m], sp[x], o)
  BY <1>1, <1>2 DEF Sorted
<1>10. \A m \in Sub(c) : Beside(sp[m], sp[p], o) /\ Beside(sp[m], sp[x], o)
  <2> SUFFICES ASSUME NEW m \in Sub(c) PROVE Beside(sp[m], sp[p], o) /\ Beside(sp[m], sp[x], o)
    OBVIOUS
  <2>1. Beside(sp[m], sp[p], o)
    BY <1>1 DEF Sorted
  <2>2. m \in N
    BY <1>2, <1>4
  <2> QED BY <1>1, <1>2, <1>8, <2>1, <2>2, BesideFacts
<1>11. Null \notin N /\ p # Null
  OBVIOUS
<1> HIDE DEF o, c, g, Sub, w
<1> SUFFICES ASSUME NEW n \in N, NEW t \in Sides, ch2[n][t] # Null, NEW m \in w[ch2[n][t]]
             PROVE  Beside(sp[m], sp[n], t)
  BY DEF Sorted, w
<1>12. CASE n = x /\ t = o
  <2>1. m \in w[p]
    BY <1>12 DEF o
  <2> QED BY <1>6, <1>8, <1>9, <1>10, <1>12, <2>1
<1>13. CASE n = p /\ t = s
  <2>1. ch2[n][t] = b
    BY <1>1, <1>2, <1>13
  <2>2. b # p /\ b # x /\ b \in N
    BY <1>3, <2>1
  <2>3. m \in sub[x]
    BY <1>3, <1>6, <2>1, <2>2
  <2> QED BY <1>7, <1>13, <2>3
<1>14. CASE n = g /\ t = si[p] /\ n # x /\ n # p
  <2>1. ch2[n][t] = x
    BY <1>14 DEF g
  <2>2. ch[n][t] = p
    BY <1>14 DEF g, Struct
  <2> QED BY <1>6, <1>11, <2>1, <2>2 DEF Sorted
<1>15. CASE ~(n = x /\ t = o) /\ ~(n = p /\ t = s) /\ ~(n = g /\ t = si[p])
  <2>1. ch2[n][t] = ch[n][t]
    BY <1>15 DEF g, o
  <2>2. ch[n][t] \in N /\ pa[ch[n][t]] = n /\ si[ch[n][t]] = t
    BY <1>15, <2>1 DEF Struct
  <2>3. ch[n][t] # p
    BY <1>15, <2>2 DEF g
  <2>4. ch[n][t] # x
    BY <1>1, <1>2, <1>15, <2>2 DEF Struct
  <2> QED BY <1>6, <2>1, <2>2, <2>3, <2>4 DEF Sorted
<1>16. g # x
  <2>1. g \in N => g \notin sub[p] \/ p = r
    BY DEF g, Struct
  <2>2. p = r => g = Null
    BY DEF g, Struct
  <2>3. x \in sub[p]
    BY DEF Struct
  <2> QED BY <1>2, <2>1, <2>2, <2>3
<1>17. g # p
  <2>1. g \in N => g \notin sub[p] \/ p = r
    BY DEF g, Struct
  <2>2. p = r => g = Null
    BY DEF g, Struct
  <2> QED BY <2>1, <2>2 DEF Struct
<1> QED BY <1>12, <1>13, <1>14, <1>15, <1>16, <1>17

(* Node e, which has no other child than b, leaves. *)
Unlinks(N, r, ch, pa, si, e, b, r2, ch2, pa2, si2) ==
  /\ \A s \in Sides : ch[e][s] = b \/ ch[e][s] = Null
  /\ b = Null \/ \E s \in Sides : ch[e][s] = b
  /\ r2 = IF pa[e] = Null THEN b ELSE r
  /\ \A n \in N \ {e}, t \in Sides :
       ch2[n][t] = IF n = pa[e] /\ t = si[e] THEN b ELSE ch[n][t]
  /\ \A n \in N \ {e} : pa2[n] = IF n = b THEN pa[e] ELSE pa[n]
  /\ \A n \in N \ {e} : si2[n] = IF n = b THEN si[e] ELSE si[n]

Unlinked(N, sub, e) == [n \in N \ {e} |-> sub[n] \ {e}]

(* Every child that is left has lost e at most from its subtree. *)
Shrinks(N, ch, sub, e, ch2) ==
  \A n \in N \ {e}, t \in Sides : ch2[n][t] # Null =>
    /\ ch2[n][t] \in N \ {e} /\ ch[n][t] # Null
    /\ sub[ch2[n][t]] \ {e} \subseteq sub[ch[n][t]]

LEMMA UnlinkedStruct ==
  ASSUME NEW N, NEW r, NEW ch, NEW pa, NEW si, NEW sub,
         Struct(N, r, ch, pa, si, sub), Null \notin N,
         NEW e \in N, NEW b, NEW r2, NEW ch2, NEW pa2, NEW si2,
         Unlinks(N, r, ch, pa, si, e, b, r2, ch2, pa2, si2)
  PROVE  /\ Struct(N \ {e}, r2, ch2, pa2, si2, Unlinked(N, sub, e))
         /\ Shrinks(N, ch, sub, e, ch2)
<1>0. /\ \A s \in Sides : ch[e][s] = b \/ ch[e][s] = Null
      /\ b = Null \/ \E s \in Sides : ch[e][s] = b
      /\ r2 = IF pa[e] = Null THEN b ELSE r
      /\ \A n \in N \ {e}, t \in Sides :
           ch2[n][t] = IF n = pa[e] /\ t = si[e] THEN b ELSE ch[n][t]
      /\ \A n \in N \ {e} : pa2[n] = IF n = b THEN pa[e] ELSE pa[n]
      /\ \A n \in N \ {e} : si2[n] = IF n = b THEN si[e] ELSE si[n]
  BY DEF Unlinks
<1> USE <1>0
<1> DEFINE M == N \ {e}
           w == [n \in M |-> sub[n] \ {e}]
           g == pa[e]
<1>1. \A k \in N : \A j \in sub[k] : sub[j] \subseteq sub[k]
  BY DEF Struct
<1>2. \A k \in N : \A j \in sub[k] : j # k => pa[j] \in sub[k]
  BY DEF Struct
<1>3. \A k \in N : \A j \in sub[k] :
        j = k \/ \E t \in Sides : ch[k][t] # Null /\ j \in sub[ch[k][t]]
  BY DEF Struct
<1>4. \A k \in N, t \in Sides : ch[k][t] # Null =>
        /\ ch[k][t] \in N /\ pa[ch[k][t]] = k /\ si[ch[k][t]] = t
        /\ sub[ch[k][t]] \subseteq sub[k] /\ k \notin sub[ch[k][t]]
  BY DEF Struct
<1>5. \A k \in N : k \in sub[k] /\ sub[k] \subseteq N
  BY DEF Struct
<1>6. \A k \in N : k # r => pa[k] \in N /\ si[k] \in Sides /\ ch[pa[k]][si[k]] = k
  BY DEF Struct
<1>7. r \in N /\ pa[r] = Null /\ sub[r] = N /\ r # Null
  BY DEF Struct
<1>8. b # Null => b \in M /\ pa[b] = e /\ sub[b] \subseteq sub[e] /\ e \notin sub[b] /\ b # r
  BY <1>4, <1>5, <1>7
<1>9. g # Null <=> e # r
  BY <1>6, <1>7
<1>10. g # Null => /\ g \in M /\ si[e] \in Sides /\ ch[g][si[e]] = e /\ g \notin sub[e]
                   /\ sub[e] \subseteq sub[g] /\ g # b
  BY <1>4, <1>5, <1>6, <1>8, <1>9
<1>11. \A k \in M : w[k] = sub[k] \ {e}
  OBVIOUS
<1>12. \A j \in sub[e] : j = e \/ (b # Null /\ j \in sub[b])
  BY <1>3
<1> HIDE DEF M, w, g
<1>13. \A n \in M, t \in Sides : ch2[n][t] = IF n = g /\ t = si[e] THEN b ELSE ch[n][t]
  BY DEF M, g
<1>14. \A n \in M : n \in N /\ n # e
  BY DEF M
<1>15. \A n \in M : /\ pa2[n] = IF n = b THEN g ELSE pa[n]
                    /\ si2[n] = IF n = b THEN si[e] ELSE si[n]
  BY DEF M, g
<1>16. w \in [M -> SUBSET M]
  BY <1>5, <1>14 DEF M, w
<1>17. r2 = Null => M = {}
  <2> SUFFICES ASSUME r2 = Null, NEW n \in M PROVE FALSE
    OBVIOUS
  <2>1. e = r /\ b = Null
    BY <1>7, <1>9 DEF g
  <2> QED BY <1>7, <1>12, <1>14, <2>1
<1>18. r2 # Null => r2 \in M /\ pa2[r2] = Null /\ w[r2] = M
  <2> SUFFICES ASSUME r2 # Null PROVE r2 \in M /\ pa2[r2] = Null /\ w[r2] = M
    OBVIOUS
  <2>1. CASE e = r
    <3>1. r2 = b /\ b \in M
      BY <1>8, <1>9, <2>1 DEF g
    <3>2. sub[b] \ {e} = M
      BY <1>5, <1>7, <1>8, <1>12, <2>1, <3>1 DEF M
    <3> QED BY <1>9, <1>11, <1>15, <2>1, <3>1, <3>2
  <2>2. CASE e # r
    <3>1. r2 = r /\ r \in M /\ r # b
      BY <1>7, <1>8, <1>9, <2>2 DEF g, M
    <3> QED BY <1>7, <1>11, <1>15, <3>1 DEF M
  <2> QED BY <2>1, <2>2
<1>19. \A n \in M : n \in w[n]
  BY <1>5, <1>11, <1>14
<1>20. ASSUME NEW n \in M, NEW t \in Sides, ch2[n][t] # Null
       PROVE  /\ ch2[n][t] \in M /\ pa2[ch2[n][t]] = n /\ si2[ch2[n][t]] = t
              /\ w[ch2[n][t]] \subseteq w[n] /\ n \notin w[ch2[n][t]]
              /\ ch[n][t] # Null /\ sub[ch2[n][t]] \ {e} \subseteq sub[ch[n][t]]
  <2>1. CASE n = g /\ t = si[e]
    <3>1. ch2[n][t] = b /\ b \in M /\ ch[n][t] = e
      BY <1>8, <1>10, <1>13, <1>14, <1>20, <2>1
    <3> QED BY <1>8, <1>10, <1>11, <1>14, <1>15, <1>20, <2>1, <3>1
  <2>2. CASE ~(n = g /\ t = si[e])
    <3>1. ch2[n][t] = ch[n][t]
      BY <1>13, <2>2
    <3>2. ch[n][t] # e /\ ch[n][t] # b
      BY <1>4, <1>8, <1>14, <1>20, <2>2, <3>1 DEF g
    <3>3. ch[n][t] \in M
      BY <1>4, <1>14, <1>20, <3>1, <3>2 DEF M
    <3> QED BY <1>4, <1>11, <1>14, <1>15, <1>20, <3>1, <3>2, <3>3
  <2> QED BY <2>1, <2>2
<1>21. ASSUME NEW n \in M, NEW m \in w[n]
       PROVE  m = n \/ \E t \in Sides : ch2[n][t] # Null /\ m \in w[ch2[n][t]]
  <2>1. m \in sub[n] /\ m # e
    BY <1>11
  <2>2. ASSUME NEW t \in Sides, ch[n][t] # Null, m \in sub[ch[n][t]]
        PROVE  ch2[n][t] # Null /\ m \in w[ch2[n][t]]
    <3>1. CASE n = g /\ t = si[e]
      <4>1. ch2[n][t] = b /\ ch[n][t] = e
        BY <1>10, <1>13, <1>14, <2>2, <3>1
      <4> QED BY <1>8, <1>11, <1>12, <2>1, <2>2, <4>1
    <3>2. CASE ~(n = g /\ t = si[e])
      <4>1. ch2[n][t] = ch[n][t] /\ ch[n][t] # e /\ ch[n][t] \in N
        BY <1>4, <1>13, <1>14, <2>2, <3>2 DEF g
      <4> QED BY <1>11, <2>1, <2>2, <4>1 DEF M
    <3> QED BY <3>1, <3>2
  <2> QED BY <1>3, <1>14, <2>1, <2>2
<1>22. ASSUME NEW n \in M, NEW m \in w[n] PROVE w[m] \subseteq w[n]
  BY <1>1, <1>5, <1>11, <1>14 DEF M
<1>23. ASSUME NEW n \in M, NEW m \in w[n], m # n PROVE pa2[m] \in w[n]
  <2>1. m \in sub[n] /\ m \in M /\ n \in N /\ n # e
    BY <1>5, <1>11, <1>14 DEF M
  <2>2. pa[m] \in sub[n]
    BY <1>2, <1>23, <2>1
  <2>3. CASE m = b
    <3>1. e \in sub[n] /\ g \in sub[n]
      BY <1>2, <1>8, <1>14, <2>1, <2>2, <2>3 DEF g
    <3>2. g # e
      BY <1>5, <1>10, <1>14, <2>1, <3>1
    <3> QED BY <1>11, <1>15, <2>1, <2>3, <3>1, <3>2
  <2>4. CASE m # b
    <3>1. pa[m] # e
      <4> SUFFICES ASSUME pa[m] = e PROVE FALSE
        OBVIOUS
      <4>1. m # r
        BY <1>7, <1>14
      <4>2. ch[e][si[m]] = m /\ si[m] \in Sides
        BY <1>6, <1>14, <2>1, <4>1
      <4> QED BY <1>14, <2>1, <2>4, <4>2
    <3> QED BY <1>11, <1>15, <2>1, <2>2, <2>4, <3>1
  <2> QED BY <2>3, <2>4
<1>24. ASSUME NEW n \in M, n # r2
       PROVE  pa2[n] \in M /\ si2[n] \in Sides /\ ch2[pa2[n]][si2[n]] = n
  <2>1. CASE n = b
    BY <1>10, <1>13, <1>15, <1>24, <2>1 DEF g
  <2>2. CASE n # b
    <3>1. n # r
      BY <1>8, <1>9, <1>14, <1>24, <2>2 DEF g
    <3>2. pa[n] \in N /\ si[n] \in Sides /\ ch[pa[n]][si[n]] = n
      BY <1>6, <1>14, <3>1
    <3>3. pa[n] # e
      BY <1>14, <2>2, <3>2
    <3>4. pa[n] # g \/ si[n] # si[e]
      BY <1>10, <1>14, <3>2
    <3>5. pa[n] \in M
      BY <3>2, <3>3 DEF M
    <3> QED BY <1>13, <1>15, <2>2, <3>2, <3>4, <3>5
  <2> QED BY <2>1, <2>2
<1>25. Struct(M, r2, ch2, pa2, si2, w)
  BY <1>16, <1>17, <1>18, <1>19, <1>20, <1>21, <1>22, <1>23, <1>24 DEF Struct
<1> QED BY <1>20, <1>25 DEF M, w, Unlinked, Shrinks

(* Its spans stay sorted, also when e is the least node right of d and d    *)
(* takes over its span.                                                     *)
Inherits(N, ch, sp, sub, e, d, sp2) ==
  /\ \A n \in N \ {e} : sp2[n] = IF n = d THEN sp[e] ELSE sp[n]
  /\ d # e => /\ ch[d]["right"] # Null /\ e \in sub[ch[d]["right"]]
              /\ \A m \in sub[ch[d]["right"]] : m = e \/ sp[e].bound <= sp[m].base

LEMMA UnlinkedSorted ==
  ASSUME NEW N, NEW r, NEW ch, NEW pa, NEW si, NEW sub, NEW sp \in [N -> Proper],
         Struct(N, r, ch, pa, si, sub), Sorted(N, ch, sp, sub),
         NEW e \in N, NEW d \in N, NEW ch2, NEW sp2,
         Shrinks(N, ch, sub, e, ch2), Inherits(N, ch, sp, sub, e, d, sp2)
  PROVE  Sorted(N \ {e}, ch2, sp2, Unlinked(N, sub, e))
<1>0. /\ \A n \in N \ {e}, t \in Sides : ch2[n][t] # Null =>
           /\ ch2[n][t] \in N \ {e} /\ ch[n][t] # Null
           /\ sub[ch2[n][t]] \ {e} \subseteq sub[ch[n][t]]
      /\ \A n \in N \ {e} : sp2[n] = IF n = d THEN sp[e] ELSE sp[n]
      /\ d # e => /\ ch[d]["right"] # Null /\ e \in sub[ch[d]["right"]]
                  /\ \A m \in sub[ch[d]["right"]] : m = e \/ sp[e].bound <= sp[m].base
  BY DEF Shrinks, Inherits
<1> USE <1>0
<1> SUFFICES ASSUME NEW n \in N \ {e}, NEW t \in Sides, ch2[n][t] # Null,
                    NEW m \in sub[ch2[n][t]] \ {e}
             PROVE  Beside(sp2[m], sp2[n], t)
  BY DEF Sorted, Unlinked
<1>1. ch[n][t] # Null /\ ch[n][t] \in N /\ m \in sub[ch[n][t]] /\ m \in N \ {e}
      /\ n \notin sub[ch[n][t]] /\ m # n
  BY DEF Struct
<1>2. Beside(sp[m], sp[n], t)
  BY <1>1 DEF Sorted
<1>3. CASE d = e \/ (n # d /\ m # d)
  BY <1>1, <1>2, <1>3
<1>4. CASE d # e /\ m = d
  <2>1. e \in sub[ch[n][t]]
    BY <1>1, <1>4, OtherSide DEF Struct
  <2> QED BY <1>1, <1>4, <2>1 DEF Sorted
<1>5. CASE d # e /\ n = d
  <2>1. sp2[m] = sp[m] /\ sp2[n] = sp[e]
    BY <1>1, <1>5
  <2>2. CASE t = "right"
    BY <1>1, <1>5, <2>1, <2>2 DEF Beside
  <2>3. CASE t = "left"
    <3>1. Beside(sp[e], sp[d], "right")
      BY <1>5, OtherSide DEF Sorted
    <3> QED BY <1>1, <1>2, <1>5, <2>1, <2>3, <3>1, ProperBounds DEF Beside
  <2> QED BY <2>2, <2>3 DEF Sides
<1> QED BY <1>3, <1>4, <1>5

(* A new leaf k under par. *)
Leafed(sub, k, u) ==
  [n \in DOMAIN sub \cup {k} |->
     IF n = k THEN {k} ELSE IF u \in sub[n] THEN sub[n] \cup {k} ELSE sub[n]]

Links(N, r, ch, pa, si, k, u, d, r2, ch2, pa2, si2) ==
  /\ u = Null => r = Null
  /\ u # Null => ch[u][d] = Null
  /\ r2 = IF u = Null THEN k ELSE r
  /\ \A n \in N \cup {k}, t \in Sides :
       ch2[n][t] = IF n = k THEN Null ELSE IF n = u /\ t = d THEN k ELSE ch[n][t]
  /\ \A n \in N \cup {k} : pa2[n] = IF n = k THEN u ELSE pa[n]
  /\ \A n \in N \cup {k} : si2[n] = IF n = k THEN d ELSE si[n]

LEMMA LinkedStruct ==
  ASSUME NEW N, NEW r, NEW ch, NEW pa, NEW si, NEW sub,
         Struct(N, r, ch, pa, si, sub), Null \notin N,
         NEW k, k \notin N, k # Null, NEW u \in N \cup {Null}, NEW d \in Sides,
         NEW r2, NEW ch2, NEW pa2, NEW si2,
         Links(N, r, ch, pa, si, k, u, d, r2, ch2, pa2, si2)
  PROVE  Struct(N \cup {k}, r2, ch2, pa2, si2, Leafed(sub, k, u))
<1>0. /\ u = Null => r = Null
      /\ u # Null => ch[u][d] = Null
      /\ r2 = IF u = Null THEN k ELSE r
      /\ \A n \in N \cup {k}, t \in Sides :
           ch2[n][t] = IF n = k THEN Null ELSE IF n = u /\ t = d THEN k ELSE ch[n][t]
      /\ \A n \in N \cup {k} : pa2[n] = IF n = k THEN u ELSE pa[n]
      /\ \A n \in N \cup {k} : si2[n] = IF n = k THEN d ELSE si[n]
  BY DEF Links
<1> USE <1>0
<1> DEFINE M == N \cup {k}
           w == Leafed(sub, k, u)
<1>1. \A n \in N : sub[n] \subseteq N /\ n \in sub[n]
  BY DEF Struct
<1>2. /\ w \in [M -> SUBSET M] /\ w[k] = {k}
      /\ \A n \in N : w[n] = IF u \in sub[n] THEN sub[n] \cup {k} ELSE sub[n]
  BY DEF Leafed, Struct
<1> HIDE DEF w
<1>3. r2 # Null /\ r2 \in M /\ pa2[r2] = Null /\ w[r2] = M
  <2>1. CASE u = Null
    BY <1>2, <2>1 DEF Struct
  <2>2. CASE u # Null
    <3>1. r # Null /\ r \in N /\ pa[r] = Null /\ sub[r] = N
      BY <2>2 DEF Struct
    <3> QED BY <1>2, <2>2, <3>1
  <2> QED BY <2>1, <2>2
<1>4. \A n \in M : n \in w[n]
  BY <1>1, <1>2
<1>5. ASSUME NEW n \in M, NEW t \in Sides, ch2[n][t] # Null
      PROVE  /\ ch2[n][t] \in M /\ pa2[ch2[n][t]] = n /\ si2[ch2[n][t]] = t
             /\ w[ch2[n][t]] \subseteq w[n] /\ n \notin w[ch2[n][t]]
  <2>1. CASE n = u /\ t = d
    BY <1>1, <1>2, <1>5, <2>1
  <2>2. CASE n # u \/ t # d
    <3>1. n \in N /\ ch2[n][t] = ch[n][t]
      BY <1>5, <2>2
    <3>2. /\ ch[n][t] \in N /\ pa[ch[n][t]] = n /\ si[ch[n][t]] = t
          /\ sub[ch[n][t]] \subseteq sub[n] /\ n \notin sub[ch[n][t]]
      BY <1>5, <3>1 DEF Struct
    <3> QED BY <1>2, <3>1, <3>2
  <2> QED BY <2>1, <2>2
<1>6. ASSUME NEW n \in M, NEW m \in w[n]
      PROVE  m = n \/ \E t \in Sides : ch2[n][t] # Null /\ m \in w[ch2[n][t]]
  <2>1. CASE n = k
    BY <1>2, <2>1
  <2>2. CASE n \in N /\ m = k
    <3>1. u \in sub[n] /\ u \in N
      BY <1>1, <1>2, <2>2
    <3>2. CASE u = n
      BY <1>2, <2>2, <3>1, <3>2
    <3>3. CASE u # n
      <4>1. PICK t \in Sides : ch[n][t] # Null /\ u \in sub[ch[n][t]]
        BY <2>2, <3>1, <3>3 DEF Struct
      <4>2. ch[n][t] \in N
        BY <2>2, <4>1 DEF Struct
      <4> QED BY <1>2, <2>2, <3>3, <4>1, <4>2
    <3> QED BY <3>2, <3>3
  <2>3. CASE n \in N /\ m # k
    <3>1. m \in sub[n]
      BY <1>2, <2>3
    <3>2. m = n \/ \E t \in Sides : ch[n][t] # Null /\ m \in sub[ch[n][t]]
      BY <2>3, <3>1 DEF Struct
    <3>3. ASSUME NEW t \in Sides, ch[n][t] # Null, m \in sub[ch[n][t]]
          PROVE  ch2[n][t] # Null /\ m \in w[ch2[n][t]]
      <4>1. ch[n][t] \in N /\ ch2[n][t] = ch[n][t]
        BY <2>3, <3>3 DEF Struct
      <4> QED BY <1>2, <3>3, <4>1
    <3> QED BY <3>2, <3>3
  <2> QED BY <2>1, <2>2, <2>3
<1>7. ASSUME NEW n \in M, NEW m \in w[n] PROVE w[m] \subseteq w[n]
  <2>1. \A j \in N : \A i \in sub[j] : sub[i] \subseteq sub[j]
    BY DEF Struct
  <2> QED BY <1>1, <1>2, <2>1
<1>8. ASSUME NEW n \in M, NEW m \in w[n], m # n PROVE pa2[m] \in w[n]
  <2>1. \A j \in N : \A i \in sub[j] : i # j => pa[i] \in sub[j]
    BY DEF Struct
  <2> QED BY <1>1, <1>2, <1>8, <2>1
<1>9. ASSUME NEW n \in M, n # r2
      PROVE  pa2[n] \in M /\ si2[n] \in Sides /\ ch2[pa2[n]][si2[n]] = n
  <2>1. CASE n = k
    BY <1>9, <2>1
  <2>2. CASE n # k
    <3>1. n # r
      BY <1>9, <2>2 DEF Struct
    <3>2. pa[n] \in N /\ si[n] \in Sides /\ ch[pa[n]][si[n]] = n
      BY <2>2, <3>1 DEF Struct
    <3> QED BY <2>2, <3>2
  <2> QED BY <2>1, <2>2
<1> QED BY <1>2, <1>3, <1>4, <1>5, <1>6, <1>7, <1>8, <1>9 DEF Struct, w

(* Interval i belongs on side d of node u. *)
Belongs(N, ch, sp, sub, u, d, i) ==
  /\ u # Null => Beside(i, sp[u], d)
  /\ \A n \in N, t \in Sides :
       ch[n][t] # Null /\ u \in sub[ch[n][t]] => Beside(i, sp[n], t)

LEMMA LinkedSorted ==
  ASSUME NEW N, NEW r, NEW ch, NEW pa, NEW si, NEW sub, NEW sp,
         Struct(N, r, ch, pa, si, sub), Sorted(N, ch, sp, sub), Null \notin N,
         NEW k, k \notin N, k # Null, NEW u \in N \cup {Null}, NEW d \in Sides,
         NEW r2, NEW ch2, NEW pa2, NEW si2, NEW sp2, NEW i,
         Links(N, r, ch, pa, si, k, u, d, r2, ch2, pa2, si2),
         \A n \in N \cup {k} : sp2[n] = IF n = k THEN i ELSE sp[n],
         Belongs(N, ch, sp, sub, u, d, i)
  PROVE  Sorted(N \cup {k}, ch2, sp2, Leafed(sub, k, u))
<1>0. /\ \A n \in N \cup {k}, t \in Sides :
           ch2[n][t] = IF n = k THEN Null ELSE IF n = u /\ t = d THEN k ELSE ch[n][t]
      /\ u # Null => Beside(i, sp[u], d)
      /\ \A n \in N, t \in Sides :
           ch[n][t] # Null /\ u \in sub[ch[n][t]] => Beside(i, sp[n], t)
  BY DEF Links, Belongs
<1> USE <1>0
<1> DEFINE w == Leafed(sub, k, u)
<1>1. \A n \in N : sub[n] \subseteq N /\ n \in sub[n]
  BY DEF Struct
<1>2. /\ w[k] = {k}
      /\ \A n \in N : w[n] = IF u \in sub[n] THEN sub[n] \cup {k} ELSE sub[n]
  BY DEF Leafed, Struct
<1> HIDE DEF w
<1> SUFFICES ASSUME NEW n \in N \cup {k}, NEW t \in Sides, ch2[n][t] # Null, NEW m \in w[ch2[n][t]]
             PROVE  Beside(sp2[m], sp2[n], t)
  BY DEF Sorted, w
<1>3. n \in N
  OBVIOUS
<1>4. CASE n = u /\ t = d
  BY <1>2, <1>3, <1>4
<1>5. CASE n # u \/ t # d
  <2>1. ch2[n][t] = ch[n][t] /\ ch[n][t] \in N
    BY <1>3, <1>5 DEF Struct
  <2> DEFINE c == ch[n][t]
  <2>2. m \in IF u \in sub[c] THEN sub[c] \cup {k} ELSE sub[c]
    BY <1>2, <2>1
  <2>3. CASE m = k
    <3>1. u \in sub[c]
      BY <1>1, <2>1, <2>2, <2>3
    <3> QED BY <1>3, <2>1, <2>3, <3>1
  <2>4. CASE m # k
    <3>1. m \in sub[c] /\ m \in N
      BY <1>1, <2>1, <2>2, <2>4
    <3> QED BY <1>3, <2>1, <2>4, <3>1 DEF Sorted
  <2> QED BY <2>3, <2>4
<1> QED BY <1>4, <1>5

LEMMA SideKept ==
  ASSUME NEW i \in Proper, NEW j \in Proper, NEW k \in Proper, NEW s \in Sides,
         Beside(i, j, s), Overlaps(i, k), ~Overlaps(k, j)
  PROVE  Beside(k, j, s)
  BY ProperBounds DEF Beside, Overlaps, Sides

(* A node's span may grow as long as it meets no other node. *)
LEMMA OverwrittenSorted ==
  ASSUME NEW N, NEW r, NEW ch, NEW pa, NEW si, NEW sub, NEW sp \in [N -> Proper],
         Struct(N, r, ch, pa, si, sub), Sorted(N, ch, sp, sub),
         NEW k \in N, NEW i \in Proper, Overlaps(sp[k], i),
         \A n \in N \ {k} : ~Overlaps(sp[n], i)
  PROVE  Sorted(N, ch, [sp EXCEPT ![k] = i], sub)
<1> DEFINE sp2 == [sp EXCEPT ![k] = i]
<1> SUFFICES ASSUME NEW n \in N, NEW s \in Sides, ch[n][s] # Null, NEW m \in sub[ch[n][s]]
             PROVE  Beside(sp2[m], sp2[n], s)
  BY DEF Sorted
<1>1. Beside(sp[m], sp[n], s)
  BY DEF Sorted
<1>2. m \in N /\ m # n
  BY DEF Struct
<1>3. CASE m = k
  <2>1. ~Overlaps(i, sp[n])
    BY <1>2, <1>3 DEF Overlaps
  <2> QED BY <1>1, <1>2, <1>3, <2>1, SideKept
<1>4. CASE n = k
  <2>1. Beside(sp[n], sp[m], Other(s)) /\ Other(s) \in Sides
    BY <1>1, <1>2, BesideFacts, OtherSide
  <2>2. ~Overlaps(i, sp[m])
    BY <1>2, <1>4 DEF Overlaps
  <2>3. Beside(i, sp[m], Other(s))
    BY <1>2, <1>4, <2>1, <2>2, SideKept
  <2>4. Beside(sp[m], i, s)
    BY <1>2, <2>3, BesideFacts
  <2> QED BY <1>2, <1>4, <2>4
<1>5. CASE m # k /\ n # k
  BY <1>1, <1>2, <1>5
<1> QED BY <1>3, <1>4, <1>5
-----------------------------------------------------------------------------
(* The tree of a state                                                      *)

SubOf == [n \in Nodes |-> Below(n)]

TypeTree ==
  /\ Nodes \subseteq NodeIds /\ numNodes \in Nat /\ root \in Nodes \cup {Null}
  /\ span \in [Nodes -> Proper]
  /\ child \in [Nodes -> [Sides -> Nodes \cup {Null}]]
  /\ parent \in [Nodes -> Nodes \cup {Null}] /\ side \in [Nodes -> Sides]

TreeInv ==
  /\ TypeTree
  /\ IsFiniteSet(Nodes) /\ Cardinality(Nodes) = numNodes
  /\ Struct(Nodes, root, child, parent, side, SubOf)
  /\ Sorted(Nodes, child, span, SubOf)

Apart == \A m, n \in Nodes : m # n => ~Overlaps(span[m], span[n])

LEMMA NoNull == TypeTree => Null \notin Nodes
  BY TreeAssumption DEF TypeTree

LEMMA NoNullNext == TypeTree' => Null \notin Nodes'
  BY TreeAssumption DEF TypeTree

(* What the links and the order of a valid tree say of its subtrees *)
LEMMA TreeFacts ==
  ASSUME TreeInv
  PROVE  /\ Null \notin Nodes /\ Below(Null) = {}
         /\ root = Null => Nodes = {}
         /\ root # Null => root \in Nodes /\ parent[root] = Null
         /\ Below(root) = Nodes
         /\ \A n \in Nodes : n \in Below(n) /\ Below(n) \subseteq Nodes
         /\ \A n \in Nodes, s \in Sides : child[n][s] # Null =>
              /\ child[n][s] \in Nodes /\ child[n][s] # n
              /\ parent[child[n][s]] = n /\ side[child[n][s]] = s
         /\ \A n \in Nodes, s \in Sides :
              Below(child[n][s]) \subseteq Below(n) /\ n \notin Below(child[n][s])
         /\ \A n \in Nodes : \A m \in Below(n) : m = n \/ \E s \in Sides : m \in Below(child[n][s])
         /\ \A n \in Nodes : \A m \in Below(n) : Below(m) \subseteq Below(n)
         /\ \A n \in Nodes : \A m \in Below(n) : m # n => parent[m] \in Below(n)
         /\ \A n \in Nodes : n # root => parent[n] \in Nodes /\ child[parent[n]][side[n]] = n
         /\ \A n \in Nodes, s \in Sides : \A m \in Below(child[n][s]) : Beside(span[m], span[n], s)
<1>1. Null \notin Nodes
  BY NoNull DEF TreeInv
<1>2. Below(Null) = {}
  BY DEF Below
<1>3. \A n \in Nodes : SubOf[n] = Below(n)
  BY DEF SubOf
<1>4. Struct(Nodes, root, child, parent, side, SubOf)
  BY DEF TreeInv
<1>5. root = Null => Nodes = {}
  BY <1>4 DEF Struct
<1>6. root # Null => root \in Nodes /\ parent[root] = Null /\ SubOf[root] = Nodes
  BY <1>4 DEF Struct
<1>7. \A n \in Nodes : n \in SubOf[n] /\ SubOf[n] \subseteq Nodes
  BY <1>4 DEF Struct
<1>8. \A n \in Nodes, s \in Sides : child[n][s] # Null =>
        /\ child[n][s] \in Nodes
        /\ parent[child[n][s]] = n /\ side[child[n][s]] = s
        /\ SubOf[child[n][s]] \subseteq SubOf[n] /\ n \notin SubOf[child[n][s]]
  BY <1>4 DEF Struct
<1>9. \A n \in Nodes : \A m \in SubOf[n] :
        m = n \/ \E s \in Sides : child[n][s] # Null /\ m \in SubOf[child[n][s]]
  BY <1>4 DEF Struct
<1>10. \A n \in Nodes : \A m \in SubOf[n] : SubOf[m] \subseteq SubOf[n]
  BY <1>4 DEF Struct
<1>11. \A n \in Nodes : \A m \in SubOf[n] : m # n => parent[m] \in SubOf[n]
  BY <1>4 DEF Struct
<1>12. \A n \in Nodes : n # root => parent[n] \in Nodes /\ child[parent[n]][side[n]] = n
  BY <1>4 DEF Struct
<1>13. \A n \in Nodes, s \in Sides : child[n][s] # Null =>
         \A m \in SubOf[child[n][s]] : Beside(span[m], span[n], s)
  BY DEF TreeInv, Sorted
<1>14. Below(root) = Nodes
  BY <1>2, <1>3, <1>5, <1>6
<1>15. \A n \in Nodes, s \in Sides :
         Below(child[n][s]) \subseteq Below(n) /\ n \notin Below(child[n][s])
  BY <1>2, <1>3, <1>8
<1>16. \A n \in Nodes : \A m \in Below(n) : m = n \/ \E s \in Sides : m \in Below(child[n][s])
  BY <1>3, <1>8, <1>9
<1>17. \A n \in Nodes, s \in Sides : \A m \in Below(child[n][s]) : Beside(span[m], span[n], s)
  BY <1>2, <1>3, <1>8, <1>13
<1>18. \A n \in Nodes : \A m \in Below(n) : Below(m) \subseteq Below(n)
  BY <1>3, <1>7, <1>10
<1>19. \A n \in Nodes : \A m \in Below(n) : m # n => parent[m] \in Below(n)
  BY <1>3, <1>11
<1>20. \A n \in Nodes, s \in Sides : child[n][s] # Null =>
         /\ child[n][s] \in Nodes /\ child[n][s] # n
         /\ parent[child[n][s]] = n /\ side[child[n][s]] = s
  BY <1>7, <1>8
<1>21. \A n \in Nodes : n \in Below(n) /\ Below(n) \subseteq Nodes
  BY <1>3, <1>7
<1> QED BY <1>1, <1>2, <1>5, <1>6, <1>12, <1>14, <1>15, <1>16, <1>17, <1>18, <1>19, <1>20, <1>21

(* A value that satisfies Struct after a step is the subtrees after it. *)
LEMMA SubtreesNext ==
  ASSUME NEW sub, TypeTree', IsFiniteSet(Nodes'),
         Struct(Nodes', root', child', parent', side', sub)
  PROVE  SubOf' = sub
<1>1. sub = [n \in Nodes' |-> sub[n]]
  BY DEF Struct
<1>2. ASSUME NEW n \in Nodes' PROVE Below(n)' = sub[n]
  <2>1. n # Null
    BY NoNullNext
  <2>2. Below(n)' = {m \in Nodes' : \A S \in SUBSET Nodes' : n \in S /\ ClosedIn(S, child') => m \in S}
    BY <2>1 DEF Below, Closed, ClosedIn
  <2> QED BY <2>2, SubtreesUnique
<1>3. SubOf' = [n \in Nodes' |-> Below(n)']
  BY DEF SubOf
<1>4. [n \in Nodes' |-> Below(n)'] = [n \in Nodes' |-> sub[n]]
  BY <1>2
<1> QED BY <1>1, <1>3, <1>4

(* Node e, which has no child but b, leaves the tree; d gets its span.      *)
TakesOut(e, b, d) ==
  /\ \A s \in Sides : child[e][s] = b \/ child[e][s] = Null
  /\ b = Null \/ \E s \in Sides : child[e][s] = b
  /\ Unlink(e, b) /\ span' = Restrict([span EXCEPT ![d] = span[e]], Nodes \ {e})
  /\ d # e => /\ e \in Below(child[d]["right"])
              /\ \A m \in Below(child[d]["right"]) : m = e \/ span[e].bound <= span[m].base

LEMMA RotateStep ==
  ASSUME TreeInv, NEW p \in Nodes, NEW s \in Sides, child[p][s] # Null, Rotate(p, s)
  PROVE  /\ TreeInv' /\ SubOf' = Rotated(child, SubOf, p, s) /\ UNCHANGED <<span, Nodes>>
         /\ Rotates(Nodes, root, child, parent, side, p, s, root', child', parent', side')
<1> DEFINE x == child[p][s]
           b == child[x][Other(s)]
           g == parent[p]
<1>1. Null \notin Nodes /\ Struct(Nodes, root, child, parent, side, SubOf)
      /\ Sorted(Nodes, child, span, SubOf)
  BY NoNull DEF TreeInv
<1>2. x \in Nodes /\ x # p /\ b \in Nodes \cup {Null} /\ g \in Nodes \cup {Null}
      /\ side[p] \in Sides /\ Other(s) \in Sides /\ b # p /\ b # x
  BY TreeFacts, OtherSide DEF TreeInv, TypeTree
<1>3. UNCHANGED <<span, numNodes>> /\ Nodes' = Nodes
  BY DEF Rotate, Nodes
<1>4. root' = IF parent[p] = Null THEN x ELSE root
  BY DEF Rotate, RootWith
<1>5. /\ child' \in [Nodes -> [Sides -> Nodes \cup {Null}]]
      /\ \A n \in Nodes, t \in Sides :
           child'[n][t] = IF n = x /\ t = Other(s) THEN p
                          ELSE IF n = p /\ t = s THEN b
                          ELSE IF n = parent[p] /\ t = side[p] THEN x
                          ELSE child[n][t]
  <2>1. child' = [ChildWith(p, x) EXCEPT ![x][Other(s)] = p, ![p][s] = b]
    BY DEF Rotate
  <2>2. child \in [Nodes -> [Sides -> Nodes \cup {Null}]]
    BY DEF TreeInv, TypeTree
  <2>3. /\ ChildWith(p, x) \in [Nodes -> [Sides -> Nodes \cup {Null}]]
        /\ \A n \in Nodes, t \in Sides :
             ChildWith(p, x)[n][t] = IF n = parent[p] /\ t = side[p] THEN x ELSE child[n][t]
    BY <1>1, <1>2, <2>2 DEF ChildWith
  <2> HIDE DEF x, b
  <2> DEFINE f == ChildWith(p, x)
             f2 == [f EXCEPT ![x][Other(s)] = p]
  <2> HIDE DEF f
  <2>4. /\ f2 \in [Nodes -> [Sides -> Nodes \cup {Null}]]
        /\ \A n \in Nodes, t \in Sides :
             f2[n][t] = IF n = x /\ t = Other(s) THEN p ELSE f[n][t]
    BY <1>2, <2>3 DEF f
  <2>5. child' = [f2 EXCEPT ![p][s] = b]
    BY <2>1 DEF f
  <2> HIDE DEF f2
  <2>6. /\ child' \in [Nodes -> [Sides -> Nodes \cup {Null}]]
        /\ \A n \in Nodes, t \in Sides :
             child'[n][t] = IF n = p /\ t = s THEN b ELSE f2[n][t]
    BY <1>2, <2>4, <2>5
  <2> QED BY <1>2, <2>3, <2>4, <2>6 DEF f
<1>6. /\ parent' \in [Nodes -> Nodes \cup {Null}]
      /\ \A n \in Nodes : parent'[n] = IF n = b THEN p ELSE IF n = p THEN x
                                       ELSE IF n = x THEN parent[p] ELSE parent[n]
  <2>1. parent' = Put([parent EXCEPT ![x] = parent[p], ![p] = x], b, p)
    BY DEF Rotate
  <2>2. parent \in [Nodes -> Nodes \cup {Null}]
    BY DEF TreeInv, TypeTree
  <2> HIDE DEF x, b
  <2> QED BY <1>1, <1>2, <2>1, <2>2 DEF Put, g
<1>7. /\ side' \in [Nodes -> Sides]
      /\ \A n \in Nodes : side'[n] = IF n = b THEN s ELSE IF n = p THEN Other(s)
                                     ELSE IF n = x THEN side[p] ELSE side[n]
  <2>1. side' = Put([side EXCEPT ![x] = side[p], ![p] = Other(s)], b, s)
    BY DEF Rotate
  <2>2. side \in [Nodes -> Sides]
    BY DEF TreeInv, TypeTree
  <2> HIDE DEF x, b
  <2> QED BY <1>1, <1>2, <2>1, <2>2 DEF Put
<1> DEFINE w == Rotated(child, SubOf, p, s)
<1>8. Rotates(Nodes, root, child, parent, side, p, s, root', child', parent', side')
  BY <1>4, <1>5, <1>6, <1>7 DEF Rotates
<1>9. Struct(Nodes, root', child', parent', side', w)
  BY <1>1, <1>8, RotatedStruct
<1>10. Sorted(Nodes, child', span, w)
  <2>1. span \in [Nodes -> Proper]
    BY DEF TreeInv, TypeTree
  <2> QED BY <1>1, <1>8, <2>1, RotatedSorted
<1>11. TypeTree'
  <2>1. root' \in Nodes \cup {Null}
    BY <1>2, <1>4 DEF TreeInv, TypeTree
  <2>2. Nodes \subseteq NodeIds /\ numNodes \in Nat /\ span \in [Nodes -> Proper]
    BY DEF TreeInv, TypeTree
  <2> QED BY <1>3, <1>5, <1>6, <1>7, <2>1, <2>2 DEF TypeTree
<1>12. IsFiniteSet(Nodes) /\ Cardinality(Nodes) = numNodes
  BY DEF TreeInv
<1>13. SubOf' = w
  <2> HIDE DEF w
  <2> QED BY <1>3, <1>9, <1>11, <1>12, SubtreesNext
<1> HIDE DEF w
<1>14. TreeInv'
  BY <1>3, <1>9, <1>10, <1>11, <1>12, <1>13 DEF TreeInv
<1> QED BY <1>3, <1>8, <1>13, <1>14 DEF w
LEMMA UnlinkStep ==
  ASSUME TreeInv, NEW e \in Nodes, NEW b, NEW d \in Nodes, TakesOut(e, b, d)
  PROVE  /\ TreeInv' /\ Nodes' = Nodes \ {e}
         /\ \A n \in Nodes' : span'[n] = IF n = d THEN span[e] ELSE span[n]
         /\ \A n \in Nodes' : Below(n)' = Below(n) \ {e}
         /\ \A n \in Nodes', t \in Sides : Below(child[n][t])' \subseteq Below(child[n][t]) \ {e}
         /\ \A n \in Nodes', t \in Sides :
              child'[n][t] = IF n = parent[e] /\ t = side[e] THEN b ELSE child[n][t]
<1> DEFINE rest == Nodes \ {e}
           w == Unlinked(Nodes, SubOf, e)
<1> USE DEF TakesOut
<1>1. /\ Null \notin Nodes /\ Struct(Nodes, root, child, parent, side, SubOf)
      /\ Sorted(Nodes, child, span, SubOf)
  BY NoNull DEF TreeInv
<1>2. /\ parent[e] \in Nodes \cup {Null} /\ side[e] \in Sides /\ parent[e] # e
      /\ b \in rest \cup {Null} /\ span[e] \in Proper
  <2>1. parent[e] \in Nodes \cup {Null} /\ side[e] \in Sides /\ span[e] \in Proper
    BY DEF TreeInv, TypeTree
  <2>2. b \in rest \cup {Null}
    BY TreeFacts
  <2>3. parent[e] # e
    <3>1. e = root => parent[e] # e
      BY <1>1, TreeFacts
    <3>2. e # root => parent[e] \in Nodes /\ child[parent[e]][side[e]] = e
      BY TreeFacts
    <3> QED BY <1>1, <2>1, <3>1, <3>2, TreeFacts
  <2> QED BY <2>1, <2>2, <2>3
<1>3. /\ span \in [Nodes -> Proper] /\ child \in [Nodes -> [Sides -> Nodes \cup {Null}]]
      /\ parent \in [Nodes -> Nodes \cup {Null}] /\ side \in [Nodes -> Sides]
      /\ root \in Nodes \cup {Null} /\ Nodes \subseteq NodeIds /\ numNodes \in Nat
  BY DEF TreeInv, TypeTree
<1>4. /\ span' \in [rest -> Proper]
      /\ \A n \in rest : span'[n] = IF n = d THEN span[e] ELSE span[n]
  BY <1>2, <1>3 DEF Restrict
<1>5. Nodes' = rest
  BY <1>4 DEF Nodes
<1>6. /\ child' \in [rest -> [Sides -> Nodes \cup {Null}]]
      /\ \A n \in rest, t \in Sides :
           child'[n][t] = IF n = parent[e] /\ t = side[e] THEN b ELSE child[n][t]
  <2>1. child' = Restrict(ChildWith(e, b), rest)
    BY DEF Unlink
  <2>2. /\ ChildWith(e, b) \in [Nodes -> [Sides -> Nodes \cup {Null}]]
        /\ \A n \in Nodes, t \in Sides :
             ChildWith(e, b)[n][t] = IF n = parent[e] /\ t = side[e] THEN b ELSE child[n][t]
    BY <1>1, <1>2, <1>3 DEF ChildWith
  <2> QED BY <2>1, <2>2 DEF Restrict
<1>7. /\ parent' \in [rest -> Nodes \cup {Null}]
      /\ \A n \in rest : parent'[n] = IF n = b THEN parent[e] ELSE parent[n]
  BY <1>1, <1>2, <1>3 DEF Unlink, Put, Restrict
<1>8. /\ side' \in [rest -> Sides]
      /\ \A n \in rest : side'[n] = IF n = b THEN side[e] ELSE side[n]
  BY <1>1, <1>2, <1>3 DEF Unlink, Put, Restrict
<1>9. root' = IF parent[e] = Null THEN b ELSE root
  BY DEF Unlink, RootWith
<1>10. Unlinks(Nodes, root, child, parent, side, e, b, root', child', parent', side')
  BY <1>6, <1>7, <1>8, <1>9 DEF Unlinks
<1>11. Struct(rest, root', child', parent', side', w) /\ Shrinks(Nodes, child, SubOf, e, child')
  BY <1>1, <1>10, UnlinkedStruct
<1>12. Inherits(Nodes, child, span, SubOf, e, d, span')
  <2>1. ASSUME d # e
        PROVE  /\ child[d]["right"] # Null /\ e \in SubOf[child[d]["right"]]
               /\ \A m \in SubOf[child[d]["right"]] : m = e \/ span[e].bound <= span[m].base
    <3>1. child[d]["right"] # Null /\ child[d]["right"] \in Nodes
      BY <2>1, TreeFacts, OtherSide
    <3> QED BY <2>1, <3>1 DEF SubOf
  <2> QED BY <1>4, <2>1 DEF Inherits
<1>13. Sorted(rest, child', span', w)
  BY <1>1, <1>3, <1>11, <1>12, UnlinkedSorted
<1>14. IsFiniteSet(rest) /\ Cardinality(rest) = numNodes' /\ numNodes' \in Nat
  <2>1. IsFiniteSet(Nodes) /\ Cardinality(Nodes) = numNodes
    BY DEF TreeInv
  <2>2. IsFiniteSet(rest) /\ Cardinality(rest) = Cardinality(Nodes) - 1
    BY <2>1, FS_RemoveElement
  <2> QED BY <2>1, <2>2, FS_CardinalityType DEF Unlink
<1>15. \A n \in rest, t \in Sides : child'[n][t] \in rest \cup {Null}
  BY <1>6, <1>11 DEF Struct
<1>16. \A n \in rest : parent'[n] \in rest \cup {Null}
  BY <1>7, <1>11 DEF Struct
<1>17. root' \in rest \cup {Null}
  BY <1>11 DEF Struct
<1>18. TypeTree'
  <2>1. child' \in [rest -> [Sides -> rest \cup {Null}]]
    BY <1>6, <1>15
  <2>2. parent' \in [rest -> rest \cup {Null}]
    BY <1>7, <1>16
  <2> QED BY <1>3, <1>4, <1>5, <1>8, <1>14, <1>17, <2>1, <2>2 DEF TypeTree
<1>19. SubOf' = w
  <2> HIDE DEF w
  <2> QED BY <1>5, <1>11, <1>14, <1>18, SubtreesNext
<1>20. TreeInv'
  BY <1>5, <1>11, <1>13, <1>14, <1>18, <1>19 DEF TreeInv
<1>21. ASSUME NEW n \in rest PROVE Below(n)' = Below(n) \ {e}
  <2>1. SubOf'[n] = Below(n)'
    BY <1>5 DEF SubOf
  <2> QED BY <1>19, <2>1 DEF SubOf, Unlinked
<1>22. ASSUME NEW n \in rest, NEW t \in Sides
       PROVE  Below(child[n][t])' \subseteq Below(child[n][t]) \ {e}
  <2>1. CASE child'[n][t] = Null
    BY <2>1 DEF Below
  <2>2. CASE child'[n][t] # Null
    <3>1. /\ child'[n][t] \in rest /\ child[n][t] \in Nodes
          /\ SubOf[child'[n][t]] \ {e} \subseteq SubOf[child[n][t]]
      BY <1>11, <2>2, TreeFacts DEF Shrinks
    <3>2. Below(child[n][t])' = SubOf'[child'[n][t]]
      BY <1>5, <3>1 DEF SubOf
    <3>3. SubOf'[child'[n][t]] = SubOf[child'[n][t]] \ {e}
      BY <1>19, <3>1 DEF Unlinked
    <3>4. SubOf[child[n][t]] = Below(child[n][t])
      BY <3>1 DEF SubOf
    <3> QED BY <3>1, <3>2, <3>3, <3>4
  <2> QED BY <2>1, <2>2
<1> QED BY <1>4, <1>5, <1>6, <1>20, <1>21, <1>22
LEMMA LinkStep ==
  ASSUME TreeInv, NEW k \in NodeIds \ Nodes, NEW i \in Proper, par \in Nodes \cup {Null}, dir \in Sides,
         span' = [m \in Nodes \cup {k} |-> IF m = k THEN i ELSE span[m]],
         parent' = [m \in Nodes \cup {k} |-> IF m = k THEN par ELSE parent[m]],
         side' = [m \in Nodes \cup {k} |-> IF m = k THEN dir ELSE side[m]],
         child' = [m \in Nodes \cup {k} |->
                     IF m = k THEN [s \in Sides |-> Null]
                     ELSE IF m = par THEN [child[m] EXCEPT ![dir] = k] ELSE child[m]],
         root' = IF par = Null THEN k ELSE root, numNodes' = numNodes + 1,
         par = Null => root = Null,
         par # Null => child[par][dir] = Null /\ Beside(i, span[par], dir),
         \A m \in Nodes, s \in Sides : par \in Below(child[m][s]) => Beside(i, span[m], s)
  PROVE  TreeInv' /\ Nodes' = Nodes \cup {k}
<1> DEFINE all == Nodes \cup {k}
           w == Leafed(SubOf, k, par)
<1>1. /\ Null \notin Nodes /\ Struct(Nodes, root, child, parent, side, SubOf)
      /\ Sorted(Nodes, child, span, SubOf) /\ k # Null /\ k \notin Nodes
  BY NoNull, TreeAssumption DEF TreeInv
<1>2. /\ span \in [Nodes -> Proper] /\ child \in [Nodes -> [Sides -> Nodes \cup {Null}]]
      /\ parent \in [Nodes -> Nodes \cup {Null}] /\ side \in [Nodes -> Sides]
      /\ root \in Nodes \cup {Null} /\ Nodes \subseteq NodeIds /\ numNodes \in Nat
  BY DEF TreeInv, TypeTree
<1>3. Nodes' = all
  BY DEF Nodes
<1>4. /\ child' \in [all -> [Sides -> all \cup {Null}]]
      /\ \A n \in all, t \in Sides :
           child'[n][t] = IF n = k THEN Null ELSE IF n = par /\ t = dir THEN k ELSE child[n][t]
  <2>1. ASSUME NEW n \in all
        PROVE  /\ child'[n] \in [Sides -> all \cup {Null}]
               /\ \A t \in Sides : child'[n][t] = IF n = k THEN Null
                                                  ELSE IF n = par /\ t = dir THEN k ELSE child[n][t]
    <3>1. CASE n = k
      BY <3>1
    <3>2. CASE n # k
      <4>1. child[n] \in [Sides -> Nodes \cup {Null}]
        BY <1>2, <3>2
      <4>2. child'[n] = IF n = par THEN [child[n] EXCEPT ![dir] = k] ELSE child[n]
        BY <3>2
      <4> QED BY <3>2, <4>1, <4>2
    <3> QED BY <3>1, <3>2
  <2> QED BY <2>1
<1>5. /\ parent' \in [all -> all \cup {Null}] /\ side' \in [all -> Sides] /\ span' \in [all -> Proper]
      /\ \A n \in all : parent'[n] = IF n = k THEN par ELSE parent[n]
      /\ \A n \in all : side'[n] = IF n = k THEN dir ELSE side[n]
      /\ \A n \in all : span'[n] = IF n = k THEN i ELSE span[n]
  BY <1>2
<1>6. root' \in all \cup {Null} /\ all \subseteq NodeIds
  BY <1>2
<1>7. IsFiniteSet(all) /\ Cardinality(all) = numNodes' /\ numNodes' \in Nat
  <2>1. IsFiniteSet(Nodes) /\ Cardinality(Nodes) = numNodes
    BY DEF TreeInv
  <2>2. IsFiniteSet(all) /\ Cardinality(all) = Cardinality(Nodes) + 1
    BY <1>1, <2>1, FS_AddElement
  <2> QED BY <1>2, <2>1, <2>2
<1>8. TypeTree'
  BY <1>3, <1>4, <1>5, <1>6, <1>7 DEF TypeTree
<1>9. Links(Nodes, root, child, parent, side, k, par, dir, root', child', parent', side')
  BY <1>4, <1>5 DEF Links
<1>10. Belongs(Nodes, child, span, SubOf, par, dir, i)
  <2> SUFFICES ASSUME NEW n \in Nodes, NEW t \in Sides, child[n][t] # Null, par \in SubOf[child[n][t]]
               PROVE  Beside(i, span[n], t)
    BY DEF Belongs
  <2>1. child[n][t] \in Nodes
    BY TreeFacts
  <2> QED BY <2>1 DEF SubOf
<1>11. Struct(all, root', child', parent', side', w)
  BY <1>1, <1>9, LinkedStruct
<1>12. Sorted(all, child', span', w)
  BY <1>1, <1>5, <1>9, <1>10, LinkedSorted
<1>13. SubOf' = w
  <2> HIDE DEF w
  <2> QED BY <1>3, <1>7, <1>8, <1>11, SubtreesNext
<1> QED BY <1>3, <1>7, <1>8, <1>11, <1>12, <1>13 DEF TreeInv

LEMMA OverwriteStep ==
  ASSUME TreeInv, NEW k \in Nodes, NEW i \in Proper, Overlaps(span[k], i),
         \A n \in Nodes \ {k} : ~Overlaps(span[n], i),
         span' = [span EXCEPT ![k] = i], UNCHANGED <<root, numNodes, child, parent, side>>
  PROVE  TreeInv' /\ Nodes' = Nodes
<1>1. /\ Struct(Nodes, root, child, parent, side, SubOf) /\ Sorted(Nodes, child, span, SubOf)
      /\ IsFiniteSet(Nodes) /\ Cardinality(Nodes) = numNodes
  BY DEF TreeInv
<1>2. /\ span \in [Nodes -> Proper] /\ child \in [Nodes -> [Sides -> Nodes \cup {Null}]]
      /\ parent \in [Nodes -> Nodes \cup {Null}] /\ side \in [Nodes -> Sides]
      /\ root \in Nodes \cup {Null} /\ Nodes \subseteq NodeIds /\ numNodes \in Nat
  BY DEF TreeInv, TypeTree
<1>3. span' \in [Nodes -> Proper] /\ Nodes' = Nodes
  BY <1>2 DEF Nodes
<1>4. Sorted(Nodes, child, span', SubOf)
  BY <1>1, <1>2, OverwrittenSorted
<1>5. TypeTree'
  BY <1>2, <1>3 DEF TypeTree
<1>6. SubOf' = SubOf
  BY <1>1, <1>3, <1>5, SubtreesNext
<1> QED BY <1>1, <1>3, <1>4, <1>5, <1>6 DEF TreeInv

LEMMA SameTree ==
  ASSUME TreeInv, UNCHANGED tree
  PROVE  /\ TreeInv' /\ Nodes' = Nodes
         /\ \A n \in Nodes \cup {Null} : Below(n)' = Below(n)
<1>1. /\ root' = root /\ child' = child /\ parent' = parent /\ side' = side /\ span' = span
      /\ numNodes' = numNodes /\ Nodes' = Nodes
  BY DEF tree, Nodes
<1>2. TypeTree' /\ IsFiniteSet(Nodes)
  BY <1>1 DEF TreeInv, TypeTree
<1>3. SubOf' = SubOf
  BY <1>1, <1>2, SubtreesNext DEF TreeInv
<1>4. TreeInv'
  BY <1>1, <1>2, <1>3 DEF TreeInv
<1>5. ASSUME NEW n \in Nodes \cup {Null} PROVE Below(n)' = Below(n)
  <2>1. CASE n \in Nodes
    BY <1>1, <1>3, <2>1 DEF SubOf
  <2>2. CASE n = Null
    BY <2>2 DEF Below
  <2> QED BY <2>1, <2>2
<1> QED BY <1>1, <1>4, <1>5
-----------------------------------------------------------------------------
(* The inductive invariant: the tree is valid, no two of its intervals      *)
(* overlap, and every loop knows where the nodes it still has to deal with  *)
(* are.                                                                     *)

Frame == [node : Nodes, at : Sides \cup {"enter", "done"}]

TypeLocal ==
  /\ pc \in Labels /\ call \in Behaviors \cup {"find", "remove", Null}
  /\ cur \in Nodes \cup {Null} /\ par \in Nodes \cup {Null} /\ dir \in Sides
  /\ stack \in Seq(Frame)
  /\ answer \in Proper \cup {Absent, Conflict}

IdleInv ==
  /\ pc = "idle" => stack = <<>>
  /\ pc \notin {"descend", "second"} => par = Null
  /\ pc # "idle" => answer # Conflict

(* The node that holds the value is below the current one. *)
FindInv == pc = "find" =>
  /\ call \in {"find", "remove"} /\ arg \in Addresses /\ stack = <<>>
  /\ \A m \in Nodes : Holds(m, arg) => m \in Below(cur)

Hot(n) == Overlaps(span[n], arg)

(* So is every node that overlaps the new interval, and below parent, on    *)
(* the side that left says, is where it belongs.                            *)
DescendInv == pc = "descend" =>
  /\ call \in Behaviors /\ arg \in Proper /\ stack = <<>>
  /\ \A m \in Nodes : Hot(m) => m \in Below(cur)
  /\ par = Null => cur = root
  /\ par # Null => child[par][dir] = cur /\ Beside(arg, span[par], dir)
  /\ \A m \in Nodes, s \in Sides : par \in Below(child[m][s]) => Beside(arg, span[m], s)

(* A double rotation has left x below the node that its second half rotates. *)
SplayInv ==
  /\ pc \in {"splay", "second"} => cur \in Nodes /\ stack = <<>>
  /\ pc = "second" => par # Null /\ par = parent[cur] /\ dir = side[cur]

Clean(n, s) == \A m \in Below(child[n][s]) : ~Hot(m)

(* The child that a suspended activation is visiting *)
Inner(f) == child[f.node][IF f.at = "right" THEN "left" ELSE "right"]

Visiting == pc \in {"clear", "remove", "min"}

(* The activations go down from the insertion's node, below which all       *)
(* overlapping nodes are; what an activation has done is clean.             *)
Frames(st) ==
  /\ st # <<>> /\ st[1].at # "enter" /\ Hot(st[1].node)
  /\ \A m \in Nodes : Hot(m) => m \in Below(st[1].node)
  /\ \A i \in 1..Len(st)-1 : st[i].at \in {"right", "done"} /\ Inner(st[i]) = st[i+1].node
  /\ \A i, j \in 1..Len(st) : i < j => st[j].node \in Below(st[i+1].node)
  /\ \A i \in 1..Len(st) : st[i].at = "done" => Clean(st[i].node, "left")
  /\ st[Len(st)].at = "right" => Clean(st[Len(st)].node, "left")
  /\ st[Len(st)].at = "done" => Clean(st[Len(st)].node, "right")

StackInv == Visiting /\ call # "remove" =>
  call \in {"IB_EXTEND", "IB_REPLACE"} /\ arg \in Proper /\ Frames(stack)

(* A node is only removed when it is the one the call looks for, or when    *)
(* the subtrees below it are clean.                                         *)
DoomedInv ==
  /\ pc = "clear" => call # "remove"
  /\ pc \in {"remove", "min"} =>
       /\ call = "remove" => Len(stack) = 1 /\ arg \in Addresses /\ Holds(Doomed, arg)
       /\ call # "remove" => Len(stack) > 1 /\ Hot(Doomed) /\ \A s \in Sides : Clean(Doomed, s)

(* findMin has the least node of the right subtree below it. *)
MinInv == pc = "min" =>
  /\ TwoChildren /\ cur \in Below(child[Doomed]["right"])
  /\ \A m \in Below(child[Doomed]["right"]) : m \in Below(cur) \/ span[cur].bound <= span[m].base

CallInv ==
  TypeLocal /\ IdleInv /\ FindInv /\ DescendInv /\ SplayInv /\ StackInv /\ DoomedInv /\ MinInv

IInv == TreeInv /\ Apart /\ CallInv
LEMMA OneLoop ==
  /\ pc' # "find" => FindInv'
  /\ pc' # "descend" => DescendInv'
  /\ pc' \notin {"splay", "second"} => SplayInv'
  /\ pc' \notin {"clear", "remove", "min"} => StackInv' /\ DoomedInv'
  /\ pc' # "min" => MinInv'
  BY DEF FindInv, DescendInv, SplayInv, StackInv, DoomedInv, MinInv, Visiting

(* Steps that only move through the tree *)
LEMMA QuietStep ==
  ASSUME IInv, UNCHANGED tree
  PROVE  /\ TreeInv' /\ Apart' /\ Nodes' = Nodes
         /\ \A n \in Nodes \cup {Null} : Below(n)' = Below(n)
         /\ root' = root /\ span' = span /\ child' = child /\ parent' = parent /\ side' = side
<1>1. /\ TreeInv' /\ Nodes' = Nodes /\ \A n \in Nodes \cup {Null} : Below(n)' = Below(n)
  BY SameTree DEF IInv
<1>2. root' = root /\ span' = span /\ child' = child /\ parent' = parent /\ side' = side
  BY DEF tree
<1> QED BY <1>1, <1>2 DEF IInv, Apart

LEMMA FramesQuiet ==
  ASSUME IInv, UNCHANGED tree, arg' = arg
  PROVE  /\ Frame' = Frame
         /\ \A m \in Nodes : Hot(m)' <=> Hot(m)
         /\ \A m \in Nodes, s \in Sides : Clean(m, s)' <=> Clean(m, s)
         /\ \A st \in Seq(Frame) : st # <<>> => (Frames(st)' <=> Frames(st))
<1>1. /\ TreeInv' /\ Apart' /\ Nodes' = Nodes /\ span' = span /\ child' = child
      /\ \A n \in Nodes \cup {Null} : Below(n)' = Below(n)
  BY QuietStep
<1>2. \A m \in Nodes : Hot(m)' <=> Hot(m)
  BY <1>1 DEF Hot
<1>3. \A m \in Nodes, s \in Sides : child[m][s] \in Nodes \cup {Null}
  BY DEF IInv, TreeInv, TypeTree
<1>4. \A m \in Nodes, s \in Sides : Below(child[m][s])' = Below(child[m][s])
  BY <1>1, <1>3
<1>5. \A m \in Nodes, s \in Sides : Below(child[m][s]) \subseteq Nodes
  BY TreeFacts DEF IInv
<1>6. \A m \in Nodes, s \in Sides : Clean(m, s)' <=> Clean(m, s)
  BY <1>2, <1>4, <1>5 DEF Clean
<1>7. Frame' = Frame
  BY <1>1 DEF Frame
<1>8. ASSUME NEW st \in Seq(Frame), st # <<>> PROVE Frames(st)' <=> Frames(st)
  <2>1. /\ Len(st) \in Nat /\ Len(st) >= 1
        /\ \A i \in 1..Len(st) : st[i] \in Frame /\ st[i].node \in Nodes
    <3>1. Len(st) \in Nat /\ Len(st) >= 1 /\ \A i \in 1..Len(st) : st[i] \in Frame
      BY <1>8
    <3>2. \A f \in Frame : f.node \in Nodes
      BY DEF Frame
    <3> QED BY <3>1, <3>2
  <2>2. (Hot(st[1].node))' <=> Hot(st[1].node)
    BY <1>2, <2>1
  <2>3. \A m \in Nodes : (Hot(m)' => m \in Below(st[1].node)') <=> (Hot(m) => m \in Below(st[1].node))
    BY <1>1, <1>2, <2>1
  <2>4. \A i \in 1..Len(st)-1 : Inner(st[i])' = Inner(st[i])
    BY <1>1 DEF Inner
  <2>5. \A i, j \in 1..Len(st) : i < j => Below(st[i+1].node)' = Below(st[i+1].node)
    BY <1>1, <2>1
  <2>6. \A i \in 1..Len(st), s \in Sides : Clean(st[i].node, s)' <=> Clean(st[i].node, s)
    BY <1>6, <2>1
  <2> QED BY <1>1, <2>1, <2>2, <2>3, <2>4, <2>5, <2>6, OtherSide DEF Frames
<1> QED BY <1>2, <1>6, <1>7, <1>8

LEMMA ReturnStep ==
  ASSUME Return, answer' \in Proper \cup {Absent, Conflict}
  PROVE  CallInv'
<1>1. pc' = "idle" /\ call' = Null /\ cur' = Null /\ par' = Null /\ dir' = "right" /\ stack' = <<>>
  BY DEF Return
<1>2. TypeLocal'
  BY <1>1 DEF TypeLocal, Labels, Sides
<1>3. IdleInv'
  BY <1>1 DEF IdleInv
<1> QED BY <1>1, <1>2, <1>3, OneLoop DEF CallInv

LEMMA StartStep ==
  ASSUME IInv, NEW val,
         \/ val \in Addresses /\ (Find(val) \/ Remove(val))
         \/ val \in Proper /\ \E ib \in Behaviors : Insert(val, ib)
  PROVE  IInv'
<1>1. /\ pc = "idle" /\ Running /\ cur' = root /\ arg' = val
      /\ UNCHANGED <<tree, par, dir, stack, answer>>
      /\ \/ val \in Addresses /\ pc' = "find" /\ call' \in {"find", "remove"}
         \/ val \in Proper /\ pc' = "descend" /\ call' \in Behaviors
  BY DEF Find, Remove, Insert, Start
<1>2. TypeLocal /\ TreeInv /\ stack = <<>> /\ par = Null
  BY <1>1 DEF IInv, CallInv, IdleInv
<1>3. /\ TreeInv' /\ Apart' /\ Nodes' = Nodes /\ root' = root
      /\ \A n \in Nodes \cup {Null} : Below(n)' = Below(n)
  BY <1>1, QuietStep
<1>4. root \in Nodes \cup {Null} /\ Below(root) = Nodes
  BY <1>2, TreeFacts DEF TreeInv, TypeTree
<1>5. Below(cur)' = Nodes'
  BY <1>1, <1>3, <1>4
<1>6. TypeLocal'
  BY <1>1, <1>2, <1>3, <1>4 DEF TypeLocal, Labels
<1>7. IdleInv'
  BY <1>1, <1>2 DEF IdleInv, Running
<1>8. FindInv'
  BY <1>1, <1>2, <1>5 DEF FindInv
<1>9. DescendInv'
  <2> SUFFICES ASSUME pc' = "descend" PROVE DescendInv'
    BY DEF DescendInv
  <2>1. \A m \in Nodes', s \in Sides : Null \notin Below(child[m][s])'
    <3>1. TreeInv' /\ Null \notin Nodes'
      BY <1>3, NoNullNext DEF TreeInv
    <3>2. \A m \in Nodes', s \in Sides : Below(child[m][s])' \subseteq Nodes'
      BY <3>1 DEF Below
    <3> QED BY <3>1, <3>2
  <2> QED BY <1>1, <1>2, <1>3, <1>5, <2>1 DEF DescendInv
<1> QED BY <1>1, <1>3, <1>6, <1>7, <1>8, <1>9, OneLoop DEF IInv, CallInv

LEMMA FindStepInv ==
  ASSUME IInv, FindStep
  PROVE  IInv'
<1>1. /\ pc = "find" /\ cur # Null /\ ~Holds(cur, arg)
      /\ cur' = child[cur][IF arg < span[cur].base THEN "left" ELSE "right"]
      /\ UNCHANGED <<tree, pc, call, arg, par, dir, stack, answer>>
  BY DEF FindStep
<1>2. /\ TreeInv /\ TypeLocal /\ IdleInv /\ FindInv
      /\ cur \in Nodes /\ call \in {"find", "remove"} /\ arg \in Addresses /\ stack = <<>>
      /\ \A m \in Nodes : Holds(m, arg) => m \in Below(cur)
  BY <1>1 DEF IInv, CallInv, TypeLocal, FindInv
<1>3. /\ TreeInv' /\ Apart' /\ Nodes' = Nodes /\ span' = span
      /\ \A n \in Nodes \cup {Null} : Below(n)' = Below(n)
  BY <1>1, QuietStep
<1>4. /\ span \in [Nodes -> Proper] /\ child \in [Nodes -> [Sides -> Nodes \cup {Null}]]
  BY <1>2 DEF TreeInv, TypeTree
<1> DEFINE t == IF arg < span[cur].base THEN "left" ELSE "right"
<1>5. t \in Sides /\ cur' = child[cur][t] /\ cur' \in Nodes \cup {Null}
  BY <1>1, <1>2, <1>4 DEF Sides
<1>6. ASSUME NEW m \in Nodes, Holds(m, arg) PROVE m \in Below(child[cur][t])
  <2>1. m \in Below(cur) /\ m # cur
    BY <1>1, <1>2, <1>6
  <2>2. PICK s \in Sides : m \in Below(child[cur][s])
    BY <1>2, <2>1, TreeFacts
  <2>3. Beside(span[m], span[cur], s)
    BY <1>2, <2>2, TreeFacts
  <2>4. span[m] \in Proper /\ span[cur] \in Proper /\ arg \in Nat
    BY <1>2, <1>4, TreeAssumption
  <2>5. s = t
    BY <1>1, <1>6, <2>3, <2>4, ProperBounds DEF Beside, Holds, Sides
  <2> QED BY <2>2, <2>5
<1>7. FindInv'
  <2>1. Below(cur)' = Below(child[cur][t])
    BY <1>3, <1>5
  <2> QED BY <1>1, <1>2, <1>3, <1>6, <2>1 DEF FindInv, Holds
<1>8. TypeLocal'
  BY <1>1, <1>2, <1>3, <1>5 DEF TypeLocal
<1>9. IdleInv'
  BY <1>1, <1>2 DEF IdleInv
<1> QED BY <1>1, <1>3, <1>7, <1>8, <1>9, OneLoop DEF IInv, CallInv

LEMMA NotFoundInv ==
  ASSUME IInv, NotFound
  PROVE  IInv'
<1>1. CallInv'
  BY ReturnStep DEF NotFound
<1>2. TreeInv' /\ Apart'
  BY QuietStep DEF NotFound
<1> QED BY <1>1, <1>2 DEF IInv

LEMMA FoundInv ==
  ASSUME IInv, Found
  PROVE  IInv'
<1>1. pc = "find" /\ cur # Null /\ Holds(cur, arg) /\ UNCHANGED <<tree, call, arg, par, dir>>
  BY DEF Found
<1>2. /\ TreeInv /\ TypeLocal /\ IdleInv /\ cur \in Nodes /\ arg \in Addresses /\ stack = <<>>
      /\ answer # Conflict /\ par = Null
  BY <1>1 DEF IInv, CallInv, TypeLocal, FindInv, IdleInv
<1>3. /\ TreeInv' /\ Apart' /\ Nodes' = Nodes /\ span' = span
  BY <1>1, QuietStep
<1>4. CASE call = "find" /\ pc' = "splay" /\ answer' = span[cur] /\ UNCHANGED <<cur, stack>>
  <2>1. span[cur] \in Proper
    BY <1>2 DEF TreeInv, TypeTree
  <2>2. TypeLocal'
    BY <1>1, <1>2, <1>3, <1>4, <2>1 DEF TypeLocal, Labels
  <2>3. IdleInv'
    BY <1>1, <1>2, <1>4, <2>1, TreeAssumption DEF IdleInv
  <2>4. SplayInv'
    BY <1>2, <1>3, <1>4 DEF SplayInv
  <2> QED BY <1>3, <1>4, <2>2, <2>3, <2>4, OneLoop DEF IInv, CallInv
<1>5. CASE /\ call = "remove" /\ pc' = "remove" /\ stack' = <<[node |-> cur, at |-> "done"]>>
           /\ cur' = Null /\ UNCHANGED answer
  <2>1. TypeLocal'
    <3>1. [node |-> cur, at |-> "done"] \in Frame'
      BY <1>2, <1>3 DEF Frame
    <3>2. stack' \in Seq(Frame')
      BY <1>5, <3>1
    <3> QED BY <1>1, <1>2, <1>3, <1>5, <3>2 DEF TypeLocal, Labels
  <2>2. IdleInv'
    BY <1>1, <1>2, <1>5 DEF IdleInv
  <2>3. Len(stack') = 1 /\ Top' = [node |-> cur, at |-> "done"] /\ Doomed' = cur
    BY <1>5 DEF Top, Doomed
  <2>4. Holds(Doomed, arg)'
    BY <1>1, <1>3, <2>3 DEF Holds
  <2>5. DoomedInv'
    BY <1>1, <1>2, <1>5, <2>3, <2>4 DEF DoomedInv
  <2>6. StackInv'
    BY <1>1, <1>5 DEF StackInv
  <2> QED BY <1>3, <1>5, <2>1, <2>2, <2>5, <2>6, OneLoop DEF IInv, CallInv
<1> QED BY <1>4, <1>5 DEF Found
LEMMA RotateInv ==
  ASSUME IInv, NEW p \in Nodes, NEW s \in Sides, child[p][s] # Null, Rotate(p, s)
  PROVE  /\ TreeInv' /\ Apart' /\ Nodes' = Nodes
         /\ Rotates(Nodes, root, child, parent, side, p, s, root', child', parent', side')
  BY RotateStep DEF IInv, Apart

(* Where the nodes of a rotation of splay are *)
LEMMA SplayPlaces ==
  ASSUME IInv, pc \in {"splay", "second"}, parent[cur] # Null
  PROVE  /\ cur \in Nodes /\ parent[cur] \in Nodes /\ side[cur] \in Sides
         /\ child[parent[cur]][side[cur]] = cur /\ cur # parent[cur]
         /\ cur # child[cur][Other(side[cur])]
<1>1. cur \in Nodes /\ TreeInv
  BY DEF IInv, CallInv, SplayInv
<1>2. side[cur] \in Sides
  BY <1>1 DEF TreeInv, TypeTree
<1>3. cur # root
  BY <1>1, TreeFacts
<1>4. parent[cur] \in Nodes /\ child[parent[cur]][side[cur]] = cur
  BY <1>1, <1>3, TreeFacts
<1>5. cur # Null
  BY <1>1, TreeFacts
<1> QED BY <1>1, <1>2, <1>4, <1>5, TreeFacts, OtherSide

LEMMA SplayStepInv ==
  ASSUME IInv, SplayStep
  PROVE  IInv'
<1> DEFINE p == parent[cur]
           g == parent[p]
<1>1. pc = "splay" /\ p # Null /\ UNCHANGED <<call, arg, cur, stack, answer>>
  BY DEF SplayStep
<1>2. TreeInv /\ TypeLocal /\ IdleInv /\ stack = <<>> /\ answer # Conflict
  BY <1>1 DEF IInv, CallInv, SplayInv, IdleInv
<1>3. /\ cur \in Nodes /\ p \in Nodes /\ side[cur] \in Sides /\ child[p][side[cur]] = cur
      /\ cur # p /\ cur # child[cur][Other(side[cur])] /\ cur # Null
  BY <1>1, <1>2, SplayPlaces, TreeFacts
<1>4. side[p] \in Sides /\ g \in Nodes \cup {Null}
  BY <1>2, <1>3 DEF TreeInv, TypeTree
<1>5. IdleInv'
  BY <1>1, <1>2 DEF IdleInv, SplayStep
<1> HIDE DEF p, g
<1>6. CASE Zig /\ Rotate(p, side[cur]) /\ UNCHANGED <<pc, par, dir>>
  <2>1. TreeInv' /\ Apart' /\ Nodes' = Nodes
    BY <1>3, <1>6, RotateInv
  <2>2. TypeLocal'
    BY <1>1, <1>2, <1>6, <2>1 DEF TypeLocal
  <2>3. SplayInv'
    BY <1>1, <1>2, <1>3, <1>6, <2>1 DEF SplayInv
  <2> QED BY <1>1, <1>5, <1>6, <2>1, <2>2, <2>3, OneLoop DEF IInv, CallInv
<1>7. CASE /\ ~Zig /\ ZigZig /\ Rotate(g, side[cur])
           /\ pc' = "second" /\ par' = p /\ dir' = side[cur]
  <2>1. g # Null /\ side[cur] = side[p] /\ p # root
    <3>1. g # Null /\ side[cur] = side[p]
      BY <1>7 DEF Zig, ZigZig, p, g
    <3> QED BY <1>2, <1>3, <3>1, TreeFacts DEF g
  <2>2. g \in Nodes /\ child[g][side[cur]] = p
    BY <1>2, <1>3, <2>1, TreeFacts DEF g
  <2>3. child[g][side[cur]] # Null
    BY <1>2, <1>3, <2>2, TreeFacts
  <2>4. /\ TreeInv' /\ Apart' /\ Nodes' = Nodes
        /\ Rotates(Nodes, root, child, parent, side, g, side[cur], root', child', parent', side')
    BY <1>3, <1>7, <2>2, <2>3, RotateInv
  <2>5. cur # g
    <3>1. cur \in Below(p) /\ g \notin Below(p)
      <4>1. cur \in Below(cur) /\ Below(cur) \subseteq Below(p)
        BY <1>2, <1>3, TreeFacts
      <4>2. g \notin Below(p)
        BY <1>2, <1>3, <2>2, TreeFacts
      <4> QED BY <4>1, <4>2
    <3> QED BY <3>1
  <2>6. cur # child[p][Other(side[cur])]
    BY <1>2, <1>3, TreeFacts, OtherSide
  <2>7. parent'[cur] = p /\ side'[cur] = side[cur]
    BY <1>3, <2>2, <2>4, <2>5, <2>6 DEF Rotates, p
  <2>8. TypeLocal'
    BY <1>1, <1>2, <1>3, <1>7, <2>4 DEF TypeLocal, Labels
  <2>9. SplayInv'
    BY <1>1, <1>2, <1>3, <1>7, <2>4, <2>7, TreeFacts DEF SplayInv
  <2> QED BY <1>5, <1>7, <2>4, <2>8, <2>9, OneLoop DEF IInv, CallInv
<1>8. CASE /\ ~Zig /\ Rotate(p, side[cur])
           /\ pc' = "second" /\ par' = g /\ dir' = side[p]
  <2>1. /\ TreeInv' /\ Apart' /\ Nodes' = Nodes
        /\ Rotates(Nodes, root, child, parent, side, p, side[cur], root', child', parent', side')
    BY <1>3, <1>8, RotateInv
  <2>2. parent'[cur] = g /\ side'[cur] = side[p]
    BY <1>3, <2>1 DEF Rotates, g
  <2>3. g # Null
    BY <1>8 DEF Zig, p, g
  <2>4. TypeLocal'
    BY <1>1, <1>2, <1>4, <1>8, <2>1 DEF TypeLocal, Labels
  <2>5. SplayInv'
    BY <1>1, <1>2, <1>3, <1>8, <2>1, <2>2, <2>3 DEF SplayInv
  <2> QED BY <1>5, <1>8, <2>1, <2>4, <2>5, OneLoop DEF IInv, CallInv
<1> QED BY <1>6, <1>7, <1>8 DEF SplayStep, p, g

LEMMA SecondRotationInv ==
  ASSUME IInv, SecondRotation
  PROVE  IInv'
<1>1. /\ pc = "second" /\ Rotate(par, dir) /\ pc' = "splay" /\ par' = Null /\ dir' = "right"
      /\ UNCHANGED <<call, arg, cur, stack, answer>>
  BY DEF SecondRotation
<1>2. /\ TypeLocal /\ IdleInv /\ cur \in Nodes /\ stack = <<>> /\ answer # Conflict /\ TreeInv
      /\ par # Null /\ par = parent[cur] /\ dir = side[cur]
  BY <1>1 DEF IInv, CallInv, SplayInv, IdleInv
<1>3. par \in Nodes /\ dir \in Sides /\ child[par][dir] = cur /\ cur # Null
  BY <1>1, <1>2, SplayPlaces, TreeFacts
<1>4. TreeInv' /\ Apart' /\ Nodes' = Nodes
  BY <1>1, <1>2, <1>3, RotateInv
<1>5. TypeLocal'
  BY <1>1, <1>2, <1>4 DEF TypeLocal, Labels, Sides
<1>6. IdleInv' /\ SplayInv'
  BY <1>1, <1>2, <1>4 DEF IdleInv, SplayInv
<1> QED BY <1>1, <1>4, <1>5, <1>6, OneLoop DEF IInv, CallInv

LEMMA SplayedInv ==
  ASSUME IInv, Splayed
  PROVE  IInv'
<1>1. CallInv'
  BY ReturnStep DEF Splayed, IInv, CallInv, TypeLocal
<1>2. TreeInv' /\ Apart'
  BY QuietStep DEF Splayed
<1> QED BY <1>1, <1>2 DEF IInv
LEMMA DescendStepInv ==
  ASSUME IInv, DescendStep
  PROVE  IInv'
<1>1. /\ pc = "descend" /\ cur # Null /\ par' = cur /\ cur' = child[cur][dir']
      /\ \/ arg.bound <= span[cur].base /\ dir' = "left"
         \/ arg.base >= span[cur].bound /\ dir' = "right"
      /\ UNCHANGED <<tree, pc, call, arg, stack, answer>>
  BY DEF DescendStep
<1>2. /\ TreeInv /\ TypeLocal /\ IdleInv /\ cur \in Nodes /\ answer # Conflict
      /\ call \in Behaviors /\ arg \in Proper /\ stack = <<>>
      /\ \A m \in Nodes : Hot(m) => m \in Below(cur)
      /\ par = Null => cur = root
      /\ par # Null => child[par][dir] = cur /\ Beside(arg, span[par], dir)
      /\ \A m \in Nodes, s \in Sides : par \in Below(child[m][s]) => Beside(arg, span[m], s)
  BY <1>1 DEF IInv, CallInv, TypeLocal, DescendInv, IdleInv
<1>3. /\ TreeInv' /\ Apart' /\ Nodes' = Nodes /\ span' = span /\ child' = child /\ root' = root
      /\ \A n \in Nodes \cup {Null} : Below(n)' = Below(n)
  BY <1>1, QuietStep
<1>4. /\ span \in [Nodes -> Proper] /\ child \in [Nodes -> [Sides -> Nodes \cup {Null}]]
  BY <1>2 DEF TreeInv, TypeTree
<1>5. /\ dir' \in Sides /\ cur' \in Nodes \cup {Null} /\ Beside(arg, span[cur], dir')
      /\ arg.base \in Nat /\ arg.bound \in Nat /\ span[cur].base \in Nat /\ span[cur].bound \in Nat
  <2>1. dir' \in Sides
    BY <1>1 DEF Sides
  <2>2. span[cur] \in Proper
    BY <1>2, <1>4
  <2> QED BY <1>1, <1>2, <1>4, <2>1, <2>2, ProperBounds DEF Beside
<1>6. ASSUME NEW m \in Nodes, Hot(m) PROVE m \in Below(child[cur][dir'])
  <2>1. span[m] \in Proper /\ span[cur] \in Proper
    BY <1>2, <1>4
  <2>2. m # cur
    BY <1>2, <1>5, <1>6, <2>1, BesideFacts DEF Hot
  <2>3. PICK s \in Sides : m \in Below(child[cur][s])
    BY <1>2, <1>6, <2>2, TreeFacts
  <2>4. Beside(span[m], span[cur], s)
    BY <1>2, <2>3, TreeFacts
  <2>5. s = dir'
    <3> SUFFICES ASSUME s # dir' PROVE FALSE
      OBVIOUS
    <3>1. s = Other(dir')
      BY <1>5, OtherSide
    <3>2. Beside(span[cur], span[m], dir')
      BY <1>5, <2>1, <2>4, <3>1, BesideFacts DEF Sides, Other
    <3>3. ~Overlaps(span[m], arg)
      BY <1>2, <1>5, <2>1, <3>2, BesideFacts
    <3> QED BY <1>6, <3>3 DEF Hot
  <2> QED BY <2>3, <2>5
<1>7. ASSUME NEW m \in Nodes, NEW s \in Sides, cur \in Below(child[m][s])
      PROVE  Beside(arg, span[m], s)
  <2>1. child[m][s] # Null /\ child[m][s] \in Nodes /\ parent[child[m][s]] = m /\ side[child[m][s]] = s
    <3>1. child[m][s] # Null
      BY <1>2, <1>7, TreeFacts
    <3> QED BY <1>2, <3>1, TreeFacts
  <2>2. par # Null
    <3> SUFFICES ASSUME par = Null PROVE FALSE
      OBVIOUS
    <3>1. parent[cur] = Null /\ Null \notin Nodes
      BY <1>2, TreeFacts
    <3>2. cur # child[m][s]
      BY <2>1, <3>1
    <3>3. parent[cur] \in Nodes
      BY <1>2, <1>7, <2>1, <3>2, TreeFacts
    <3> QED BY <3>1, <3>3
  <2>3. par \in Nodes /\ dir \in Sides /\ child[par][dir] = cur
    BY <1>2, <2>2 DEF TypeLocal
  <2>4. parent[cur] = par /\ side[cur] = dir
    BY <1>1, <1>2, <2>3, TreeFacts
  <2>5. CASE cur = child[m][s]
    BY <1>2, <2>1, <2>2, <2>4, <2>5
  <2>6. CASE cur # child[m][s]
    <3>1. par \in Below(child[m][s])
      BY <1>2, <1>7, <2>1, <2>4, <2>6, TreeFacts
    <3> QED BY <1>2, <3>1
  <2> QED BY <2>5, <2>6
<1>8. TypeLocal'
  BY <1>1, <1>2, <1>3, <1>5 DEF TypeLocal
<1>9. IdleInv'
  BY <1>1, <1>2 DEF IdleInv
<1>10. DescendInv'
  <2>1. Below(cur)' = Below(child[cur][dir'])
    BY <1>1, <1>3, <1>5
  <2>2. \A m \in Nodes' : Hot(m)' <=> Hot(m)
    BY <1>1, <1>3 DEF Hot
  <2>3. \A m \in Nodes', s \in Sides : Below(child[m][s])' = Below(child[m][s])
    BY <1>3, <1>4
  <2>4. par' # Null /\ (child[par][dir])' = cur' /\ Beside(arg, span[par], dir)'
    BY <1>1, <1>3, <1>5 DEF Beside
  <2>5. \A m \in Nodes', s \in Sides : par' \in Below(child[m][s])' => Beside(arg, span[m], s)'
    BY <1>1, <1>3, <1>7, <2>3 DEF Beside
  <2>6. \A m \in Nodes' : Hot(m)' => m \in Below(cur)'
    BY <1>3, <1>6, <2>1, <2>2
  <2>7. call' \in Behaviors /\ arg' \in Proper /\ stack' = <<>>
    BY <1>1, <1>2
  <2> QED BY <2>4, <2>5, <2>6, <2>7 DEF DescendInv
<1> QED BY <1>1, <1>3, <1>8, <1>9, <1>10, OneLoop DEF IInv, CallInv

LEMMA LinkInv ==
  ASSUME IInv, NEW n \in NodeIds \ Nodes, Link(n)
  PROVE  IInv'
<1>1. /\ pc = "descend" /\ cur = Null /\ UNCHANGED <<call, arg, stack>>
      /\ pc' = "splay" /\ cur' = n /\ par' = Null /\ dir' = "right" /\ answer' = arg
  BY DEF Link
<1>2. /\ TreeInv /\ TypeLocal /\ Apart
      /\ call \in Behaviors /\ arg \in Proper /\ stack = <<>>
      /\ \A m \in Nodes : Hot(m) => m \in Below(cur)
      /\ par = Null => cur = root
      /\ par # Null => child[par][dir] = cur /\ Beside(arg, span[par], dir)
      /\ \A m \in Nodes, s \in Sides : par \in Below(child[m][s]) => Beside(arg, span[m], s)
  BY <1>1 DEF IInv, CallInv, DescendInv
<1>3. par \in Nodes \cup {Null} /\ dir \in Sides
  BY <1>2 DEF TypeLocal
<1>4. TreeInv' /\ Nodes' = Nodes \cup {n}
  BY <1>1, <1>2, <1>3, LinkStep DEF Link
<1>5. Apart'
  <2>1. \A m \in Nodes : ~Overlaps(span[m], arg) /\ ~Overlaps(arg, span[m])
    BY <1>1, <1>2, TreeFacts DEF Hot, Overlaps
  <2>2. span' = [m \in Nodes \cup {n} |-> IF m = n THEN arg ELSE span[m]]
    BY DEF Link
  <2> SUFFICES ASSUME NEW i \in Nodes \cup {n}, NEW j \in Nodes \cup {n}, i # j
               PROVE  ~Overlaps(span'[i], span'[j])
    BY <1>4 DEF Apart, Overlaps
  <2> QED BY <1>2, <2>1, <2>2 DEF Apart
<1>6. TypeLocal'
  BY <1>1, <1>2, <1>4 DEF TypeLocal, Labels, Sides
<1>7. IdleInv' /\ SplayInv'
  BY <1>1, <1>2, <1>4, TreeAssumption DEF IdleInv, SplayInv
<1> QED BY <1>1, <1>4, <1>5, <1>6, <1>7, OneLoop DEF IInv, CallInv

LEMMA RefuseInv ==
  ASSUME IInv, Refuse
  PROVE  IInv'
<1>1. CallInv'
  BY ReturnStep DEF Refuse
<1>2. TreeInv' /\ Apart'
  BY QuietStep DEF Refuse
<1> QED BY <1>1, <1>2 DEF IInv

(* A node that overlaps the new interval and holds all of it is the only    *)
(* one that overlaps it.                                                    *)
LEMMA ContainedAlone ==
  ASSUME IInv, arg \in Proper, NEW n \in Nodes, Contained(n)
  PROVE  /\ Hot(n)
         /\ \A m \in Nodes \ {n} : ~Hot(m)
         /\ \A s \in Sides : Clean(n, s)
<1>1. span[n] \in Proper /\ \A m \in Nodes : span[m] \in Proper
  BY DEF IInv, TreeInv, TypeTree
<1>2. Hot(n)
  BY <1>1, ProperBounds DEF Hot, Overlaps, Contained
<1>3. ASSUME NEW m \in Nodes \ {n} PROVE ~Hot(m)
  <2>1. ~Overlaps(span[m], span[n])
    BY DEF IInv, Apart
  <2> QED BY <1>1, <2>1, ProperBounds DEF Hot, Overlaps, Contained
<1>4. ASSUME NEW s \in Sides PROVE Clean(n, s)
  BY <1>3, TreeFacts DEF Clean, IInv
<1> QED BY <1>2, <1>3, <1>4

LEMMA OverlappedInv ==
  ASSUME IInv, Overlapped
  PROVE  IInv'
<1> DEFINE f == [node |-> cur, at |-> IF Contained(cur) THEN "done" ELSE "left"]
<1>1. /\ pc = "descend" /\ cur # Null /\ Meets(cur) /\ call # "IB_ERROR"
      /\ stack' = <<f>> /\ UNCHANGED <<tree, call, arg>>
      /\ pc' = "clear" /\ cur' = Null /\ par' = Null /\ dir' = "right" /\ answer' = Result(cur)
  BY DEF Overlapped
<1>2. /\ TreeInv /\ TypeLocal /\ cur \in Nodes /\ call \in Behaviors /\ arg \in Proper
      /\ \A m \in Nodes : Hot(m) => m \in Below(cur)
  BY <1>1 DEF IInv, CallInv, TypeLocal, DescendInv
<1>3. /\ TreeInv' /\ Apart' /\ Nodes' = Nodes /\ span' = span /\ child' = child
      /\ \A n \in Nodes \cup {Null} : Below(n)' = Below(n)
  BY <1>1, QuietStep
<1>4. /\ span[cur] \in Proper /\ arg.base \in Nat /\ arg.bound \in Nat
      /\ span[cur].base \in Nat /\ span[cur].bound \in Nat
      /\ span[cur].base < span[cur].bound /\ arg.base < arg.bound
      /\ span[cur].base \in Addresses /\ span[cur].bound \in Addresses
      /\ arg.base \in Addresses /\ arg.bound \in Addresses
  <2>1. span[cur] \in Proper
    BY <1>2 DEF TreeInv, TypeTree
  <2> QED BY <1>2, <2>1, ProperBounds DEF Proper
<1>5. Hot(cur)
  BY <1>1, <1>4 DEF Hot, Overlaps, Meets
<1>6. Result(cur) \in Proper
  BY <1>2, <1>4 DEF Result, Proper, Lower, Upper
<1>7. f \in Frame
  BY <1>2 DEF Sides, Frame
<1> HIDE DEF f
<1>8. stack' \in Seq(Frame)
  BY <1>1, <1>7
<1>9. TypeLocal'
  BY <1>1, <1>2, <1>3, <1>6, <1>8 DEF TypeLocal, Labels, Sides, Frame
<1>10. IdleInv'
  BY <1>1, <1>6, TreeAssumption DEF IdleInv
<1>11. DoomedInv'
  BY <1>1, <1>2 DEF DoomedInv, Behaviors
<1>12. StackInv'
  <2>1. f.node = cur /\ f.at \in {"left", "done"} /\ (f.at = "done" => Contained(cur))
    BY DEF f
  <2>2. f.at = "done" => Clean(cur, "left") /\ Clean(cur, "right")
    BY <1>2, <2>1, ContainedAlone, OtherSide
  <2>3. Len(<<f>>) = 1 /\ <<f>>[1] = f /\ <<f>> # <<>> /\ \A i \in 1..1 : i = 1
    OBVIOUS
  <2>4. Frames(<<f>>)
    BY <1>2, <1>5, <2>1, <2>2, <2>3 DEF Frames
  <2>5. PICK st \in Seq(Frame) : st = <<f>>
    <3>1. <<f>> \in Seq(Frame)
      BY <1>7
    <3> QED BY <3>1
  <2>6. Frames(st)'
    BY <1>1, <2>3, <2>4, <2>5, FramesQuiet
  <2>7. Frames(stack)'
    <3>1. stack' = st
      BY <1>1, <2>5
    <3> QED BY <2>6, <3>1 DEF Frames
  <2>8. call' \in {"IB_EXTEND", "IB_REPLACE"} /\ arg' \in Proper
    BY <1>1, <1>2 DEF Behaviors
  <2> QED BY <2>7, <2>8 DEF StackInv
<1> QED BY <1>1, <1>3, <1>9, <1>10, <1>11, <1>12, OneLoop DEF IInv, CallInv
-----------------------------------------------------------------------------
(* Clearing                                                                 *)

LEMMA StackFacts ==
  ASSUME IInv, Visiting, call # "remove"
  PROVE  /\ call \in {"IB_EXTEND", "IB_REPLACE"} /\ arg \in Proper /\ Frames(stack)
         /\ stack \in Seq(Frame) /\ Len(stack) \in Nat /\ Len(stack) >= 1
         /\ Top = stack[Len(stack)] /\ Top \in Frame /\ Top.node \in Nodes
         /\ \A i \in 1..Len(stack) : stack[i] \in Frame /\ stack[i].node \in Nodes
         /\ answer # Conflict /\ answer \in Proper \cup {Absent}
<1>1. call \in {"IB_EXTEND", "IB_REPLACE"} /\ arg \in Proper /\ Frames(stack)
  BY DEF IInv, CallInv, StackInv
<1>2. stack \in Seq(Frame) /\ stack # <<>>
  BY <1>1 DEF IInv, CallInv, TypeLocal, Frames
<1>3. \A f \in Frame : f.node \in Nodes
  BY DEF Frame
<1>4. answer # Conflict /\ answer \in Proper \cup {Absent}
  BY DEF IInv, CallInv, TypeLocal, IdleInv, Visiting
<1>5. Len(stack) \in Nat /\ Len(stack) >= 1 /\ \A i \in 1..Len(stack) : stack[i] \in Frame
  BY <1>2
<1> QED BY <1>1, <1>2, <1>3, <1>4, <1>5 DEF Top

(* The last activation goes on. *)
LEMMA FramesAt ==
  ASSUME IInv, Visiting, call # "remove", NEW label \in Sides \cup {"done"},
         label = "right" => Clean(Top.node, "left"),
         label = "done" => Clean(Top.node, "left") /\ Clean(Top.node, "right")
  PROVE  At(label) \in Seq(Frame) /\ At(label) # <<>> /\ Frames(At(label))
<1> DEFINE L == Len(stack)
           st == At(label)
           old == [Top EXCEPT !.at = label]
<1>1. /\ Frames(stack) /\ stack \in Seq(Frame) /\ L \in Nat /\ L >= 1 /\ Top = stack[L] /\ Top \in Frame
      /\ \A i \in 1..L : stack[i] \in Frame /\ stack[i].node \in Nodes
  BY StackFacts
<1>2. old \in Frame /\ old.node = Top.node /\ old.at = label
  BY <1>1 DEF Frame, Sides
<1>3. st = [stack EXCEPT ![L] = old]
  BY <1>1 DEF At
<1> HIDE DEF old
<1>4. /\ st \in Seq(Frame) /\ Len(st) = L /\ st # <<>>
      /\ \A i \in 1..L : st[i] = IF i = L THEN old ELSE stack[i]
  BY <1>1, <1>2, <1>3
<1>5. L \in 1..L /\ 1 \in 1..L /\ \A i \in 1..L-1 : i \in 1..L /\ i + 1 \in 1..L /\ i # L
  BY <1>1
<1>6. \A i \in 1..L : st[i].node = stack[i].node /\ (i # L => st[i] = stack[i])
  BY <1>1, <1>2, <1>4
<1> HIDE DEF L, st
<1>7. /\ stack[1].at # "enter" /\ Hot(stack[1].node)
      /\ \A m \in Nodes : Hot(m) => m \in Below(stack[1].node)
      /\ \A i \in 1..L-1 : stack[i].at \in {"right", "done"} /\ Inner(stack[i]) = stack[i+1].node
      /\ \A i, j \in 1..L : i < j => stack[j].node \in Below(stack[i+1].node)
      /\ \A i \in 1..L : stack[i].at = "done" => Clean(stack[i].node, "left")
  BY <1>1 DEF Frames, L
<1>8. st[L].at = label /\ st[L].node = Top.node
  BY <1>2, <1>4, <1>5
<1>9. st[1].at # "enter" /\ Hot(st[1].node) /\ \A m \in Nodes : Hot(m) => m \in Below(st[1].node)
  BY <1>5, <1>6, <1>7, <1>8 DEF Sides
<1>10. \A i \in 1..L-1 : st[i].at \in {"right", "done"} /\ Inner(st[i]) = st[i+1].node
  BY <1>5, <1>6, <1>7
<1>11. ASSUME NEW i \in 1..L, NEW j \in 1..L, i < j PROVE st[j].node \in Below(st[i+1].node)
  <2>1. i + 1 \in 1..L
    BY <1>1, <1>11
  <2> QED BY <1>6, <1>7, <1>11, <2>1
<1>12. \A i \in 1..L : st[i].at = "done" => Clean(st[i].node, "left")
  BY <1>1, <1>6, <1>7, <1>8
<1>13. Frames(st)
  BY <1>4, <1>8, <1>9, <1>10, <1>11, <1>12 DEF Frames
<1> QED BY <1>4, <1>13 DEF st

(* It visits a child. *)
LEMMA FramesPush ==
  ASSUME IInv, Visiting, call # "remove", NEW s \in Sides, Top.at = s,
         child[Top.node][s] # Null,
         NEW label, label = IF s = "left" THEN "right" ELSE "done",
         NEW st, st = Append(At(label), [node |-> child[Top.node][s], at |-> "enter"])
  PROVE  st \in Seq(Frame) /\ st # <<>> /\ Frames(st)
<1> DEFINE L == Len(stack)
           c == child[Top.node][s]
           new == [node |-> c, at |-> "enter"]
           old == [Top EXCEPT !.at = label]
<1>1. /\ Frames(stack) /\ stack \in Seq(Frame) /\ L \in Nat /\ L >= 1 /\ Top = stack[L] /\ Top \in Frame
      /\ \A i \in 1..L : stack[i] \in Frame /\ stack[i].node \in Nodes
      /\ Top.node \in Nodes
  BY StackFacts
<1>2. c \in Nodes /\ c \in Below(c) /\ Below(c) \subseteq Below(Top.node)
  BY <1>1, TreeFacts DEF IInv
<1>3. label \in Sides \cup {"done"}
  BY DEF Sides
<1>4. old \in Frame /\ old.node = Top.node /\ old.at = label
  BY <1>1, <1>3 DEF Frame
<1>5. new \in Frame /\ new.node = c /\ new.at = "enter"
  BY <1>2 DEF Frame
<1>6. At(label) = [stack EXCEPT ![L] = old]
  BY <1>1 DEF At
<1> HIDE DEF new, old
<1>7. /\ At(label) \in Seq(Frame) /\ Len(At(label)) = L
      /\ \A i \in 1..L : At(label)[i] = IF i = L THEN old ELSE stack[i]
  BY <1>1, <1>4, <1>6
<1> DEFINE mid == At(label)
<1> HIDE DEF mid
<1>8. st = Append(mid, new)
  BY DEF mid, new
<1>9. /\ st \in Seq(Frame) /\ Len(st) = L + 1 /\ st # <<>> /\ st[L + 1] = new
      /\ \A i \in 1..L : st[i] = mid[i]
  BY <1>1, <1>5, <1>7, <1>8 DEF mid
<1>10. L \in 1..L /\ 1 \in 1..L /\ \A i \in 1..L : i # L => i \in 1..L-1 /\ i + 1 \in 1..L
  BY <1>1
<1>11. /\ st[L] = old /\ \A i \in 1..L : st[i].node = stack[i].node /\ (i # L => st[i] = stack[i])
  <2>1. \A i \in 1..L : st[i] = IF i = L THEN old ELSE stack[i]
    BY <1>7, <1>9 DEF mid
  <2> QED BY <1>1, <1>4, <1>10, <2>1
<1>12. /\ stack[1].at # "enter" /\ Hot(stack[1].node)
       /\ \A m \in Nodes : Hot(m) => m \in Below(stack[1].node)
       /\ \A i \in 1..L-1 : stack[i].at \in {"right", "done"} /\ Inner(stack[i]) = stack[i+1].node
       /\ \A i, j \in 1..L : i < j => stack[j].node \in Below(stack[i+1].node)
       /\ \A i \in 1..L : stack[i].at = "done" => Clean(stack[i].node, "left")
       /\ stack[L].at = "right" => Clean(stack[L].node, "left")
  BY <1>1 DEF Frames
<1> HIDE DEF L, c
<1>13. label \in {"right", "done"} /\ (label = "done" => Top.at = "right")
       /\ s = (IF label = "right" THEN "left" ELSE "right")
  BY DEF Sides
<1>14. st[1].at # "enter" /\ Hot(st[1].node) /\ \A m \in Nodes : Hot(m) => m \in Below(st[1].node)
  BY <1>1, <1>4, <1>11, <1>12, <1>13
<1>15. Inner(old) = c
  BY <1>4, <1>13 DEF Inner, c
<1>16. \A i \in 1..L : st[i].at \in {"right", "done"} /\ Inner(st[i]) = st[i+1].node
  <2> SUFFICES ASSUME NEW i \in 1..L PROVE st[i].at \in {"right", "done"} /\ Inner(st[i]) = st[i+1].node
    OBVIOUS
  <2>1. CASE i = L
    BY <1>4, <1>5, <1>9, <1>11, <1>13, <1>15, <2>1
  <2>2. CASE i # L
    BY <1>11, <1>10, <1>12, <2>2
  <2> QED BY <2>1, <2>2
<1>17. ASSUME NEW i \in 1..L+1, NEW j \in 1..L+1, i < j PROVE st[j].node \in Below(st[i+1].node)
  <2>1. CASE j \in 1..L
    <3>1. i \in 1..L /\ i + 1 \in 1..L
      BY <1>1, <1>17, <2>1
    <3> QED BY <1>11, <1>12, <1>17, <2>1, <3>1
  <2>2. CASE j = L + 1 /\ i = L
    BY <1>2, <1>5, <1>9, <2>2
  <2>3. CASE j = L + 1 /\ i < L
    <3>1. i \in 1..L /\ i + 1 \in 1..L /\ L \in 1..L
      BY <1>1, <2>3
    <3>2. Top.node \in Below(stack[i+1].node) /\ stack[i+1].node \in Nodes
      BY <1>1, <1>12, <2>3, <3>1
    <3>3. Below(Top.node) \subseteq Below(stack[i+1].node)
      BY <3>2, TreeFacts DEF IInv
    <3>4. st[i+1].node = stack[i+1].node /\ st[j].node = c
      BY <1>5, <1>9, <1>11, <2>3, <3>1
    <3> QED BY <1>2, <3>3, <3>4
  <2>4. j \in 1..L \/ (j = L + 1 /\ i = L) \/ (j = L + 1 /\ i < L)
    BY <1>1, <1>17
  <2> QED BY <2>1, <2>2, <2>3, <2>4
<1>18. \A i \in 1..L+1 : st[i].at = "done" => Clean(st[i].node, "left")
  <2> SUFFICES ASSUME NEW i \in 1..L+1, st[i].at = "done" PROVE Clean(st[i].node, "left")
    OBVIOUS
  <2>1. i # L + 1
    BY <1>5, <1>9
  <2>2. CASE i = L
    BY <1>1, <1>4, <1>11, <1>10, <1>12, <1>13, <2>2
  <2>3. CASE i \in 1..L /\ i # L
    BY <1>11, <1>12, <2>3
  <2>4. i = L \/ (i \in 1..L /\ i # L)
    BY <1>1, <2>1
  <2> QED BY <2>2, <2>3, <2>4
<1>19. st[Len(st)].at = "enter" /\ Len(st) - 1 = L
  BY <1>1, <1>5, <1>9
<1>20. Frames(st)
  BY <1>9, <1>14, <1>16, <1>17, <1>18, <1>19 DEF Frames
<1> QED BY <1>9, <1>20
LEMMA PoppedFacts ==
  ASSUME NEW S, stack \in Seq(S), Len(stack) > 1
  PROVE  /\ Popped \in Seq(S) /\ Len(Popped) = Len(stack) - 1 /\ Popped # <<>>
         /\ \A i \in 1..Len(stack)-1 : Popped[i] = stack[i]
<1> DEFINE K == Len(stack) - 1
<1>1. Len(stack) \in Nat /\ K \in Nat /\ K >= 1 /\ \A i \in 1..K : stack[i] \in S
  OBVIOUS
<1>2. /\ SubSeq(stack, 1, K) \in Seq(S) /\ Len(SubSeq(stack, 1, K)) = K
      /\ \A i \in 1..K : SubSeq(stack, 1, K)[i] = stack[i]
  <2> HIDE DEF K
  <2>1. /\ SubSeq(stack, 1, K) \in Seq(S)
        /\ Len(SubSeq(stack, 1, K)) = IF 1 <= K THEN K - 1 + 1 ELSE 0
        /\ \A i \in 1..K - 1 + 1 : SubSeq(stack, 1, K)[i] = stack[1 + i - 1]
    BY <1>1, SubSeqProperties
  <2>2. K - 1 + 1 = K /\ \A i \in 1..K : 1 + i - 1 = i
    BY <1>1
  <2> QED BY <1>1, <2>1, <2>2
<1>3. Popped = SubSeq(stack, 1, K)
  BY DEF Popped
<1> HIDE DEF K
<1>4. Popped # <<>>
  BY <1>1, <1>2, <1>3
<1> QED BY <1>2, <1>3, <1>4 DEF K

(* The last activation is done, and with it the child of the one before. *)
LEMMA FramesPop ==
  ASSUME IInv, Visiting, call # "remove", Len(stack) > 1,
         \A m \in Below(Top.node) : ~Hot(m)
  PROVE  Popped \in Seq(Frame) /\ Popped # <<>> /\ Frames(Popped)
<1> DEFINE L == Len(stack)
           K == L - 1
           st == Popped
<1>1. /\ Frames(stack) /\ stack \in Seq(Frame) /\ L \in Nat /\ L >= 1 /\ Top = stack[L]
      /\ \A i \in 1..L : stack[i] \in Frame /\ stack[i].node \in Nodes
  BY StackFacts
<1>2. /\ st \in Seq(Frame) /\ Len(st) = K /\ st # <<>> /\ \A i \in 1..K : st[i] = stack[i]
  BY <1>1, PoppedFacts
<1>3. /\ K \in Nat /\ K \in 1..K /\ 1 \in 1..K /\ K \in 1..L-1 /\ K + 1 = L /\ L \in 1..L
      /\ \A i \in 1..K : i \in 1..L /\ i \in 1..L-1
      /\ \A i \in 1..K-1 : i \in 1..K /\ i + 1 \in 1..K
  BY <1>1
<1>4. /\ stack[1].at # "enter" /\ Hot(stack[1].node)
      /\ \A m \in Nodes : Hot(m) => m \in Below(stack[1].node)
      /\ \A i \in 1..L-1 : stack[i].at \in {"right", "done"} /\ Inner(stack[i]) = stack[i+1].node
      /\ \A i, j \in 1..L : i < j => stack[j].node \in Below(stack[i+1].node)
      /\ \A i \in 1..L : stack[i].at = "done" => Clean(stack[i].node, "left")
  BY <1>1 DEF Frames, L
<1>5. Inner(stack[K]) = Top.node
  BY <1>1, <1>3, <1>4
<1>6. /\ stack[K].at = "right" => Clean(stack[K].node, "left")
      /\ stack[K].at = "done" => Clean(stack[K].node, "right")
  BY <1>5 DEF Inner, Clean
<1> HIDE DEF L, K, st
<1>7. st[1].at # "enter" /\ Hot(st[1].node) /\ \A m \in Nodes : Hot(m) => m \in Below(st[1].node)
  BY <1>2, <1>3, <1>4
<1>8. \A i \in 1..K-1 : st[i].at \in {"right", "done"} /\ Inner(st[i]) = st[i+1].node
  BY <1>2, <1>3, <1>4
<1>9. ASSUME NEW i \in 1..K, NEW j \in 1..K, i < j PROVE st[j].node \in Below(st[i+1].node)
  <2>1. i + 1 \in 1..K
    BY <1>3, <1>9
  <2> QED BY <1>2, <1>3, <1>4, <1>9, <2>1
<1>10. \A i \in 1..K : st[i].at = "done" => Clean(st[i].node, "left")
  BY <1>2, <1>3, <1>4
<1>11. /\ st[K].at = "right" => Clean(st[K].node, "left")
       /\ st[K].at = "done" => Clean(st[K].node, "right")
  BY <1>2, <1>3, <1>6
<1>12. Frames(st)
  BY <1>2, <1>7, <1>8, <1>9, <1>10, <1>11 DEF Frames
<1> QED BY <1>2, <1>12 DEF st

(* A step that only changes the stack, or starts a removal *)
LEMMA ClearStep ==
  ASSUME IInv, Visiting, call # "remove", UNCHANGED <<tree, call, arg, cur, par, dir, answer>>,
         stack' \in Seq(Frame), stack' # <<>>, Frames(stack'),
         pc' \in {"clear", "remove"}, DoomedInv'
  PROVE  IInv'
<1>1. /\ TreeInv' /\ Apart' /\ Nodes' = Nodes
  BY QuietStep
<1>2. /\ TypeLocal /\ answer # Conflict /\ call \in {"IB_EXTEND", "IB_REPLACE"} /\ arg \in Proper
      /\ par = Null
  BY StackFacts DEF IInv, CallInv, IdleInv, Visiting
<1>3. PICK st \in Seq(Frame) : st = stack'
  OBVIOUS
<1>4. Frames(st)' /\ Frame' = Frame
  BY <1>3, FramesQuiet
<1>5. Frames(stack)'
  BY <1>3, <1>4 DEF Frames
<1>6. StackInv'
  BY <1>2, <1>5 DEF StackInv
<1>7. TypeLocal'
  BY <1>1, <1>2, <1>4 DEF TypeLocal, Labels
<1>8. IdleInv'
  BY <1>2 DEF IdleInv
<1> QED BY <1>1, <1>6, <1>7, <1>8, OneLoop DEF IInv, CallInv

LEMMA StartRemovalInv ==
  ASSUME IInv, pc = "clear", StartRemoval, Len(stack) > 1, Hot(Top.node),
         \A s \in Sides : Clean(Top.node, s)
  PROVE  IInv'
<1>1. call # "remove" /\ Visiting
  BY DEF IInv, CallInv, DoomedInv, Visiting
<1>2. /\ pc' = "remove" /\ UNCHANGED tree
      /\ stack' = stack /\ call' = call /\ arg' = arg /\ cur' = cur /\ par' = par /\ dir' = dir
      /\ answer' = answer
  BY DEF StartRemoval, local
<1>3. stack \in Seq(Frame) /\ stack # <<>> /\ Frames(stack) /\ Top.node \in Nodes
  BY <1>1, StackFacts DEF Frames
<1>4. DoomedInv'
  <2>1. PICK n \in Nodes : n = Top.node
    BY <1>3
  <2>2. Hot(n)' /\ \A s \in Sides : Clean(n, s)'
    BY <1>2, <2>1, FramesQuiet
  <2>3. Doomed' = n
    BY <1>2, <2>1 DEF Doomed, Top
  <2>4. Hot(Doomed)' /\ \A s \in Sides : Clean(Doomed, s)'
    BY <2>2, <2>3 DEF Hot, Clean
  <2> QED BY <1>1, <1>2, <2>4 DEF DoomedInv
<1> QED BY <1>1, <1>2, <1>3, <1>4, ClearStep

LEMMA ContinueInv ==
  ASSUME IInv, pc = "clear", NEW st \in Seq(Frame), st # <<>>, Frames(st), Continue(st)
  PROVE  IInv'
<1>1. call # "remove" /\ Visiting
  BY DEF IInv, CallInv, DoomedInv, Visiting
<1>2. pc' = "clear" /\ call' = call /\ stack' = st /\ UNCHANGED <<tree, call, arg, cur, par, dir, answer>>
  BY DEF Continue
<1>3. DoomedInv'
  BY <1>1, <1>2 DEF DoomedInv
<1> QED BY <1>1, <1>2, <1>3, ClearStep

LEMMA EnterInv ==
  ASSUME IInv, Enter
  PROVE  IInv'
<1>1. pc = "clear" /\ Top.at = "enter"
  BY DEF Enter
<1>2. call # "remove" /\ Visiting
  BY <1>1 DEF IInv, CallInv, DoomedInv, Visiting
<1>3. /\ Top.node \in Nodes /\ arg \in Proper /\ Frames(stack) /\ Len(stack) \in Nat /\ Len(stack) >= 1
      /\ Top = stack[Len(stack)]
  BY <1>2, StackFacts
<1>4. Len(stack) > 1
  BY <1>1, <1>3 DEF Frames
<1>5. CASE Contained(Top.node)
  BY <1>1, <1>3, <1>4, <1>5, ContainedAlone, StartRemovalInv DEF Enter
<1>6. CASE ~Contained(Top.node)
  <2>1. Continue(At("left"))
    BY <1>6 DEF Enter
  <2>2. At("left") \in Seq(Frame) /\ At("left") # <<>> /\ Frames(At("left"))
    BY <1>2, FramesAt DEF Sides
  <2> QED BY <1>1, <2>1, <2>2, ContinueInv
<1> QED BY <1>5, <1>6

LEMMA VisitInv ==
  ASSUME IInv, NEW s \in Sides, Visit(s)
  PROVE  IInv'
<1> DEFINE below == child[Top.node][s]
           label == IF s = "left" THEN "right" ELSE "done"
<1>1. pc = "clear" /\ Top.at = s
  BY DEF Visit
<1>2. call # "remove" /\ Visiting
  BY <1>1 DEF IInv, CallInv, DoomedInv, Visiting
<1>3. /\ Top.node \in Nodes /\ arg \in Proper /\ Frames(stack) /\ Top = stack[Len(stack)]
  BY <1>2, StackFacts
<1>4. CASE below = Null \/ (Len(stack) > 1 /\ Skips(span[Top.node], s))
  <2>1. Continue(At(label))
    BY <1>4 DEF Visit
  <2>2. Clean(Top.node, s)
    <3>1. CASE below = Null
      BY <3>1, TreeFacts DEF Clean, IInv
    <3>2. CASE Skips(span[Top.node], s)
      <4> SUFFICES ASSUME NEW m \in Below(below) PROVE ~Hot(m)
        BY DEF Clean
      <4>1. m \in Nodes /\ Beside(span[m], span[Top.node], s)
        BY <1>3, TreeFacts DEF IInv
      <4>2. span[m] \in Proper /\ span[Top.node] \in Proper
        BY <1>3, <4>1 DEF IInv, TreeInv, TypeTree
      <4> QED BY <1>3, <3>2, <4>1, <4>2, ProperBounds DEF Skips, Beside, Hot, Overlaps, Sides
    <3> QED BY <1>4, <3>1, <3>2
  <2>3. label = "done" => Clean(Top.node, "left")
    BY <1>1, <1>3 DEF Frames, Sides
  <2>4. label \in Sides \cup {"done"} /\ (label = "right" => s = "left") /\ (label = "done" => s = "right")
    BY DEF Sides
  <2> HIDE DEF label
  <2>5. At(label) \in Seq(Frame) /\ At(label) # <<>> /\ Frames(At(label))
    BY <1>2, <2>2, <2>3, <2>4, FramesAt
  <2> QED BY <1>1, <2>1, <2>5, ContinueInv
<1>5. CASE ~(below = Null \/ (Len(stack) > 1 /\ Skips(span[Top.node], s)))
  <2> DEFINE st == Append(At(label), [node |-> below, at |-> "enter"])
  <2>1. Continue(st)
    BY <1>5 DEF Visit
  <2>2. st \in Seq(Frame) /\ st # <<>> /\ Frames(st)
    <3>1. label = (IF s = "left" THEN "right" ELSE "done")
      OBVIOUS
    <3> HIDE DEF label
    <3> QED BY <1>1, <1>2, <1>5, <3>1, FramesPush
  <2> HIDE DEF st
  <2> QED BY <1>1, <2>1, <2>2, ContinueInv
<1> QED BY <1>4, <1>5

LEMMA HitIsHot ==
  ASSUME IInv, arg \in Proper, NEW n \in Nodes
  PROVE  Hit(span[n]) <=> Hot(n)
<1>1. span[n] \in Proper
  BY DEF IInv, TreeInv, TypeTree
<1> QED BY <1>1, ProperBounds DEF Hit, Hot, Overlaps

LEMMA LeaveInv ==
  ASSUME IInv, Leave
  PROVE  IInv'
<1>1. pc = "clear" /\ Len(stack) > 1 /\ Top.at = "done"
  BY DEF Leave
<1>2. call # "remove" /\ Visiting
  BY <1>1 DEF IInv, CallInv, DoomedInv, Visiting
<1>3. /\ Top.node \in Nodes /\ arg \in Proper /\ Frames(stack) /\ Top = stack[Len(stack)]
      /\ Len(stack) \in 1..Len(stack)
  BY <1>2, StackFacts
<1>4. \A s \in Sides : Clean(Top.node, s)
  BY <1>1, <1>3 DEF Frames, Sides
<1>5. CASE Hit(span[Top.node])
  BY <1>1, <1>3, <1>4, <1>5, HitIsHot, StartRemovalInv DEF Leave
<1>6. CASE ~Hit(span[Top.node])
  <2>1. Continue(Popped)
    BY <1>6 DEF Leave
  <2>2. \A m \in Below(Top.node) : ~Hot(m)
    BY <1>3, <1>4, <1>6, HitIsHot, TreeFacts DEF Clean, IInv
  <2>3. Popped \in Seq(Frame) /\ Popped # <<>> /\ Frames(Popped)
    BY <1>1, <1>2, <2>2, FramesPop
  <2> QED BY <1>1, <2>1, <2>3, ContinueInv
<1> QED BY <1>5, <1>6
-----------------------------------------------------------------------------
(* Removal                                                                  *)

LEMMA DoomedFacts ==
  ASSUME IInv, pc \in {"remove", "min"}
  PROVE  /\ Doomed \in Nodes /\ Doomed = Top.node /\ Top = stack[Len(stack)]
         /\ stack \in Seq(Frame) /\ Len(stack) \in Nat /\ Len(stack) >= 1
         /\ call = "remove" => Len(stack) = 1 /\ arg \in Addresses /\ Holds(Doomed, arg)
         /\ call # "remove" => Len(stack) > 1 /\ Hot(Doomed) /\ \A s \in Sides : Clean(Doomed, s)
<1>1. /\ stack \in Seq(Frame)
      /\ call = "remove" => Len(stack) = 1 /\ arg \in Addresses /\ Holds(Doomed, arg)
      /\ call # "remove" => Len(stack) > 1 /\ Hot(Doomed) /\ \A s \in Sides : Clean(Doomed, s)
  BY DEF IInv, CallInv, TypeLocal, DoomedInv
<1>2. Len(stack) \in Nat /\ Len(stack) >= 1
  BY <1>1
<1>3. stack[Len(stack)] \in Frame
  BY <1>1, <1>2
<1> QED BY <1>1, <1>2, <1>3 DEF Doomed, Top, Frame

(* What removeNode does: node e leaves the tree, with b in its place, and d *)
(* is the node to be removed, which may take over the span of e.            *)
Removes(e, b, d) ==
  /\ d = Doomed /\ Removed
  /\ d # e => e \in Below(child[d]["right"])
  /\ TreeInv' /\ Nodes' = Nodes \ {e}
  /\ \A n \in Nodes' : span'[n] = IF n = d THEN span[e] ELSE span[n]
  /\ \A n \in Nodes' : Below(n)' = Below(n) \ {e}
  /\ \A n \in Nodes', t \in Sides : Below(child[n][t])' \subseteq Below(child[n][t]) \ {e}
  /\ \A n \in Nodes', t \in Sides :
       child'[n][t] = IF n = parent[e] /\ t = side[e] THEN b ELSE child[n][t]

(* Back to clearing after a removal: node e left the tree, and the span of  *)
(* the node that was removed is gone.                                       *)
LEMMA RemovedInv ==
  ASSUME IInv, pc \in {"remove", "min"}, call # "remove",
         NEW e \in Nodes, NEW b, NEW d \in Nodes, Removes(e, b, d)
  PROVE  CallInv'
<1> USE DEF Removes
<1> DEFINE L == Len(stack)
           K == L - 1
<1>1. Visiting
  BY DEF Visiting
<1>2. /\ pc' = "clear" /\ cur' = Null /\ stack' = Popped /\ UNCHANGED <<call, arg, par, dir, answer>>
  BY DEF Removed
<1>3. /\ TreeInv /\ TypeLocal /\ Apart /\ call \in {"IB_EXTEND", "IB_REPLACE"} /\ arg \in Proper
      /\ Frames(stack) /\ stack \in Seq(Frame) /\ L \in Nat /\ Top = stack[L] /\ answer # Conflict
      /\ \A i \in 1..L : stack[i] \in Frame /\ stack[i].node \in Nodes
      /\ par = Null
  BY <1>1, StackFacts DEF IInv, CallInv, IdleInv
<1>4. L > 1 /\ Hot(d) /\ (\A s \in Sides : Clean(d, s)) /\ stack[L].node = d
  BY <1>3, DoomedFacts
<1>5. PICK st \in Seq(Frame) :
        st = stack' /\ Len(st) = K /\ st # <<>> /\ \A i \in 1..K : st[i] = stack[i]
  BY <1>2, <1>3, <1>4, PoppedFacts
<1>6. /\ K \in Nat /\ K \in 1..K /\ 1 \in 1..K /\ K \in 1..L-1 /\ K + 1 = L /\ L \in 1..L
      /\ \A i \in 1..K : i \in 1..L /\ i \in 1..L-1 /\ i < L /\ i + 1 \in 1..L
      /\ \A i \in 1..K-1 : i \in 1..K /\ i + 1 \in 1..K
  BY <1>3, <1>4
<1>7. /\ stack[1].at # "enter" /\ Hot(stack[1].node)
      /\ \A m \in Nodes : Hot(m) => m \in Below(stack[1].node)
      /\ \A i \in 1..L-1 : stack[i].at \in {"right", "done"} /\ Inner(stack[i]) = stack[i+1].node
      /\ \A i, j \in 1..L : i < j => stack[j].node \in Below(stack[i+1].node)
      /\ \A i \in 1..L : stack[i].at = "done" => Clean(stack[i].node, "left")
  BY <1>3 DEF Frames, L
<1> HIDE DEF L, K
<1>8. e \in Below(d)
  BY <1>3, TreeFacts, OtherSide
<1>9. ASSUME NEW i \in 1..K
      PROVE  stack[i].node # e /\ stack[i].node # d /\ stack[i].node \in Nodes'
  <2>1. d \in Below(stack[i+1].node) /\ stack[i].node \in Nodes /\ stack[i+1].node \in Nodes
    BY <1>3, <1>4, <1>6, <1>7
  <2>2. e \in Below(stack[i+1].node)
    BY <1>3, <1>8, <2>1, TreeFacts
  <2>3. stack[i].node \notin Below(stack[i+1].node)
    <3>1. PICK s \in Sides : child[stack[i].node][s] = stack[i+1].node
      BY <1>6, <1>7 DEF Inner, Sides
    <3> QED BY <1>3, <2>1, <3>1, TreeFacts
  <2> QED BY <2>1, <2>2, <2>3
<1>10. \A m \in Nodes' : m # d => (Hot(m)' <=> Hot(m))
  BY <1>2 DEF Hot
<1>11. d \in Nodes' => ~Hot(d)'
  <2> SUFFICES ASSUME d \in Nodes' PROVE ~Hot(d)'
    OBVIOUS
  <2>1. e \in Below(child[d]["right"])
    OBVIOUS
  <2>2. ~Hot(e)
    BY <1>4, <2>1, OtherSide DEF Clean
  <2> QED BY <1>2, <2>2 DEF Hot
<1>12. \A m \in Nodes' : Hot(m)' => Hot(m) /\ m # d
  BY <1>10, <1>11
<1>13. ASSUME NEW n \in Nodes', NEW s \in Sides, NEW m \in Below(child[n][s])'
       PROVE  m \in Nodes' /\ m \in Below(child[n][s])
  BY TreeFacts DEF Below
<1>14. \A n \in Nodes', s \in Sides : Clean(n, s) => Clean(n, s)'
  BY <1>12, <1>13 DEF Clean
<1>15. ASSUME NEW n \in Nodes', NEW s \in Sides, child[n][s] = d
       PROVE  Clean(n, s)'
  <2> SUFFICES ASSUME NEW m \in Below(child[n][s])', Hot(m)' PROVE FALSE
    BY DEF Clean
  <2>1. m \in Nodes' /\ m \in Below(d) /\ Hot(m) /\ m # d
    BY <1>12, <1>13, <1>15
  <2>2. PICK t \in Sides : m \in Below(child[d][t])
    BY <1>3, <2>1, TreeFacts
  <2> QED BY <1>4, <2>1, <2>2 DEF Clean
<1>16. st[1].at # "enter" /\ Hot(st[1].node)'
  BY <1>5, <1>6, <1>7, <1>9, <1>10
<1>17. \A m \in Nodes' : Hot(m)' => m \in Below(st[1].node)'
  BY <1>5, <1>6, <1>7, <1>9, <1>12
<1>18. ASSUME NEW i \in 1..K-1
       PROVE  st[i].at \in {"right", "done"} /\ Inner(st[i])' = st[i+1].node
  <2> DEFINE n == stack[i].node
             t == IF stack[i].at = "right" THEN "left" ELSE "right"
  <2>1. /\ stack[i].at \in {"right", "done"} /\ child[n][t] = stack[i+1].node
        /\ st[i] = stack[i] /\ st[i+1] = stack[i+1] /\ t \in Sides
    BY <1>5, <1>6, <1>7 DEF Inner, Sides
  <2>2. n \in Nodes' /\ stack[i+1].node # e
    BY <1>6, <1>9
  <2> HIDE DEF n, t
  <2>3. ~(n = parent[e] /\ t = side[e])
    <3> SUFFICES ASSUME n = parent[e], t = side[e] PROVE FALSE
      OBVIOUS
    <3>1. e # root
      BY <1>3, <2>2, TreeFacts
    <3>2. child[n][t] = e
      BY <1>3, <3>1, TreeFacts
    <3> QED BY <2>1, <2>2, <3>2
  <2>4. child'[n][t] = stack[i+1].node
    BY <2>1, <2>2, <2>3
  <2> QED BY <2>1, <2>4 DEF Inner, n, t
<1>19. ASSUME NEW i \in 1..K, NEW j \in 1..K, i < j PROVE st[j].node \in Below(st[i+1].node)'
  <2>1. i + 1 \in 1..K /\ i \in 1..L /\ j \in 1..L
    BY <1>6, <1>19
  <2>2. stack[j].node \in Below(stack[i+1].node) /\ stack[j].node # e /\ stack[i+1].node \in Nodes'
    BY <1>7, <1>9, <1>19, <2>1
  <2> QED BY <1>5, <2>1, <2>2
<1>20. \A i \in 1..K : st[i].at = "done" => Clean(st[i].node, "left")'
  BY <1>5, <1>6, <1>7, <1>9, <1>14, OtherSide
<1>21. /\ st[Len(st)].at = "right" => Clean(st[Len(st)].node, "left")'
       /\ st[Len(st)].at = "done" => Clean(st[Len(st)].node, "right")'
  <2>1. Inner(st[Len(st)]) = d /\ st[Len(st)].node \in Nodes'
    BY <1>4, <1>5, <1>6, <1>7, <1>9
  <2> QED BY <1>15, <2>1, OtherSide DEF Inner
<1>22. Frames(st)'
  BY <1>5, <1>16, <1>17, <1>18, <1>19, <1>20, <1>21 DEF Frames
<1>23. StackInv'
  <2>1. Frames(stack)'
    BY <1>5, <1>22 DEF Frames
  <2> QED BY <1>2, <1>3, <2>1 DEF StackInv
<1>24. TypeLocal'
  <2>1. \A i \in 1..K : st[i] \in Frame'
    <3> SUFFICES ASSUME NEW i \in 1..K PROVE st[i] \in Frame'
      OBVIOUS
    <3>1. st[i] \in Frame /\ st[i].node \in Nodes'
      BY <1>3, <1>5, <1>6, <1>9
    <3> QED BY <3>1 DEF Frame
  <2>2. st \in Seq(Frame')
    BY <1>5, <2>1, SeqDef
  <2> QED BY <1>2, <1>3, <1>5, <2>2 DEF TypeLocal, Labels
<1>25. IdleInv' /\ DoomedInv'
  BY <1>2, <1>3 DEF IdleInv, DoomedInv
<1> QED BY <1>2, <1>23, <1>24, <1>25, OneLoop DEF CallInv

(* Either way to remove a node takes one node e out of the tree: the node   *)
(* itself, or its successor, whose span it takes over.                      *)
LEMMA RemovalFacts ==
  ASSUME IInv, RemoveNode \/ RemoveSuccessor
  PROVE  \E e \in Nodes, d \in Nodes , b \in Nodes \cup {Null} : Removes(e, b, d)
<1>1. TreeInv /\ Doomed \in Nodes /\ span \in [Nodes -> Proper]
  BY DoomedFacts DEF IInv, TreeInv, TypeTree, RemoveNode, RemoveSuccessor
<1>2. PICK d \in Nodes : d = Doomed
  BY <1>1
<1>3. CASE RemoveNode
  <2> DEFINE b == IF child[d]["left"] = Null THEN child[d]["right"] ELSE child[d]["left"]
  <2>1. /\ ~TwoChildren /\ Unlink(d, b) /\ span' = Restrict(span, Nodes \ {d}) /\ Removed
    BY <1>2, <1>3 DEF RemoveNode
  <2>2. /\ \A s \in Sides : child[d][s] = b \/ child[d][s] = Null
        /\ b = Null \/ \E s \in Sides : child[d][s] = b
    BY <1>2, <2>1 DEF TwoChildren, Sides
  <2>3. span' = Restrict([span EXCEPT ![d] = span[d]], Nodes \ {d})
    BY <1>1, <2>1
  <2> HIDE DEF b
  <2>4. /\ TreeInv' /\ Nodes' = Nodes \ {d}
        /\ \A n \in Nodes' : span'[n] = IF n = d THEN span[d] ELSE span[n]
        /\ \A n \in Nodes' : Below(n)' = Below(n) \ {d}
        /\ \A n \in Nodes', t \in Sides : Below(child[n][t])' \subseteq Below(child[n][t]) \ {d}
        /\ \A n \in Nodes', t \in Sides :
             child'[n][t] = IF n = parent[d] /\ t = side[d] THEN b ELSE child[n][t]
    <3>1. TakesOut(d, b, d)
      BY <2>1, <2>2, <2>3 DEF TakesOut
    <3> QED BY <1>1, <3>1, UnlinkStep
  <2>5. Removes(d, b, d)
    BY <1>2, <2>1, <2>4 DEF Removes
  <2>6. b \in Nodes \cup {Null}
    BY <1>1, OtherSide DEF b, TreeInv, TypeTree
  <2> QED BY <2>5, <2>6
<1>4. CASE RemoveSuccessor
  <2>1. /\ pc = "min" /\ child[cur]["left"] = Null /\ Unlink(cur, child[cur]["right"])
        /\ span' = Restrict([span EXCEPT ![d] = span[cur]], Nodes \ {cur}) /\ Removed
    BY <1>2, <1>4 DEF RemoveSuccessor
  <2>2. /\ cur \in Below(child[d]["right"])
        /\ \A m \in Below(child[d]["right"]) : m \in Below(cur) \/ span[cur].bound <= span[m].base
    BY <1>2, <2>1 DEF IInv, CallInv, MinInv
  <2>3. PICK e \in Nodes : e = cur
    BY <1>1, <2>2, TreeFacts, OtherSide
  <2>4. PICK b : b = child[e]["right"]
    OBVIOUS
  <2>5. d # e
    BY <1>1, <2>2, <2>3, TreeFacts, OtherSide
  <2>6. \A m \in Below(child[d]["right"]) : m = e \/ span[e].bound <= span[m].base
    <3> SUFFICES ASSUME NEW m \in Below(child[d]["right"]), m \in Below(e), m # e
                 PROVE  span[e].bound <= span[m].base
      BY <2>2, <2>3
    <3>1. PICK s \in Sides : m \in Below(child[e][s])
      BY <1>1, TreeFacts
    <3>2. s = "right"
      BY <1>1, <2>1, <2>3, <3>1, TreeFacts DEF Sides
    <3>3. Beside(span[m], span[e], "right")
      BY <1>1, <3>1, <3>2, TreeFacts
    <3> QED BY <3>3 DEF Beside
  <2>7. /\ \A s \in Sides : child[e][s] = b \/ child[e][s] = Null
        /\ b = Null \/ \E s \in Sides : child[e][s] = b
    BY <2>1, <2>3, <2>4 DEF Sides
  <2>8. Unlink(e, b) /\ span' = Restrict([span EXCEPT ![d] = span[e]], Nodes \ {e})
    BY <2>1, <2>3, <2>4
  <2>9. e \in Below(child[d]["right"])
    BY <2>2, <2>3
  <2>10. /\ TreeInv' /\ Nodes' = Nodes \ {e}
         /\ \A n \in Nodes' : span'[n] = IF n = d THEN span[e] ELSE span[n]
         /\ \A n \in Nodes' : Below(n)' = Below(n) \ {e}
         /\ \A n \in Nodes', t \in Sides : Below(child[n][t])' \subseteq Below(child[n][t]) \ {e}
         /\ \A n \in Nodes', t \in Sides :
              child'[n][t] = IF n = parent[e] /\ t = side[e] THEN b ELSE child[n][t]
    <3>1. TakesOut(e, b, d)
      BY <2>6, <2>7, <2>8, <2>9 DEF TakesOut
    <3> QED BY <1>1, <3>1, UnlinkStep
  <2>11. Removes(e, b, d)
    BY <1>2, <2>1, <2>9, <2>10 DEF Removes
  <2>12. b \in Nodes \cup {Null}
    BY <1>1, <2>4, OtherSide DEF TreeInv, TypeTree
  <2> QED BY <2>11, <2>12
<1> QED BY <1>3, <1>4

LEMMA RemovalInv ==
  ASSUME IInv, RemoveNode \/ RemoveSuccessor
  PROVE  IInv'
<1>1. pc \in {"remove", "min"}
  BY DEF RemoveNode, RemoveSuccessor
<1>2. PICK e \in Nodes, d \in Nodes , b \in Nodes \cup {Null} : Removes(e, b, d)
  BY RemovalFacts
<1>3. CallInv'
  <2>1. CASE call = "remove"
    <3>1. Return /\ answer' = span[d]
      BY <1>2, <2>1 DEF Removed, Removes
    <3>2. span[d] \in Proper
      BY DEF IInv, TreeInv, TypeTree
    <3> QED BY <3>1, <3>2, ReturnStep
  <2>2. CASE call # "remove"
    BY <1>1, <1>2, <2>2, RemovedInv
  <2> QED BY <2>1, <2>2
<1>4. Apart'
  <2> SUFFICES ASSUME NEW m \in Nodes \ {e}, NEW n \in Nodes \ {e}, m # n
               PROVE  ~Overlaps(span'[m], span'[n])
    BY <1>2 DEF Apart, Overlaps, Removes
  <2>1. \A j, k \in Nodes : j # k => ~Overlaps(span[j], span[k])
    BY DEF IInv, Apart
  <2>2. span'[m] = (IF m = d THEN span[e] ELSE span[m]) /\ span'[n] = (IF n = d THEN span[e] ELSE span[n])
    BY <1>2 DEF Removes
  <2> QED BY <2>1, <2>2
<1> QED BY <1>2, <1>3, <1>4 DEF IInv, Removes

LEMMA FindMinInv ==
  ASSUME IInv, FindMin \/ FindMinStep
  PROVE  IInv'
<1>1. /\ pc \in {"remove", "min"} /\ pc' = "min"
      /\ UNCHANGED <<tree, call, arg, par, dir, stack, answer>>
  BY DEF FindMin, FindMinStep
<1>2. /\ TreeInv /\ TypeLocal /\ Doomed \in Nodes /\ par = Null /\ answer # Conflict
      /\ stack \in Seq(Frame) /\ Len(stack) \in Nat /\ Len(stack) >= 1
      /\ call = "remove" => Len(stack) = 1 /\ arg \in Addresses /\ Holds(Doomed, arg)
      /\ call # "remove" => Len(stack) > 1 /\ Hot(Doomed) /\ \A s \in Sides : Clean(Doomed, s)
  BY <1>1, DoomedFacts DEF IInv, CallInv, IdleInv
<1>3. /\ TreeInv' /\ Apart' /\ Nodes' = Nodes /\ span' = span /\ child' = child
      /\ \A n \in Nodes \cup {Null} : Below(n)' = Below(n)
  BY <1>1, QuietStep
<1>4. PICK d \in Nodes : d = Doomed
  BY <1>2
<1>5. Doomed' = d
  BY <1>1, <1>4 DEF Doomed, Top
<1>6. /\ \A m \in Nodes : Hot(m)' <=> Hot(m)
      /\ \A m \in Nodes, s \in Sides : Clean(m, s)' <=> Clean(m, s)
      /\ \A st \in Seq(Frame) : st # <<>> => (Frames(st)' <=> Frames(st))
      /\ Frame' = Frame
  BY <1>1, FramesQuiet
<1>7. DoomedInv'
  <2>1. call = "remove" => Holds(Doomed, arg)'
    BY <1>1, <1>2, <1>3, <1>4, <1>5 DEF Holds
  <2>2. call # "remove" => Hot(d)' /\ \A s \in Sides : Clean(d, s)'
    BY <1>2, <1>4, <1>6
  <2>3. call # "remove" => Hot(Doomed)' /\ \A s \in Sides : Clean(Doomed, s)'
    BY <1>5, <2>2 DEF Hot, Clean
  <2> QED BY <1>1, <1>2, <2>1, <2>3 DEF DoomedInv
<1>8. StackInv'
  <2> SUFFICES ASSUME call # "remove" PROVE StackInv'
    BY <1>1 DEF StackInv
  <2>1. call \in {"IB_EXTEND", "IB_REPLACE"} /\ arg \in Proper /\ Frames(stack)
    BY <1>1, StackFacts DEF Visiting
  <2>2. PICK st \in Seq(Frame) : st = stack
    BY <1>2
  <2>3. Frames(st)'
    BY <1>2, <1>6, <2>1, <2>2
  <2>4. Frames(stack)'
    BY <1>1, <2>2, <2>3 DEF Frames
  <2> QED BY <1>1, <2>1, <2>4 DEF StackInv
<1>9. /\ child[d]["left"] # Null /\ child[d]["right"] # Null
      /\ cur' \in Below(child[d]["right"])
      /\ \A m \in Below(child[d]["right"]) : m \in Below(cur') \/ span[cur'].bound <= span[m].base
  <2>1. CASE FindMin
    <3>1. child[d]["left"] # Null /\ child[d]["right"] # Null /\ cur' = child[d]["right"]
      BY <1>4, <2>1 DEF FindMin, TwoChildren
    <3>2. cur' \in Nodes
      BY <1>2, <3>1, TreeFacts, OtherSide
    <3> QED BY <1>2, <3>1, <3>2, TreeFacts
  <2>2. CASE FindMinStep
    <3>1. pc = "min" /\ child[cur]["left"] # Null /\ cur' = child[cur]["left"]
      BY <2>2 DEF FindMinStep
    <3>2. /\ child[d]["left"] # Null /\ child[d]["right"] # Null
          /\ cur \in Below(child[d]["right"])
          /\ \A m \in Below(child[d]["right"]) : m \in Below(cur) \/ span[cur].bound <= span[m].base
      BY <1>4, <3>1 DEF IInv, CallInv, MinInv, TwoChildren
    <3>3. child[d]["right"] \in Nodes /\ cur \in Nodes /\ cur' \in Nodes /\ cur' \in Below(cur')
      BY <1>2, <3>1, <3>2, TreeFacts, OtherSide
    <3>4. cur' \in Below(cur) /\ Beside(span[cur'], span[cur], "left")
      BY <1>2, <3>1, <3>3, TreeFacts, OtherSide
    <3>5. cur' \in Below(child[d]["right"])
      BY <1>2, <3>2, <3>3, <3>4, TreeFacts
    <3>6. ASSUME NEW m \in Below(child[d]["right"])
          PROVE  m \in Below(cur') \/ span[cur'].bound <= span[m].base
      <4>1. m \in Nodes
        BY <1>2, <3>3, TreeFacts
      <4>2. span[m] \in Proper /\ span[cur] \in Proper /\ span[cur'] \in Proper
        BY <1>2, <3>3, <4>1 DEF TreeInv, TypeTree
      <4>3. span[cur'].bound <= span[cur].base
        BY <3>4 DEF Beside
      <4>4. CASE span[cur].bound <= span[m].base
        BY <4>2, <4>3, <4>4, ProperBounds
      <4>5. CASE m = cur
        BY <4>3, <4>5
      <4>6. CASE m \in Below(cur) /\ m # cur
        <5>1. PICK s \in Sides : m \in Below(child[cur][s])
          BY <1>2, <3>3, <4>6, TreeFacts
        <5>2. CASE s = "left"
          BY <3>1, <5>1, <5>2
        <5>3. CASE s = "right"
          <6>1. Beside(span[m], span[cur], "right")
            BY <1>2, <3>3, <5>1, <5>3, TreeFacts
          <6> QED BY <4>2, <4>3, <6>1, ProperBounds DEF Beside
        <5> QED BY <5>2, <5>3 DEF Sides
      <4> QED BY <3>2, <4>4, <4>5, <4>6
    <3> QED BY <3>2, <3>5, <3>6
  <2> QED BY <2>1, <2>2
<1>10. cur' \in Nodes /\ child[d]["right"] \in Nodes
  BY <1>2, <1>9, TreeFacts, OtherSide
<1>11. MinInv'
  <2>1. Below(cur)' = Below(cur') /\ (Below(child[Doomed]["right"]))' = Below(child[d]["right"])
    BY <1>3, <1>5, <1>10
  <2>2. TwoChildren'
    BY <1>3, <1>5, <1>9 DEF TwoChildren
  <2> QED BY <1>3, <1>9, <2>1, <2>2 DEF MinInv
<1>12. TypeLocal'
  BY <1>1, <1>2, <1>3, <1>6, <1>10 DEF TypeLocal, Labels
<1>13. IdleInv'
  BY <1>1, <1>2 DEF IdleInv
<1> QED BY <1>1, <1>3, <1>7, <1>8, <1>11, <1>12, <1>13, OneLoop DEF IInv, CallInv

(* What an overlapped node becomes meets it and no node that the new        *)
(* interval does not overlap.                                               *)
LEMMA ResultFacts ==
  ASSUME IInv, call \in Behaviors, arg \in Proper, NEW n \in Nodes, Hot(n)
  PROVE  /\ Result(n) \in Proper /\ Overlaps(span[n], Result(n))
         /\ \A m \in Nodes \ {n} : ~Hot(m) => ~Overlaps(span[m], Result(n))
<1>1. \A m \in Nodes : span[m] \in Proper
  BY DEF IInv, TreeInv, TypeTree
<1>2. Result(n) \in Proper
  BY <1>1, ProperBounds DEF Result, Proper, Lower, Upper
<1>3. Overlaps(span[n], Result(n))
  BY <1>1, ProperBounds DEF Result, Lower, Upper, Hot, Overlaps
<1>4. ASSUME NEW m \in Nodes \ {n}, ~Hot(m) PROVE ~Overlaps(span[m], Result(n))
  <2>1. ~Overlaps(span[m], span[n])
    BY DEF IInv, Apart
  <2> QED BY <1>1, <1>4, <2>1, ProperBounds DEF Result, Lower, Upper, Hot, Overlaps
<1> QED BY <1>2, <1>3, <1>4

(* When the insertion has cleared both sides of its node, no other node     *)
(* overlaps the new interval.                                               *)
LEMMA OverwriteFacts ==
  ASSUME IInv, Overwrite
  PROVE  /\ Visiting /\ call \in {"IB_EXTEND", "IB_REPLACE"} /\ arg \in Proper
         /\ Len(stack) = 1 /\ stack # <<>> /\ Top = stack[1] /\ Top.node \in Nodes /\ Hot(Top.node)
         /\ \A m \in Nodes \ {Top.node} : ~Hot(m)
         /\ answer # Conflict
<1>1. pc = "clear" /\ Len(stack) = 1 /\ Top.at = "done"
  BY DEF Overwrite
<1>2. call # "remove" /\ Visiting
  BY <1>1 DEF IInv, CallInv, DoomedInv, Visiting
<1>3. /\ Top.node \in Nodes /\ arg \in Proper /\ Frames(stack) /\ Top = stack[1]
      /\ call \in {"IB_EXTEND", "IB_REPLACE"} /\ answer # Conflict
  BY <1>1, <1>2, StackFacts
<1>4. /\ Hot(Top.node) /\ Clean(Top.node, "left") /\ Clean(Top.node, "right") /\ stack # <<>>
      /\ \A m \in Nodes : Hot(m) => m \in Below(Top.node)
  BY <1>1, <1>3 DEF Frames
<1>5. ASSUME NEW m \in Nodes \ {Top.node} PROVE ~Hot(m)
  <2> SUFFICES ASSUME Hot(m) PROVE FALSE
    OBVIOUS
  <2>1. PICK s \in Sides : m \in Below(child[Top.node][s])
    BY <1>3, <1>4, TreeFacts DEF IInv
  <2> QED BY <1>4, <2>1 DEF Clean, Sides
<1> QED BY <1>1, <1>2, <1>3, <1>4, <1>5

LEMMA OverwriteInv ==
  ASSUME IInv, Overwrite
  PROVE  IInv'
<1>1. /\ span' = [span EXCEPT ![Top.node] = Result(Top.node)]
      /\ pc' = "splay" /\ cur' = Top.node /\ stack' = <<>>
      /\ UNCHANGED <<root, numNodes, child, parent, side, call, arg, par, dir, answer>>
  BY DEF Overwrite
<1>2. /\ call \in {"IB_EXTEND", "IB_REPLACE"} /\ arg \in Proper
      /\ Top.node \in Nodes /\ Hot(Top.node) /\ \A m \in Nodes \ {Top.node} : ~Hot(m)
      /\ answer # Conflict
  BY OverwriteFacts
<1>3. PICK k \in Nodes : k = Top.node
  BY <1>2
<1>4. /\ Result(k) \in Proper /\ Overlaps(span[k], Result(k))
      /\ \A m \in Nodes \ {k} : ~Overlaps(span[m], Result(k))
  BY <1>2, <1>3, ResultFacts DEF Behaviors
<1>5. TreeInv /\ TypeLocal /\ par = Null /\ span \in [Nodes -> Proper]
  BY DEF IInv, CallInv, IdleInv, TreeInv, TypeTree, Overwrite
<1>6. PICK i \in Proper : i = Result(k)
  BY <1>4
<1>7. TreeInv' /\ Nodes' = Nodes
  BY <1>1, <1>3, <1>4, <1>5, <1>6, OverwriteStep
<1>8. Apart'
  <2>1. \A m \in Nodes : span'[m] = IF m = k THEN i ELSE span[m]
    BY <1>1, <1>3, <1>5, <1>6
  <2>2. \A m \in Nodes \ {k} : ~Overlaps(span[m], i) /\ ~Overlaps(i, span[m])
    BY <1>4, <1>6 DEF Overlaps
  <2>3. \A m, n \in Nodes : m # n => ~Overlaps(span[m], span[n])
    BY DEF IInv, Apart
  <2>4. \A m, n \in Nodes : m # n => ~Overlaps(span'[m], span'[n])
    BY <2>1, <2>2, <2>3
  <2> QED BY <1>7, <2>4 DEF Apart, Overlaps
<1>9. TypeLocal'
  BY <1>1, <1>3, <1>5, <1>7 DEF TypeLocal, Labels
<1>10. IdleInv' /\ SplayInv'
  BY <1>1, <1>2, <1>3, <1>5, <1>7 DEF IdleInv, SplayInv
<1> QED BY <1>1, <1>7, <1>8, <1>9, <1>10, OneLoop DEF IInv, CallInv

-----------------------------------------------------------------------------
(* The invariant                                                           *)

LEMMA InvInit == Init => IInv
<1> SUFFICES ASSUME Init PROVE IInv
  OBVIOUS
<1>1. Nodes = {} /\ root = Null /\ numNodes = 0
  BY DEF Init, Nodes
<1>2. TypeTree /\ Struct(Nodes, root, child, parent, side, SubOf) /\ Sorted(Nodes, child, span, SubOf)
  BY <1>1 DEF Init, TypeTree, Struct, Sorted, SubOf
<1>3. IsFiniteSet(Nodes) /\ Cardinality(Nodes) = numNodes
  BY <1>1, FS_EmptySet
<1>4. TreeInv /\ Apart
  BY <1>1, <1>2, <1>3 DEF TreeInv, Apart
<1>5. TypeLocal /\ IdleInv
  BY DEF Init, TypeLocal, IdleInv, Labels, Sides
<1>6. FindInv /\ DescendInv /\ SplayInv /\ StackInv /\ DoomedInv /\ MinInv
  BY DEF Init, FindInv, DescendInv, SplayInv, StackInv, DoomedInv, MinInv, Visiting
<1> QED BY <1>4, <1>5, <1>6 DEF IInv, CallInv

LEMMA StutterInv ==
  ASSUME IInv, UNCHANGED vars
  PROVE  IInv'
<1>1. /\ UNCHANGED <<tree, call, arg, cur, par, dir, stack, answer>> /\ pc' = pc
      /\ root' = root /\ span' = span /\ child' = child /\ parent' = parent /\ side' = side
  BY DEF vars, local, tree
<1>2. /\ TreeInv' /\ Apart' /\ Nodes' = Nodes
      /\ \A n \in Nodes \cup {Null} : Below(n)' = Below(n)
  BY <1>1, QuietStep
<1>3. TypeLocal' /\ IdleInv'
  BY <1>1, <1>2 DEF IInv, CallInv, TypeLocal, IdleInv, Frame
<1>4. FindInv' /\ DescendInv' /\ SplayInv'
  <2>1. \A n \in Nodes, s \in Sides : child[n][s] \in Nodes \cup {Null}
    BY DEF IInv, TreeInv, TypeTree
  <2>2. Below(cur)' = Below(cur)
    <3>1. PICK c \in Nodes \cup {Null} : c = cur
      BY DEF IInv, CallInv, TypeLocal
    <3>2. Below(c)' = Below(cur)'
      BY <1>1, <3>1 DEF Below, Closed
    <3> QED BY <1>2, <3>1, <3>2
  <2>3. FindInv'
    BY <1>1, <1>2, <2>2 DEF IInv, CallInv, FindInv, Holds
  <2>4. DescendInv'
    <3>1. \A m \in Nodes, s \in Sides : Below(child[m][s])' = Below(child[m][s])
      BY <1>1, <1>2, <2>1
    <3> QED BY <1>1, <1>2, <2>2, <3>1 DEF IInv, CallInv, DescendInv, Hot, Beside
  <2>5. SplayInv'
    BY <1>1, <1>2 DEF IInv, CallInv, SplayInv
  <2> QED BY <2>3, <2>4, <2>5
<1>5. /\ \A m \in Nodes : Hot(m)' <=> Hot(m)
      /\ \A m \in Nodes, s \in Sides : Clean(m, s)' <=> Clean(m, s)
      /\ \A st \in Seq(Frame) : st # <<>> => (Frames(st)' <=> Frames(st))
  BY <1>1, FramesQuiet
<1>6. ASSUME Visiting, call # "remove" PROVE StackInv'
  <2>1. call \in {"IB_EXTEND", "IB_REPLACE"} /\ arg \in Proper /\ Frames(stack) /\ stack # <<>>
    BY <1>6, StackFacts DEF Frames
  <2>2. PICK st \in Seq(Frame) : st = stack
    BY DEF IInv, CallInv, TypeLocal
  <2>3. Frames(st)'
    BY <1>5, <2>1, <2>2
  <2>4. Frames(stack)'
    BY <1>1, <2>2, <2>3 DEF Frames
  <2> QED BY <1>1, <2>1, <2>4 DEF StackInv
<1>7. StackInv'
  BY <1>1, <1>6 DEF StackInv, Visiting
<1>8. ASSUME pc \in {"remove", "min"} PROVE DoomedInv' /\ MinInv'
  <2>1. /\ Doomed \in Nodes
        /\ call = "remove" => Len(stack) = 1 /\ arg \in Addresses /\ Holds(Doomed, arg)
        /\ call # "remove" => Len(stack) > 1 /\ Hot(Doomed) /\ \A s \in Sides : Clean(Doomed, s)
    BY <1>8, DoomedFacts
  <2>2. PICK d \in Nodes : d = Doomed
    BY <2>1
  <2>3. Doomed' = d
    BY <1>1, <2>2 DEF Doomed, Top
  <2>4. call = "remove" => Holds(Doomed, arg)'
    BY <1>1, <2>1, <2>2, <2>3 DEF Holds
  <2>5. call # "remove" => Hot(d)' /\ \A s \in Sides : Clean(d, s)'
    BY <1>5, <2>1, <2>2
  <2>6. call # "remove" => Hot(Doomed)' /\ \A s \in Sides : Clean(Doomed, s)'
    BY <2>3, <2>5 DEF Hot, Clean
  <2>7. DoomedInv'
    BY <1>1, <1>8, <2>1, <2>4, <2>6 DEF DoomedInv
  <2>8. ASSUME pc = "min" PROVE MinInv'
    <3>1. /\ TwoChildren /\ cur \in Below(child[d]["right"])
          /\ \A m \in Below(child[d]["right"]) : m \in Below(cur) \/ span[cur].bound <= span[m].base
      BY <2>2, <2>8 DEF IInv, CallInv, MinInv
    <3>2. PICK c \in Nodes \cup {Null} : c = cur
      BY DEF IInv, CallInv, TypeLocal
    <3>3. PICK r \in Nodes \cup {Null} : r = child[d]["right"]
      BY OtherSide DEF IInv, TreeInv, TypeTree
    <3>4. Below(c)' = Below(cur) /\ Below(r)' = Below(child[d]["right"])
      BY <1>2, <3>2, <3>3
    <3>5. Below(cur)' = Below(c)' /\ (Below(child[Doomed]["right"]))' = Below(r)'
      BY <1>1, <2>3, <3>2, <3>3 DEF Below, Closed
    <3>6. TwoChildren'
      BY <1>1, <2>2, <2>3, <3>1 DEF TwoChildren
    <3> QED BY <1>1, <3>1, <3>4, <3>5, <3>6 DEF MinInv
  <2> QED BY <1>1, <2>7, <2>8 DEF MinInv
<1>9. DoomedInv' /\ MinInv'
  <2> SUFFICES ASSUME pc \notin {"remove", "min"} PROVE DoomedInv' /\ MinInv'
    BY <1>8
  <2> QED BY <1>1 DEF IInv, CallInv, DoomedInv, MinInv
<1> QED BY <1>2, <1>3, <1>4, <1>7, <1>9 DEF IInv, CallInv

LEMMA InvNext == IInv /\ [Next]_vars => IInv'
<1> SUFFICES ASSUME IInv, [Next]_vars PROVE IInv'
  OBVIOUS
<1>1. ASSUME NEW val \in Addresses, Find(val) \/ Remove(val) PROVE IInv'
  BY <1>1, StartStep
<1>2. ASSUME NEW new \in Proper, NEW ib \in Behaviors, Insert(new, ib) PROVE IInv'
  BY <1>2, StartStep
<1>3. CASE SplayStep
  BY <1>3, SplayStepInv
<1>4. CASE SecondRotation
  BY <1>4, SecondRotationInv
<1>5. CASE Splayed
  BY <1>5, SplayedInv
<1>6. CASE FindStep
  BY <1>6, FindStepInv
<1>7. CASE NotFound
  BY <1>7, NotFoundInv
<1>8. CASE Found
  BY <1>8, FoundInv
<1>9. CASE RemoveNode \/ RemoveSuccessor
  BY <1>9, RemovalInv
<1>10. CASE FindMin \/ FindMinStep
  BY <1>10, FindMinInv
<1>11. CASE DescendStep
  BY <1>11, DescendStepInv
<1>12. CASE Refuse
  BY <1>12, RefuseInv
<1>13. CASE Overlapped
  BY <1>13, OverlappedInv
<1>14. CASE Overwrite
  BY <1>14, OverwriteInv
<1>15. ASSUME NEW n \in NodeIds \ Nodes, Link(n) PROVE IInv'
  BY <1>15, LinkInv
<1>16. CASE Enter
  BY <1>16, EnterInv
<1>17. CASE Leave
  BY <1>17, LeaveInv
<1>18. ASSUME NEW s \in Sides, Visit(s) PROVE IInv'
  BY <1>18, VisitInv
<1>19. CASE UNCHANGED vars
  BY <1>19, StutterInv
<1> QED
  BY <1>1, <1>2, <1>3, <1>4, <1>5, <1>6, <1>7, <1>8, <1>9, <1>10, <1>11, <1>12, <1>13,
     <1>14, <1>15, <1>16, <1>17, <1>18, <1>19 DEF Next

LEMMA Invariant == Spec => []IInv
  BY InvInit, InvNext, PTL DEF Spec

LEMMA InvTypeOK == IInv => TypeOK
  BY DEF IInv, TreeInv, TypeTree, CallInv, TypeLocal, Frame, TypeOK

LEMMA InvValidTree == IInv => ValidTree
<1> SUFFICES ASSUME IInv PROVE ValidTree
  OBVIOUS
<1>1. TreeInv
  BY DEF IInv
<1>2. ASSUME NEW n \in Nodes
      PROVE  /\ \A l \in Below(child[n]["left"]) : span[l].bound <= span[n].base
             /\ \A r \in Below(child[n]["right"]) : span[n].bound <= span[r].base
  BY <1>1, TreeFacts, OtherSide DEF Beside
<1>3. Cardinality(Nodes) = numNodes
  BY <1>1 DEF TreeInv
<1> QED BY <1>1, <1>2, <1>3, TreeFacts DEF ValidTree

(* Type correctness, for any set of addresses and nodes. *)
THEOREM TypeCorrect == Spec => []TypeOK
  BY Invariant, InvTypeOK, PTL

(* In every step of every call, the tree is a search tree whose links and   *)
(* back links agree and that holds exactly the allocated nodes              *)
(* (validateTree, tree_tools.c:85).                                         *)
THEOREM AlwaysValid == Spec => []ValidTree
  BY Invariant, InvValidTree, PTL

-----------------------------------------------------------------------------
(* The tree implements IntervalMap                                         *)

Spans == {span[n] : n \in Nodes}

(* What is left when the new interval has taken the place of all that it overlaps *)
Kept == {span[n] : n \in {m \in Nodes : ~Hot(m)}}

LEMMA ContentsThen ==
  /\ ~Clearing => Contents = Spans
  /\ Clearing /\ Hot(stack[1].node) => Contents = Kept \cup {Result(stack[1].node)}
  /\ ~Clearing' => Contents' = Spans'
  /\ Clearing' /\ Hot(stack[1].node)' => Contents' = Kept' \cup {Result(stack[1].node)'}
<1>1. ASSUME Hot(stack[1].node)
      PROVE  {span[n] : n \in {m \in Nodes \ {stack[1].node} : ~Overlaps(span[m], arg)}} = Kept
  BY <1>1 DEF Kept, Hot
<1>2. ASSUME Hot(stack[1].node)'
      PROVE  {span[n] : n \in {m \in Nodes \ {stack[1].node} : ~Overlaps(span[m], arg)}}' = Kept'
  BY <1>2 DEF Kept, Hot
<1> QED BY <1>1, <1>2 DEF Contents, Spans

LEMMA MapOperators ==
  /\ Map!Proper = Proper
  /\ \A c, new : Map!Overlap(c, new) <=> Overlaps(c, new)
  /\ \A new : Map!Overlapping(new) = {c \in Contents : Overlaps(c, new)}
  /\ \A val : Map!Holding(val) = {c \in Contents : c.base <= val /\ val < c.bound}
<1>1. Map!Proper = Proper
  BY DEF Map!Proper, Map!Intervals, Proper
<1>2. \A c, new : Map!Overlap(c, new) <=> Overlaps(c, new)
  BY DEF Map!Overlap, Overlaps
<1>3. \A new : Map!Overlapping(new) = {c \in Contents : Overlaps(c, new)}
  BY <1>2 DEF Map!Overlapping
<1> QED BY <1>1, <1>2, <1>3 DEF Map!Holding

LEMMA MapInit == Init => Map!Init
  BY DEF Init, Map!Init, Contents, Clearing, Nodes

(* Outside of clearing, a step that keeps the intervals is a stutter. *)
LEMMA MapStutter ==
  ASSUME ~Clearing, ~Clearing', span' = span, answer' = answer
  PROVE  UNCHANGED Map!vars
<1>1. Spans' = Spans
  BY DEF Spans, Nodes
<1> QED BY <1>1, ContentsThen DEF Map!vars

LEMMA NotClearing ==
  ASSUME IInv, pc \in {"idle", "find", "descend", "splay", "second"}
  PROVE  stack = <<>> /\ ~Clearing
  BY DEF IInv, CallInv, IdleInv, FindInv, DescendInv, SplayInv, Clearing

LEMMA QuietRefines ==
  ASSUME IInv, NEW val, NEW ib, Start("find", "find", val) \/ Start("find", "remove", val)
                  \/ Start("descend", ib, val)
                  \/ FindStep \/ DescendStep \/ Splayed \/ SplayStep \/ SecondRotation
  PROVE  UNCHANGED Map!vars
<1>1. pc \in {"idle", "find", "descend", "splay", "second"}
  BY DEF Start, FindStep, DescendStep, Splayed, SplayStep, SecondRotation
<1>2. stack' = <<>> /\ span' = span /\ answer' = answer
  <2>1. stack = <<>>
    BY <1>1, NotClearing
  <2> QED BY <2>1 DEF Start, FindStep, DescendStep, Splayed, SplayStep, SecondRotation, Rotate, Return, tree
<1> QED BY <1>1, <1>2, NotClearing, MapStutter DEF Clearing

LEMMA FindRefines ==
  ASSUME IInv, NotFound \/ Found
  PROVE  [Map!Next]_(Map!vars)
<1>1. /\ pc = "find" /\ ~Clearing /\ answer # Conflict /\ stack = <<>>
      /\ call \in {"find", "remove"} /\ arg \in Addresses
      /\ \A m \in Nodes : Holds(m, arg) => m \in Below(cur)
  BY NotClearing DEF NotFound, Found, IInv, CallInv, IdleInv, FindInv
<1>2. Contents = Spans
  BY <1>1, ContentsThen
<1>3. /\ span' = span /\ ~Clearing'
  BY <1>1 DEF NotFound, Found, Clearing, Return, tree
<1>4. Contents' = Contents
  <2>1. Spans' = Spans
    BY <1>3 DEF Spans, Nodes
  <2> QED BY <1>2, <1>3, <2>1, ContentsThen
<1>5. Map!Holding(arg) = {span[n] : n \in {m \in Nodes : Holds(m, arg)}}
  BY <1>2, MapOperators DEF Spans, Holds
<1>6. CASE NotFound
  <2>1. Map!Holding(arg) = {}
    BY <1>1, <1>5, <1>6, TreeFacts DEF NotFound, IInv
  <2>2. Map!Find(arg)
    BY <1>4, <1>6, <2>1 DEF Map!Find, NotFound
  <2> QED BY <1>1, <2>2 DEF Map!Next
<1>7. CASE Found /\ call = "find"
  <2>1. cur \in Nodes /\ Holds(cur, arg) /\ answer' = span[cur]
    BY <1>7 DEF Found, IInv, CallInv, TypeLocal
  <2>2. answer' \in Map!Holding(arg)
    BY <1>5, <2>1
  <2>3. Map!Find(arg)
    BY <1>4, <2>2 DEF Map!Find
  <2> QED BY <1>1, <2>3 DEF Map!Next
<1>8. CASE Found /\ call # "find"
  BY <1>4, <1>8 DEF Found, Map!vars
<1> QED BY <1>6, <1>7, <1>8

LEMMA LinkRefines ==
  ASSUME IInv, NEW n \in NodeIds \ Nodes, Link(n)
  PROVE  Map!Next
<1>1. /\ pc = "descend" /\ cur = Null /\ ~Clearing /\ answer # Conflict /\ stack = <<>>
      /\ arg \in Proper /\ \A m \in Nodes : Hot(m) => m \in Below(cur)
  BY NotClearing DEF Link, IInv, CallInv, IdleInv, DescendInv
<1>2. /\ Contents = Spans /\ Contents' = Spans'
  <2>1. ~Clearing'
    BY <1>1 DEF Link, Clearing
  <2> QED BY <1>1, <2>1, ContentsThen
<1>3. \A m \in Nodes : ~Hot(m)
  BY <1>1, TreeFacts DEF IInv
<1>4. Map!Overlapping(arg) = {}
  BY <1>2, <1>3, MapOperators DEF Spans, Hot
<1>5. Spans' = Spans \cup {arg}
  BY DEF Link, Spans, Nodes
<1>6. Map!Add(arg)
  BY <1>2, <1>4, <1>5 DEF Map!Add, Link
<1> QED BY <1>1, <1>6, MapOperators DEF Map!Next

(* An insertion that meets a node takes effect there. *)
LEMMA MeetRefines ==
  ASSUME IInv, Refuse \/ Overlapped
  PROVE  Map!Next
<1>1. /\ pc = "descend" /\ cur \in Nodes /\ ~Clearing /\ answer # Conflict /\ stack = <<>>
      /\ arg \in Proper /\ call \in Behaviors
  BY NotClearing DEF Refuse, Overlapped, IInv, CallInv, IdleInv, DescendInv, TypeLocal
<1>2. Hot(cur)
  <2>1. span[cur] \in Proper
    BY <1>1 DEF IInv, TreeInv, TypeTree
  <2>2. Meets(cur)
    BY DEF Refuse, Overlapped
  <2> QED BY <1>1, <2>1, <2>2, ProperBounds DEF Meets, Hot, Overlaps
<1>3. Contents = Spans
  BY <1>1, ContentsThen
<1>4. span[cur] \in Map!Overlapping(arg)
  BY <1>1, <1>2, <1>3, MapOperators DEF Spans, Hot
<1>5. Map!Refuse(arg) \/ Map!Extend(arg) \/ Map!Replace(arg)
  <2>1. CASE Refuse
    <3>1. stack' = <<>> /\ span' = span /\ answer' = Conflict
      BY <2>1 DEF Refuse, Return, tree
    <3>2. Contents' = Contents
      <4>1. Spans' = Spans
        BY <3>1 DEF Spans, Nodes
      <4>2. ~Clearing'
        BY <3>1 DEF Clearing
      <4> QED BY <1>3, <4>1, <4>2, ContentsThen
    <3> QED BY <1>4, <3>1, <3>2 DEF Map!Refuse
  <2>2. CASE Overlapped
    <3>1. /\ stack' # <<>> /\ stack'[1].node = cur /\ answer' = Result(cur)
          /\ span' = span /\ call' = call /\ arg' = arg /\ call \in {"IB_EXTEND", "IB_REPLACE"}
      BY <1>1, <2>2 DEF Overlapped, tree, Behaviors
    <3>2. Kept' = Kept
      BY <3>1 DEF Kept, Nodes, Hot, Overlaps
    <3>3. Hot(stack[1].node)' /\ Result(stack[1].node)' = Result(cur)
      BY <1>2, <3>1 DEF Hot, Result, Overlaps
    <3>4. Contents' = Kept \cup {Result(cur)}
      BY <3>1, <3>2, <3>3, ContentsThen DEF Clearing
    <3>5. Contents \ Map!Overlapping(arg) = Kept
      BY <1>3, MapOperators DEF Spans, Kept, Hot
    <3>6. CASE call = "IB_EXTEND"
      <4>1. Map!Hull(span[cur], arg) = Result(cur)
        BY <3>6 DEF Map!Hull, Map!Lower, Map!Upper, Result, Lower, Upper
      <4> QED BY <1>4, <3>1, <3>4, <3>5, <4>1 DEF Map!Extend
    <3>7. CASE call = "IB_REPLACE"
      <4>1. Result(cur) = arg
        BY <3>7 DEF Result
      <4> QED BY <1>4, <3>1, <3>4, <3>5, <4>1 DEF Map!Replace
    <3> QED BY <3>1, <3>6, <3>7
  <2> QED BY <2>1, <2>2
<1> QED BY <1>1, <1>5, MapOperators DEF Map!Next

(* The overwritten node gets the interval that it stands for since the     *)
(* insertion met it.                                                        *)
LEMMA OverwriteRefines ==
  ASSUME IInv, Overwrite
  PROVE  UNCHANGED Map!vars
<1>1. PICK k \in Nodes : k = Top.node
  BY OverwriteFacts
<1>2. /\ stack # <<>> /\ call # "remove" /\ k = stack[1].node /\ Hot(k)
      /\ \A m \in Nodes \ {k} : ~Hot(m)
  BY <1>1, OverwriteFacts
<1>3. Contents = Kept \cup {Result(k)}
  BY <1>2, ContentsThen DEF Clearing
<1>4. /\ span' = [span EXCEPT ![k] = Result(k)] /\ stack' = <<>> /\ answer' = answer
      /\ span \in [Nodes -> Proper]
  BY <1>1 DEF Overwrite, IInv, TreeInv, TypeTree
<1>5. Spans' = Kept \cup {Result(k)}
  <2>1. Kept = {span[n] : n \in Nodes \ {k}}
    BY <1>2 DEF Kept
  <2>2. PICK i : i = Result(k)
    OBVIOUS
  <2>3. Nodes' = Nodes /\ span'[k] = i /\ \A n \in Nodes \ {k} : span'[n] = span[n]
    BY <1>4, <2>2 DEF Nodes
  <2>4. Spans' = {span'[n] : n \in Nodes}
    BY <2>3 DEF Spans
  <2> QED BY <2>1, <2>2, <2>3, <2>4
<1>6. ~Clearing'
  BY <1>4 DEF Clearing
<1>7. Contents' = Contents
  BY <1>3, <1>5, <1>6, ContentsThen
<1> QED BY <1>4, <1>7 DEF Map!vars

(* While an insertion clears, its own node stays the first on the stack. *)
LEMMA SameFirst ==
  ASSUME IInv, UNCHANGED <<span, call, arg, answer>>, stack # <<>>, stack' # <<>>,
         stack'[1].node = stack[1].node
  PROVE  UNCHANGED Map!vars
<1>1. CASE call = "remove"
  BY <1>1, MapStutter DEF Clearing
<1>2. CASE call # "remove"
  <2>1. Contents' = Contents
    BY <1>2 DEF Contents, Clearing, Nodes, Overlaps, Result
  <2> QED BY <2>1 DEF Map!vars
<1> QED BY <1>1, <1>2

LEMMA ClearingRefines ==
  ASSUME IInv, Enter \/ Leave \/ (\E s \in Sides : Visit(s)) \/ FindMin \/ FindMinStep
  PROVE  UNCHANGED Map!vars
<1>1. pc \in {"clear", "remove", "min"}
  BY DEF Enter, Leave, Visit, FindMin, FindMinStep
<1>2. stack \in Seq(Frame) /\ Len(stack) \in Nat /\ Len(stack) >= 1 /\ stack # <<>>
  <2>1. CASE call # "remove"
    <3>1. Visiting
      BY <1>1 DEF Visiting
    <3> QED BY <2>1, <3>1, StackFacts DEF Frames
  <2>2. CASE call = "remove"
    <3>1. stack \in Seq(Frame)
      BY DEF IInv, CallInv, TypeLocal
    <3>2. Len(stack) = 1
      BY <1>1, <2>2 DEF IInv, CallInv, DoomedInv
    <3>3. stack # <<>>
      BY <3>1, <3>2
    <3> QED BY <3>1, <3>2, <3>3
  <2> QED BY <2>1, <2>2
<1>3. ASSUME NEW label \in Sides \cup {"done"}
      PROVE  /\ At(label) # <<>> /\ At(label)[1].node = stack[1].node
             /\ \A f \in Frame : /\ Append(At(label), f) # <<>>
                                /\ Append(At(label), f)[1].node = stack[1].node
  <2> DEFINE old == [Top EXCEPT !.at = label]
  <2>1. Top = stack[Len(stack)] /\ old \in Frame /\ old.node = Top.node
    <3>1. Top = stack[Len(stack)] /\ Top \in Frame
      BY <1>2 DEF Top
    <3> QED BY <3>1 DEF Frame, Sides
  <2>2. At(label) = [stack EXCEPT ![Len(stack)] = old]
    BY <1>2, <2>1 DEF At
  <2> HIDE DEF old
  <2>3. PICK u : u = At(label)
    OBVIOUS
  <2>4. u \in Seq(Frame) /\ Len(u) = Len(stack) /\ u[1].node = stack[1].node
    BY <1>2, <2>1, <2>2, <2>3
  <2>5. u # <<>>
    BY <1>2, <2>4
  <2>6. ASSUME NEW f \in Frame PROVE Append(u, f) # <<>> /\ Append(u, f)[1] = u[1]
    BY <1>2, <2>4, AppendProperties
  <2> QED BY <2>3, <2>4, <2>5, <2>6
<1>4. Len(stack) > 1 => Popped # <<>> /\ Popped[1].node = stack[1].node
  BY <1>2, PoppedFacts
<1>5. ASSUME NEW s \in Sides, Visit(s)
      PROVE  stack' # <<>> /\ stack'[1].node = stack[1].node
  <2> DEFINE below == child[Top.node][s]
             label == IF s = "left" THEN "right" ELSE "done"
  <2>1. CASE stack' = At(label)
    BY <1>3, <2>1 DEF Sides
  <2>2. CASE below # Null /\ stack' = Append(At(label), [node |-> below, at |-> "enter"])
    <3>1. Top.node \in Nodes /\ child \in [Nodes -> [Sides -> Nodes \cup {Null}]]
      <4>1. Top \in Frame
        BY <1>2 DEF Top
      <4> QED BY <4>1 DEF Frame, IInv, TreeInv, TypeTree
    <3>2. [node |-> below, at |-> "enter"] \in Frame
      BY <1>5, <2>2, <3>1 DEF Frame
    <3> QED BY <1>3, <2>2, <3>2 DEF Sides
  <2> QED BY <1>5, <2>1, <2>2 DEF Visit, Continue, Sides
<1>6. /\ UNCHANGED <<span, call, arg, answer>>
      /\ stack' # <<>> /\ stack'[1].node = stack[1].node
  BY <1>2, <1>3, <1>4, <1>5 DEF Enter, Leave, Visit, FindMin, FindMinStep, Continue, StartRemoval, tree, local, Sides
<1> QED BY <1>2, <1>6, SameFirst

LEMMA SpansDiffer ==
  ASSUME IInv, NEW m \in Nodes, NEW n \in Nodes, m # n
  PROVE  span[m] # span[n] /\ ~Overlaps(span[m], span[n])
<1>1. span[m] \in Proper /\ span[n] \in Proper /\ ~Overlaps(span[m], span[n])
  BY DEF IInv, TreeInv, TypeTree, Apart
<1>2. Overlaps(span[m], span[m])
  BY <1>1, ProperBounds DEF Overlaps
<1> QED BY <1>1, <1>2

LEMMA RemovalRefines ==
  ASSUME IInv, RemoveNode \/ RemoveSuccessor
  PROVE  [Map!Next]_(Map!vars)
<1>1. pc \in {"remove", "min"}
  BY DEF RemoveNode, RemoveSuccessor
<1>2. PICK e \in Nodes, d \in Nodes, b \in Nodes \cup {Null} : Removes(e, b, d)
  BY RemovalFacts
<1>3. /\ d = Doomed /\ Removed /\ Nodes' = Nodes \ {e}
      /\ d # e => e \in Below(child[d]["right"])
      /\ \A n \in Nodes \ {e} : span'[n] = IF n = d THEN span[e] ELSE span[n]
  BY <1>2 DEF Removes
<1>4. /\ answer # Conflict /\ \A n \in Nodes : span[n] \in Proper
      /\ stack \in Seq(Frame) /\ Len(stack) \in Nat /\ Len(stack) >= 1
      /\ call = "remove" => Len(stack) = 1 /\ arg \in Addresses /\ Holds(d, arg)
      /\ call # "remove" => Len(stack) > 1 /\ Hot(d) /\ \A s \in Sides : Clean(d, s)
  BY <1>1, <1>3, DoomedFacts DEF IInv, CallInv, IdleInv, TreeInv, TypeTree
<1>5. CASE call = "remove"
  <2>1. Return /\ answer' = span[d]
    BY <1>3, <1>5 DEF Removed
  <2>2. Contents = Spans /\ Contents' = Spans'
    BY <1>5, <2>1, ContentsThen DEF Return, Clearing
  <2>3. Map!Holding(arg) = {span[d]}
    <3>1. ASSUME NEW m \in Nodes, Holds(m, arg) PROVE m = d
      <4>1. Overlaps(span[m], span[d])
        BY <1>4, <1>5, <3>1, ProperBounds, TreeAssumption DEF Overlaps, Holds
      <4> QED BY <4>1, SpansDiffer
    <3>2. Map!Holding(arg) = {span[n] : n \in {m \in Nodes : Holds(m, arg)}}
      BY <2>2, MapOperators DEF Spans, Holds
    <3> QED BY <1>4, <1>5, <3>1, <3>2
  <2>4. Spans' = Spans \ {span[d]}
    <3>1. Spans' = {span'[n] : n \in Nodes \ {e}}
      BY <1>3 DEF Spans
    <3>2. Spans \ {span[d]} = {span[n] : n \in Nodes \ {d}}
      BY SpansDiffer DEF Spans
    <3>3. CASE d = e
      BY <1>3, <3>1, <3>2, <3>3
    <3>4. CASE d # e
      <4>1. ASSUME NEW n \in Nodes \ {e} PROVE \E m \in Nodes \ {d} : span'[n] = span[m]
        BY <1>3, <3>4
      <4>2. ASSUME NEW m \in Nodes \ {d} PROVE \E n \in Nodes \ {e} : span[m] = span'[n]
        <5>1. CASE m = e
          BY <1>3, <3>4, <5>1
        <5>2. CASE m # e
          BY <1>3, <5>2
        <5> QED BY <5>1, <5>2
      <4> QED BY <3>1, <3>2, <4>1, <4>2
    <3> QED BY <3>3, <3>4
  <2>5. Map!Remove(arg)
    BY <2>1, <2>2, <2>3, <2>4 DEF Map!Remove
  <2> QED BY <1>4, <1>5, <2>5 DEF Map!Next
<1>6. CASE call # "remove"
  <2>1. /\ Visiting /\ stack' = Popped /\ UNCHANGED <<call, arg, answer>>
    BY <1>1, <1>3, <1>6 DEF Visiting, Removed
  <2>2. PICK t \in Nodes : t = stack[1].node
    BY <1>4, <1>6, <2>1, StackFacts
  <2>3. Popped # <<>> /\ Popped[1] = stack[1]
    BY <1>4, <1>6, PoppedFacts
  <2>4. Hot(t) /\ d \in Below(stack[2].node) /\ Inner(stack[1]) = stack[2].node /\ stack[2].node \in Nodes
    <3>1. /\ Hot(stack[1].node)
          /\ \A i \in 1..Len(stack)-1 : Inner(stack[i]) = stack[i+1].node
          /\ \A i, j \in 1..Len(stack) : i < j => stack[j].node \in Below(stack[i+1].node)
          /\ \A i \in 1..Len(stack) : stack[i].node \in Nodes
      BY <1>6, <2>1, StackFacts DEF Frames
    <3>2. d = stack[Len(stack)].node
      BY <1>3 DEF Doomed, Top
    <3> QED BY <1>4, <1>6, <2>2, <3>1, <3>2
  <2>5. t # d /\ t # e
    <3>1. PICK s \in Sides : stack[2].node = child[t][s]
      BY <2>2, <2>4 DEF Inner, Sides
    <3>2. Below(stack[2].node) \subseteq Nodes /\ t \notin Below(stack[2].node)
      BY <2>4, <3>1, TreeFacts DEF IInv
    <3>3. e \in Below(stack[2].node)
      <4>1. CASE d = e
        BY <2>4, <4>1
      <4>2. CASE d # e
        <5>1. e \in Below(d)
          BY <1>3, <4>2, TreeFacts, OtherSide DEF IInv
        <5> QED BY <2>4, <5>1, TreeFacts DEF IInv
      <4> QED BY <4>1, <4>2
    <3> QED BY <2>4, <3>2, <3>3
  <2>6. span'[t] = span[t]
    BY <1>3, <2>5
  <2>8. stack'[1].node = t /\ stack' # <<>>
    BY <2>1, <2>2, <2>3
  <2>9. Hot(stack[1].node)' /\ Result(stack[1].node)' = Result(t)
    BY <2>1, <2>4, <2>6, <2>8 DEF Hot, Overlaps, Result
  <2>10. /\ Contents = Kept \cup {Result(t)} /\ Contents' = Kept' \cup {Result(t)}
    <3>1. Clearing /\ Hot(stack[1].node) /\ Result(stack[1].node) = Result(t)
      BY <1>4, <1>6, <2>2, <2>4 DEF Clearing
    <3>2. Clearing' /\ Hot(stack[1].node)'
      BY <1>6, <2>1, <2>8, <2>9 DEF Clearing
    <3>3. Contents = Kept \cup {Result(stack[1].node)}
      BY <3>1, ContentsThen
    <3>4. Contents' = Kept' \cup {Result(stack[1].node)'}
      BY <3>2, ContentsThen
    <3> QED BY <2>9, <3>1, <3>3, <3>4
  <2>11. Kept' = Kept
    <3>1. Kept' = {span'[n] : n \in {m \in Nodes \ {e} : ~Overlaps(span'[m], arg)}}
      BY <1>3, <2>1 DEF Kept, Hot, Overlaps
    <3>2. Kept = {span[n] : n \in {m \in Nodes : ~Overlaps(span[m], arg)}}
      BY DEF Kept, Hot
    <3>3. Overlaps(span[d], arg)
      BY <1>4, <1>6 DEF Hot
    <3>4. CASE d = e
      BY <1>3, <3>1, <3>2, <3>3, <3>4
    <3>5. CASE d # e
      <4>1. ~Overlaps(span[e], arg)
        BY <1>3, <1>4, <1>6, <3>5, OtherSide DEF Clean, Hot
      <4>2. ASSUME NEW n \in Nodes \ {e}, ~Overlaps(span'[n], arg)
            PROVE  \E m \in Nodes : ~Overlaps(span[m], arg) /\ span'[n] = span[m]
        <5>1. span'[n] = IF n = d THEN span[e] ELSE span[n]
          BY <1>3
        <5>2. CASE n = d
          BY <4>1, <5>1, <5>2
        <5>3. CASE n # d
          BY <4>2, <5>1, <5>3
        <5> QED BY <5>2, <5>3
      <4>3. ASSUME NEW m \in Nodes, ~Overlaps(span[m], arg)
            PROVE  \E n \in Nodes \ {e} : ~Overlaps(span'[n], arg) /\ span[m] = span'[n]
        <5>1. CASE m = e
          <6>1. span'[d] = span[m] /\ d \in Nodes \ {e}
            BY <1>3, <3>5, <5>1
          <6> QED BY <4>3, <6>1
        <5>2. CASE m # e
          <6>1. span'[m] = span[m]
            BY <1>3, <3>3, <4>3, <5>2
          <6> QED BY <4>3, <5>2, <6>1
        <5> QED BY <5>1, <5>2
      <4> QED BY <3>1, <3>2, <4>2, <4>3
    <3> QED BY <3>4, <3>5
  <2> QED BY <2>1, <2>10, <2>11 DEF Map!vars
<1> QED BY <1>5, <1>6

LEMMA StepRefines == IInv /\ [Next]_vars => [Map!Next]_(Map!vars)
<1> SUFFICES ASSUME IInv, [Next]_vars PROVE [Map!Next]_(Map!vars)
  OBVIOUS
<1>1. ASSUME NEW val \in Addresses, Find(val) \/ Remove(val) PROVE UNCHANGED Map!vars
  BY <1>1, QuietRefines DEF Find, Remove
<1>2. ASSUME NEW new \in Proper, NEW ib \in Behaviors, Insert(new, ib) PROVE UNCHANGED Map!vars
  BY <1>2, QuietRefines DEF Insert
<1>3. CASE SplayStep \/ SecondRotation \/ Splayed \/ FindStep \/ DescendStep
  BY <1>3, QuietRefines
<1>4. CASE NotFound \/ Found
  BY <1>4, FindRefines
<1>5. CASE RemoveNode \/ RemoveSuccessor
  BY <1>5, RemovalRefines
<1>6. CASE Refuse \/ Overlapped
  BY <1>6, MeetRefines
<1>7. CASE Overwrite
  BY <1>7, OverwriteRefines
<1>8. ASSUME NEW n \in NodeIds \ Nodes, Link(n) PROVE Map!Next
  BY <1>8, LinkRefines
<1>9. CASE Enter \/ Leave \/ (\E s \in Sides : Visit(s)) \/ FindMin \/ FindMinStep
  BY <1>9, ClearingRefines
<1>10. CASE UNCHANGED vars
  BY <1>10 DEF vars, tree, local, Map!vars, Contents, Clearing, Nodes, Overlaps, Result
<1> QED
  BY <1>1, <1>2, <1>3, <1>4, <1>5, <1>6, <1>7, <1>8, <1>9, <1>10 DEF Next

(* Whatever the shape of the tree, every call answers and changes the set   *)
(* of intervals as IntervalMap says; an insertion takes effect when it      *)
(* meets the first interval that it overlaps (tree.c:330), a removal when   *)
(* its node leaves the tree.                                                *)
THEOREM Refinement == Spec => ImplementsIntervalMap
  BY Invariant, MapInit, StepRefines, PTL DEF Spec, ImplementsIntervalMap, Map!Spec

-----------------------------------------------------------------------------
(* The loops advance                                                       *)

LEMMA SiblingsApart ==
  ASSUME TreeInv, NEW n \in Nodes, NEW s \in Sides, NEW m \in Below(child[n][s])
  PROVE  m \notin Below(child[n][Other(s)])
<1> SUFFICES ASSUME m \in Below(child[n][Other(s)]) PROVE FALSE
  OBVIOUS
<1>1. /\ child[n][s] # Null /\ child[n][Other(s)] # Null /\ Other(s) \in Sides /\ Other(s) # s
      /\ m \in Nodes
  BY TreeFacts, OtherSide
<1>2. \A t \in Sides : \A k \in Below(child[n][t]) : Beside(span[k], span[n], t)
  BY TreeFacts
<1>3. Beside(span[m], span[n], s) /\ Beside(span[m], span[n], Other(s))
  BY <1>1, <1>2
<1>4. span[m] \in Proper /\ span[n] \in Proper
  BY <1>1 DEF TreeInv, TypeTree
<1> QED BY <1>1, <1>3, <1>4, ProperBounds DEF Beside, Sides

(* A rotation of the edge above a node, or of the edge above its parent on  *)
(* the same side, takes one node from its path to the root.                 *)
LEMMA RotationNearer ==
  ASSUME IInv, NEW c \in Nodes, NEW p \in Nodes, NEW s \in Sides, child[p][s] # Null, Rotate(p, s),
         c = child[p][s] \/ c = child[child[p][s]][s]
  PROVE  Above(c)' = Above(c) \ {p} /\ p \in Above(c)
<1>1. TreeInv /\ Null \notin Nodes
  BY NoNull DEF IInv, TreeInv
<1>2. PICK x \in Nodes : x = child[p][s]
  BY <1>1, TreeFacts
<1>3. PICK y \in Nodes \cup {Null} : y = child[x][Other(s)]
  BY OtherSide DEF IInv, TreeInv, TypeTree
<1>4. PICK z \in Nodes \cup {Null} : z = child[p][Other(s)]
  BY OtherSide DEF IInv, TreeInv, TypeTree
<1>5. /\ SubOf' = Rotated(child, SubOf, p, s) /\ Nodes' = Nodes
  BY <1>1, RotateStep
<1>6. \A n \in Nodes : Below(n)' = IF n = x THEN Below(p)
                                   ELSE IF n = p THEN {p} \cup Below(y) \cup Below(z)
                                   ELSE Below(n)
  <2>1. SubOf = [n \in Nodes |-> Below(n)] /\ SubOf' = [n \in Nodes |-> Below(n)']
    BY <1>5 DEF SubOf
  <2>2. Below(Null) = {}
    BY DEF Below
  <2> QED BY <1>2, <1>3, <1>4, <1>5, <2>1, <2>2 DEF Rotated
<1>7. /\ x # p /\ x \in Below(x) /\ Below(x) \subseteq Below(p) /\ p \notin Below(x) /\ c \in Below(x)
  <2>1. x # p /\ x \in Below(x) /\ Below(x) \subseteq Below(p) /\ p \notin Below(x)
    BY <1>1, <1>2, TreeFacts
  <2>2. c = x \/ c = child[x][s]
    BY <1>2
  <2>3. c \in Below(c) /\ \A t \in Sides : Below(child[x][t]) \subseteq Below(x)
    BY <1>1, TreeFacts
  <2> QED BY <2>1, <2>2, <2>3
<1>8. c \notin Below(y)
  <2>1. CASE c = x
    BY <1>1, <1>3, <2>1, TreeFacts, OtherSide
  <2>2. CASE c = child[x][s]
    <3>1. c \in Below(child[x][s])
      BY <1>1, <2>2, TreeFacts
    <3> QED BY <1>1, <1>3, <3>1, SiblingsApart
  <2> QED BY <1>2, <2>1, <2>2
<1>9. c \notin Below(z)
  BY <1>1, <1>2, <1>4, <1>7, SiblingsApart
<1>10. c # p /\ c \in Below(p) /\ c \notin Below(p)'
  BY <1>6, <1>7, <1>8, <1>9
<1>11. Above(c)' = {n \in Nodes \ {c} : c \in Below(n)'}
  BY <1>5 DEF Above
<1>12. ASSUME NEW n \in Nodes \ {c} PROVE c \in Below(n)' <=> c \in Below(n) /\ n # p
  BY <1>6, <1>7, <1>10
<1> QED BY <1>10, <1>11, <1>12 DEF Above

LEMMA DescentAdvances ==
  ASSUME IInv, FindStep \/ DescendStep \/ FindMinStep
  PROVE  Below(cur)' \subseteq Below(cur) /\ Below(cur)' # Below(cur)
<1>1. TreeInv /\ cur \in Nodes /\ UNCHANGED tree
  <2>1. FindMinStep => cur \in Nodes
    <3> SUFFICES ASSUME FindMinStep PROVE cur \in Nodes
      OBVIOUS
    <3>1. pc = "min" /\ Doomed \in Nodes
      BY DoomedFacts DEF FindMinStep
    <3>2. cur \in Below(child[Doomed]["right"])
      BY <3>1 DEF IInv, CallInv, MinInv
    <3> QED BY <3>1, <3>2, TreeFacts, OtherSide DEF IInv
  <2> QED BY <2>1 DEF IInv, CallInv, TypeLocal, FindStep, DescendStep, FindMinStep
<1>2. \E s \in Sides : cur' = child[cur][s]
  <2>1. TypeLocal
    BY DEF IInv, CallInv
  <2> QED BY <2>1, OtherSide DEF FindStep, DescendStep, FindMinStep
<1>3. PICK c \in Nodes \cup {Null} : c = cur'
  BY <1>1, <1>2 DEF TreeInv, TypeTree
<1>4. Below(c)' = Below(c) /\ Below(cur)' = Below(c)'
  BY <1>1, <1>3, SameTree DEF Below, Closed
<1>5. Below(c) \subseteq Below(cur) /\ cur \notin Below(c) /\ cur \in Below(cur)
  BY <1>1, <1>2, <1>3, TreeFacts
<1> QED BY <1>4, <1>5

LEMMA RotationAdvances ==
  ASSUME IInv, SplayStep \/ SecondRotation
  PROVE  Above(cur)' \subseteq Above(cur) /\ Above(cur)' # Above(cur)
<1>1. /\ pc \in {"splay", "second"} /\ parent[cur] # Null /\ cur' = cur
  BY DEF SplayStep, SecondRotation, IInv, CallInv, SplayInv
<1>2. /\ cur \in Nodes /\ parent[cur] \in Nodes /\ side[cur] \in Sides
      /\ child[parent[cur]][side[cur]] = cur /\ cur # parent[cur] /\ cur # Null
  BY <1>1, SplayPlaces, TreeFacts DEF IInv
<1>3. PICK c \in Nodes : c = cur
  BY <1>2
<1>4. Above(cur)' = Above(c)'
  BY <1>1, <1>3 DEF Above
<1>5. \E p \in Nodes : Above(c)' = Above(c) \ {p} /\ p \in Above(c)
  <2>1. CASE Rotate(parent[cur], side[cur])
    BY <1>2, <1>3, <2>1, RotationNearer
  <2>2. CASE SplayStep /\ ~Zig /\ ZigZig /\ Rotate(parent[parent[cur]], side[cur])
    <3> DEFINE p == parent[cur]
               g == parent[p]
    <3>1. side[p] = side[cur] /\ g # Null
      BY <2>2 DEF Zig, ZigZig
    <3>2. g \in Nodes /\ child[g][side[p]] = p
      BY <1>2, <3>1, TreeFacts DEF IInv
    <3>3. p # Null
      BY <1>2, TreeFacts DEF IInv
    <3> HIDE DEF p, g
    <3>4. Rotate(g, side[cur]) /\ child[p][side[cur]] = cur /\ p \in Nodes
      BY <1>2, <2>2 DEF p, g
    <3> QED BY <1>2, <1>3, <3>1, <3>2, <3>3, <3>4, RotationNearer
  <2>3. SecondRotation => Rotate(parent[cur], side[cur])
    BY DEF SecondRotation, IInv, CallInv, SplayInv
  <2> QED BY <2>1, <2>2, <2>3 DEF SplayStep
<1> QED BY <1>3, <1>4, <1>5

(* What activations st have still to visit *)
PendingOf(st) ==
  {m \in Nodes : \E i \in 1..Len(st) : \E s \in Ahead(st[i]) : m \in Below(child[st[i].node][s])}

LEMMA AheadFacts ==
  /\ \A f : Ahead(f) \subseteq Sides
  /\ \A f : f.at \in {"enter", "left"} => Ahead(f) = Sides
  /\ \A f : f.at = "right" => Ahead(f) = {"right"}
  /\ \A f : f.at = "done" => Ahead(f) = {}
  BY DEF Ahead, Sides

(* While the tree stays as it is, only the activations matter. *)
LEMMA PendingQuiet ==
  ASSUME IInv, UNCHANGED tree, NEW st \in Seq(Frame), stack' = st
  PROVE  Pending' = PendingOf(st)
<1>1. /\ Nodes' = Nodes /\ child' = child
      /\ \A n \in Nodes \cup {Null} : Below(n)' = Below(n)
  BY QuietStep
<1>2. \A n \in Nodes, s \in Sides : child[n][s] \in Nodes \cup {Null}
  BY DEF IInv, TreeInv, TypeTree
<1>3. \A i \in 1..Len(st) : st[i].node \in Nodes
  <2>1. \A i \in 1..Len(st) : st[i] \in Frame
    OBVIOUS
  <2> QED BY <2>1 DEF Frame
<1>4. \A n \in Nodes, s \in Sides : Below(child[n][s])' = Below(child[n][s])
  BY <1>1, <1>2
<1>5. Pending' = {m \in Nodes : \E i \in 1..Len(st) : \E s \in Ahead(st[i]) : m \in Below(child[st[i].node][s])'}
  BY <1>1 DEF Pending, Ahead
<1>6. \A i \in 1..Len(st) : \A s \in Ahead(st[i]) :
        Below(child[st[i].node][s])' = Below(child[st[i].node][s])
  BY <1>3, <1>4, AheadFacts
<1> QED BY <1>5, <1>6 DEF PendingOf

LEMMA AtFacts ==
  ASSUME IInv, Visiting, call # "remove", NEW label \in Sides \cup {"done"}
  PROVE  /\ At(label) \in Seq(Frame) /\ Len(At(label)) = Len(stack)
         /\ \A i \in 1..Len(stack) : At(label)[i].node = stack[i].node
         /\ \A i \in 1..Len(stack)-1 : At(label)[i] = stack[i]
         /\ At(label)[Len(stack)].at = label
<1> DEFINE L == Len(stack)
           old == [Top EXCEPT !.at = label]
<1>1. /\ stack \in Seq(Frame) /\ L \in Nat /\ L >= 1 /\ Top = stack[L] /\ Top \in Frame
  BY StackFacts
<1>2. old \in Frame /\ old.node = Top.node /\ old.at = label
  BY <1>1 DEF Frame, Sides
<1>3. At(label) = [stack EXCEPT ![L] = old]
  BY <1>1 DEF At
<1> HIDE DEF old
<1>4. PICK u : u = At(label)
  OBVIOUS
<1>5. /\ u \in Seq(Frame) /\ Len(u) = L
      /\ \A i \in 1..L : u[i] = IF i = L THEN old ELSE stack[i]
  BY <1>1, <1>2, <1>3, <1>4
<1> QED BY <1>1, <1>2, <1>4, <1>5

(* What a visit of a child adds to what is pending was pending, and the     *)
(* child itself is pending no longer.                                       *)
LEMMA PushAdvances ==
  ASSUME IInv, Visiting, call # "remove", NEW s \in Sides, Top.at = s, child[Top.node][s] # Null,
         NEW label, label = IF s = "left" THEN "right" ELSE "done",
         NEW st, st = Append(At(label), [node |-> child[Top.node][s], at |-> "enter"])
  PROVE  st \in Seq(Frame) /\ PendingOf(st) \subseteq Pending /\ PendingOf(st) # Pending
<1> DEFINE L == Len(stack)
           c == child[Top.node][s]
           n == Top.node
<1>1. /\ Frames(stack) /\ stack \in Seq(Frame) /\ L \in Nat /\ L >= 1 /\ Top = stack[L] /\ Top \in Frame
      /\ \A i \in 1..L : stack[i] \in Frame /\ stack[i].node \in Nodes
      /\ n \in Nodes
  BY StackFacts
<1>2. /\ c \in Nodes /\ c \in Below(c) /\ Below(c) \subseteq Below(n)
      /\ \A u \in Sides : Below(child[c][u]) \subseteq Below(c) /\ c \notin Below(child[c][u])
  BY <1>1, TreeFacts DEF IInv
<1>3. label \in Sides \cup {"done"}
  BY DEF Sides
<1>4. [node |-> c, at |-> "enter"] \in Frame
  BY <1>2 DEF Frame
<1>5. PICK mid : mid = At(label)
  OBVIOUS
<1>6. /\ mid \in Seq(Frame) /\ Len(mid) = L
      /\ \A i \in 1..L : mid[i].node = stack[i].node
      /\ \A i \in 1..L-1 : mid[i] = stack[i]
      /\ mid[L].at = label
  BY <1>3, <1>5, AtFacts
<1>7. /\ st \in Seq(Frame) /\ Len(st) = L + 1
      /\ st[L + 1].node = c /\ st[L + 1].at = "enter"
      /\ \A i \in 1..L : st[i] = mid[i]
  <2>1. PICK f \in Frame : f = [node |-> c, at |-> "enter"]
    BY <1>4
  <2>2. st = Append(mid, f) /\ f.node = c /\ f.at = "enter"
    BY <1>5, <2>1
  <2>3. st \in Seq(Frame) /\ Len(st) = L + 1 /\ st[L + 1] = f /\ \A i \in 1..L : st[i] = mid[i]
    <3>1. mid \in Seq(Frame) /\ Len(mid) = L
      BY <1>6
    <3>2. /\ Append(mid, f) \in Seq(Frame) /\ Len(Append(mid, f)) = Len(mid) + 1
          /\ Append(mid, f)[Len(mid) + 1] = f
          /\ \A i \in 1..Len(mid) : Append(mid, f)[i] = mid[i]
      BY <3>1
    <3>3. st = Append(mid, f)
      BY <2>2
    <3> HIDE DEF L
    <3> QED BY ONLY <3>1, <3>2, <3>3
  <2> QED BY <2>2, <2>3
<1> HIDE DEF c, n
<1>8. s \in Ahead(stack[L]) /\ (\A u \in Ahead(mid[L]) : u = Other(s) /\ u \in Ahead(stack[L]))
  BY <1>1, <1>6, AheadFacts, OtherSide DEF Sides
<1>9. \A i \in 1..L : st[i].node = stack[i].node
  BY <1>6, <1>7
<1>10. c \in Pending
  BY <1>1, <1>2, <1>8 DEF Pending, c, n
<1>11. PendingOf(st) \subseteq Pending
  <2> SUFFICES ASSUME NEW m \in Nodes, NEW i \in 1..L+1, NEW u \in Ahead(st[i]), m \in Below(child[st[i].node][u])
               PROVE  m \in Pending
    <3>1. Len(st) = L + 1
      BY <1>7
    <3> HIDE DEF L
    <3> QED BY <3>1 DEF PendingOf
  <2>1. CASE i = L + 1
    <3>1. m \in Below(child[n][s])
      BY <1>2, <1>7, <2>1, AheadFacts DEF c, n
    <3> QED BY <1>1, <1>8, <3>1 DEF Pending, n
  <2>2. CASE i = L
    <3>1. u \in Ahead(stack[L]) /\ m \in Below(child[stack[L].node][u])
      BY <1>1, <1>7, <1>8, <1>9, <2>2
    <3> QED BY <1>1, <3>1 DEF Pending
  <2>3. CASE i \in 1..L-1
    <3>1. i \in 1..L
      BY <1>1, <2>3
    <3>2. st[i] = stack[i]
      BY <1>6, <1>7, <2>3, <3>1
    <3> QED BY <3>1, <3>2 DEF Pending
  <2> QED BY <1>1, <2>1, <2>2, <2>3
<1>12. c \notin PendingOf(st)
  <2> SUFFICES ASSUME c \in PendingOf(st) PROVE FALSE
    OBVIOUS
  <2>1. \E i \in 1..Len(st) : \E u \in Ahead(st[i]) : c \in Below(child[st[i].node][u])
    BY DEF PendingOf
  <2>2. Len(st) = L + 1
    BY <1>7
  <2>3. PICK i \in 1..L+1 : \E u \in Ahead(st[i]) : c \in Below(child[st[i].node][u])
    BY ONLY <2>1, <2>2
  <2>4. PICK u \in Ahead(st[i]) : c \in Below(child[st[i].node][u])
    BY <2>3
  <2>5. CASE i = L + 1
    BY <1>2, <1>7, <2>4, <2>5, AheadFacts
  <2>6. CASE i = L
    <3>1. u = Other(s) /\ c \in Below(child[n][u])
      BY <1>1, <1>7, <1>8, <1>9, <2>4, <2>6 DEF n
    <3>2. c \in Below(child[n][s])
      BY <1>2 DEF c, n
    <3> QED BY <1>1, <3>1, <3>2, SiblingsApart DEF IInv
  <2>7. CASE i \in 1..L-1
    <3>1. i \in 1..L /\ i + 1 \in 1..L /\ L \in 1..L /\ i < L /\ stack[i].node \in Nodes
      BY <1>1, <2>7
    <3>2. u \in Ahead(stack[i]) /\ c \in Below(child[stack[i].node][u])
      BY <1>6, <1>7, <2>4, <2>7, <3>1
    <3>3. stack[i].at \in {"right", "done"} /\ Inner(stack[i]) = stack[i+1].node /\ n \in Below(stack[i+1].node)
      BY <1>1, <2>7, <3>1 DEF Frames, n
    <3>4. u = "right" /\ stack[i].at = "right"
      BY <3>2, <3>3, AheadFacts
    <3>5. stack[i+1].node = child[stack[i].node]["left"]
      BY <3>3, <3>4 DEF Inner
    <3>6. c \in Below(child[stack[i].node]["left"])
      <4>1. stack[i+1].node \in Nodes
        BY <1>1, <3>1
      <4>2. Below(n) \subseteq Below(stack[i+1].node)
        BY <3>3, <4>1, TreeFacts DEF IInv
      <4> QED BY <1>2, <3>5, <4>2
    <3> QED BY <3>1, <3>2, <3>4, <3>6, SiblingsApart, OtherSide DEF IInv, Other
  <2> QED BY <1>1, <2>5, <2>6, <2>7
<1> QED BY <1>7, <1>10, <1>11, <1>12

(* An activation that goes on without a visit *)
LEMMA AtAdvances ==
  ASSUME IInv, Visiting, call # "remove", NEW label \in Sides \cup {"done"},
         \/ Top.at = "enter" /\ label = "left"
         \/ Top.at = "left" /\ label = "right"
         \/ Top.at = "right" /\ label = "done"
  PROVE  At(label) \in Seq(Frame) /\ PendingOf(At(label)) \subseteq Pending
<1> DEFINE L == Len(stack)
<1>1. stack \in Seq(Frame) /\ L \in Nat /\ L >= 1 /\ Top = stack[L]
  BY StackFacts
<1>2. PICK u : u = At(label)
  OBVIOUS
<1>3. /\ u \in Seq(Frame) /\ Len(u) = L
      /\ \A i \in 1..L : u[i].node = stack[i].node
      /\ \A i \in 1..L-1 : u[i] = stack[i]
      /\ u[L].at = label
  BY <1>2, AtFacts
<1>4. \A i \in 1..L : Ahead(u[i]) \subseteq Ahead(stack[i])
  <2>1. Ahead(u[L]) \subseteq Ahead(stack[L])
    BY <1>1, <1>3 DEF Ahead
  <2>2. \A i \in 1..L : i = L \/ i \in 1..L-1
    BY <1>1
  <2> QED BY <1>3, <2>1, <2>2
<1>5. PendingOf(u) \subseteq Pending
  BY <1>3, <1>4 DEF PendingOf, Pending
<1> QED BY <1>2, <1>3, <1>5

LEMMA PopAdvances ==
  ASSUME IInv, Visiting, call # "remove", Len(stack) > 1
  PROVE  Popped \in Seq(Frame) /\ PendingOf(Popped) \subseteq Pending /\ Len(Popped) < Len(stack)
<1>1. stack \in Seq(Frame) /\ Len(stack) \in Nat
  BY StackFacts
<1>2. PICK u : u = Popped
  OBVIOUS
<1>3. /\ u \in Seq(Frame) /\ Len(u) = Len(stack) - 1
      /\ \A i \in 1..Len(stack)-1 : u[i] = stack[i] /\ i \in 1..Len(stack)
  BY <1>1, <1>2, PoppedFacts
<1>4. PendingOf(u) \subseteq Pending
  BY <1>3 DEF PendingOf, Pending
<1> QED BY <1>1, <1>2, <1>3, <1>4

LEMMA RemovalAdvances ==
  ASSUME IInv, RemoveNode \/ RemoveSuccessor, call # "remove"
  PROVE  Pending' \subseteq Pending /\ Len(stack') < Len(stack)
<1>1. pc \in {"remove", "min"} /\ Visiting
  BY DEF RemoveNode, RemoveSuccessor, Visiting
<1>2. PICK e \in Nodes, d \in Nodes, b \in Nodes \cup {Null} : Removes(e, b, d)
  BY RemovalFacts
<1>3. /\ Nodes' = Nodes \ {e} /\ stack' = Popped
      /\ \A n \in Nodes', t \in Sides : Below(child[n][t])' \subseteq Below(child[n][t]) \ {e}
  BY <1>2 DEF Removes, Removed
<1>4. stack \in Seq(Frame) /\ Len(stack) \in Nat /\ Len(stack) > 1
  BY <1>1, StackFacts, DoomedFacts
<1>5. PICK u : u = Popped
  OBVIOUS
<1>6. /\ u \in Seq(Frame) /\ Len(u) = Len(stack) - 1 /\ stack' = u
      /\ \A i \in 1..Len(u) : u[i] = stack[i] /\ i \in 1..Len(stack)
  BY <1>3, <1>4, <1>5, PoppedFacts
<1>7. \A i \in 1..Len(u) : u[i].node \in Nodes'
  <2>1. u \in Seq(Frame')
    BY <1>6, RemovalInv DEF IInv, CallInv, TypeLocal
  <2>2. \A i \in 1..Len(u) : u[i] \in Frame'
    BY <2>1
  <2> QED BY <2>2 DEF Frame
<1>8. ASSUME NEW m \in Pending' PROVE m \in Pending
  <2>1. m \in Nodes' /\ \E i \in 1..Len(u) : \E s \in Ahead(u[i]) : m \in Below(child[u[i].node][s])'
    BY <1>6 DEF Pending, Ahead
  <2>2. PICK i \in 1..Len(u) : \E s \in Ahead(u[i]) : m \in Below(child[u[i].node][s])'
    BY <2>1
  <2>3. PICK s \in Ahead(u[i]) : m \in Below(child[u[i].node][s])'
    BY <2>2
  <2>4. m \in Below(child[stack[i].node][s])
    BY <1>3, <1>6, <1>7, <2>3, AheadFacts
  <2> QED BY <1>3, <1>6, <2>1, <2>4 DEF Pending
<1> QED BY <1>4, <1>6, <1>8

(* In each step of a clearing, less is pending, an activation ends, or the  *)
(* last one is further than before.                                         *)
LEMMA ClearingAdvances ==
  ASSUME IInv, Clearing, Clearing',
         \/ Enter \/ Leave \/ (\E s \in Sides : Visit(s))
         \/ FindMin \/ RemoveNode \/ RemoveSuccessor
  PROVE  /\ Pending' \subseteq Pending
         /\ Pending' = Pending =>
              Len(stack') < Len(stack) \/ (Len(stack') = Len(stack) /\ Stage < Stage')
<1>1. call # "remove" /\ Visiting
  BY DEF Clearing, Visiting, Enter, Leave, Visit, FindMin, RemoveNode, RemoveSuccessor
<1>2. stack \in Seq(Frame) /\ Len(stack) \in Nat /\ Len(stack) >= 1 /\ Top = stack[Len(stack)] /\ Top \in Frame
  BY <1>1, StackFacts
<1>3. Top.at \in {"left", "right", "enter", "done"}
  BY <1>2 DEF Frame, Sides
<1>4. ASSUME UNCHANGED <<tree, stack>> PROVE Pending' = Pending
  <2>1. PICK st \in Seq(Frame) : st = stack
    BY <1>2
  <2>2. Pending' = PendingOf(st)
    BY <1>4, <2>1, PendingQuiet
  <2> QED BY <2>1, <2>2 DEF PendingOf, Pending
<1>5. ASSUME NEW label \in Sides \cup {"done"}, Continue(At(label)), pc = "clear",
             \/ Top.at = "enter" /\ label = "left"
             \/ Top.at = "left" /\ label = "right"
             \/ Top.at = "right" /\ label = "done"
      PROVE  Pending' \subseteq Pending /\ Len(stack') = Len(stack) /\ Stage < Stage'
  <2>1. PICK st : st = At(label)
    OBVIOUS
  <2>2. st \in Seq(Frame) /\ PendingOf(st) \subseteq Pending /\ Len(st) = Len(stack) /\ st[Len(st)].at = label
    BY <1>1, <1>5, <2>1, AtAdvances, AtFacts
  <2>3. stack' = st /\ pc' = "clear" /\ UNCHANGED tree
    BY <1>5, <2>1 DEF Continue
  <2>4. Pending' \subseteq Pending
    BY <2>2, <2>3, PendingQuiet
  <2>5. Top'.at = label
    BY <2>2, <2>3 DEF Top
  <2>6. Stage < Stage'
    BY <1>5, <2>3, <2>5 DEF Stage
  <2> QED BY <2>2, <2>3, <2>4, <2>6
<1>6. ASSUME StartRemoval, pc = "clear"
      PROVE  Pending' = Pending /\ Len(stack') = Len(stack) /\ Stage < Stage'
  <2>1. UNCHANGED <<tree, stack>> /\ pc' = "remove"
    BY <1>6 DEF StartRemoval, local
  <2>2. Stage < Stage'
    BY <1>3, <1>6, <2>1 DEF Stage
  <2> QED BY <1>4, <2>1, <2>2
<1>7. CASE Enter
  BY <1>5, <1>6, <1>7 DEF Enter, Sides
<1>8. ASSUME NEW s \in Sides, Visit(s)
      PROVE  /\ Pending' \subseteq Pending
             /\ Pending' = Pending => Len(stack') = Len(stack) /\ Stage < Stage'
  <2> DEFINE label == IF s = "left" THEN "right" ELSE "done"
             below == child[Top.node][s]
  <2>1. label \in Sides \cup {"done"} /\ pc = "clear" /\ Top.at = s
    BY <1>8 DEF Sides, Visit
  <2>2. CASE Continue(At(label))
    BY <1>5, <2>1, <2>2 DEF Sides
  <2>3. CASE below # Null /\ Continue(Append(At(label), [node |-> below, at |-> "enter"]))
    <3>1. PICK st : st = Append(At(label), [node |-> below, at |-> "enter"])
      OBVIOUS
    <3>2. st \in Seq(Frame) /\ PendingOf(st) \subseteq Pending /\ PendingOf(st) # Pending
      BY <1>1, <2>1, <2>3, <3>1, PushAdvances
    <3>3. stack' = st /\ UNCHANGED tree
      BY <2>3, <3>1 DEF Continue
    <3> QED BY <3>2, <3>3, PendingQuiet
  <2> QED BY <1>8, <2>2, <2>3 DEF Visit
<1>9. CASE Leave
  <2>1. CASE Continue(Popped)
    <3>1. PICK st : st = Popped
      OBVIOUS
    <3>2. st \in Seq(Frame) /\ PendingOf(st) \subseteq Pending /\ Len(st) < Len(stack)
      BY <1>1, <1>9, <3>1, PopAdvances DEF Leave
    <3>3. stack' = st /\ UNCHANGED tree
      BY <2>1, <3>1 DEF Continue
    <3> QED BY <3>2, <3>3, PendingQuiet
  <2> QED BY <1>6, <1>9, <2>1 DEF Leave
<1>10. CASE FindMin
  <2>1. UNCHANGED <<tree, stack>> /\ pc = "remove" /\ pc' = "min"
    BY <1>10 DEF FindMin
  <2> QED BY <1>4, <2>1 DEF Stage
<1>11. CASE RemoveNode \/ RemoveSuccessor
  BY <1>1, <1>11, RemovalAdvances
<1> QED BY <1>7, <1>8, <1>9, <1>10, <1>11

LEMMA StepAdvances == IInv /\ [Next]_vars => [Advances]_vars
<1> SUFFICES ASSUME IInv, Next PROVE Advances
  OBVIOUS
<1> DEFINE Clears == \/ Enter \/ Leave \/ (\E s \in Sides : Visit(s))
                     \/ FindMin \/ RemoveNode \/ RemoveSuccessor
<1>1. CASE FindStep \/ DescendStep \/ FindMinStep
  <2>1. ~Clearing \/ (pc = "min" /\ pc' = "min")
    BY <1>1, NotClearing DEF FindStep, DescendStep, FindMinStep
  <2> QED BY <1>1, <2>1, DescentAdvances DEF Advances, FindStep, DescendStep, FindMinStep
<1>2. CASE SplayStep \/ SecondRotation
  <2>1. ~Clearing
    BY <1>2, NotClearing DEF SplayStep, SecondRotation
  <2> QED BY <1>2, <2>1, RotationAdvances DEF Advances, SplayStep, SecondRotation
<1>3. CASE Clears
  <2>1. /\ pc \notin {"find", "descend", "min"} \/ pc' # pc
        /\ pc \notin {"splay", "second"}
    BY <1>3 DEF RemoveNode, FindMin, RemoveSuccessor, Removed, Return, Enter, Leave, Visit
  <2> QED BY <1>3, <2>1, ClearingAdvances DEF Advances
<1>4. ASSUME \/ \E val \in Addresses : Find(val) \/ Remove(val)
             \/ \E new \in Proper, ib \in Behaviors : Insert(new, ib)
             \/ Splayed \/ NotFound \/ Found \/ Refuse \/ Overlapped \/ Overwrite
             \/ \E n \in NodeIds \ Nodes : Link(n)
      PROVE  Advances
  <2>1. /\ pc \notin {"find", "descend", "min"} \/ pc' # pc
        /\ pc \notin {"splay", "second"} \/ pc' \notin {"splay", "second"}
    BY <1>4 DEF Find, Remove, Insert, Start, Splayed, NotFound, Found, Return, Refuse, Overlapped, Overwrite, Link
  <2>2. ~Clearing \/ ~Clearing'
    <3>1. CASE Overwrite
      BY <3>1 DEF Overwrite, Clearing
    <3>2. CASE ~Overwrite
      <4>1. pc \in {"idle", "find", "descend", "splay", "second"}
        BY <1>4, <3>2 DEF Find, Remove, Insert, Start, Splayed, NotFound, Found, Refuse, Overlapped, Link
      <4> QED BY <4>1, NotClearing
    <3> QED BY <3>1, <3>2
  <2> QED BY <2>1, <2>2 DEF Advances
<1> QED BY <1>1, <1>2, <1>3, <1>4 DEF Next

(* No loop and no recursion of the tree runs for ever: an iteration of a    *)
(* descent has less below it, a rotation of splay (tree.c:103) less above   *)
(* it, and a step of a clearing (tree.c:226) less to visit, fewer           *)
(* activations, or less to do for the last one.                             *)
THEOREM Advancing == Spec => LoopsAdvance
<1>1. IInv /\ [Next]_vars => [Advances]_vars
  BY StepAdvances
<1> QED BY <1>1, Invariant, PTL DEF Spec, LoopsAdvance

=============================================================================
