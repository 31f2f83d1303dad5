----------------------------- MODULE AnalyticsProofs -----------------------------
(***************************************************************************)
(* Proofs about Analytics, for any number of edges, sites, users, names and     *)
(* stored minutes, any windows and any size of the charts: what a user who is   *)
(* no Admin is shown, what the charts add up to, and that the parts of a page    *)
(* hang together.  All of it rests on sums of figures over finite sets of rows.  *)
(***************************************************************************)
EXTENDS Analytics, FiniteSetTheorems, WellFoundedInduction, TLAPS

-----------------------------------------------------------------------------
(* Sums. *)

\* A set of subsets of a finite set has a member that contains no other.
LEMMA LeastSet ==
    ASSUME NEW D, IsFiniteSet(D), NEW T, T \subseteq SUBSET D, T # {}
    PROVE  \E t \in T : \A u \in SUBSET t : u # t => u \notin T
<1>1. IsWellFoundedOn(StrictSubsetOrdering(D), FiniteSubsetsOf(D)) /\ FiniteSubsetsOf(D) = SUBSET D
  BY FS_StrictSubsetOrderingWellFounded, FS_FiniteSubsetsOfFinite
<1>2. PICK t \in T : \A y \in T : ~(<<y, t>> \in StrictSubsetOrdering(D))
  BY <1>1, WFMin
<1>3. ASSUME NEW u \in SUBSET t, u # t, u \in T PROVE FALSE
  BY <1>2, <1>3 DEF StrictSubsetOrdering
<1>. QED  BY <1>2, <1>3

(* SumOf is a fold, so a recursive function on the subsets of the domain.  It is *)
(* well-defined: there is one such function (SumExists, OneSum).                 *)

First(s) == CHOOSE x \in s : TRUE
Adding(f, S, g) == [s \in SUBSET S |-> IF s = {} THEN 0 ELSE f[First(s)] + g[s \ {First(s)}]]
Iter(f) == CHOOSE g : g = Adding(f, DOMAIN f, g)

LEMMA SumIs == ASSUME NEW f PROVE SumOf(f) = Iter(f)[DOMAIN f]
  BY DEF SumOf, MapThenSumSet, MapThenFoldSet, Iter, Adding, First

\* Two functions that add f up along the subsets of S are equal.
LEMMA OneSum ==
    ASSUME NEW f, NEW S, IsFiniteSet(S), NEW g, g = Adding(f, S, g), NEW h, h = Adding(f, S, h)
    PROVE  g = h
<1>. DEFINE T == {s \in SUBSET S : g[s] # h[s]}
<1>1. SUFFICES ASSUME T # {} PROVE FALSE
  <2>1. \A s \in SUBSET S : g[s] = h[s]
    BY <1>1
  <2>. QED  BY <2>1 DEF Adding
<1>2. PICK t \in T : \A u \in SUBSET t : u # t => u \notin T
  BY <1>1, LeastSet, ZenonT(60)
<1>3. /\ g[t] = IF t = {} THEN 0 ELSE f[First(t)] + g[t \ {First(t)}]
      /\ h[t] = IF t = {} THEN 0 ELSE f[First(t)] + h[t \ {First(t)}]
  BY DEF Adding
<1>4. CASE t # {}
  <2>1. First(t) \in t
    BY <1>4 DEF First
  <2>2. t \ {First(t)} \in SUBSET t /\ t \ {First(t)} # t
    BY <2>1
  <2>3. g[t \ {First(t)}] = h[t \ {First(t)}]
    BY <1>2, <2>2
  <2>. QED  BY <1>2, <1>3, <1>4, <2>3
<1>. QED  BY <1>2, <1>3, <1>4

\* Such a function, taken on the subsets of a part, is the one of that part.
LEMMA PartSum ==
    ASSUME NEW f, NEW S, NEW g, g = Adding(f, S, g), NEW t \in SUBSET S
    PROVE  [s \in SUBSET t |-> g[s]] = Adding(f, t, [s \in SUBSET t |-> g[s]])
<1>1. \A s \in SUBSET t : g[s] = IF s = {} THEN 0 ELSE f[First(s)] + g[s \ {First(s)}]
  BY DEF Adding
<1>2. \A s \in SUBSET t : s \ {First(s)} \in SUBSET t
  OBVIOUS
<1>. QED  BY <1>1, <1>2 DEF Adding

LEMMA SumExists ==
    ASSUME NEW f, NEW S, IsFiniteSet(S)
    PROVE  \E g : g = Adding(f, S, g)
<1>. DEFINE T == {s \in SUBSET S : ~\E g : g = Adding(f, s, g)}
<1>1. SUFFICES ASSUME T # {} PROVE FALSE
  BY <1>1
<1>2. PICK t \in T : \A u \in SUBSET t : u # t => u \notin T
  <2>1. T \subseteq SUBSET S
    OBVIOUS
  <2>. HIDE DEF T
  <2>. QED  BY <1>1, <2>1, LeastSet
<1>. DEFINE G(u) == CHOOSE g : g = Adding(f, u, g)
<1>3. ASSUME NEW u \in SUBSET t, u # t PROVE G(u) = Adding(f, u, G(u)) /\ IsFiniteSet(u)
  <2>1. \E g : g = Adding(f, u, g)
    BY <1>2, <1>3
  <2>2. G(u) = Adding(f, u, G(u))
    BY <2>1
  <2>. QED  BY <2>2, FS_Subset
<1>4. ASSUME NEW u \in SUBSET t, u # t, NEW s \in SUBSET u PROVE G(u)[s] = G(s)[s]
  <2>1. s \in SUBSET t /\ s # t
    BY <1>4
  <2>2. PICK a, b : a = G(u) /\ b = G(s)
    OBVIOUS
  <2>3. a = Adding(f, u, a) /\ b = Adding(f, s, b) /\ IsFiniteSet(s)
    BY <1>3, <1>4, <2>1, <2>2
  <2>4. [r \in SUBSET s |-> a[r]] = Adding(f, s, [r \in SUBSET s |-> a[r]])
    BY <2>3, PartSum
  <2>5. [r \in SUBSET s |-> a[r]] = b
    BY <2>3, <2>4, OneSum
  <2>6. a[s] = b[s]
    BY <2>5
  <2>. QED  BY <2>2, <2>6
<1>. DEFINE h == [s \in SUBSET t |-> IF s = {} THEN 0 ELSE f[First(s)] + G(s \ {First(s)})[s \ {First(s)}]]
<1>5. ASSUME NEW s \in SUBSET t, s # t PROVE h[s] = G(s)[s]
  <2>1. G(s)[s] = IF s = {} THEN 0 ELSE f[First(s)] + G(s)[s \ {First(s)}]
    <3>1. PICK a : a = G(s)
      OBVIOUS
    <3>2. a = Adding(f, s, a)
      BY <1>3, <1>5, <3>1
    <3>3. a[s] = IF s = {} THEN 0 ELSE f[First(s)] + a[s \ {First(s)}]
      BY <3>2 DEF Adding
    <3>. QED  BY <3>1, <3>3
  <2>2. G(s)[s \ {First(s)}] = G(s \ {First(s)})[s \ {First(s)}]
    BY <1>4, <1>5
  <2>. QED  BY <2>1, <2>2
<1>6. h = Adding(f, t, h)
  <2>1. ASSUME NEW s \in SUBSET t, s # {} PROVE h[s] = f[First(s)] + h[s \ {First(s)}]
    <3>1. First(s) \in s
      BY <2>1 DEF First
    <3>2. s \ {First(s)} \in SUBSET t /\ s \ {First(s)} # t
      BY <2>1, <3>1
    <3>3. h[s \ {First(s)}] = G(s \ {First(s)})[s \ {First(s)}]
      BY <1>5, <3>2
    <3>. QED  BY <2>1, <3>3
  <2>2. {} \in SUBSET t /\ h[{}] = 0
    OBVIOUS
  <2>. HIDE DEF h
  <2>3. h = [s \in SUBSET t |-> h[s]]
    BY DEF h
  <2>4. \A s \in SUBSET t : h[s] = IF s = {} THEN 0 ELSE f[First(s)] + h[s \ {First(s)}]
    BY <2>1, <2>2
  <2>. QED  BY <2>3, <2>4 DEF Adding
<1>. QED  BY <1>2, <1>6

LEMMA IterIs ==
    ASSUME NEW f, IsFiniteSet(DOMAIN f)
    PROVE  Iter(f) = Adding(f, DOMAIN f, Iter(f))
  BY SumExists DEF Iter

-----------------------------------------------------------------------------
Numbers(f) == IsFiniteSet(DOMAIN f) /\ \A x \in DOMAIN f : f[x] \in Nat
Part(f, s) == Iter(f)[s]

LEMMA PartIs ==
    ASSUME NEW f, IsFiniteSet(DOMAIN f), NEW s \in SUBSET DOMAIN f
    PROVE  /\ SumOf(f) = Part(f, DOMAIN f)
           /\ Part(f, {}) = 0
           /\ s # {} => First(s) \in s /\ Part(f, s) = f[First(s)] + Part(f, s \ {First(s)})
<1>1. PICK g : g = Iter(f)
  OBVIOUS
<1>2. g = Adding(f, DOMAIN f, g)
  BY <1>1, IterIs
<1>3. /\ g[{}] = 0
      /\ s # {} => g[s] = f[First(s)] + g[s \ {First(s)}]
  BY <1>2 DEF Adding
<1>4. s # {} => First(s) \in s
  BY DEF First
<1>. QED  BY <1>1, <1>3, <1>4, SumIs DEF Part

LEMMA PartType ==
    ASSUME NEW f, Numbers(f), NEW s \in SUBSET DOMAIN f
    PROVE  Part(f, s) \in Nat
<1>. DEFINE T == {t \in SUBSET DOMAIN f : Part(f, t) \notin Nat}
<1>1. SUFFICES ASSUME T # {} PROVE FALSE
  BY <1>1
<1>2. PICK t \in T : \A u \in SUBSET t : u # t => u \notin T
  BY <1>1, LeastSet, ZenonT(60) DEF Numbers
<1>3. CASE t # {}
  <2>1. First(t) \in t /\ Part(f, t) = f[First(t)] + Part(f, t \ {First(t)})
    BY <1>3, PartIs DEF Numbers
  <2>2. t \ {First(t)} \in SUBSET t /\ t \ {First(t)} # t
    BY <2>1
  <2>3. Part(f, t \ {First(t)}) \in Nat
    BY <1>2, <2>2
  <2>4. f[First(t)] \in Nat
    BY <2>1 DEF Numbers
  <2>. QED  BY <1>2, <2>1, <2>3, <2>4
<1>4. CASE t = {}
  <2>1. Part(f, {}) \in Nat
    BY PartIs DEF Numbers
  <2>. QED  BY <1>2, <1>4, <2>1
<1>. QED  BY <1>3, <1>4

LEMMA PartAdd ==
    ASSUME NEW f, Numbers(f), NEW s \in SUBSET DOMAIN f, NEW x \in s
    PROVE  Part(f, s) = f[x] + Part(f, s \ {x})
<1>. DEFINE T == {t \in SUBSET DOMAIN f : \E y \in t : Part(f, t) # f[y] + Part(f, t \ {y})}
<1>1. SUFFICES ASSUME T # {} PROVE FALSE
  BY <1>1
<1>2. PICK t \in T : \A u \in SUBSET t : u # t => u \notin T
  BY <1>1, LeastSet, ZenonT(60) DEF Numbers
<1>3. PICK y \in t : Part(f, t) # f[y] + Part(f, t \ {y})
  BY <1>2
<1>4. PICK c : c = First(t)
  OBVIOUS
<1>5. c \in t /\ Part(f, t) = f[c] + Part(f, t \ {c})
  BY <1>3, <1>4, PartIs DEF Numbers
<1>6. y # c
  BY <1>3, <1>5
<1>7. t \ {c} \notin T /\ t \ {y} \notin T
  <2>1. t \ {c} \in SUBSET t /\ t \ {c} # t /\ t \ {y} \in SUBSET t /\ t \ {y} # t
    BY <1>5
  <2>. QED  BY <1>2, <2>1
<1>8. /\ Part(f, t \ {c}) = f[y] + Part(f, (t \ {c}) \ {y})
      /\ Part(f, t \ {y}) = f[c] + Part(f, (t \ {y}) \ {c})
  BY <1>5, <1>6, <1>7
<1>9. (t \ {c}) \ {y} = (t \ {y}) \ {c}
  OBVIOUS
<1>10. PICK n : n = Part(f, (t \ {y}) \ {c})
  OBVIOUS
<1>11. n \in Nat /\ f[y] \in Nat /\ f[c] \in Nat
  BY <1>5, <1>10, PartType DEF Numbers
<1>. HIDE DEF T
<1>12. Part(f, t) = f[c] + (f[y] + n) /\ Part(f, t \ {y}) = f[c] + n
  BY <1>5, <1>8, <1>9, <1>10
<1>13. Part(f, t) = f[y] + Part(f, t \ {y})
  BY <1>11, <1>12
<1>. QED  BY <1>3, <1>13

LEMMA PartSame ==
    ASSUME NEW f, NEW g, IsFiniteSet(DOMAIN f), IsFiniteSet(DOMAIN g),
           NEW s \in SUBSET DOMAIN f, s \in SUBSET DOMAIN g, \A x \in s : f[x] = g[x]
    PROVE  Part(f, s) = Part(g, s)
<1>. DEFINE T == {t \in SUBSET s : Part(f, t) # Part(g, t)}
<1>0. IsFiniteSet(s)
  BY FS_Subset
<1>1. SUFFICES ASSUME T # {} PROVE FALSE
  BY <1>1
<1>2. PICK t \in T : \A u \in SUBSET t : u # t => u \notin T
  <2>1. T \subseteq SUBSET s
    OBVIOUS
  <2>. HIDE DEF T
  <2>. QED  BY <1>0, <1>1, <2>1, LeastSet
<1>3. CASE t # {}
  <2>1. /\ First(t) \in t /\ Part(f, t) = f[First(t)] + Part(f, t \ {First(t)})
        /\ Part(g, t) = g[First(t)] + Part(g, t \ {First(t)})
    BY <1>3, PartIs
  <2>2. t \ {First(t)} \in SUBSET t /\ t \ {First(t)} # t
    BY <2>1
  <2>3. Part(f, t \ {First(t)}) = Part(g, t \ {First(t)})
    BY <1>2, <2>2
  <2>4. f[First(t)] = g[First(t)]
    BY <1>2, <2>1
  <2>5. Part(f, t) = Part(g, t)
    BY <2>1, <2>3, <2>4
  <2>. QED  BY <1>2, <2>5
<1>4. CASE t = {}
  <2>1. Part(f, {}) = 0 /\ Part(g, {}) = 0
    BY PartIs
  <2>. QED  BY <1>2, <1>4, <2>1
<1>. QED  BY <1>3, <1>4

LEMMA PartUnion ==
    ASSUME NEW f, Numbers(f), NEW s \in SUBSET DOMAIN f, NEW r \in SUBSET DOMAIN f, s \cap r = {}
    PROVE  Part(f, s \cup r) = Part(f, s) + Part(f, r)
<1>. DEFINE T == {t \in SUBSET s : Part(f, t \cup r) # Part(f, t) + Part(f, r)}
<1>0. IsFiniteSet(s)
  BY FS_Subset DEF Numbers
<1>1. SUFFICES ASSUME T # {} PROVE FALSE
  BY <1>1
<1>2. PICK t \in T : \A u \in SUBSET t : u # t => u \notin T
  <2>1. T \subseteq SUBSET s
    OBVIOUS
  <2>. HIDE DEF T
  <2>. QED  BY <1>0, <1>1, <2>1, LeastSet
<1>3. CASE t # {}
  <2>1. PICK x : x \in t
    BY <1>3
  <2>2. Part(f, t) = f[x] + Part(f, t \ {x}) /\ Part(f, t \cup r) = f[x] + Part(f, (t \cup r) \ {x})
    BY <2>1, PartAdd
  <2>3. (t \cup r) \ {x} = (t \ {x}) \cup r
    BY <2>1
  <2>4. t \ {x} \in SUBSET t /\ t \ {x} # t
    BY <2>1
  <2>5. Part(f, (t \ {x}) \cup r) = Part(f, t \ {x}) + Part(f, r)
    BY <1>2, <2>4
  <2>6. f[x] \in Nat /\ Part(f, t \ {x}) \in Nat /\ Part(f, r) \in Nat
    BY <2>1, PartType DEF Numbers
  <2>7. Part(f, t \cup r) = Part(f, t) + Part(f, r)
    <3>. HIDE DEF T
    <3>1. PICK a, b, c : a = f[x] /\ b = Part(f, t \ {x}) /\ c = Part(f, r)
      OBVIOUS
    <3>2. a \in Nat /\ b \in Nat /\ c \in Nat
      BY <2>6, <3>1
    <3>3. Part(f, t) = a + b /\ Part(f, t \cup r) = a + (b + c)
      BY <2>2, <2>3, <2>5, <3>1
    <3>4. a + (b + c) = (a + b) + c
      BY <3>2
    <3>. QED  BY <3>1, <3>3, <3>4
  <2>. QED  BY <1>2, <2>7
<1>4. CASE t = {}
  <2>1. Part(f, {}) = 0 /\ Part(f, r) \in Nat /\ t \cup r = r
    BY <1>4, PartIs, PartType DEF Numbers
  <2>2. Part(f, t \cup r) = Part(f, t) + Part(f, r)
    BY <1>4, <2>1
  <2>. QED  BY <1>2, <2>2
<1>. QED  BY <1>3, <1>4

LEMMA PartGrows ==
    ASSUME NEW f, NEW g, Numbers(f), Numbers(g),
           NEW s \in SUBSET DOMAIN f, NEW r \in SUBSET DOMAIN g, s \subseteq r, \A x \in s : f[x] <= g[x]
    PROVE  Part(f, s) <= Part(g, r)
<1>. DEFINE T == {t \in SUBSET s : ~(Part(f, t) <= Part(g, t))}
<1>0. IsFiniteSet(s)
  BY FS_Subset DEF Numbers
<1>1. ASSUME T # {} PROVE FALSE
  <2>2. PICK t \in T : \A u \in SUBSET t : u # t => u \notin T
    <3>1. T \subseteq SUBSET s
      OBVIOUS
    <3>. HIDE DEF T
    <3>. QED  BY <1>0, <1>1, <3>1, LeastSet
  <2>3. CASE t # {}
    <3>1. PICK x : x \in t
      BY <2>3
    <3>2. Part(f, t) = f[x] + Part(f, t \ {x}) /\ Part(g, t) = g[x] + Part(g, t \ {x})
      BY <3>1, PartAdd
    <3>3. t \ {x} \in SUBSET t /\ t \ {x} # t
      BY <3>1
    <3>4. Part(f, t \ {x}) <= Part(g, t \ {x})
      BY <2>2, <3>3
    <3>5. /\ f[x] \in Nat /\ g[x] \in Nat /\ f[x] <= g[x]
          /\ Part(f, t \ {x}) \in Nat /\ Part(g, t \ {x}) \in Nat
      BY <3>1, PartType DEF Numbers
    <3>6. Part(f, t) <= Part(g, t)
      <4>. HIDE DEF T
      <4>. QED  BY <3>2, <3>4, <3>5
    <3>. QED  BY <2>2, <3>6
  <2>4. CASE t = {}
    <3>1. Part(f, {}) = 0 /\ Part(g, {}) = 0
      BY PartIs DEF Numbers
    <3>2. Part(f, t) <= Part(g, t)
      BY <2>4, <3>1
    <3>. QED  BY <2>2, <3>2
  <2>. QED  BY <2>3, <2>4
<1>2. Part(f, s) <= Part(g, s)
  BY <1>1
<1>3. Part(g, r) = Part(g, s) + Part(g, r \ s)
  <2>1. r = s \cup (r \ s)
    OBVIOUS
  <2>. QED  BY <2>1, PartUnion
<1>4. Part(f, s) \in Nat /\ Part(g, s) \in Nat /\ Part(g, r \ s) \in Nat
  BY PartType
<1>. QED  BY <1>2, <1>3, <1>4

LEMMA PartOf ==
    ASSUME NEW f, IsFiniteSet(DOMAIN f), NEW s \in SUBSET DOMAIN f
    PROVE  SumOf([x \in s |-> f[x]]) = Part(f, s)
<1>1. PICK g : g = [x \in s |-> f[x]]
  OBVIOUS
<1>2. DOMAIN g = s /\ IsFiniteSet(s) /\ \A x \in s : g[x] = f[x]
  BY <1>1, FS_Subset
<1>3. SumOf(g) = Part(g, s)
  BY <1>2, PartIs
<1>4. Part(g, s) = Part(f, s)
  BY <1>2, PartSame
<1>. QED  BY <1>1, <1>3, <1>4

\* The sum over the fibres of k is the sum over all.
LEMMA Fibres ==
    ASSUME NEW f, Numbers(f), NEW k, NEW F,
           \A x \in DOMAIN f : k[x] \in DOMAIN F,
           \A y \in DOMAIN F : \E x \in DOMAIN f : k[x] = y,
           \A y \in DOMAIN F : \E s \in SUBSET DOMAIN f :
               (\A x \in DOMAIN f : x \in s <=> k[x] = y) /\ F[y] = Part(f, s)
    PROVE  SumOf(F) = SumOf(f) /\ Numbers(F)
<1>0. /\ DOMAIN F = {k[x] : x \in DOMAIN f}
      /\ \A y \in DOMAIN F : F[y] = Part(f, {x \in DOMAIN f : k[x] = y})
  <2>1. ASSUME NEW y \in DOMAIN F PROVE F[y] = Part(f, {x \in DOMAIN f : k[x] = y})
    <3>1. PICK s \in SUBSET DOMAIN f : (\A x \in DOMAIN f : x \in s <=> k[x] = y) /\ F[y] = Part(f, s)
      OBVIOUS
    <3>2. s = {x \in DOMAIN f : k[x] = y}
      BY <3>1
    <3>. QED  BY <3>1, <3>2
  <2>. QED  BY <2>1
<1>. DEFINE Over(Y) == {x \in DOMAIN f : k[x] \in Y}
            T == {Y \in SUBSET DOMAIN F : Part(F, Y) # Part(f, Over(Y))}
<1>1. Numbers(F)
  <2>1. IsFiniteSet(DOMAIN F)
    <3>1. IsFiniteSet(DOMAIN f)
      BY DEF Numbers
    <3>2. [x \in DOMAIN f |-> k[x]] \in Surjection(DOMAIN f, DOMAIN F)
      BY <1>0 DEF Surjection, Range
    <3>. QED  BY <3>1, <3>2, FS_Surjection
  <2>2. ASSUME NEW y \in DOMAIN F PROVE F[y] \in Nat
    <3>1. PICK s \in SUBSET DOMAIN f : s = {x \in DOMAIN f : k[x] = y}
      OBVIOUS
    <3>2. Part(f, s) \in Nat
      BY PartType
    <3>. QED  BY <1>0, <3>1, <3>2
  <2>. QED  BY <2>1, <2>2 DEF Numbers
<1>2. ASSUME T # {} PROVE FALSE
  <2>1. PICK Y \in T : \A Z \in SUBSET Y : Z # Y => Z \notin T
    <3>1. T \subseteq SUBSET DOMAIN F /\ IsFiniteSet(DOMAIN F)
      BY <1>1 DEF Numbers
    <3>. HIDE DEF T
    <3>. QED  BY <1>2, <3>1, LeastSet
  <2>2. CASE Y = {}
    <3>1. Part(F, {}) = 0 /\ Part(f, {}) = 0
      BY <1>1, PartIs DEF Numbers
    <3>2. Over({}) = {}
      OBVIOUS
    <3>. QED  BY <2>1, <2>2, <3>1, <3>2
  <2>3. CASE Y # {}
    <3>1. PICK y \in Y : TRUE
      BY <2>3
    <3>2. Y \in SUBSET DOMAIN F /\ Y \ {y} \in SUBSET Y /\ Y \ {y} # Y /\ y \in DOMAIN F
      BY <2>1, <3>1
    <3>3. Part(F, Y \ {y}) = Part(f, Over(Y \ {y}))
      BY <2>1, <3>2
    <3>4. Part(F, Y) = F[y] + Part(F, Y \ {y})
      BY <1>1, <3>2, PartAdd
    <3>5. F[y] = Part(f, Over({y}))
      <4>1. Over({y}) = {x \in DOMAIN f : k[x] = y}
        OBVIOUS
      <4>. QED  BY <1>0, <3>2, <4>1
    <3>6. /\ Over(Y) = Over({y}) \cup Over(Y \ {y}) /\ Over({y}) \cap Over(Y \ {y}) = {}
          /\ Over({y}) \in SUBSET DOMAIN f /\ Over(Y \ {y}) \in SUBSET DOMAIN f
      BY <3>1
    <3>7. Part(f, Over(Y)) = Part(f, Over({y})) + Part(f, Over(Y \ {y}))
      <4>. HIDE DEF Over, T
      <4>1. PICK a \in SUBSET DOMAIN f, b \in SUBSET DOMAIN f : a = Over({y}) /\ b = Over(Y \ {y})
        BY <3>6
      <4>0. a \cap b = {}
        BY <3>6, <4>1
      <4>2. Part(f, a \cup b) = Part(f, a) + Part(f, b)
        BY <4>0, PartUnion
      <4>. QED  BY <3>6, <4>1, <4>2
    <3>8. Part(F, Y) = Part(f, Over(Y))
      <4>. HIDE DEF Over, T
      <4>. QED  BY <3>3, <3>4, <3>5, <3>7
    <3>. QED  BY <2>1, <3>8
  <2>. QED  BY <2>2, <2>3
<1>3. Over(DOMAIN F) = DOMAIN f
  BY <1>0
<1>4. Part(F, DOMAIN F) = Part(f, Over(DOMAIN F))
  BY <1>2
<1>. QED  BY <1>1, <1>3, <1>4, PartIs DEF Numbers

-----------------------------------------------------------------------------
(* Types. *)

Query == [node : SUBSET Node, nodes : SUBSET Node, site : SUBSET Site, restricted : BOOLEAN,
          from : Int, to : Int]

\* A query that is answered for a user who is no Admin reads edges of theirs only, and the
\* window of an analytics page is in order.
PageOK ==
    /\ DOMAIN page = {"pc", "kind", "who", "own", "q", "answer"}
    /\ page.own \subseteq Node /\ page.q \in Query
    /\ page.pc \in {"closed", "entered", "asked", "totals", "latest", "cache", "month", "shown"}
    /\ (Restricted /\ page.pc \notin {"closed", "entered"}) => Nodes(page.q) \subseteq page.own
    /\ page.pc = "asked" => {page.q.from, page.q.to} \subseteq 0 .. Last /\ page.q.from <= page.q.to

RowsOK(R) ==
    /\ IsFiniteSet(DOMAIN R) /\ DOMAIN R \subseteq Node \X (0 .. Last)
    /\ \A r \in DOMAIN R : R[r] \in Sample

StatsOK == RowsOK(stats)

PageTypeInv ==
    /\ StatsOK /\ PageOK
    /\ grants \in [Viewer \ Admin -> SUBSET Node] /\ serves \in [Site -> SUBSET Node]

-----------------------------------------------------------------------------
(* A query reads the rows of its edges only. *)

Mine(R, own) == [r \in {r \in DOMAIN R : r[1] \in own} |-> R[r]]

LEMMA RowsOfMine ==
    ASSUME NEW R, NEW own, NEW q, Nodes(q) \subseteq own
    PROVE  Rows(Mine(R, own), q) = Rows(R, q) /\ \A r \in Rows(R, q) : Mine(R, own)[r] = R[r]
  BY DEF Rows, Mine

LEMMA SiteRowsOfMine ==
    ASSUME NEW R, NEW own, NEW q, Nodes(q) \subseteq own
    PROVE  /\ SiteRows(Mine(R, own), q) = SiteRows(R, q)
           /\ \A r \in Rows(R, q) : L7(Mine(R, own), q, r) = L7(R, q, r)
           /\ SiteRows(R, q) \subseteq Rows(R, q)
<1>. DEFINE Q == Mine(R, own)
<1>1. Rows(Q, q) = Rows(R, q) /\ \A r \in Rows(R, q) : Q[r] = R[r]
  BY RowsOfMine
<1>. HIDE DEF Q
<1>2. \A r \in Rows(R, q) : L7(Q, q, r) = L7(R, q, r)
  BY <1>1 DEF L7
<1>3. SiteRows(Q, q) = SiteRows(R, q) /\ SiteRows(R, q) \subseteq Rows(R, q)
  BY <1>1, <1>2 DEF SiteRows
<1>. QED  BY <1>2, <1>3 DEF Q

\* So every query of the store answers what it would if the other edges had stored nothing.
LEMMA SeriesOfMine ==
    ASSUME NEW R, NEW own, NEW q, Nodes(q) \subseteq own
    PROVE  /\ NicRx(Mine(R, own), q) = NicRx(R, q) /\ NicRate(Mine(R, own), q) = NicRate(R, q)
           /\ L7Rate(Mine(R, own), q) = L7Rate(R, q) /\ Counts(Mine(R, own), q) = Counts(R, q)
           /\ NicVolume(Mine(R, own), q) = NicVolume(R, q) /\ L7Volume(Mine(R, own), q) = L7Volume(R, q)
           /\ L4Series(Mine(R, own), q) = L4Series(R, q)
<1>. DEFINE Q == Mine(R, own)
<1>1. Rows(Q, q) = Rows(R, q) /\ \A r \in Rows(R, q) : Q[r] = R[r]
  BY RowsOfMine
<1>2. SiteRows(Q, q) = SiteRows(R, q) /\ \A r \in SiteRows(R, q) : L7(Q, q, r) = L7(R, q, r)
  BY SiteRowsOfMine
<1>. HIDE DEF Q
<1>3. /\ [r \in Rows(Q, q) |-> Larger(Q[r].nic, Q[r].peak)] = [r \in Rows(R, q) |-> Larger(R[r].nic, R[r].peak)]
      /\ [r \in Rows(Q, q) |-> Q[r].nic] = [r \in Rows(R, q) |-> R[r].nic]
      /\ [r \in Rows(Q, q) |-> Q[r].peak] = [r \in Rows(R, q) |-> R[r].peak]
  BY <1>1
<1>4. /\ [r \in SiteRows(Q, q) |-> L7(Q, q, r).asked] = [r \in SiteRows(R, q) |-> L7(R, q, r).asked]
      /\ [r \in SiteRows(Q, q) |-> L7(Q, q, r).blocked] = [r \in SiteRows(R, q) |-> L7(R, q, r).blocked]
  BY <1>2
<1>5. NicRx(Q, q) = NicRx(R, q) /\ NicRate(Q, q) = NicRate(R, q)
  BY <1>3 DEF NicRx, NicRate
<1>6. NicVolume(Q, q) = NicVolume(R, q) /\ L4Series(Q, q) = L4Series(R, q)
  BY <1>3 DEF NicVolume, L4Series
<1>7. L7Rate(Q, q) = L7Rate(R, q) /\ Counts(Q, q) = Counts(R, q) /\ L7Volume(Q, q) = L7Volume(R, q)
  BY <1>4 DEF L7Rate, Counts, L7Volume
<1>. QED  BY <1>5, <1>6, <1>7 DEF Q

LEMMA SumsOfMine ==
    ASSUME NEW R, NEW own, NEW q, Nodes(q) \subseteq own
    PROVE  /\ Totals(Mine(R, own), q) = Totals(R, q) /\ Breakdown(Mine(R, own), q) = Breakdown(R, q)
           /\ SecurityTotals(Mine(R, own), q) = SecurityTotals(R, q)
           /\ Threats(Mine(R, own), q) = Threats(R, q)
           /\ \A c : Hits(Mine(R, own), q, c) = Hits(R, q, c) /\ Attacks(Mine(R, own), q, c) = Attacks(R, q, c)
           /\ CacheSums(Mine(R, own), q) = CacheSums(R, q)
           /\ \A f : CacheStatus(Mine(R, own), q, f) = CacheStatus(R, q, f)
<1>. DEFINE Q == Mine(R, own)
<1>1. Rows(Q, q) = Rows(R, q) /\ \A r \in Rows(R, q) : Q[r] = R[r]
  BY RowsOfMine
<1>2. SiteRows(Q, q) = SiteRows(R, q) /\ \A r \in SiteRows(R, q) : L7(Q, q, r) = L7(R, q, r)
  BY SiteRowsOfMine
<1>. HIDE DEF Q
<1>3. /\ [r \in SiteRows(Q, q) |-> L7(Q, q, r).asked] = [r \in SiteRows(R, q) |-> L7(R, q, r).asked]
      /\ [r \in SiteRows(Q, q) |-> L7(Q, q, r).blocked] = [r \in SiteRows(R, q) |-> L7(R, q, r).blocked]
      /\ [r \in Rows(Q, q) |-> Q[r].nic] = [r \in Rows(R, q) |-> R[r].nic]
  BY <1>1, <1>2
<1>4. Totals(Q, q) = Totals(R, q) /\ Breakdown(Q, q) = Breakdown(R, q)
  BY <1>3 DEF Totals, Breakdown
<1>5. SecurityTotals(Q, q) = SecurityTotals(R, q)
  BY <1>3, <1>4 DEF SecurityTotals
<1>6. Threats(Q, q) = Threats(R, q)
  <2>1. [r \in {r \in Rows(Q, q) : r[2] < q.to} |-> Q[r].all.blocked]
        = [r \in {r \in Rows(R, q) : r[2] < q.to} |-> R[r].all.blocked]
    BY <1>1
  <2>. QED  BY <2>1 DEF Threats
<1>7. ASSUME NEW n PROVE Hits(Q, q, n) = Hits(R, q, n) /\ Attacks(Q, q, n) = Attacks(R, q, n)
  <2>1. \A r \in Rows(R, q) : SumOf([s \in SitesOf(q) |-> Q[r].hits[s][n]]) = SumOf([s \in SitesOf(q) |-> R[r].hits[s][n]])
    BY <1>1
  <2>2. [r \in Rows(Q, q) |-> SumOf([s \in SitesOf(q) |-> Q[r].hits[s][n]])]
        = [r \in Rows(R, q) |-> SumOf([s \in SitesOf(q) |-> R[r].hits[s][n]])]
    BY <1>1, <2>1
  <2>3. [r \in Rows(Q, q) |-> Q[r].attacks[n]] = [r \in Rows(R, q) |-> R[r].attacks[n]]
    BY <1>1
  <2>. QED  BY <2>2, <2>3 DEF Hits, Attacks
<1>8. \A f : \A r \in Rows(R, q) : OfSites(Q, q, r, f) = OfSites(R, q, r, f)
  BY <1>1 DEF OfSites
<1>9. \A f : [r \in Rows(Q, q) |-> OfSites(Q, q, r, f)] = [r \in Rows(R, q) |-> OfSites(R, q, r, f)]
  BY <1>1, <1>8
<1>10. CacheSums(Q, q) = CacheSums(R, q) /\ \A f : CacheStatus(Q, q, f) = CacheStatus(R, q, f)
  BY <1>9 DEF CacheSums, CacheStatus
<1>. QED  BY <1>4, <1>5, <1>6, <1>7, <1>10 DEF Q

LEMMA ListsOfMine ==
    ASSUME NEW R, NEW own, NEW q, Nodes(q) \subseteq own
    PROVE  /\ Names(Mine(R, own), q) = Names(R, q)
           /\ TopNames(Mine(R, own), q) = TopNames(R, q) /\ TopDomains(Mine(R, own), q) = TopDomains(R, q)
           /\ Countries(Mine(R, own), q) = Countries(R, q)
           /\ Attackers(Mine(R, own), q) = Attackers(R, q)
<1>. DEFINE Q == Mine(R, own)
<1>1. \A n : Hits(Q, q, n) = Hits(R, q, n) /\ Attacks(Q, q, n) = Attacks(R, q, n)
  BY SumsOfMine
<1>. HIDE DEF Q
<1>2. /\ [n \in Client |-> Hits(Q, q, n)] = [n \in Client |-> Hits(R, q, n)]
      /\ [n \in Client |-> Attacks(Q, q, n)] = [n \in Client |-> Attacks(R, q, n)]
  BY <1>1
<1>3. Names(Q, q) = Names(R, q)
  BY <1>1 DEF Names
<1>4. TopNames(Q, q) = TopNames(R, q) /\ Countries(Q, q) = Countries(R, q) /\ Attackers(Q, q) = Attackers(R, q)
  BY <1>2 DEF TopNames, Countries, Attackers
<1>. QED  BY <1>3, <1>4 DEF Q, TopDomains

\* The bars ask for one edge after another, the cache's charts for one minute or site.
LEMMA PartsOfMine ==
    ASSUME NEW R, NEW own, NEW q \in Query, Nodes(q) \subseteq own
    PROVE  /\ Bars(Mine(R, own), q) = Bars(R, q)
           /\ \A part : CacheBytes(Mine(R, own), q, part) = CacheBytes(R, q, part)
           /\ CacheBySite(Mine(R, own), q) = CacheBySite(R, q)
<1>. DEFINE Q == Mine(R, own)
<1>1. Rows(Q, q) = Rows(R, q)
  BY RowsOfMine
<1>2. \A e \in {r[1] : r \in Rows(R, q)} : NicRate(Q, [q EXCEPT !.node = {e}]) = NicRate(R, [q EXCEPT !.node = {e}])
  <2>1. ASSUME NEW r \in Rows(R, q) PROVE Nodes([q EXCEPT !.node = {r[1]}]) \subseteq own
    <3>1. r[1] \in own
      BY DEF Rows
    <3>2. [q EXCEPT !.node = {r[1]}].node = {r[1]}
      BY DEF Query
    <3>. QED  BY <3>1, <3>2 DEF Nodes
  <2>. QED  BY <2>1, SeriesOfMine
<1>3. ASSUME NEW m, NEW n
      PROVE  CacheSums(Q, [q EXCEPT !.from = m, !.to = n]) = CacheSums(R, [q EXCEPT !.from = m, !.to = n])
  <2>1. PICK x : x = [q EXCEPT !.from = m, !.to = n]
    OBVIOUS
  <2>2. Nodes(x) \subseteq own
    BY <2>1 DEF Nodes, Query
  <2>3. CacheSums(Q, x) = CacheSums(R, x)
    BY <2>2, SumsOfMine
  <2>. QED  BY <2>1, <2>3
<1>4. ASSUME NEW s PROVE CacheSums(Q, [q EXCEPT !.site = s]) = CacheSums(R, [q EXCEPT !.site = s])
  <2>1. PICK x : x = [q EXCEPT !.site = s]
    OBVIOUS
  <2>2. Nodes(x) \subseteq own
    BY <2>1 DEF Nodes, Query
  <2>3. CacheSums(Q, x) = CacheSums(R, x)
    BY <2>2, SumsOfMine
  <2>. QED  BY <2>1, <2>3
<1>. HIDE DEF Q
<1>5. Bars(Q, q) = Bars(R, q)
  BY <1>1, <1>2 DEF Bars
<1>6. ASSUME NEW part PROVE CacheBytes(Q, q, part) = CacheBytes(R, q, part)
  BY <1>1, <1>3 DEF CacheBytes
<1>7. CacheBySite(Q, q) = CacheBySite(R, q)
  BY <1>4 DEF CacheBySite
<1>. QED  BY <1>5, <1>6, <1>7 DEF Q

LEMMA AnswersOfMine ==
    ASSUME NEW R, NEW own, NEW q \in Query, Nodes(q) \subseteq own, NEW kind \in Kind
    PROVE  Answers(Mine(R, own), q, kind) = Answers(R, q, kind)
<1>1. PICK Q : Q = Mine(R, own)
  OBVIOUS
<1>2. /\ NicRx(Q, q) = NicRx(R, q) /\ NicRate(Q, q) = NicRate(R, q)
      /\ L7Rate(Q, q) = L7Rate(R, q) /\ Counts(Q, q) = Counts(R, q)
      /\ NicVolume(Q, q) = NicVolume(R, q) /\ L7Volume(Q, q) = L7Volume(R, q)
      /\ L4Series(Q, q) = L4Series(R, q)
  BY <1>1, SeriesOfMine
<1>3. /\ Breakdown(Q, q) = Breakdown(R, q) /\ SecurityTotals(Q, q) = SecurityTotals(R, q)
      /\ CacheSums(Q, q) = CacheSums(R, q) /\ \A f : CacheStatus(Q, q, f) = CacheStatus(R, q, f)
  BY <1>1, SumsOfMine
<1>4. /\ TopNames(Q, q) = TopNames(R, q) /\ TopDomains(Q, q) = TopDomains(R, q)
      /\ Countries(Q, q) = Countries(R, q) /\ Attackers(Q, q) = Attackers(R, q)
  BY <1>1, ListsOfMine
<1>5. /\ Bars(Q, q) = Bars(R, q) /\ CacheBySite(Q, q) = CacheBySite(R, q)
      /\ \A part : CacheBytes(Q, q, part) = CacheBytes(R, q, part)
  BY <1>1, PartsOfMine
<1>6. /\ OverviewCharts(Q, q) = OverviewCharts(R, q) /\ NicCharts(Q, q) = NicCharts(R, q)
      /\ L7Charts(Q, q) = L7Charts(R, q) /\ NicVolumes(Q, q) = NicVolumes(R, q)
      /\ L7Volumes(Q, q) = L7Volumes(R, q) /\ RequestCharts(Q, q) = RequestCharts(R, q)
  BY <1>2 DEF OverviewCharts, NicCharts, L7Charts, NicVolumes, L7Volumes, RequestCharts
<1>7. /\ Breakdowns(Q, q) = Breakdowns(R, q) /\ Lists(Q, q) = Lists(R, q)
      /\ SecurityPages(Q, q) = SecurityPages(R, q) /\ SecurityLists(Q, q) = SecurityLists(R, q)
      /\ DomainLists(Q, q) = DomainLists(R, q)
  BY <1>3, <1>4 DEF Breakdowns, Lists, SecurityPages, SecurityLists, DomainLists
<1>8. L4Pages(Q, q) = L4Pages(R, q) /\ L4Charts(Q, q) = L4Charts(R, q) /\ L4Lists(Q, q) = L4Lists(R, q)
  BY <1>2, <1>4 DEF L4Pages, L4Charts, L4Lists
<1>9. CacheSummary(Q, q) = CacheSummary(R, q)
  BY <1>3 DEF CacheSummary
<1>10. CachePages(Q, q) = CachePages(R, q) /\ CacheSites(Q, q) = CacheSites(R, q) /\ CacheCharts(Q, q) = CacheCharts(R, q)
  BY <1>3, <1>5, <1>9 DEF CachePages, CacheSites, CacheCharts
<1>11. Answers(Q, q, kind) = Answers(R, q, kind)
  BY <1>5, <1>6, <1>7, <1>8, <1>10 DEF Answers
<1>. QED  BY <1>1, <1>11

-----------------------------------------------------------------------------
(* Types, and OwnEdgesOnly. *)

LEMMA PageInitOK == PageInit => PageTypeInv
<1>. SUFFICES ASSUME PageInit PROVE PageTypeInv
  OBVIOUS
<1>1. DOMAIN stats = {} /\ IsFiniteSet({})
  BY FS_EmptySet DEF PageInit
<1>2. StatsOK
  BY <1>1 DEF StatsOK, RowsOK
<1>3. PageOK
  BY DEF PageInit, PageOK, NoPage, Anything, Query
<1>. QED  BY <1>2, <1>3 DEF PageInit, PageTypeInv

\* The collector adds a row and changes none.
LEMMA Collected ==
    ASSUME PageTypeInv, Collect
    PROVE  /\ StatsOK' /\ DOMAIN stats \subseteq DOMAIN stats' /\ \A r \in DOMAIN stats : stats'[r] = stats[r]
           /\ UNCHANGED page
<1>1. PICK e \in Node, m \in 0 .. Last, x \in Sample :
        /\ \A r \in DOMAIN stats : r[1] = e => r[2] < m
        /\ stats' = [r \in DOMAIN stats \cup {<<e, m>>} |-> IF r = <<e, m>> THEN x ELSE stats[r]]
  BY DEF Collect
<1>2. m \in Int
  BY BoundAssumption
<1>3. <<e, m>> \notin DOMAIN stats
  <2>1. <<e, m>>[1] = e /\ <<e, m>>[2] = m /\ ~(m < m)
    BY <1>2
  <2>. QED  BY <1>1, <2>1
<1>4. IsFiniteSet(DOMAIN stats \cup {<<e, m>>})
  BY FS_AddElement DEF PageTypeInv, StatsOK, RowsOK
<1>5. DOMAIN stats' = DOMAIN stats \cup {<<e, m>>}
  BY <1>1
<1>6. DOMAIN stats' \subseteq Node \X (0 .. Last)
  BY <1>5 DEF PageTypeInv, StatsOK, RowsOK
<1>7. \A r \in DOMAIN stats' : stats'[r] = IF r = <<e, m>> THEN x ELSE stats[r]
  BY <1>1
<1>8. \A r \in DOMAIN stats' : stats'[r] \in Sample
  BY <1>5, <1>7 DEF PageTypeInv, StatsOK, RowsOK
<1>9. \A r \in DOMAIN stats : stats'[r] = stats[r]
  BY <1>3, <1>5, <1>7
<1>. QED  BY <1>4, <1>5, <1>6, <1>8, <1>9 DEF StatsOK, RowsOK, Collect

\* The dashboard's query covers the user's edges and no other.
LEMMA OwnCovers ==
    ASSUME PageTypeInv, NEW from \in Int, NEW to \in Int
    PROVE  /\ Own(from, to) \in Query /\ Own(from, to).from = from /\ Own(from, to).to = to
           /\ Restricted => Nodes(Own(from, to)) \subseteq page.own
<1>. DEFINE all == IF Restricted THEN page.own ELSE {}
            x == [node |-> {}, nodes |-> all, site |-> {}, restricted |-> Restricted, from |-> from, to |-> to]
<1>1. Own(from, to) = x
  <2>1. ASSUME NEW a, NEW b
        PROVE  Of(a, b, from, to) = [node |-> {}, nodes |-> a, site |-> {}, restricted |-> b, from |-> from, to |-> to]
    <3>1. PICK y : y = Of(a, b, from, to)
      OBVIOUS
    <3>2. /\ y = [i \in DOMAIN y |-> y[i]] /\ DOMAIN y = {"node", "nodes", "site", "restricted", "from", "to"}
          /\ y.node = {} /\ y.nodes = a /\ y.site = {} /\ y.restricted = b /\ y.from = from /\ y.to = to
      BY <3>1 DEF Of, Anything
    <3>3. y = [node |-> {}, nodes |-> a, site |-> {}, restricted |-> b, from |-> from, to |-> to]
      BY <3>2
    <3>. QED  BY <3>1, <3>3
  <2>. QED  BY <2>1 DEF Own
<1>2. all \subseteq Node /\ Restricted \in BOOLEAN /\ (Restricted => all \subseteq page.own)
  BY DEF PageTypeInv, PageOK, Restricted
<1>. HIDE DEF all
<1>3. x \in Query
  BY <1>2 DEF Query
<1>4. Restricted => Nodes(x) \subseteq page.own
  BY <1>2 DEF Nodes
<1>. QED  BY <1>1, <1>3, <1>4

LEMMA AskOK ==
    ASSUME PageTypeInv, Ask
    PROVE  PageOK'
<1>1. PICK N \in {{}} \cup {{e} : e \in Node}, S \in {{}} \cup {{s} : s \in Site}, w \in Window :
        LET all == IF S # {} THEN UNION {Visible(serves[s]) : s \in S} ELSE IF Restricted THEN page.own ELSE {}
        IN  IF ~Backwards(w) /\ (\A e \in N : CanSeeServer(e)) /\ (\A s \in S : CanSeeSite(s))
            THEN Turns([page EXCEPT !.pc = "asked",
                          !.q = [node |-> N, nodes |-> IF N = {} THEN all ELSE {}, site |-> S,
                                 restricted |-> Restricted, from |-> w[1], to |-> w[2]]])
            ELSE Turns(NoPage)
  BY DEF Ask
<1>. DEFINE all == IF S # {} THEN UNION {Visible(serves[s]) : s \in S} ELSE IF Restricted THEN page.own ELSE {}
            x == [node |-> N, nodes |-> IF N = {} THEN all ELSE {}, site |-> S,
                  restricted |-> Restricted, from |-> w[1], to |-> w[2]]
<1>2. w[1] \in 0 .. Last /\ w[2] \in 0 .. Last /\ w[1] \in Int /\ w[2] \in Int
  <2>1. w \in (0 .. Last) \X (0 .. Last)
    BY WindowAssumption
  <2>. QED  BY <2>1
<1>3. all \subseteq Node /\ (Restricted => all \subseteq page.own)
  BY DEF PageTypeInv, PageOK, Visible
<1>4. x \in Query
  <2>. HIDE DEF all
  <2>. QED  BY <1>2, <1>3 DEF Query, Restricted
<1>5. CASE ~Backwards(w) /\ (\A e \in N : CanSeeServer(e)) /\ (\A s \in S : CanSeeSite(s))
  <2>1. page' = [page EXCEPT !.pc = "asked", !.q = x]
    BY <1>1, <1>5 DEF Turns
  <2>2. Restricted => Nodes(x) \subseteq page.own
    <3>1. Restricted => N \subseteq page.own
      BY <1>5 DEF CanSeeServer
    <3>. HIDE DEF all
    <3>. QED  BY <1>3, <3>1 DEF Nodes
  <2>3. x.from <= x.to /\ x.from \in 0 .. Last /\ x.to \in 0 .. Last
    BY <1>2, <1>5 DEF Backwards
  <2>. HIDE DEF x
  <2>. QED  BY <1>4, <2>1, <2>2, <2>3 DEF PageTypeInv, PageOK, Restricted
<1>6. CASE page' = NoPage
  BY <1>6 DEF PageOK, NoPage, Anything, Query
<1>. QED  BY <1>1, <1>5, <1>6 DEF Turns

LEMMA PageNextOK == PageTypeInv /\ [PageNext]_pageVars => PageTypeInv'
<1>. SUFFICES ASSUME PageTypeInv, [PageNext]_pageVars PROVE PageTypeInv'
  OBVIOUS
<1>. USE DEF PageTypeInv
<1>1. CASE Collect
  <2>1. PageOK'
    BY <1>1 DEF Collect, PageOK, Restricted
  <2>. QED  BY <1>1, <2>1, Collected DEF Collect
<1>2. CASE Grant
  BY <1>2 DEF Grant, Change, PageOK, StatsOK, RowsOK, Restricted
<1>3. CASE Reassign
  BY <1>3 DEF Reassign, Change, PageOK, StatsOK, RowsOK, Restricted
<1>4. CASE UNCHANGED pageVars
  BY <1>4 DEF pageVars, PageOK, StatsOK, RowsOK, Restricted
<1>5. ASSUME NEW p, Turns(p), PageOK' PROVE PageTypeInv'
  BY <1>5 DEF Turns, StatsOK, RowsOK
<1>6. CASE Enter
  <2>1. PICK v \in Viewer :
          Turns([NoPage EXCEPT !.pc = "entered", !.who = {v}, !.own = IF v \in Admin THEN {} ELSE grants[v]])
    BY <1>6 DEF Enter
  <2>2. (IF v \in Admin THEN {} ELSE grants[v]) \subseteq Node
    OBVIOUS
  <2>3. PageOK'
    BY <2>1, <2>2 DEF Turns, PageOK, NoPage, Anything, Query, Restricted
  <2>. QED  BY <1>5, <2>1, <2>3
<1>7. CASE Ask
  <2>1. UNCHANGED <<stats, grants, serves>>
    BY <1>7 DEF Ask, Turns
  <2>. QED  BY <1>7, <2>1, AskOK DEF StatsOK, RowsOK
<1>8. ASSUME NEW pc \in {"totals", "latest", "cache", "shown"}, NEW kind, NEW answer,
             page' = [page EXCEPT !.pc = pc, !.kind = kind, !.answer = answer], page.pc \notin {"closed", "entered"},
             UNCHANGED <<stats, grants, serves>>
      PROVE  PageTypeInv'
  BY <1>8 DEF PageOK, StatsOK, RowsOK, Restricted
<1>9. CASE Read \/ ReadTotals \/ ReadLatest \/ ReadNames \/ ReadCache \/ ReadMisses \/ ReadPreviousMonth
  <2>1. \E pc \in {"totals", "latest", "cache", "shown"} : \E kind, answer :
          page' = [page EXCEPT !.pc = pc, !.kind = kind, !.answer = answer]
    <3>1. CASE Read
      BY <3>1 DEF Read, Turns
    <3>2. CASE ReadTotals
      BY <3>2 DEF ReadTotals, Turns
    <3>3. CASE ReadLatest
      <4>1. page' = [page EXCEPT !.pc = "latest", !.kind = page.kind,
                        !.answer = [page.answer EXCEPT !.latest = DOMAIN Latest(L7Rate(stats, page.q))]]
        BY <3>3 DEF ReadLatest, Turns, PageOK
      <4>. QED  BY <4>1
    <3>4. CASE ReadNames
      <4>1. page' = [page EXCEPT !.pc = "shown", !.kind = page.kind,
                        !.answer = [page.answer EXCEPT !.names = Cardinality(Names(stats, page.q))]]
        BY <3>4 DEF ReadNames, Turns, PageOK
      <4>. QED  BY <4>1
    <3>5. CASE ReadCache
      BY <3>5 DEF ReadCache, Turns
    <3>6. CASE ReadMisses
      <4>1. \E answer : page' = [page EXCEPT !.pc = "shown", !.kind = page.kind, !.answer = answer]
        BY <3>6 DEF ReadMisses, Turns, PageOK
      <4>. QED  BY <4>1
    <3>7. CASE ReadPreviousMonth
      <4>1. page' = [page EXCEPT !.pc = "shown", !.kind = page.kind,
                        !.answer = [page.answer EXCEPT !.previous = Threats(stats, Own(page.q.from - Month, page.q.from))]]
        BY <3>7 DEF ReadPreviousMonth, Turns, PageOK
      <4>. QED  BY <4>1
    <3>. QED  BY <1>9, <3>1, <3>2, <3>3, <3>4, <3>5, <3>6, <3>7
  <2>2. page.pc \notin {"closed", "entered"} /\ UNCHANGED <<stats, grants, serves>>
    BY <1>9 DEF Read, ReadTotals, ReadLatest, ReadNames, ReadCache, ReadMisses, ReadPreviousMonth, Turns
  <2>. QED  BY <1>8, <2>1, <2>2
<1>10. CASE ReadThisMonth
  <2>1. PICK now \in 0 .. Last : \E q, answer :
          /\ q = Own((now \div Month) * Month, (now \div Month) * Month + Month)
          /\ Turns([page EXCEPT !.pc = "month", !.kind = "months", !.q = q, !.answer = answer])
    BY <1>10 DEF ReadThisMonth
  <2>0. PICK q, answer :
          /\ q = Own((now \div Month) * Month, (now \div Month) * Month + Month)
          /\ Turns([page EXCEPT !.pc = "month", !.kind = "months", !.q = q, !.answer = answer])
    BY <2>1
  <2>2. (now \div Month) * Month \in Int /\ Month \in Int
    BY BoundAssumption
  <2>3. q \in Query /\ (Restricted => Nodes(q) \subseteq page.own)
    BY <2>0, <2>2, OwnCovers
  <2>4. PageOK'
    BY <2>0, <2>3 DEF Turns, PageOK, Restricted
  <2>. QED  BY <1>5, <2>0, <2>4
<1>11. CASE Leave
  <2>1. Turns(NoPage)
    BY <1>11 DEF Leave
  <2>2. PageOK'
    BY <2>1 DEF Turns, PageOK, NoPage, Anything, Query
  <2>. QED  BY <1>5, <2>1, <2>2
<1>. QED  BY <1>1, <1>2, <1>3, <1>4, <1>6, <1>7, <1>9, <1>10, <1>11 DEF PageNext

\* Statistics, grants and pages keep their shape, and what is asked for a user who is no Admin
\* is of their own edges (withViewerScope, parseAnalyticsScope).
THEOREM PageTypes == PageSpec => []PageTypeInv
<1>. QED  BY PageInitOK, PageNextOK, PTL DEF PageSpec

-----------------------------------------------------------------------------
(* Figures. *)

LEMMA RowsFinite ==
    ASSUME NEW R, IsFiniteSet(DOMAIN R), NEW q
    PROVE  IsFiniteSet(Rows(R, q)) /\ Rows(R, q) \subseteq DOMAIN R /\ IsFiniteSet(SiteRows(R, q))
           /\ SiteRows(R, q) \subseteq Rows(R, q)
<1>1. Rows(R, q) \subseteq DOMAIN R /\ SiteRows(R, q) \subseteq Rows(R, q)
  BY DEF Rows, SiteRows
<1>. QED  BY <1>1, FS_Subset

\* What an edge counted in a minute, on any of its sites.
LEMMA SampleFigures ==
    ASSUME NEW R, RowsOK(R), NEW r \in DOMAIN R
    PROVE  /\ R[r].nic \in Nat /\ R[r].all.asked \in Nat /\ R[r].all.blocked \in Nat
           /\ \A s \in Site : \A f \in {"asked", "blocked", "hit", "miss", "bytes"} : R[r].site[s][f] \in Nat
<1>1. R[r] \in [nic : Nat, peak : Nat, attacks : [Client -> Nat], all : Requests,
                    site : [Site -> SiteFigures], hits : [Site -> [Client -> Nat]]]
  BY SampleAssumption DEF RowsOK
<1>2. /\ R[r].nic \in Nat /\ R[r].all \in Requests /\ R[r].site \in [Site -> SiteFigures]
  BY <1>1
<1>3. \A s \in Site : R[r].site[s] \in SiteFigures
  BY <1>2
<1>4. \A x \in SiteFigures : \A f \in {"asked", "blocked", "hit", "miss", "bytes"} : x[f] \in Nat
  BY DEF SiteFigures
<1>. QED  BY <1>2, <1>3, <1>4 DEF Requests

\* A figure of the cache is a number.
LEMMA CacheFigures ==
    ASSUME NEW R, RowsOK(R), NEW q, q.site \subseteq Site, NEW f \in {"asked", "hit", "miss", "bytes"}
    PROVE  /\ Numbers([r \in Rows(R, q) |-> OfSites(R, q, r, f)])
           /\ CacheSums(R, q)[f] = SumOf([r \in Rows(R, q) |-> OfSites(R, q, r, f)])
           /\ CacheSums(R, q)[f] \in Nat
<1>1. SitesOf(q) \subseteq Site /\ IsFiniteSet(SitesOf(q))
  <2>1. SitesOf(q) \subseteq Site
    BY DEF SitesOf
  <2>. QED  BY <2>1, SiteAssumption, FS_Subset
<1>2. ASSUME NEW r \in Rows(R, q) PROVE OfSites(R, q, r, f) \in Nat
  <2>1. r \in DOMAIN R
    BY DEF Rows
  <2>2. PICK g : g = [s \in SitesOf(q) |-> R[r].site[s][f]]
    OBVIOUS
  <2>3. Numbers(g)
    BY <1>1, <2>1, <2>2, SampleFigures DEF Numbers
  <2>4. SumOf(g) \in Nat
    <3>1. SumOf(g) = Part(g, DOMAIN g)
      BY <2>3, PartIs DEF Numbers
    <3>. QED  BY <2>3, <3>1, PartType
  <2>. QED  BY <2>2, <2>4 DEF OfSites
<1>3. PICK h : h = [r \in Rows(R, q) |-> OfSites(R, q, r, f)]
  OBVIOUS
<1>4. Numbers(h)
  <2>1. IsFiniteSet(Rows(R, q))
    BY RowsFinite DEF RowsOK
  <2>. QED  BY <1>2, <1>3, <2>1 DEF Numbers
<1>5. CacheSums(R, q)[f] = SumOf(h)
  BY <1>3 DEF CacheSums
<1>6. SumOf(h) = Part(h, DOMAIN h) /\ Part(h, DOMAIN h) \in Nat
  BY <1>4, PartIs, PartType DEF Numbers
<1>. QED  BY <1>3, <1>4, <1>5, <1>6

-----------------------------------------------------------------------------
(* Pages made of several queries: what the first have left in the answer. *)

ShapeInv ==
    /\ page.pc \in {"totals", "latest"} =>
          page.kind = "summary" /\ DOMAIN page.answer = {"total", "latest", "names"}
    /\ page.pc = "cache" => page.kind = "cache_status"
    /\ page.pc = "month" =>
          /\ page.kind = "months" /\ DOMAIN page.answer = {"this", "previous", "least"}
          /\ page.q = Own(page.q.from, page.q.from + Month)

LEMMA Begins ==
    ASSUME PageTypeInv, Enter \/ Ask \/ Leave
    PROVE  page'.pc \in {"closed", "entered", "asked"}
<1>0. DOMAIN page = {"pc", "kind", "who", "own", "q", "answer"}
  BY DEF PageTypeInv, PageOK
<1>1. CASE Enter
  BY <1>1 DEF Enter, Turns, NoPage
<1>2. CASE Ask
  <2>1. page' = NoPage \/ \E q : page' = [page EXCEPT !.pc = "asked", !.q = q]
    BY <1>2 DEF Ask, Turns
  <2>2. CASE page' = NoPage
    BY <2>2 DEF NoPage
  <2>3. ASSUME NEW q, page' = [page EXCEPT !.pc = "asked", !.q = q] PROVE page'.pc = "asked"
    BY <1>0, <2>3
  <2>. QED  BY <2>1, <2>2, <2>3
<1>3. CASE Leave
  BY <1>3 DEF Leave, Turns, NoPage
<1>. QED  BY <1>1, <1>2, <1>3

LEMMA ShapeInit == PageInit => ShapeInv
  BY DEF PageInit, ShapeInv, NoPage

LEMMA ShapeStep == PageTypeInv /\ ShapeInv /\ [PageNext]_pageVars => ShapeInv'
<1>. SUFFICES ASSUME PageTypeInv, ShapeInv, [PageNext]_pageVars PROVE ShapeInv'
  OBVIOUS
<1>0. DOMAIN page = {"pc", "kind", "who", "own", "q", "answer"} /\ page.q \in Query
  BY DEF PageTypeInv, PageOK
<1>1. CASE UNCHANGED page
  BY <1>1 DEF ShapeInv, Own, Restricted
<1>2. CASE page'.pc \in {"closed", "entered", "asked", "shown"}
  BY <1>2 DEF ShapeInv
<1>3. CASE ReadTotals
  BY <1>0, <1>3 DEF ReadTotals, Turns, ShapeInv
<1>4. CASE ReadLatest
  BY <1>0, <1>4 DEF ReadLatest, Turns, ShapeInv
<1>5. CASE ReadCache
  BY <1>0, <1>5 DEF ReadCache, Turns, ShapeInv
<1>6. CASE ReadThisMonth
  <2>1. PICK now \in 0 .. Last :
          page' = [page EXCEPT !.pc = "month", !.kind = "months",
                     !.q = Own((now \div Month) * Month, (now \div Month) * Month + Month),
                     !.answer = [this |-> Threats(stats, Own((now \div Month) * Month, (now \div Month) * Month + Month)),
                                 previous |-> 0,
                                 least |-> Both(stats, Own((now \div Month) * Month, (now \div Month) * Month + Month))]]
    BY <1>6 DEF ReadThisMonth, Turns
  <2>2. PICK q, a, b :
          /\ q = Own((now \div Month) * Month, (now \div Month) * Month + Month)
          /\ page' = [page EXCEPT !.pc = "month", !.kind = "months", !.q = q,
                                  !.answer = [this |-> a, previous |-> 0, least |-> b]]
    BY <2>1
  <2>3. (now \div Month) * Month \in Int /\ Month \in Int
    BY BoundAssumption
  <2>4. q = Own(q.from, q.from + Month)
    BY <2>2, <2>3, OwnCovers
  <2>5. Restricted' = Restricted /\ page'.own = page.own /\ page'.q = q
    BY <1>0, <2>2 DEF Restricted
  <2>6. (page.q = Own(page.q.from, page.q.from + Month))'
    BY <2>4, <2>5 DEF Own
  <2>7. page'.pc = "month" /\ page'.kind = "months" /\ DOMAIN page'.answer = {"this", "previous", "least"}
    BY <1>0, <2>2
  <2>. QED  BY <2>6, <2>7 DEF ShapeInv
<1>7. CASE Grant \/ Reassign \/ Collect \/ UNCHANGED pageVars
  BY <1>1, <1>7 DEF Grant, Reassign, Collect, pageVars
<1>8. CASE Enter \/ Ask \/ Leave
  BY <1>2, <1>8, Begins
<1>9. CASE Read \/ ReadNames \/ ReadMisses \/ ReadPreviousMonth
  BY <1>0, <1>2, <1>9 DEF Read, ReadNames, ReadMisses, ReadPreviousMonth, Turns
<1>. QED  BY <1>3, <1>4, <1>5, <1>6, <1>7, <1>8, <1>9 DEF PageNext

-----------------------------------------------------------------------------
(* OwnEdgesOnly. *)

\* A user who is no Admin is shown figures of their own edges, whatever changes between the
\* reads of a request (withViewerScope, appendServerScope and every query).
THEOREM OwnEdgesOnlyHolds == PageSpec => OwnEdgesOnly
<1>1. ASSUME PageTypeInv, ShapeInv, PageNext, Restricted, page'.pc # page.pc,
             page'.pc \in {"totals", "latest", "cache", "month", "shown"}
      PROVE  LET mine == [r \in {r \in DOMAIN stats : r[1] \in page.own} |-> stats[r]]
                 q == page'.q
             IN  CASE page.pc = "asked" /\ page'.pc = "shown" -> page'.answer \in Answers(mine, q, page'.kind)
                   [] page'.pc = "totals" -> page'.answer.total \in {0, Totals(mine, q).l7}
                   [] page'.pc = "latest" -> page'.answer.latest = DOMAIN Latest(L7Rate(mine, q))
                   [] page.pc = "latest"  -> page'.answer.names = Cardinality(Names(mine, q))
                   [] page'.pc = "cache"  -> page'.answer = CacheSummary(mine, q)
                   [] page.pc = "cache"   ->
                         page'.answer.miss > 0 => CacheSums(mine, q).miss > 0
                   [] page'.pc = "month"  -> page'.answer.this = Threats(mine, q)
                   [] page.pc = "month"   ->
                         page'.answer.previous = Threats(mine, Own(q.from - Month, q.from))
  <2>1. PICK mine : mine = Mine(stats, page.own)
    OBVIOUS
  <2>2. mine = [r \in {r \in DOMAIN stats : r[1] \in page.own} |-> stats[r]]
    BY <2>1 DEF Mine
  <2>3. PageTypeInv'
    BY <1>1, PageNextOK
  <2>4. page.q \in Query /\ DOMAIN page = {"pc", "kind", "who", "own", "q", "answer"}
    BY <1>1 DEF PageTypeInv, PageOK
  <2>5. page.pc \notin {"closed", "entered"} => Nodes(page.q) \subseteq page.own
    BY <1>1 DEF PageTypeInv, PageOK
  <2>6. CASE Read
    <3>1. PICK kind \in Kind : \E answer \in Answers(stats, page.q, kind) :
            Turns([page EXCEPT !.pc = "shown", !.kind = kind, !.answer = answer])
      BY <2>6 DEF Read
    <3>2. PICK answer \in Answers(stats, page.q, kind) :
            Turns([page EXCEPT !.pc = "shown", !.kind = kind, !.answer = answer])
      BY <3>1
    <3>3. page.pc = "asked" /\ page'.pc = "shown" /\ page'.kind = kind /\ page'.answer = answer /\ page'.q = page.q
      BY <2>4, <2>6, <3>2 DEF Turns, Read
    <3>4. Answers(mine, page.q, kind) = Answers(stats, page.q, kind)
      BY <2>1, <2>4, <2>5, <3>3, AnswersOfMine
    <3>5. page'.answer \in Answers(mine, page'.q, page'.kind)
      BY <3>2, <3>3, <3>4
    <3>. QED  BY <2>2, <3>3, <3>5
  <2>7. CASE ReadTotals
    <3>1. /\ page.pc = "asked" /\ page'.pc = "totals" /\ page'.q = page.q
          /\ page'.answer.total \in {0, Totals(stats, page.q).l7}
      BY <2>4, <2>7 DEF ReadTotals, Turns
    <3>2. Totals(mine, page.q) = Totals(stats, page.q)
      BY <2>1, <2>5, <3>1, SumsOfMine
    <3>. QED  BY <2>2, <3>1, <3>2
  <2>8. CASE ReadLatest
    <3>1. /\ page.pc = "totals" /\ page'.pc = "latest" /\ page'.q = page.q
          /\ page'.answer = [page.answer EXCEPT !.latest = DOMAIN Latest(L7Rate(stats, page.q))]
      BY <2>4, <2>8 DEF ReadLatest, Turns
    <3>2. L7Rate(mine, page.q) = L7Rate(stats, page.q)
      BY <2>1, <2>5, <3>1, SeriesOfMine
    <3>. QED  BY <2>2, <3>1, <3>2
  <2>9. CASE ReadNames
    <3>1. /\ page.pc = "latest" /\ page'.pc = "shown" /\ page'.q = page.q
          /\ page'.answer = [page.answer EXCEPT !.names = Cardinality(Names(stats, page.q))]
      BY <2>4, <2>9 DEF ReadNames, Turns
    <3>2. Names(mine, page.q) = Names(stats, page.q)
      BY <2>1, <2>5, <3>1, ListsOfMine
    <3>3. page'.answer.names = Cardinality(Names(stats, page.q))
      BY <1>1, <3>1 DEF ShapeInv
    <3>. QED  BY <2>2, <3>1, <3>2, <3>3
  <2>10. CASE ReadCache
    <3>1. /\ page.pc = "asked" /\ page'.pc = "cache" /\ page'.q = page.q
          /\ page'.answer = CacheSummary(stats, page.q)
      BY <2>4, <2>10 DEF ReadCache, Turns
    <3>2. CacheSums(mine, page.q) = CacheSums(stats, page.q)
      BY <2>1, <2>5, <3>1, SumsOfMine
    <3>3. CacheSummary(mine, page.q) = CacheSummary(stats, page.q)
      BY <3>2 DEF CacheSummary
    <3>. QED  BY <2>2, <3>1, <3>3
  <2>11. CASE ReadMisses
    <3>1. PICK miss : miss = CacheSums(stats, page.q).miss
      OBVIOUS
    <3>2. /\ page.pc = "cache" /\ page'.pc = "shown" /\ page'.q = page.q
          /\ miss = 0 => page'.answer.miss = 0
      BY <2>4, <2>11, <3>1 DEF ReadMisses, Turns
    <3>3. CacheSums(mine, page.q) = CacheSums(stats, page.q)
      BY <2>1, <2>5, <3>2, SumsOfMine
    <3>4. miss \in Nat
      BY <1>1, <2>4, <3>1, CacheFigures DEF PageTypeInv, StatsOK, Query
    <3>5. page'.answer.miss > 0 => CacheSums(mine, page'.q).miss > 0
      BY <3>1, <3>2, <3>3, <3>4
    <3>. QED  BY <2>2, <3>2, <3>5
  <2>12. CASE ReadThisMonth
    <3>1. page.pc = "entered" /\ page'.pc = "month" /\ page'.answer.this = Threats(stats, page'.q) /\ page'.own = page.own
          /\ Restricted'
      BY <1>1, <2>4, <2>12 DEF ReadThisMonth, Turns, Restricted
    <3>2. Nodes(page'.q) \subseteq page.own
      BY <2>3, <3>1 DEF PageTypeInv, PageOK
    <3>3. Threats(mine, page'.q) = Threats(stats, page'.q)
      BY <2>1, <3>2, SumsOfMine
    <3>. QED  BY <2>2, <3>1, <3>3
  <2>13. CASE ReadPreviousMonth
    <3>1. PICK q : q = Own(page.q.from - Month, page.q.from)
      OBVIOUS
    <3>2. /\ page.pc = "month" /\ page'.pc = "shown" /\ page'.q = page.q
          /\ page'.answer = [page.answer EXCEPT !.previous = Threats(stats, q)]
      BY <2>4, <2>13, <3>1 DEF ReadPreviousMonth, Turns
    <3>3. page'.answer.previous = Threats(stats, q)
      BY <1>1, <3>2 DEF ShapeInv
    <3>4. page.q.from \in Int /\ page.q.from - Month \in Int
      BY <2>4, BoundAssumption DEF Query
    <3>5. Nodes(q) \subseteq page.own
      BY <1>1, <3>1, <3>4, OwnCovers
    <3>6. Threats(mine, q) = Threats(stats, q)
      BY <2>1, <3>5, SumsOfMine
    <3>. QED  BY <2>2, <3>1, <3>2, <3>3, <3>6
  <2>14. CASE Collect \/ Grant \/ Reassign
    BY <1>1, <2>14 DEF Collect, Grant, Reassign
  <2>15. CASE Enter \/ Ask \/ Leave
    BY <1>1, <2>15, Begins
  <2>. QED  BY <1>1, <2>6, <2>7, <2>8, <2>9, <2>10, <2>11, <2>12, <2>13, <2>14, <2>15 DEF PageNext
<1>2. PageTypeInv /\ ShapeInv /\ [PageNext]_pageVars =>
        [(Restricted /\ page'.pc # page.pc /\ page'.pc \in {"totals", "latest", "cache", "month", "shown"}) =>
           LET mine == [r \in {r \in DOMAIN stats : r[1] \in page.own} |-> stats[r]]
               q == page'.q
           IN  CASE page.pc = "asked" /\ page'.pc = "shown" -> page'.answer \in Answers(mine, q, page'.kind)
                 [] page'.pc = "totals" -> page'.answer.total \in {0, Totals(mine, q).l7}
                 [] page'.pc = "latest" -> page'.answer.latest = DOMAIN Latest(L7Rate(mine, q))
                 [] page.pc = "latest"  -> page'.answer.names = Cardinality(Names(mine, q))
                 [] page'.pc = "cache"  -> page'.answer = CacheSummary(mine, q)
                 [] page.pc = "cache"   ->
                       page'.answer.miss > 0 => CacheSums(mine, q).miss > 0
                 [] page'.pc = "month"  -> page'.answer.this = Threats(mine, q)
                 [] page.pc = "month"   ->
                       page'.answer.previous = Threats(mine, Own(q.from - Month, q.from))]_pageVars
  BY <1>1
<1>. QED  BY <1>2, PageInitOK, PageNextOK, ShapeInit, ShapeStep, PTL DEF PageSpec, OwnEdgesOnly

-----------------------------------------------------------------------------
(* Division. *)

LEMMA DivOne ==
    ASSUME NEW a \in Nat, NEW n \in Nat \ {0}
    PROVE  (a \div n) \in Nat /\ (a \div n) * n <= a /\ a < (a \div n) * n + n
  OBVIOUS
LEMMA MulCancel ==
    ASSUME NEW a \in Int, NEW b \in Int, NEW n \in Nat \ {0}, a * n <= b * n
    PROVE  a <= b
  OBVIOUS
LEMMA DivMul ==
    ASSUME NEW b \in Int, NEW n \in Nat \ {0}
    PROVE  (b * n) \div n = b
  OBVIOUS
LEMMA Shares ==
    ASSUME NEW b \in Nat, NEW h \in Nat, NEW m \in Nat, h + m # 0
    PROVE  (b * h) \div (h + m) + (b * m) \div (h + m) <= b
<1>1. PICK n \in Nat : n = h + m
  OBVIOUS
<1>2. PICK p \in Nat, q \in Nat : p = b * h /\ q = b * m
  OBVIOUS
<1>3. PICK x \in Int, y \in Int : x = p \div n /\ y = q \div n
  BY <1>1, DivOne
<1>4. x * n <= p /\ y * n <= q
  BY <1>1, <1>2, <1>3, DivOne
<1>5. (x + y) * n <= b * n
  BY <1>1, <1>2, <1>3, <1>4
<1>6. x + y <= b
  BY <1>1, <1>3, <1>5, MulCancel
<1>. QED  BY <1>1, <1>2, <1>3, <1>6

-----------------------------------------------------------------------------
(* FiguresHangTogether. *)

LEMMA Greatest ==
    ASSUME NEW S, IsFiniteSet(S), S \subseteq Int, S # {}
    PROVE  \E m \in S : \A n \in S : n <= m
<1>. DEFINE Above(m) == {n \in S : m < n}
            T == {Above(m) : m \in S}
<1>1. PICK t \in T : \A u \in SUBSET t : u # t => u \notin T
  <2>1. T \subseteq SUBSET S /\ T # {}
    OBVIOUS
  <2>. HIDE DEF T
  <2>. QED  BY <2>1, LeastSet
<1>2. PICK m \in S : t = Above(m)
  OBVIOUS
<1>3. ASSUME NEW n \in S, ~(n <= m) PROVE FALSE
  <2>1. m \in Int /\ n \in Int /\ m < n /\ \A x \in S : x \in Int
    BY <1>3
  <2>2. n \notin Above(n) /\ \A x \in Above(n) : x \in Above(m)
    BY <2>1
  <2>3. n \in t /\ Above(n) \in SUBSET t /\ Above(n) # t
    BY <1>2, <2>1, <2>2
  <2>. QED  BY <1>1, <2>3
<1>. QED  BY <1>3

\* A page that shows requests shows a latest minute.
LEMMA LatestShown ==
    ASSUME NEW R, RowsOK(R), NEW q, SiteRows(R, q) # {}
    PROVE  DOMAIN Latest(L7Rate(R, q)) # {}
<1>1. PICK M : M = {r[2] : r \in SiteRows(R, q)}
  OBVIOUS
<1>2. DOMAIN L7Rate(R, q) = M
  BY <1>1 DEF L7Rate, PerMinute
<1>3. IsFiniteSet(M)
  <2>1. IsFiniteSet(SiteRows(R, q))
    BY RowsFinite DEF RowsOK
  <2>2. [r \in SiteRows(R, q) |-> r[2]] \in Surjection(SiteRows(R, q), M)
    BY <1>1 DEF Surjection, Range
  <2>. QED  BY <2>1, <2>2, FS_Surjection
<1>4. M \subseteq Int
  <2>1. SiteRows(R, q) \subseteq Node \X (0 .. Last)
    BY RowsFinite DEF RowsOK
  <2>. QED  BY <1>1, <2>1
<1>5. M # {}
  BY <1>1
<1>6. PICK m \in M : \A n \in M : n <= m
  BY <1>3, <1>4, <1>5, Greatest
<1>. QED  BY <1>2, <1>6 DEF Latest

LEMMA TotalsOfNothing ==
    ASSUME NEW R, NEW q, SiteRows(R, q) = {}
    PROVE  Totals(R, q).l7 = 0
<1>1. PICK f : f = [r \in SiteRows(R, q) |-> L7(R, q, r).asked]
  OBVIOUS
<1>2. DOMAIN f = {} /\ IsFiniteSet({})
  BY <1>1, FS_EmptySet
<1>3. SumOf(f) = Part(f, {}) /\ Part(f, {}) = 0
  BY <1>2, PartIs
<1>. QED  BY <1>1, <1>3 DEF Totals

SummaryInv ==
    /\ page.pc = "totals" => (page.answer.total > 0 => SiteRows(stats, page.q) # {})
    /\ (page.pc = "latest" \/ (page.pc = "shown" /\ page.kind = "summary")) =>
          (page.answer.total > 0 => page.answer.latest # {})

LEMMA SummaryStep ==
    ASSUME PageTypeInv, ShapeInv, SummaryInv, [PageNext]_pageVars
    PROVE  SummaryInv'
<1>0. DOMAIN page = {"pc", "kind", "who", "own", "q", "answer"}
  BY DEF PageTypeInv, PageOK
<1>1. CASE Collect
  <2>1. UNCHANGED page /\ SiteRows(stats, page.q) \subseteq SiteRows(stats', page.q)
    BY <1>1, Collected DEF SiteRows, Rows, L7
  <2>. QED  BY <2>1 DEF SummaryInv
<1>2. CASE Grant \/ Reassign \/ UNCHANGED pageVars
  BY <1>2 DEF Grant, Reassign, pageVars, SummaryInv
<1>3. CASE page'.pc \in {"closed", "entered", "asked", "cache", "month"}
  BY <1>3 DEF SummaryInv
<1>4. CASE page'.pc = "shown" /\ page'.kind # "summary"
  BY <1>4 DEF SummaryInv
<1>5. CASE Enter \/ Ask \/ Leave
  BY <1>3, <1>5, Begins
<1>6. CASE Read
  <2>1. PICK kind \in Kind : \E answer : page' = [page EXCEPT !.pc = "shown", !.kind = kind, !.answer = answer]
    BY <1>6 DEF Read, Turns
  <2>2. page'.pc = "shown" /\ page'.kind = kind
    BY <1>0, <2>1
  <2>. QED  BY <1>4, <2>2 DEF Kind
<1>7. CASE ReadTotals
  <2>1. PICK total \in {0, Totals(stats, page.q).l7} :
          page' = [page EXCEPT !.pc = "totals", !.kind = "summary",
                               !.answer = [total |-> total, latest |-> {}, names |-> 0]]
    BY <1>7 DEF ReadTotals, Turns
  <2>2. /\ page'.pc = "totals" /\ page'.answer.total = total /\ page'.q = page.q
        /\ UNCHANGED stats
    BY <1>0, <1>7, <2>1 DEF ReadTotals, Turns
  <2>3. total > 0 => SiteRows(stats, page.q) # {}
    BY <2>1, TotalsOfNothing
  <2>. QED  BY <2>2, <2>3 DEF SummaryInv
<1>8. CASE ReadLatest
  <2>1. /\ page.pc = "totals" /\ page'.pc = "latest"
        /\ page'.answer = [page.answer EXCEPT !.latest = DOMAIN Latest(L7Rate(stats, page.q))]
    BY <1>0, <1>8 DEF ReadLatest, Turns
  <2>2. page'.answer.total = page.answer.total /\ page'.answer.latest = DOMAIN Latest(L7Rate(stats, page.q))
    BY <2>1 DEF ShapeInv
  <2>3. page.answer.total > 0 => SiteRows(stats, page.q) # {}
    BY <2>1 DEF SummaryInv
  <2>4. page'.answer.total > 0 => page'.answer.latest # {}
    BY <2>2, <2>3, LatestShown DEF PageTypeInv, StatsOK
  <2>. QED  BY <2>1, <2>4 DEF SummaryInv
<1>9. CASE ReadNames
  <2>1. /\ page.pc = "latest" /\ page'.pc = "shown"
        /\ page'.answer = [page.answer EXCEPT !.names = Cardinality(Names(stats, page.q))]
    BY <1>0, <1>9 DEF ReadNames, Turns
  <2>2. page'.answer.total = page.answer.total /\ page'.answer.latest = page.answer.latest
    BY <2>1 DEF ShapeInv
  <2>. QED  BY <2>1, <2>2 DEF SummaryInv
<1>10. CASE ReadCache \/ ReadThisMonth
  BY <1>0, <1>3, <1>10 DEF ReadCache, ReadThisMonth, Turns
<1>11. CASE ReadMisses \/ ReadPreviousMonth
  <2>1. page.kind # "summary"
    BY <1>11 DEF ReadMisses, ReadPreviousMonth, ShapeInv
  <2>2. page'.pc = "shown" /\ page'.kind = page.kind
    BY <1>0, <1>11 DEF ReadMisses, ReadPreviousMonth, Turns
  <2>. QED  BY <1>4, <2>1, <2>2
<1>. QED  BY <1>1, <1>2, <1>5, <1>6, <1>7, <1>8, <1>9, <1>10, <1>11 DEF PageNext

CacheInv ==
    /\ page.pc = "cache" => page.answer.hit \in Nat /\ page.answer.bytes \in Nat
    /\ page.pc = "shown" /\ page.kind = "cache_status" =>
          page.answer.hit + page.answer.miss <= page.answer.bytes

LEMMA CacheStep ==
    ASSUME PageTypeInv, ShapeInv, CacheInv, [PageNext]_pageVars
    PROVE  CacheInv'
<1>0. DOMAIN page = {"pc", "kind", "who", "own", "q", "answer"} /\ page.q \in Query
  BY DEF PageTypeInv, PageOK
<1>1. CASE Collect \/ Grant \/ Reassign \/ UNCHANGED pageVars
  BY <1>1 DEF Collect, Grant, Reassign, pageVars, CacheInv
<1>2. CASE page'.pc \in {"closed", "entered", "asked", "totals", "latest", "month"}
  BY <1>2 DEF CacheInv
<1>3. CASE page'.pc = "shown" /\ page'.kind # "cache_status"
  BY <1>3 DEF CacheInv
<1>4. CASE Enter \/ Ask \/ Leave
  BY <1>2, <1>4, Begins
<1>5. CASE Read
  <2>1. PICK kind \in Kind : \E answer : page' = [page EXCEPT !.pc = "shown", !.kind = kind, !.answer = answer]
    BY <1>5 DEF Read, Turns
  <2>2. page'.pc = "shown" /\ page'.kind = kind
    BY <1>0, <2>1
  <2>. QED  BY <1>3, <2>2 DEF Kind
<1>6. CASE ReadTotals \/ ReadLatest \/ ReadThisMonth
  BY <1>0, <1>2, <1>6 DEF ReadTotals, ReadLatest, ReadThisMonth, Turns
<1>7. CASE ReadNames \/ ReadPreviousMonth
  <2>1. page.kind # "cache_status"
    BY <1>7 DEF ReadNames, ReadPreviousMonth, ShapeInv
  <2>2. page'.pc = "shown" /\ page'.kind = page.kind
    BY <1>0, <1>7 DEF ReadNames, ReadPreviousMonth, Turns
  <2>. QED  BY <1>3, <2>1, <2>2
<1>8. CASE ReadCache
  <2>1. page'.pc = "cache" /\ page'.answer = CacheSummary(stats, page.q)
    BY <1>0, <1>8 DEF ReadCache, Turns
  <2>2. CacheSums(stats, page.q).hit \in Nat /\ CacheSums(stats, page.q).bytes \in Nat
    BY <1>0, CacheFigures DEF PageTypeInv, StatsOK, Query
  <2>. QED  BY <2>1, <2>2 DEF CacheSummary, CacheInv
<1>9. CASE ReadMisses
  <2>1. PICK b, h, m : b = page.answer.bytes /\ h = page.answer.hit /\ m = CacheSums(stats, page.q).miss
    OBVIOUS
  <2>2. b \in Nat /\ h \in Nat /\ m \in Nat
    <3>1. m \in Nat
      BY <1>0, <2>1, CacheFigures DEF PageTypeInv, StatsOK, Query
    <3>. QED  BY <1>9, <2>1, <3>1 DEF ReadMisses, CacheInv
  <2>3. /\ page'.pc = "shown" /\ page'.answer.bytes = b
        /\ page'.answer.hit = IF h = 0 THEN 0 ELSE (b * h) \div (h + m)
        /\ page'.answer.miss = IF m = 0 THEN 0 ELSE (b * m) \div (h + m)
    BY <1>0, <1>9, <2>1 DEF ReadMisses, Turns
  <2>4. page'.answer.hit + page'.answer.miss <= b
    <3>1. CASE h = 0 /\ m = 0
      BY <2>2, <2>3, <3>1
    <3>2. CASE h + m # 0
      <4>1. (b * h) \div (h + m) + (b * m) \div (h + m) <= b
        BY <2>2, <3>2, Shares
      <4>2. (b * 0) \div (h + m) = 0
        BY <2>2, <3>2, DivMul
      <4>. QED  BY <2>2, <2>3, <3>2, <4>1, <4>2
    <3>. QED  BY <2>2, <3>1, <3>2
  <2>. QED  BY <2>3, <2>4 DEF CacheInv
<1>. QED  BY <1>1, <1>4, <1>5, <1>6, <1>7, <1>8, <1>9 DEF PageNext

\* The rows of a window whose end is not in it.
Before(R, q) == {r \in Rows(R, q) : r[2] < q.to}

LEMMA ThreatsPart ==
    ASSUME NEW R, RowsOK(R)
    PROVE  \E f : /\ Numbers(f) /\ DOMAIN f = DOMAIN R /\ \A r \in DOMAIN R : f[r] = R[r].all.blocked
                  /\ \A q : Before(R, q) \subseteq DOMAIN f /\ Threats(R, q) = Part(f, Before(R, q))
                            /\ Threats(R, q) \in Nat
<1>1. PICK f : f = [r \in DOMAIN R |-> R[r].all.blocked]
  OBVIOUS
<1>2. Numbers(f) /\ DOMAIN f = DOMAIN R /\ \A r \in DOMAIN R : f[r] = R[r].all.blocked
  BY <1>1, SampleFigures DEF Numbers, RowsOK
<1>3. ASSUME NEW q
      PROVE  Before(R, q) \subseteq DOMAIN f /\ Threats(R, q) = Part(f, Before(R, q)) /\ Threats(R, q) \in Nat
  <2>1. PICK s : s = Before(R, q)
    OBVIOUS
  <2>2. s \subseteq DOMAIN f
    BY <1>2, <2>1 DEF Before, Rows
  <2>3. [r \in s |-> R[r].all.blocked] = [r \in s |-> f[r]]
    BY <1>2, <2>2
  <2>4. SumOf([r \in s |-> f[r]]) = Part(f, s)
    BY <1>2, <2>2, PartOf DEF Numbers
  <2>5. Part(f, s) \in Nat
    BY <1>2, <2>2, PartType
  <2>6. Threats(R, q) = SumOf([r \in s |-> R[r].all.blocked])
    BY <2>1 DEF Threats, Before
  <2>. QED  BY <2>1, <2>2, <2>3, <2>4, <2>5, <2>6
<1>. QED  BY <1>2, <1>3

\* Two windows that meet: each minute is counted once, that of the end with the second.
LEMMA MonthsMeet ==
    ASSUME NEW R, RowsOK(R), NEW q \in Query, NEW p \in Query, q.from <= q.to,
           Nodes(p) = Nodes(q), p.from = q.from - Month, p.to = q.from
    PROVE  Both(R, q) = Threats(R, q) + Threats(R, p)
<1>1. PICK f : /\ Numbers(f) /\ DOMAIN f = DOMAIN R
               /\ \A x : Before(R, x) \subseteq DOMAIN f /\ Threats(R, x) = Part(f, Before(R, x))
  BY ThreatsPart
<1>2. PICK w : w = [q EXCEPT !.from = @ - Month]
  OBVIOUS
<1>3. Nodes(w) = Nodes(q) /\ w.from = q.from - Month /\ w.to = q.to
  BY <1>2 DEF Query, Nodes
<1>4. \A r \in DOMAIN R : r[2] \in Int
  BY DEF RowsOK
<1>5. Month \in Nat /\ q.from \in Int /\ q.to \in Int
  BY BoundAssumption DEF Query
<1>6. \A r \in DOMAIN R : r \in Before(R, w) <=> r \in Before(R, q) \/ r \in Before(R, p)
  BY <1>3, <1>4, <1>5 DEF Before, Rows
<1>7. \A r \in DOMAIN R : ~(r \in Before(R, q) /\ r \in Before(R, p))
  BY <1>4, <1>5 DEF Before, Rows
<1>8. Before(R, w) = Before(R, q) \cup Before(R, p) /\ Before(R, q) \cap Before(R, p) = {}
  BY <1>1, <1>6, <1>7
<1>9. Part(f, Before(R, q) \cup Before(R, p)) = Part(f, Before(R, q)) + Part(f, Before(R, p))
  BY <1>1, <1>8, PartUnion
<1>. QED  BY <1>1, <1>2, <1>8, <1>9 DEF Both

\* What is stored is never taken back.
LEMMA ThreatsGrow ==
    ASSUME PageTypeInv, Collect, NEW q
    PROVE  Threats(stats, q) \in Nat /\ Threats(stats', q) \in Nat /\ Threats(stats, q) <= Threats(stats', q)
<1>1. /\ RowsOK(stats) /\ RowsOK(stats') /\ DOMAIN stats \subseteq DOMAIN stats'
      /\ \A r \in DOMAIN stats : stats'[r] = stats[r]
  BY Collected DEF PageTypeInv, StatsOK
<1>2. PICK R, S : R = stats /\ S = stats'
  OBVIOUS
<1>3. PICK f : /\ Numbers(f) /\ DOMAIN f = DOMAIN R /\ \A r \in DOMAIN R : f[r] = R[r].all.blocked
               /\ \A x : Before(R, x) \subseteq DOMAIN f /\ Threats(R, x) = Part(f, Before(R, x)) /\ Threats(R, x) \in Nat
  BY <1>1, <1>2, ThreatsPart
<1>4. PICK g : /\ Numbers(g) /\ DOMAIN g = DOMAIN S /\ \A r \in DOMAIN S : g[r] = S[r].all.blocked
               /\ \A x : Before(S, x) \subseteq DOMAIN g /\ Threats(S, x) = Part(g, Before(S, x)) /\ Threats(S, x) \in Nat
  BY <1>1, <1>2, ThreatsPart
<1>5. Before(R, q) \subseteq Before(S, q)
  BY <1>1, <1>2 DEF Before, Rows
<1>6. \A r \in Before(R, q) : f[r] = g[r] /\ f[r] \in Nat
  BY <1>1, <1>2, <1>3, <1>4 DEF Numbers
<1>7. Part(f, Before(R, q)) <= Part(g, Before(S, q))
  <2>1. \A r \in Before(R, q) : f[r] <= g[r]
    BY <1>6
  <2>. QED  BY <1>3, <1>4, <1>5, <2>1, PartGrows
<1>. QED  BY <1>2, <1>3, <1>4, <1>7

MonthsInv ==
    /\ page.pc = "month" =>
          /\ page.answer.this \in Nat /\ page.answer.least \in Nat
          /\ page.answer.this <= Threats(stats, page.q)
          /\ page.answer.least <= page.answer.this + Threats(stats, Own(page.q.from - Month, page.q.from))
    /\ page.pc = "shown" /\ page.kind = "months" =>
          /\ page.answer.this + page.answer.previous \in Nat /\ page.answer.least \in Nat
          /\ page.answer.least <= page.answer.this + page.answer.previous
          /\ page.answer.this + page.answer.previous <= Both(stats, page.q)

\* The months of the dashboard: the one that is asked for, and the one before.
LEMMA MonthBefore ==
    ASSUME PageTypeInv, NEW from \in Int, NEW q, q = Own(from, from + Month), NEW p, p = Own(from - Month, from)
    PROVE  q \in Query /\ p \in Query /\ Both(stats, q) = Threats(stats, q) + Threats(stats, p)
<1>1. Month \in Nat /\ from - Month \in Int /\ from + Month \in Int
  BY BoundAssumption
<1>2. /\ q \in Query /\ q.from = from /\ q.to = from + Month
      /\ p \in Query /\ p.from = from - Month /\ p.to = from
  BY <1>1, OwnCovers
<1>3. Nodes(q) = Nodes(p)
  BY DEF Own, Of, Anything, Nodes
<1>4. q.from <= q.to
  BY <1>1, <1>2
<1>. QED  BY <1>2, <1>3, <1>4, MonthsMeet DEF PageTypeInv, StatsOK

LEMMA MonthsStep ==
    ASSUME PageTypeInv, ShapeInv, MonthsInv, [PageNext]_pageVars
    PROVE  MonthsInv'
<1>0. DOMAIN page = {"pc", "kind", "who", "own", "q", "answer"} /\ page.q \in Query
  BY DEF PageTypeInv, PageOK
<1>1. CASE Grant \/ Reassign \/ UNCHANGED pageVars
  BY <1>1 DEF Grant, Reassign, pageVars, MonthsInv, Own, Restricted
<1>2. CASE page'.pc \in {"closed", "entered", "asked", "totals", "latest", "cache"}
  BY <1>2 DEF MonthsInv
<1>3. CASE page'.pc = "shown" /\ page'.kind # "months"
  BY <1>3 DEF MonthsInv
<1>4. CASE Enter \/ Ask \/ Leave
  BY <1>2, <1>4, Begins
<1>5. CASE Read
  <2>1. PICK kind \in Kind : \E answer : page' = [page EXCEPT !.pc = "shown", !.kind = kind, !.answer = answer]
    BY <1>5 DEF Read, Turns
  <2>2. page'.pc = "shown" /\ page'.kind = kind
    BY <1>0, <2>1
  <2>. QED  BY <1>3, <2>2 DEF Kind
<1>6. CASE ReadTotals \/ ReadLatest \/ ReadCache
  BY <1>0, <1>2, <1>6 DEF ReadTotals, ReadLatest, ReadCache, Turns
<1>7. CASE ReadNames \/ ReadMisses
  <2>1. page.kind # "months"
    BY <1>7 DEF ReadNames, ReadMisses, ShapeInv
  <2>2. page'.pc = "shown" /\ page'.kind = page.kind
    BY <1>0, <1>7 DEF ReadNames, ReadMisses, Turns
  <2>. QED  BY <1>3, <2>1, <2>2
<1>8. CASE Collect
  <2>1. UNCHANGED page
    BY <1>8 DEF Collect
  <2>2. \A q : Threats(stats, q) \in Nat /\ Threats(stats', q) \in Nat /\ Threats(stats, q) <= Threats(stats', q)
    BY <1>8, ThreatsGrow
  <2>3. CASE page.pc = "month"
    <3>1. PICK q, p : q = page.q /\ p = Own(page.q.from - Month, page.q.from)
      OBVIOUS
    <3>2. page'.q = q /\ Own(page.q.from - Month, page.q.from)' = p
      BY <2>1, <3>1 DEF Own, Restricted
    <3>3. /\ page.answer.this \in Nat /\ page.answer.least \in Nat /\ page.answer.this <= Threats(stats, q)
          /\ page.answer.least <= page.answer.this + Threats(stats, p)
      BY <2>3, <3>1 DEF MonthsInv
    <3>4. /\ page.answer.this <= Threats(stats', q)
          /\ page.answer.least <= page.answer.this + Threats(stats', p)
      BY <2>2, <3>3
    <3>. QED  BY <2>1, <2>3, <3>2, <3>3, <3>4 DEF MonthsInv
  <2>4. CASE page.pc = "shown" /\ page.kind = "months"
    <3>1. PICK w : w = [page.q EXCEPT !.from = @ - Month]
      OBVIOUS
    <3>2. Both(stats, page.q) = Threats(stats, w) /\ Both(stats, page.q)' = Threats(stats', w)
      BY <2>1, <3>1 DEF Both
    <3>3. /\ page.answer.this + page.answer.previous \in Nat /\ page.answer.least \in Nat
          /\ page.answer.least <= page.answer.this + page.answer.previous
          /\ page.answer.this + page.answer.previous <= Threats(stats, w)
      BY <2>4, <3>2 DEF MonthsInv
    <3>4. page.answer.this + page.answer.previous <= Threats(stats', w)
      BY <2>2, <3>3
    <3>. QED  BY <2>1, <2>4, <3>2, <3>3, <3>4 DEF MonthsInv
  <2>. QED  BY <2>1, <2>3, <2>4 DEF MonthsInv
<1>9. CASE ReadThisMonth
  <2>1. PICK now \in 0 .. Last :
          page' = [page EXCEPT !.pc = "month", !.kind = "months",
                     !.q = Own((now \div Month) * Month, (now \div Month) * Month + Month),
                     !.answer = [this |-> Threats(stats, Own((now \div Month) * Month, (now \div Month) * Month + Month)),
                                 previous |-> 0,
                                 least |-> Both(stats, Own((now \div Month) * Month, (now \div Month) * Month + Month))]]
    BY <1>9 DEF ReadThisMonth, Turns
  <2>2. PICK from \in Int : from = (now \div Month) * Month
    BY BoundAssumption
  <2>3. PICK q, p : q = Own(from, from + Month) /\ p = Own(from - Month, from)
    OBVIOUS
  <2>4. /\ page' = [page EXCEPT !.pc = "month", !.kind = "months", !.q = q,
                      !.answer = [this |-> Threats(stats, q), previous |-> 0, least |-> Both(stats, q)]]
        /\ UNCHANGED stats
    BY <1>9, <2>1, <2>2, <2>3 DEF ReadThisMonth, Turns
  <2>5. q \in Query /\ p \in Query /\ Both(stats, q) = Threats(stats, q) + Threats(stats, p)
    BY <2>3, MonthBefore
  <2>6. Threats(stats, q) \in Nat /\ Threats(stats, p) \in Nat
    BY ThreatsPart DEF PageTypeInv, StatsOK
  <2>7. /\ page'.pc = "month" /\ page'.q = q /\ page'.answer.this = Threats(stats, q)
        /\ page'.answer.least = Both(stats, q) /\ page'.own = page.own /\ Restricted' = Restricted
    BY <1>0, <2>4 DEF Restricted
  <2>8. q.from = from
    BY <2>2, <2>3, OwnCovers, BoundAssumption
  <2>9. Own(page.q.from - Month, page.q.from)' = p
    BY <2>3, <2>7, <2>8 DEF Own
  <2>. QED  BY <2>4, <2>5, <2>6, <2>7, <2>9 DEF MonthsInv
<1>10. CASE ReadPreviousMonth
  <2>1. PICK q, p, from : q = page.q /\ from = q.from /\ from \in Int /\ p = Own(from - Month, from)
    BY <1>0 DEF Query
  <2>2. /\ page.pc = "month" /\ page'.pc = "shown" /\ page'.q = q /\ UNCHANGED stats
        /\ page'.answer = [page.answer EXCEPT !.previous = Threats(stats, p)]
    BY <1>0, <1>10, <2>1 DEF ReadPreviousMonth, Turns
  <2>3. /\ page'.answer.this = page.answer.this /\ page'.answer.least = page.answer.least
        /\ page'.answer.previous = Threats(stats, p) /\ q = Own(from, from + Month)
    BY <2>1, <2>2 DEF ShapeInv
  <2>4. Both(stats, q) = Threats(stats, q) + Threats(stats, p)
    BY <2>1, <2>3, MonthBefore
  <2>5. Threats(stats, q) \in Nat /\ Threats(stats, p) \in Nat
    BY ThreatsPart DEF PageTypeInv, StatsOK
  <2>6. /\ page.answer.this \in Nat /\ page.answer.least \in Nat /\ page.answer.this <= Threats(stats, q)
        /\ page.answer.least <= page.answer.this + Threats(stats, p)
    BY <2>1, <2>2 DEF MonthsInv
  <2>7. /\ page.answer.this + Threats(stats, p) \in Nat
        /\ page.answer.this + Threats(stats, p) <= Threats(stats, q) + Threats(stats, p)
    BY <2>5, <2>6
  <2>8. Both(stats, page.q)' = Both(stats, q)
    BY <2>2 DEF Both
  <2>. QED  BY <2>2, <2>3, <2>4, <2>6, <2>7, <2>8 DEF MonthsInv
<1>. QED  BY <1>1, <1>4, <1>5, <1>6, <1>7, <1>8, <1>9, <1>10 DEF PageNext

LEMMA FiguresInit == PageInit => SummaryInv /\ CacheInv /\ MonthsInv
  BY DEF PageInit, NoPage, SummaryInv, CacheInv, MonthsInv

\* A page made of several queries hangs together although minutes are stored in between
\* (analyticsSummaryHandler, ListCacheStatusSummary, dashboardSummaryHandler).
THEOREM FiguresHangTogetherHolds == PageSpec => []FiguresHangTogether
<1>1. PageTypeInv /\ SummaryInv /\ CacheInv /\ MonthsInv => FiguresHangTogether
  <2>. SUFFICES ASSUME PageTypeInv, SummaryInv, CacheInv, MonthsInv, page.pc = "shown" PROVE FiguresHangTogether
    BY DEF FiguresHangTogether
  <2>1. CASE page.kind = "summary"
    BY <2>1 DEF SummaryInv, FiguresHangTogether
  <2>2. CASE page.kind = "cache_status"
    BY <2>2 DEF CacheInv, FiguresHangTogether
  <2>3. CASE page.kind = "months"
    <3>1. Both(stats, page.q) \in Nat
      BY ThreatsPart DEF PageTypeInv, StatsOK, Both
    <3>2. page.answer.this + page.answer.previous \in page.answer.least .. Both(stats, page.q)
      BY <2>3, <3>1 DEF MonthsInv
    <3>. QED  BY <2>3, <3>2 DEF FiguresHangTogether
  <2>. QED  BY <2>1, <2>2, <2>3 DEF FiguresHangTogether
<1>2. PageTypeInv /\ ShapeInv /\ SummaryInv /\ [PageNext]_pageVars => SummaryInv'
  BY SummaryStep
<1>3. PageTypeInv /\ ShapeInv /\ CacheInv /\ [PageNext]_pageVars => CacheInv'
  BY CacheStep
<1>4. PageTypeInv /\ ShapeInv /\ MonthsInv /\ [PageNext]_pageVars => MonthsInv'
  BY MonthsStep
<1>. QED  BY <1>1, <1>2, <1>3, <1>4, PageInitOK, PageNextOK, ShapeInit, ShapeStep, FiguresInit, PTL DEF PageSpec

-----------------------------------------------------------------------------
(* Charts. *)

\* A chart of minutes: the sum of each minute's rows.
LEMMA MinutesAddUp ==
    ASSUME NEW f, Numbers(f)
    PROVE  /\ DOMAIN PerMinute(f) = {r[2] : r \in DOMAIN f}
           /\ Numbers(PerMinute(f)) /\ SumOf(PerMinute(f)) = SumOf(f)
           /\ \A m \in DOMAIN PerMinute(f) : PerMinute(f)[m] = Part(f, {r \in DOMAIN f : r[2] = m})
<1>1. PICK F, k : F = PerMinute(f) /\ k = [r \in DOMAIN f |-> r[2]]
  OBVIOUS
<1>2. DOMAIN F = {r[2] : r \in DOMAIN f} /\ DOMAIN F = {k[r] : r \in DOMAIN f} /\ DOMAIN k = DOMAIN f
  BY <1>1 DEF PerMinute
<1>3. ASSUME NEW m \in DOMAIN F PROVE F[m] = Part(f, {r \in DOMAIN f : r[2] = m})
  <2>1. F[m] = SumOf([r \in {r \in DOMAIN f : r[2] = m} |-> f[r]])
    BY <1>1, <1>2 DEF PerMinute
  <2>2. PICK s \in SUBSET DOMAIN f : s = {r \in DOMAIN f : r[2] = m}
    OBVIOUS
  <2>3. SumOf([r \in s |-> f[r]]) = Part(f, s)
    BY PartOf DEF Numbers
  <2>. QED  BY <2>1, <2>2, <2>3
<1>4. \A m \in DOMAIN F : \E s \in SUBSET DOMAIN f :
        (\A r \in DOMAIN f : r \in s <=> k[r] = m) /\ F[m] = Part(f, s)
  <2>1. ASSUME NEW m \in DOMAIN F
        PROVE  \E s \in SUBSET DOMAIN f : (\A r \in DOMAIN f : r \in s <=> k[r] = m) /\ F[m] = Part(f, s)
    <3>1. PICK s \in SUBSET DOMAIN f : s = {r \in DOMAIN f : r[2] = m}
      OBVIOUS
    <3>2. F[m] = Part(f, s) /\ \A r \in DOMAIN f : r \in s <=> k[r] = m
      BY <1>1, <1>3, <3>1
    <3>. QED  BY <3>2
  <2>. QED  BY <2>1
<1>5. /\ \A r \in DOMAIN f : k[r] \in DOMAIN F
      /\ \A m \in DOMAIN F : \E r \in DOMAIN f : k[r] = m
  BY <1>2
<1>6. SumOf(F) = SumOf(f) /\ Numbers(F)
  BY <1>4, <1>5, Fibres
<1>. QED  BY <1>1, <1>2, <1>3, <1>6

\* The window of a page: its query has buckets of at least one minute, and no more of them
\* than the chart may have, but for those the ends of the window cut (dashboardBucketSize).
InOrder(q) == q \in Query /\ {q.from, q.to} \subseteq 0 .. Last /\ q.from <= q.to

LEMMA BucketFits ==
    ASSUME NEW q, InOrder(q)
    PROVE  Bucket(q) \in Nat \ {0} /\ (q.to - q.from) \div Bucket(q) <= MaxPoints
<1>. DEFINE d == q.to - q.from
            S == {b \in 1 .. Last + 1 : d \div b <= MaxPoints}
<1>1. Last \in Nat /\ MaxPoints \in Nat /\ d \in Nat /\ d < Last + 1
  BY BoundAssumption DEF InOrder, Query
<1>2. Last + 1 \in S
  <2>1. d \div (Last + 1) = 0
    <3>1. PICK e \in Nat, n \in Nat \ {0} : e = d /\ n = Last + 1
      BY <1>1
    <3>2. e < n
      BY <1>1, <3>1
    <3>3. e \div n = 0
      BY <3>2
    <3>. QED  BY <3>1, <3>3
  <2>. QED  BY <1>1, <2>1
<1>3. PICK b \in S : \A a \in S : b <= a
  <2>1. PICK N : N = {0 - a : a \in S}
    OBVIOUS
  <2>2. IsFiniteSet(S)
    <3>1. IsFiniteSet(1 .. Last + 1)
      BY <1>1, FS_Interval
    <3>. QED  BY <3>1, FS_Subset
  <2>3. IsFiniteSet(N)
    <3>1. [a \in S |-> 0 - a] \in Surjection(S, N)
      BY <2>1 DEF Surjection, Range
    <3>. QED  BY <2>2, <3>1, FS_Surjection
  <2>4. N \subseteq Int /\ N # {} /\ S \subseteq Int
    BY <1>1, <1>2, <2>1
  <2>. HIDE DEF S
  <2>5. PICK m \in N : \A n \in N : n <= m
    BY <2>3, <2>4, Greatest
  <2>6. PICK b \in S : m = 0 - b
    BY <2>1
  <2>7. ASSUME NEW a \in S PROVE b <= a
    <3>1. 0 - a <= 0 - b
      BY <2>1, <2>5, <2>6
    <3>. QED  BY <2>4, <3>1
  <2>. QED  BY <2>7
<1>4. \A a \in 1 .. b - 1 : d \div a > MaxPoints
  <2>1. ASSUME NEW a \in 1 .. b - 1 PROVE d \div a > MaxPoints
    <3>1. a \in Nat \ {0} /\ a \in 1 .. Last + 1 /\ ~(b <= a)
      BY <1>1
    <3>2. ~(d \div a <= MaxPoints)
      BY <1>3, <3>1
    <3>3. d \div a \in Int
      BY <1>1, <3>1, DivOne
    <3>. QED  BY <1>1, <3>2, <3>3
  <2>. QED  BY <2>1
<1>5. Bucket(q) \in 1 .. Last + 1 /\ d \div Bucket(q) <= MaxPoints
  BY <1>3, <1>4 DEF Bucket
<1>. QED  BY <1>1, <1>5

\* Each minute of the window falls into the bucket its start names.
LEMMA BucketsOfMinutes ==
    ASSUME NEW q, InOrder(q), NEW m \in q.from .. q.to
    PROVE  /\ BucketOf(q, m) \in 0 .. MaxPoints + 1
           /\ \A n \in q.from .. q.to :
                 Aligned(q) + BucketOf(q, n) * Bucket(q) = Aligned(q) + BucketOf(q, m) * Bucket(q)
                 <=> BucketOf(q, n) = BucketOf(q, m)
           /\ BucketOf(q, Aligned(q) + BucketOf(q, m) * Bucket(q)) = BucketOf(q, m)
<1>1. PICK B, a, from, to : B = Bucket(q) /\ a = Aligned(q) /\ from = q.from /\ to = q.to
  OBVIOUS
<1>2. B \in Nat \ {0} /\ (to - from) \div B <= MaxPoints
  BY <1>1, BucketFits
<1>3. from \in Nat /\ to \in Nat /\ from <= to /\ m \in Nat /\ from <= m /\ m <= to /\ MaxPoints \in Nat
  BY <1>1, BoundAssumption DEF InOrder, Query
<1>4. a = (from \div B) * B
  BY <1>1 DEF Aligned
<1>5. a \in Nat /\ a <= from /\ from < a + B
  <2>1. (from \div B) \in Nat /\ (from \div B) * B <= from /\ from < (from \div B) * B + B
    BY <1>2, <1>3, DivOne
  <2>2. PICK x \in Nat : x = from \div B
    BY <2>1
  <2>3. x * B \in Nat
    BY <1>2
  <2>. QED  BY <1>2, <1>3, <1>4, <2>1, <2>2, <2>3
<1>6. \A n : BucketOf(q, n) = (n - a) \div B
  BY <1>1 DEF BucketOf
<1>7. ASSUME NEW n \in from .. to PROVE (n - a) \div B \in Nat
  <2>1. n - a \in Nat
    BY <1>3, <1>5
  <2>. QED  BY <1>2, <2>1, DivOne
<1>8. (m - a) \div B <= MaxPoints + 1
  <2>1. PICK x, y, u : x = (m - a) \div B /\ y = (to - from) \div B /\ u = to - from
    OBVIOUS
  <2>2. u \in Nat /\ m - a \in Nat
    BY <1>3, <1>5, <2>1
  <2>3. x \in Nat /\ x * B <= m - a /\ y \in Nat /\ u < y * B + B
    BY <1>2, <2>1, <2>2, DivOne
  <2>4. m - a < u + B
    BY <1>2, <1>3, <1>5, <2>1
  <2>5. x * B < (y + 2) * B
    BY <1>2, <1>3, <1>5, <2>2, <2>3, <2>4
  <2>6. x < y + 2
    BY <1>2, <2>3, <2>5
  <2>. QED  BY <1>2, <1>3, <2>1, <2>3, <2>6
<1>9. \A i \in Nat, j \in Nat : a + i * B = a + j * B <=> i = j
  <2>1. ASSUME NEW i \in Nat, NEW j \in Nat, a + i * B = a + j * B PROVE i = j
    <3>1. i * B = j * B
      BY <1>2, <1>5, <2>1
    <3>2. i <= j /\ j <= i
      BY <1>2, <3>1, MulCancel
    <3>. QED  BY <3>2
  <2>. QED  BY <2>1
<1>10. \A i \in Nat : ((a + i * B) - a) \div B = i
  <2>1. ASSUME NEW i \in Nat PROVE ((a + i * B) - a) \div B = i
    <3>1. (a + i * B) - a = i * B
      BY <1>2, <1>5
    <3>. QED  BY <1>2, <3>1, DivMul
  <2>. QED  BY <2>1
<1>. QED  BY <1>1, <1>3, <1>6, <1>7, <1>8, <1>9, <1>10

\* A chart of volumes adds up to its minutes, and is no longer than it may be.
LEMMA CoarseAddsUp ==
    ASSUME NEW q, InOrder(q), NEW f, Numbers(f), DOMAIN f \subseteq q.from .. q.to
    PROVE  /\ Total(Summed(q, f)) = SumOf(f)
           /\ Cardinality(DOMAIN Summed(q, f)) <= MaxPoints + 2
<1>0. /\ MaxPoints \in Nat /\ Bucket(q) \in Nat \ {0} /\ (q.to - q.from) \div Bucket(q) <= MaxPoints
      /\ q.from \in Int /\ q.to \in Int /\ q.from <= q.to
  BY BucketFits, BoundAssumption DEF InOrder, Query
<1>1. ASSUME NEW g, Numbers(g) PROVE Total(g) = SumOf(g)
  <2>1. SumOf([m \in DOMAIN g |-> g[m]]) = Part(g, DOMAIN g) /\ SumOf(g) = Part(g, DOMAIN g)
    BY <1>1, PartOf, PartIs DEF Numbers
  <2>. QED  BY <2>1 DEF Total, SumOver
<1>2. CASE Bucket(q) = 1
  <2>1. Summed(q, f) = f
    BY <1>2 DEF Summed, Coarse
  <2>2. q.to - q.from <= MaxPoints
    <3>1. PICK d \in Int : d = q.to - q.from
      BY <1>0
    <3>2. (d * 1) \div 1 = d
      BY <3>1, DivMul
    <3>3. d * 1 = d
      BY <3>1
    <3>. QED  BY <1>0, <1>2, <3>1, <3>2, <3>3
  <2>3. Cardinality(q.from .. q.to) = q.to - q.from + 1 /\ IsFiniteSet(q.from .. q.to)
    <3>1. PICK a \in Int, b \in Int : a = q.from /\ b = q.to /\ a <= b
      BY <1>0
    <3>2. IsFiniteSet(a .. b) /\ Cardinality(a .. b) = IF a > b THEN 0 ELSE b - a + 1
      BY FS_Interval
    <3>3. Cardinality(a .. b) = b - a + 1
      BY <3>1, <3>2
    <3>. QED  BY <3>1, <3>2, <3>3
  <2>4. Cardinality(DOMAIN f) <= Cardinality(q.from .. q.to) /\ Cardinality(DOMAIN f) \in Nat
    BY <2>3, FS_Subset, FS_CardinalityType
  <2>. QED  BY <1>0, <1>1, <2>1, <2>2, <2>3, <2>4
<1>3. CASE Bucket(q) # 1
  <2>1. PICK G : G = Summed(q, f)
    OBVIOUS
  <2>2. G = [at \in Starts(q, f) |-> SumOver(f, InBucket(q, f, BucketOf(q, at)))]
    BY <1>3, <2>1 DEF Summed, Coarse
  <2>3. PICK k : k = [m \in DOMAIN f |-> Aligned(q) + BucketOf(q, m) * Bucket(q)]
    OBVIOUS
  <2>4. DOMAIN G = {k[m] : m \in DOMAIN f}
    BY <2>2, <2>3 DEF Starts
  <2>5. /\ \A m \in DOMAIN f : k[m] \in DOMAIN G
        /\ \A at \in DOMAIN G : \E m \in DOMAIN f : k[m] = at
    BY <2>4
  <2>6. \A at \in DOMAIN G : \E s \in SUBSET DOMAIN f :
          (\A m \in DOMAIN f : m \in s <=> k[m] = at) /\ G[at] = Part(f, s)
    <3>1. ASSUME NEW at \in DOMAIN G
          PROVE  \E s \in SUBSET DOMAIN f : (\A m \in DOMAIN f : m \in s <=> k[m] = at) /\ G[at] = Part(f, s)
      <4>1. PICK m \in DOMAIN f : k[m] = at
        BY <2>5
      <4>2. at = Aligned(q) + BucketOf(q, m) * Bucket(q) /\ m \in q.from .. q.to
        BY <2>3, <4>1
      <4>3. BucketOf(q, at) = BucketOf(q, m)
        BY <4>2, BucketsOfMinutes
      <4>4. PICK s \in SUBSET DOMAIN f : s = InBucket(q, f, BucketOf(q, at))
        BY DEF InBucket
      <4>5. \A n \in DOMAIN f : n \in s <=> BucketOf(q, n) = BucketOf(q, m)
        BY <4>3, <4>4 DEF InBucket
      <4>6. \A n \in DOMAIN f : k[n] = at <=> BucketOf(q, n) = BucketOf(q, m)
        BY <2>3, <4>2, BucketsOfMinutes
      <4>7. G[at] = SumOf([n \in s |-> f[n]])
        BY <2>2, <4>4 DEF SumOver
      <4>8. G[at] = Part(f, s)
        BY <4>7, PartOf DEF Numbers
      <4>. QED  BY <4>5, <4>6, <4>8
    <3>. QED  BY <3>1
  <2>7. SumOf(G) = SumOf(f) /\ Numbers(G)
    BY <2>5, <2>6, Fibres
  <2>8. Cardinality(DOMAIN G) <= MaxPoints + 2
    <3>1. PICK I : I = {BucketOf(q, m) : m \in DOMAIN f}
      OBVIOUS
    <3>2. I \subseteq 0 .. MaxPoints + 1
      BY <3>1, BucketsOfMinutes
    <3>3. IsFiniteSet(0 .. MaxPoints + 1) /\ Cardinality(0 .. MaxPoints + 1) = MaxPoints + 2
      BY <1>0, FS_Interval
    <3>4. IsFiniteSet(I) /\ Cardinality(I) <= MaxPoints + 2 /\ Cardinality(I) \in Nat
      BY <3>2, <3>3, FS_Subset, FS_CardinalityType, ZenonT(60)
    <3>5. [b \in I |-> Aligned(q) + b * Bucket(q)] \in Surjection(I, DOMAIN G)
      BY <2>3, <2>4, <3>1 DEF Surjection, Range
    <3>6. IsFiniteSet(DOMAIN G) /\ Cardinality(DOMAIN G) <= Cardinality(I)
      BY <3>4, <3>5, FS_Surjection
    <3>7. Cardinality(DOMAIN G) \in Nat
      BY <3>6, FS_CardinalityType
    <3>. QED  BY <1>0, <3>4, <3>6, <3>7
  <2>. QED  BY <1>1, <2>1, <2>7, <2>8
<1>. QED  BY <1>2, <1>3

LEMMA SumPlus ==
    ASSUME NEW f, NEW g, NEW h, Numbers(f), Numbers(g), Numbers(h), DOMAIN g = DOMAIN f, DOMAIN h = DOMAIN f,
           \A x \in DOMAIN f : h[x] = f[x] + g[x]
    PROVE  SumOf(h) = SumOf(f) + SumOf(g)
<1>. DEFINE T == {t \in SUBSET DOMAIN f : Part(h, t) # Part(f, t) + Part(g, t)}
<1>1. ASSUME T # {} PROVE FALSE
  <2>1. PICK t \in T : \A u \in SUBSET t : u # t => u \notin T
    <3>1. T \subseteq SUBSET DOMAIN f /\ IsFiniteSet(DOMAIN f)
      BY DEF Numbers
    <3>. HIDE DEF T
    <3>. QED  BY <1>1, <3>1, LeastSet
  <2>2. CASE t # {}
    <3>1. PICK x : x \in t
      BY <2>2
    <3>2. /\ Part(f, t) = f[x] + Part(f, t \ {x}) /\ Part(g, t) = g[x] + Part(g, t \ {x})
          /\ Part(h, t) = h[x] + Part(h, t \ {x})
      BY <3>1, PartAdd
    <3>3. t \ {x} \in SUBSET t /\ t \ {x} # t
      BY <3>1
    <3>4. Part(h, t \ {x}) = Part(f, t \ {x}) + Part(g, t \ {x})
      BY <2>1, <3>3
    <3>5. /\ f[x] \in Nat /\ g[x] \in Nat /\ h[x] = f[x] + g[x]
          /\ Part(f, t \ {x}) \in Nat /\ Part(g, t \ {x}) \in Nat
      BY <3>1, PartType DEF Numbers
    <3>6. Part(h, t) = Part(f, t) + Part(g, t)
      <4>. HIDE DEF T
      <4>. QED  BY <3>2, <3>4, <3>5
    <3>. QED  BY <2>1, <3>6
  <2>3. CASE t = {}
    <3>1. Part(f, {}) = 0 /\ Part(g, {}) = 0 /\ Part(h, {}) = 0
      BY PartIs DEF Numbers
    <3>2. Part(h, t) = Part(f, t) + Part(g, t)
      BY <2>3, <3>1
    <3>. QED  BY <2>1, <3>2
  <2>. QED  BY <2>2, <2>3
<1>2. Part(h, DOMAIN f) = Part(f, DOMAIN f) + Part(g, DOMAIN f)
  BY <1>1
<1>. QED  BY <1>2, PartIs DEF Numbers

-----------------------------------------------------------------------------
(* ChartsAgreeWithTotals. *)

\* The minutes of a query are those of its window.
LEMMA MinutesOf ==
    ASSUME NEW R, RowsOK(R), NEW q, InOrder(q)
    PROVE  /\ \A r \in Rows(R, q) : r \in DOMAIN R /\ r[2] \in q.from .. q.to /\ r = <<r[1], r[2]>>
           /\ SiteRows(R, q) \subseteq Rows(R, q)
<1>1. \A r \in DOMAIN R : r[2] \in Int /\ r = <<r[1], r[2]>>
  BY DEF RowsOK
<1>2. q.from \in Int /\ q.to \in Int
  BY DEF InOrder, Query
<1>. QED  BY <1>1, <1>2 DEF Rows, SiteRows

LEMMA L7VolumesAddUp ==
    ASSUME NEW R, RowsOK(R), NEW q, InOrder(q)
    PROVE  /\ Total(Summed(q, L7Volume(R, q))) = Totals(R, q).l7
           /\ Cardinality(DOMAIN Summed(q, L7Volume(R, q))) <= MaxPoints + 2
<1>1. PICK f : f = [r \in SiteRows(R, q) |-> L7(R, q, r).asked]
  OBVIOUS
<1>2. Numbers(f)
  <2>1. IsFiniteSet(SiteRows(R, q))
    BY RowsFinite DEF RowsOK
  <2>2. ASSUME NEW r \in SiteRows(R, q) PROVE L7(R, q, r).asked \in Nat
    <3>1. r \in DOMAIN R
      BY MinutesOf
    <3>2. R[r].all.asked \in Nat /\ \A s \in Site : R[r].site[s].asked \in Nat
      BY <3>1, SampleFigures
    <3>3. q.site # {} => (CHOOSE s \in q.site : TRUE) \in Site
      BY DEF InOrder, Query
    <3>. QED  BY <3>2, <3>3 DEF L7
  <2>. QED  BY <1>1, <2>1, <2>2 DEF Numbers
<1>3. PICK g : g = L7Volume(R, q)
  OBVIOUS
<1>4. g = PerMinute(f)
  BY <1>1, <1>3 DEF L7Volume
<1>5. Numbers(g) /\ SumOf(g) = SumOf(f) /\ DOMAIN g = {r[2] : r \in DOMAIN f}
  BY <1>2, <1>4, MinutesAddUp
<1>6. DOMAIN g \subseteq q.from .. q.to
  BY <1>1, <1>5, MinutesOf
<1>7. Total(Summed(q, g)) = SumOf(g) /\ Cardinality(DOMAIN Summed(q, g)) <= MaxPoints + 2
  BY <1>5, <1>6, CoarseAddsUp
<1>. QED  BY <1>1, <1>3, <1>5, <1>7 DEF Totals

LEMMA NicVolumesAddUp ==
    ASSUME NEW R, RowsOK(R), NEW q, InOrder(q), q.site = {}
    PROVE  Total(Summed(q, NicVolume(R, q))) = Totals(R, q).nic
<1>1. PICK f : f = [r \in Rows(R, q) |-> R[r].nic]
  OBVIOUS
<1>2. Numbers(f)
  <2>1. IsFiniteSet(Rows(R, q))
    BY RowsFinite DEF RowsOK
  <2>2. \A r \in Rows(R, q) : R[r].nic \in Nat
    BY MinutesOf, SampleFigures
  <2>. QED  BY <1>1, <2>1, <2>2 DEF Numbers
<1>3. PICK g : g = NicVolume(R, q)
  OBVIOUS
<1>4. g = PerMinute(f)
  BY <1>1, <1>3 DEF NicVolume
<1>5. Numbers(g) /\ SumOf(g) = SumOf(f) /\ DOMAIN g = {r[2] : r \in DOMAIN f}
  BY <1>2, <1>4, MinutesAddUp
<1>6. DOMAIN g \subseteq q.from .. q.to
  BY <1>1, <1>5, MinutesOf
<1>7. Total(Summed(q, g)) = SumOf(g)
  BY <1>5, <1>6, CoarseAddsUp
<1>. QED  BY <1>1, <1>3, <1>5, <1>7 DEF Totals

\* What the cache answered and what it did not are all the bytes.
LEMMA Halves ==
    ASSUME NEW x, x.bytes \in Nat, x.hit \in Nat, x.miss \in Nat
    PROVE  Split(x).cached \in Nat /\ Split(x).uncached \in Nat /\ Split(x).cached + Split(x).uncached = x.bytes
<1>1. PICK b \in Nat, h \in Nat, m \in Nat : b = x.bytes /\ h = x.hit /\ m = x.miss
  OBVIOUS
<1>2. PICK c : c = IF h + m = 0 THEN 0 ELSE (b * h) \div (h + m)
  OBVIOUS
<1>3. c \in Nat /\ c <= b
  <2>1. CASE h + m = 0
    BY <1>2, <2>1
  <2>2. CASE h + m # 0
    <3>1. b * h \in Nat /\ b * m \in Nat /\ h + m \in Nat \ {0}
      BY <2>2
    <3>2. (b * h) \div (h + m) \in Nat /\ (b * m) \div (h + m) \in Nat
      BY <3>1, DivOne
    <3>3. (b * h) \div (h + m) + (b * m) \div (h + m) <= b
      BY <2>2, Shares
    <3>. QED  BY <1>2, <2>2, <3>2, <3>3
  <2>. QED  BY <2>1, <2>2
<1>4. Split(x) = [cached |-> c, uncached |-> b - c]
  BY <1>1, <1>2 DEF Split
<1>. QED  BY <1>1, <1>3, <1>4

LEMMA CacheAddsUp ==
    ASSUME NEW R, RowsOK(R), NEW q, InOrder(q)
    PROVE  Total(Summed(q, CacheBytes(R, q, "cached"))) + Total(Summed(q, CacheBytes(R, q, "uncached")))
           = CacheSummary(R, q).bytes
<1>0. q.site \subseteq Site /\ q \in Query
  BY DEF InOrder, Query
<1>1. PICK f : f = [r \in Rows(R, q) |-> OfSites(R, q, r, "bytes")]
  OBVIOUS
<1>2. Numbers(f) /\ CacheSums(R, q).bytes = SumOf(f)
  BY <1>0, <1>1, CacheFigures
<1>3. PICK F : F = PerMinute(f)
  OBVIOUS
<1>4. /\ Numbers(F) /\ SumOf(F) = SumOf(f) /\ DOMAIN F = {r[2] : r \in Rows(R, q)}
      /\ \A m \in DOMAIN F : F[m] = Part(f, {r \in Rows(R, q) : r[2] = m})
  BY <1>1, <1>2, <1>3, MinutesAddUp
<1>5. PICK c, u : c = CacheBytes(R, q, "cached") /\ u = CacheBytes(R, q, "uncached")
  OBVIOUS
<1>6. DOMAIN c = DOMAIN F /\ DOMAIN u = DOMAIN F
  BY <1>4, <1>5 DEF CacheBytes
<1>7. DOMAIN F \subseteq q.from .. q.to
  BY <1>4, MinutesOf
<1>8. ASSUME NEW m \in DOMAIN F PROVE c[m] \in Nat /\ u[m] \in Nat /\ F[m] = c[m] + u[m]
  <2>1. PICK w, x : w = [q EXCEPT !.from = m, !.to = m] /\ x = CacheSums(R, w)
    OBVIOUS
  <2>2. w.from = m /\ w.to = m /\ w.site = q.site /\ Nodes(w) = Nodes(q) /\ SitesOf(w) = SitesOf(q)
    BY <1>0, <2>1 DEF Query, Nodes, SitesOf
  <2>3. m \in Int /\ q.from <= m /\ m <= q.to
    BY <1>7 DEF InOrder, Query
  <2>4. PICK s \in SUBSET DOMAIN f : s = {r \in Rows(R, q) : r[2] = m}
    BY <1>1
  <2>5. Rows(R, w) = s
    <3>1. \A r \in DOMAIN R : r[2] \in Int
      BY DEF RowsOK
    <3>2. \A r \in DOMAIN R : r \in Rows(R, w) <=> r \in s
      BY <2>2, <2>3, <2>4, <3>1 DEF Rows
    <3>3. Rows(R, w) \subseteq DOMAIN R /\ s \subseteq DOMAIN R
      BY <2>4 DEF Rows
    <3>. QED  BY <3>2, <3>3
  <2>6. [r \in Rows(R, w) |-> OfSites(R, w, r, "bytes")] = [r \in s |-> f[r]]
    <3>1. \A r \in s : OfSites(R, w, r, "bytes") = f[r]
      BY <1>1, <2>2, <2>4 DEF OfSites
    <3>. QED  BY <2>5, <3>1
  <2>7. x.bytes = Part(f, s) /\ x.bytes \in Nat /\ x.hit \in Nat /\ x.miss \in Nat
    <3>1. x.bytes = SumOf([r \in Rows(R, w) |-> OfSites(R, w, r, "bytes")]) /\ x.bytes \in Nat
      BY <1>0, <2>1, <2>2, CacheFigures
    <3>2. x.hit \in Nat /\ x.miss \in Nat
      BY <1>0, <2>1, <2>2, CacheFigures
    <3>3. SumOf([r \in s |-> f[r]]) = Part(f, s)
      BY <1>2, PartOf DEF Numbers
    <3>. QED  BY <2>6, <3>1, <3>2, <3>3
  <2>8. c[m] = Split(x).cached /\ u[m] = Split(x).uncached
    BY <1>4, <1>5, <2>1 DEF CacheBytes
  <2>9. Split(x).cached \in Nat /\ Split(x).uncached \in Nat /\ Split(x).cached + Split(x).uncached = x.bytes
    BY <2>7, Halves
  <2>10. F[m] = x.bytes
    BY <1>4, <2>4, <2>7
  <2>. QED  BY <2>8, <2>9, <2>10
<1>9. Numbers(c) /\ Numbers(u)
  BY <1>4, <1>6, <1>8 DEF Numbers
<1>10. SumOf(F) = SumOf(c) + SumOf(u)
  BY <1>4, <1>6, <1>8, <1>9, SumPlus
<1>11. Total(Summed(q, c)) = SumOf(c) /\ Total(Summed(q, u)) = SumOf(u)
  BY <1>6, <1>7, <1>9, CoarseAddsUp
<1>. QED  BY <1>2, <1>4, <1>5, <1>10, <1>11 DEF CacheSummary

\* The peak of a bar is no lower than any sample in it.
LEMMA PeaksKept ==
    ASSUME NEW R, RowsOK(R), NEW q, InOrder(q), NEW r \in Rows(R, q)
    PROVE  \E k \in DOMAIN Bars(R, q)[r[1]] : R[r].nic <= Bars(R, q)[r[1]][k].peak
<1>0. q \in Query /\ r \in DOMAIN R /\ r = <<r[1], r[2]>>
  BY MinutesOf DEF InOrder
<1>1. PICK w : w = [q EXCEPT !.node = {r[1]}]
  OBVIOUS
<1>2. Nodes(w) = {r[1]} /\ w.from = q.from /\ w.to = q.to
  BY <1>0, <1>1 DEF Query, Nodes
<1>3. PICK f : f = [x \in Rows(R, w) |-> R[x].nic]
  OBVIOUS
<1>4. Numbers(f)
  <2>1. IsFiniteSet(Rows(R, w)) /\ Rows(R, w) \subseteq DOMAIN R
    BY RowsFinite DEF RowsOK
  <2>2. \A x \in Rows(R, w) : R[x].nic \in Nat
    BY <2>1, SampleFigures
  <2>. QED  BY <1>3, <2>1, <2>2 DEF Numbers
<1>5. PICK g : g = NicRate(R, w)
  OBVIOUS
<1>6. g = PerMinute(f)
  BY <1>3, <1>5 DEF NicRate
<1>7. /\ DOMAIN g = {x[2] : x \in Rows(R, w)} /\ Numbers(g)
      /\ \A m \in DOMAIN g : g[m] = Part(f, {x \in Rows(R, w) : x[2] = m})
  <2>1. DOMAIN f = Rows(R, w)
    BY <1>3
  <2>2. /\ DOMAIN g = {x[2] : x \in DOMAIN f} /\ Numbers(g)
        /\ \A m \in DOMAIN g : g[m] = Part(f, {x \in DOMAIN f : x[2] = m})
    BY <1>4, <1>6, MinutesAddUp, ZenonT(60)
  <2>. QED  BY <2>1, <2>2
<1>8. r \in Rows(R, w)
  BY <1>0, <1>2 DEF Rows
<1>9. r[2] \in DOMAIN g /\ g[r[2]] = R[r].nic /\ R[r].nic \in Nat
  <2>1. {x \in Rows(R, w) : x[2] = r[2]} = {r}
    <3>1. \A x \in Rows(R, w) : x[1] = r[1] /\ x = <<x[1], x[2]>>
      BY <1>2 DEF Rows, RowsOK
    <3>. QED  BY <1>0, <1>8, <3>1
  <2>2. Part(f, {r}) = f[r] + Part(f, {r} \ {r}) /\ Part(f, {}) = 0
    <3>1. PICK s \in SUBSET DOMAIN f : s = {r} /\ r \in s
      BY <1>3, <1>8
    <3>2. Part(f, s) = f[r] + Part(f, s \ {r})
      BY <1>4, <3>1, PartAdd
    <3>3. Part(f, {}) = 0
      BY <1>4, PartIs DEF Numbers
    <3>. QED  BY <3>1, <3>2, <3>3
  <2>3. {r} \ {r} = {} /\ f[r] = R[r].nic /\ f[r] \in Nat
    BY <1>3, <1>4, <1>8 DEF Numbers
  <2>4. r[2] \in DOMAIN g /\ g[r[2]] = Part(f, {r})
    BY <1>7, <1>8, <2>1
  <2>. QED  BY <2>2, <2>3, <2>4
<1>10. PICK k, P : k = BucketOf(q, r[2]) /\ P = {g[m] : m \in InBucket(q, g, k)}
  OBVIOUS
<1>11. r[2] \in InBucket(q, g, k) /\ InBucket(q, g, k) \subseteq DOMAIN g
  BY <1>9, <1>10 DEF InBucket
<1>12. IsFiniteSet(P) /\ P \subseteq Int /\ R[r].nic \in P
  <2>1. IsFiniteSet(InBucket(q, g, k))
    BY <1>7, <1>11, FS_Subset DEF Numbers
  <2>2. [m \in InBucket(q, g, k) |-> g[m]] \in Surjection(InBucket(q, g, k), P)
    BY <1>10 DEF Surjection, Range
  <2>3. IsFiniteSet(P)
    BY <2>1, <2>2, FS_Surjection
  <2>4. P \subseteq Int
    BY <1>7, <1>10, <1>11 DEF Numbers
  <2>5. R[r].nic \in P
    BY <1>9, <1>10, <1>11
  <2>. QED  BY <2>3, <2>4, <2>5
<1>13. R[r].nic <= Max(P)
  <2>1. PICK m \in P : \A n \in P : n <= m
    BY <1>12, Greatest
  <2>2. \A n \in P : m >= n
    BY <1>12, <2>1
  <2>3. Max(P) \in P /\ \A n \in P : Max(P) >= n
    BY <2>2 DEF Max
  <2>. QED  BY <1>12, <2>3
<1>14. k \in DOMAIN Bars(R, q)[r[1]] /\ Bars(R, q)[r[1]][k].peak = Max(P)
  <2>1. PICK b : b = Bars(R, q)[r[1]]
    OBVIOUS
  <2>2. b = [j \in {BucketOf(q, m) : m \in DOMAIN g} |->
               [mean |-> Mean(g, InBucket(q, g, j)), peak |-> Max({g[m] : m \in InBucket(q, g, j)})]]
    BY <1>1, <1>5, <2>1 DEF Bars
  <2>3. k \in {BucketOf(q, m) : m \in DOMAIN g}
    BY <1>9, <1>10
  <2>. QED  BY <1>10, <2>1, <2>2, <2>3
<1>. QED  BY <1>13, <1>14

\* A chart agrees with the summary of its window (coarsenTrafficVolume, splitCacheBytes,
\* aggregateBandwidth, dashboardBucketSize).
THEOREM ChartsAgreeWithTotalsHolds == PageSpec => ChartsAgreeWithTotals
<1>1. ASSUME PageTypeInv, PageNext, page.pc = "asked", page'.pc = "shown"
      PROVE  LET q == page.q
                 chart == page'.answer
             IN  CASE page'.kind = "l7_volume" ->
                         /\ Total(chart) = Totals(stats, q).l7
                         /\ Cardinality(DOMAIN chart) <= MaxPoints + 2
                   [] page'.kind = "nic_volume" ->
                         q.site = {} => Total(chart) = Totals(stats, q).nic
                   [] page'.kind = "cache_charts" ->
                         Total(chart.cached) + Total(chart.uncached) = CacheSummary(stats, q).bytes
                   [] page'.kind = "bars" ->
                         \A r \in Rows(stats, q) : \E k \in DOMAIN chart[r[1]] :
                             stats[r].nic <= chart[r[1]][k].peak
                   [] OTHER -> TRUE
  <2>0. DOMAIN page = {"pc", "kind", "who", "own", "q", "answer"} /\ InOrder(page.q) /\ RowsOK(stats)
    BY <1>1 DEF PageTypeInv, PageOK, StatsOK, InOrder
  <2>1. Read
    <3>1. page'.pc # page.pc /\ page'.pc \notin {"closed", "entered", "asked"}
      BY <1>1
    <3>2. ~(Collect \/ Grant \/ Reassign)
      BY <3>1 DEF Collect, Grant, Reassign
    <3>3. ~(Enter \/ Ask \/ Leave)
      BY <1>1, <3>1, Begins
    <3>4. ~(ReadTotals \/ ReadCache)
      BY <1>1, <2>0 DEF ReadTotals, ReadCache, Turns
    <3>5. ~(ReadLatest \/ ReadNames \/ ReadMisses \/ ReadThisMonth \/ ReadPreviousMonth)
      BY <1>1 DEF ReadLatest, ReadNames, ReadMisses, ReadThisMonth, ReadPreviousMonth
    <3>. QED  BY <1>1, <3>2, <3>3, <3>4, <3>5 DEF PageNext
  <2>2. PICK kind \in Kind : \E answer \in Answers(stats, page.q, kind) :
          Turns([page EXCEPT !.pc = "shown", !.kind = kind, !.answer = answer])
    BY <2>1 DEF Read
  <2>3. page'.kind = kind /\ page'.answer \in Answers(stats, page.q, kind)
    BY <2>0, <2>2 DEF Turns
  <2>4. CASE kind = "l7_volume"
    <3>1. page'.answer = Summed(page.q, L7Volume(stats, page.q))
      BY <2>3, <2>4 DEF Answers, L7Volumes
    <3>. QED  BY <2>0, <2>3, <2>4, <3>1, L7VolumesAddUp
  <2>5. CASE kind = "nic_volume"
    <3>1. page'.answer = Summed(page.q, NicVolume(stats, page.q))
      BY <2>3, <2>5 DEF Answers, NicVolumes
    <3>. QED  BY <2>0, <2>3, <2>5, <3>1, NicVolumesAddUp
  <2>6. CASE kind = "cache_charts"
    <3>1. /\ page'.answer.cached = Summed(page.q, CacheBytes(stats, page.q, "cached"))
          /\ page'.answer.uncached = Summed(page.q, CacheBytes(stats, page.q, "uncached"))
      BY <2>3, <2>6 DEF Answers, CacheCharts
    <3>. QED  BY <2>0, <2>3, <2>6, <3>1, CacheAddsUp
  <2>7. CASE kind = "bars"
    <3>1. page'.answer = Bars(stats, page.q)
      BY <2>3, <2>7 DEF Answers
    <3>2. \A r \in Rows(stats, page.q) : \E k \in DOMAIN Bars(stats, page.q)[r[1]] :
             stats[r].nic <= Bars(stats, page.q)[r[1]][k].peak
      BY <2>0, PeaksKept
    <3>. QED  BY <2>3, <2>7, <3>1, <3>2
  <2>. QED  BY <2>3, <2>4, <2>5, <2>6, <2>7
<1>2. PageTypeInv /\ [PageNext]_pageVars =>
        [(page.pc = "asked" /\ page'.pc = "shown") =>
           LET q == page.q
               chart == page'.answer
           IN  CASE page'.kind = "l7_volume" ->
                       /\ Total(chart) = Totals(stats, q).l7
                       /\ Cardinality(DOMAIN chart) <= MaxPoints + 2
                 [] page'.kind = "nic_volume" ->
                       q.site = {} => Total(chart) = Totals(stats, q).nic
                 [] page'.kind = "cache_charts" ->
                       Total(chart.cached) + Total(chart.uncached) = CacheSummary(stats, q).bytes
                 [] page'.kind = "bars" ->
                       \A r \in Rows(stats, q) : \E k \in DOMAIN chart[r[1]] :
                           stats[r].nic <= chart[r[1]][k].peak
                 [] OTHER -> TRUE]_pageVars
  BY <1>1
<1>. QED  BY <1>2, PageInitOK, PageNextOK, PTL DEF PageSpec, ChartsAgreeWithTotals
=============================================================================
