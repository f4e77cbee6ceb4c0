------------------------ MODULE ConfiguredStudyProofs ------------------------
(***************************************************************************)
(* Theorems about ConfiguredStudy, for any files, shells, `--set` values   *)
(* and storages, and any numbers of trials, edits and promotions.          *)
(***************************************************************************)
EXTENDS ConfiguredStudy, FiniteSetTheorems, SequenceTheorems, TLAPS

-----------------------------------------------------------------------------
(* Merging any number of dicts *)

\* A set of naturals has a least element.
LEMMA LeastNatural ==
  ASSUME NEW T \in SUBSET Nat, T # {}
  PROVE  \E x \in T : \A y \in T : x <= y
<1>1. PICK R : IsWellFoundedOn(R, Nat) /\ R = {p \in Nat \X Nat : p[1] < p[2]}
  BY NatLessThanWellFounded DEF OpToRel
<1>2. PICK x \in T : \A y \in T : <<y, x>> \notin R
  BY <1>1, WFMin
<1>3. ASSUME NEW y \in T, y < x PROVE FALSE
  <2>1. <<y, x>> \in R
    BY <1>1, <1>3
  <2> QED BY <1>2, <2>1
<1>4. \A y \in T : x \in Nat /\ y \in Nat
  OBVIOUS
<1> QED BY <1>3, <1>4

\* What holds of 0, and of n + 1 whenever of n, holds of all: none is in the set
\* of those it fails for.
LEMMA NoneFails ==
  ASSUME NEW T \in SUBSET Nat, 0 \notin T, \A n \in Nat : n \notin T => n + 1 \notin T
  PROVE  \A n \in Nat : n \notin T
<1> SUFFICES ASSUME T # {} PROVE FALSE
  OBVIOUS
<1>1. PICK m \in T : \A y \in T : m <= y
  BY LeastNatural
<1>2. m \in Nat /\ m # 0
  BY <1>1
<1>3. m - 1 \in Nat /\ m - 1 \notin T /\ (m - 1) + 1 = m
  BY <1>1, <1>2
<1> QED BY <1>1, <1>3

\* The first n steps of a merge.
MergesTo(g, trees, n) ==
  /\ g = [i \in 0 .. n |-> g[i]]
  /\ g[0] = NoLeaves
  /\ \A i \in 1 .. n : g[i] = DeepMerge(g[i - 1], trees[i])

LEMMA MergesGoOn ==
  ASSUME NEW trees, NEW n \in Nat, NEW g, MergesTo(g, trees, n)
  PROVE  \E h : MergesTo(h, trees, n + 1)
<1>1. PICK top : top = DeepMerge(g[n], trees[n + 1])
  OBVIOUS
<1>2. PICK h : h = [i \in 0 .. n + 1 |-> IF i = n + 1 THEN top ELSE g[i]]
  OBVIOUS
<1>3. h[0] = NoLeaves /\ h = [i \in 0 .. n + 1 |-> h[i]]
  BY <1>2 DEF MergesTo
<1>4. ASSUME NEW i \in 1 .. n + 1
      PROVE  h[i] = DeepMerge(h[i - 1], trees[i])
  <2>1. CASE i = n + 1
    <3>1. h[i] = top /\ h[i - 1] = g[n]
      BY <1>2, <2>1
    <3> QED BY <1>1, <2>1, <3>1
  <2>2. CASE i # n + 1
    <3>1. i \in 1 .. n /\ h[i] = g[i] /\ h[i - 1] = g[i - 1]
      BY <1>2, <2>2
    <3> QED BY <3>1 DEF MergesTo
  <2> QED BY <2>1, <2>2
<1> QED BY <1>3, <1>4 DEF MergesTo

LEMMA MergesExist ==
  ASSUME NEW trees, NEW L \in Nat
  PROVE  \E g : MergesTo(g, trees, L)
<1>1. PICK T \in SUBSET Nat : \A n \in Nat : n \in T <=> ~ \E g : MergesTo(g, trees, n)
  <2>1. {n \in Nat : ~ \E g : MergesTo(g, trees, n)} \in SUBSET Nat
    OBVIOUS
  <2> QED BY <2>1
<1>2. 0 \notin T
  <2>1. PICK g : g = [i \in 0 .. 0 |-> NoLeaves]
    OBVIOUS
  <2>2. MergesTo(g, trees, 0)
    BY <2>1 DEF MergesTo
  <2> QED BY <1>1, <2>2
<1>3. \A n \in Nat : n \notin T => n + 1 \notin T
  BY <1>1, MergesGoOn
<1> QED BY <1>1, <1>2, <1>3, NoneFails

LEMMA MergesStep ==
  ASSUME NEW trees, Len(trees) \in Nat
  PROVE  /\ Merges(trees)[0] = NoLeaves
         /\ \A n \in 1 .. Len(trees) :
              Merges(trees)[n] = DeepMerge(Merges(trees)[n - 1], trees[n])
<1>1. PICK L \in Nat : L = Len(trees)
  OBVIOUS
<1>2. PICK g : MergesTo(g, trees, L)
  BY MergesExist
<1>3. g = [n \in 0 .. L |-> IF n = 0 THEN NoLeaves ELSE DeepMerge(g[n - 1], trees[n])]
  <2>1. \A n \in 0 .. L : g[n] = IF n = 0 THEN NoLeaves ELSE DeepMerge(g[n - 1], trees[n])
    BY <1>2 DEF MergesTo
  <2> QED BY <1>2, <2>1 DEF MergesTo
<1>4. Merges(trees) =
        CHOOSE f : f = [n \in 0 .. L |-> IF n = 0 THEN NoLeaves
                                         ELSE DeepMerge(f[n - 1], trees[n])]
  BY <1>1 DEF Merges
<1>5. PICK f : /\ f = Merges(trees)
               /\ f = [n \in 0 .. L |-> IF n = 0 THEN NoLeaves
                                        ELSE DeepMerge(f[n - 1], trees[n])]
  BY <1>3, <1>4
<1>6. f[0] = NoLeaves
  BY <1>5
<1>7. \A n \in 1 .. L : f[n] = DeepMerge(f[n - 1], trees[n])
  BY <1>5
<1> QED BY <1>1, <1>5, <1>6, <1>7

\* What a merge is made of.
LEMMA Merged ==
  ASSUME NEW base, NEW overlay
  PROVE  /\ \A p : p \in DOMAIN DeepMerge(base, overlay) <=>
                  \/ p \in DOMAIN overlay
                  \/ p \in DOMAIN base /\ \A q \in DOMAIN overlay : ~Related(p, q)
         /\ \A p \in DOMAIN overlay : DeepMerge(base, overlay)[p] = overlay[p]
         /\ \A p \in DOMAIN DeepMerge(base, overlay) \ DOMAIN overlay :
              DeepMerge(base, overlay)[p] = base[p]
  BY DEF DeepMerge

\* A tree that sets p, or something else in its place.
Says(tree, p) == p \in DOMAIN tree \/ \E q \in DOMAIN tree : Related(p, q)

\* The i-th tree is the last of the first n that says anything of p, and sets it.
Top(trees, n, p, i) ==
  /\ i \in 1 .. n /\ p \in DOMAIN trees[i]
  /\ \A j \in 1 .. n : Says(trees[j], p) => j <= i

\* The last dict to set a path decides.
LEMMA LastDecides ==
  ASSUME NEW trees, Len(trees) \in Nat, NEW n \in 0 .. Len(trees),
         NEW p \in DOMAIN Merges(trees)[n]
  PROVE  \E i \in 1 .. n : Top(trees, n, p, i) /\ Merges(trees)[n][p] = trees[i][p]
<1>1. PICK T \in SUBSET Nat :
        \A m \in Nat : m \in T <=>
          /\ m <= Len(trees) /\ p \in DOMAIN Merges(trees)[m]
          /\ ~ \E i \in 1 .. m : Top(trees, m, p, i) /\ Merges(trees)[m][p] = trees[i][p]
  <2>1. {m \in Nat :
          /\ m <= Len(trees) /\ p \in DOMAIN Merges(trees)[m]
          /\ ~ \E i \in 1 .. m : Top(trees, m, p, i) /\ Merges(trees)[m][p] = trees[i][p]}
        \in SUBSET Nat
    OBVIOUS
  <2> QED BY <2>1
<1>2. 0 \notin T
  <2>1. DOMAIN NoLeaves = {}
    BY DEF NoLeaves
  <2> QED BY <1>1, <2>1, MergesStep
<1>3. ASSUME NEW m \in Nat, m \notin T PROVE m + 1 \notin T
  <2> SUFFICES ASSUME m + 1 \in T PROVE FALSE
    OBVIOUS
  <2>1. /\ m + 1 \in 1 .. Len(trees) /\ (m + 1) - 1 = m
        /\ p \in DOMAIN Merges(trees)[m + 1]
        /\ ~ \E i \in 1 .. m + 1 : /\ Top(trees, m + 1, p, i)
                                   /\ Merges(trees)[m + 1][p] = trees[i][p]
    BY <1>1
  <2>2. PICK f, t : f = Merges(trees)[m] /\ t = trees[m + 1]
    OBVIOUS
  <2>3. Merges(trees)[m + 1] = DeepMerge(f, t)
    BY <2>1, <2>2, MergesStep
  <2>4. CASE p \in DOMAIN t
    <3>1. DeepMerge(f, t)[p] = t[p]
      BY <2>4, Merged
    <3>2. Top(trees, m + 1, p, m + 1)
      BY <2>2, <2>4 DEF Top, Says
    <3> QED BY <2>1, <2>2, <2>3, <3>1, <3>2
  <2>5. CASE p \notin DOMAIN t
    <3>1. p \in DOMAIN f /\ DeepMerge(f, t)[p] = f[p]
      BY <2>1, <2>3, <2>5, Merged
    <3>2. PICK i \in 1 .. m : Top(trees, m, p, i) /\ f[p] = trees[i][p]
      BY <1>1, <1>3, <2>1, <2>2, <3>1
    <3>3. \A q \in DOMAIN t : ~Related(p, q)
      BY <2>1, <2>3, <2>5, Merged
    <3>4. Top(trees, m + 1, p, i)
      <4>1. ~Says(trees[m + 1], p)
        BY <2>2, <2>5, <3>3 DEF Says
      <4>2. ASSUME NEW j \in 1 .. m + 1, Says(trees[j], p) PROVE j \in 1 .. m
        BY <4>1, <4>2
      <4> QED BY <3>2, <4>2 DEF Top
    <3> QED BY <2>1, <2>3, <3>1, <3>2, <3>4
  <2> QED BY <2>4, <2>5
<1>4. n \in Nat /\ n \notin T
  <2>1. \A m \in Nat : m \notin T => m + 1 \notin T
    BY <1>3
  <2>2. \A m \in Nat : m \notin T
    BY ONLY T \in SUBSET Nat, <1>2, <2>1, NoneFails
  <2> QED BY <2>2
<1> QED BY <1>1, <1>4

\* What is set, and of which nothing later is said, stays.
LEMMA UnsaidStays ==
  ASSUME NEW trees, Len(trees) \in Nat, NEW n \in 0 .. Len(trees), NEW i \in 1 .. n,
         NEW p \in DOMAIN trees[i],
         \A j \in 1 .. n : Says(trees[j], p) => j <= i
  PROVE  p \in DOMAIN Merges(trees)[n]
<1>1. PICK f : f = Merges(trees)
  OBVIOUS
<1>2. PICK T \in SUBSET Nat :
        \A m \in Nat : m \in T <=> i <= m /\ m <= n /\ p \notin DOMAIN f[m]
  <2>1. {m \in Nat : i <= m /\ m <= n /\ p \notin DOMAIN f[m]} \in SUBSET Nat
    OBVIOUS
  <2> QED BY <2>1
<1>3. 0 \notin T
  BY <1>2
<1>4. ASSUME NEW m \in Nat, m \notin T PROVE m + 1 \notin T
  <2> SUFFICES ASSUME i <= m + 1, m + 1 <= n PROVE p \in DOMAIN f[m + 1]
    BY <1>2
  <2>1. PICK g, t : /\ g = f[m] /\ t = trees[m + 1]
                    /\ f[m + 1] = DeepMerge(g, t)
    <3>1. m + 1 \in 1 .. Len(trees) /\ (m + 1) - 1 = m
      OBVIOUS
    <3> QED BY <1>1, <3>1, MergesStep
  <2>2. CASE i = m + 1
    BY <2>1, <2>2, Merged
  <2>3. CASE i # m + 1
    <3>1. p \in DOMAIN g
      BY <1>2, <1>4, <2>1, <2>3
    <3>2. ~Says(t, p)
      BY <2>1, <2>3
    <3> QED BY <2>1, <3>1, <3>2, Merged DEF Says
  <2> QED BY <2>2, <2>3
<1>5. n \in Nat /\ n \notin T
  <2>1. \A m \in Nat : m \notin T => m + 1 \notin T
    BY <1>4
  <2>2. \A m \in Nat : m \notin T
    BY ONLY T \in SUBSET Nat, <1>3, <2>1, NoneFails
  <2> QED BY <2>2
<1> QED BY <1>1, <1>2, <1>5

-----------------------------------------------------------------------------
(* Paths *)

IsPath(p) == IsList(p) /\ Len(p) # 0

LEMMA PrefixIs ==
  ASSUME NEW p, NEW q, IsList(p), IsList(q)
  PROVE  IsPrefix(p, q) <=> /\ Len(p) <= Len(q)
                            /\ \A i \in 1 .. Len(p) : p[i] = q[i]
<1>1. PICK S : /\ \A i \in 1 .. Len(p) : p[i] \in S
               /\ \A i \in 1 .. Len(q) : q[i] \in S
  <2>1. PICK P : \A i \in 1 .. Len(p) : p[i] \in P
    <3>1. \A i \in 1 .. Len(p) : p[i] \in {p[j] : j \in 1 .. Len(p)}
      OBVIOUS
    <3> QED BY <3>1
  <2>2. PICK Q : \A i \in 1 .. Len(q) : q[i] \in Q
    <3>1. \A i \in 1 .. Len(q) : q[i] \in {q[j] : j \in 1 .. Len(q)}
      OBVIOUS
    <3> QED BY <3>1
  <2>3. /\ \A i \in 1 .. Len(p) : p[i] \in P \cup Q
        /\ \A i \in 1 .. Len(q) : q[i] \in P \cup Q
    BY <2>1, <2>2
  <2> QED BY <2>3
<1>2. Len(p) \in Nat /\ Len(q) \in Nat
  BY DEF IsList
<1>3. ASSUME NEW r, \A i \in 1 .. Len(p) : r[i] \in S
      PROVE  /\ SubSeq(r, 1, Len(p)) \in Seq(S) /\ Len(SubSeq(r, 1, Len(p))) = Len(p)
             /\ \A i \in 1 .. Len(p) : SubSeq(r, 1, Len(p))[i] = r[i]
  <2>1. PICK n \in Nat : n = Len(p)
    BY <1>2
  <2>2. /\ SubSeq(r, 1, n) \in Seq(S)
        /\ Len(SubSeq(r, 1, n)) = IF 1 <= n THEN n - 1 + 1 ELSE 0
        /\ \A i \in 1 .. n - 1 + 1 : SubSeq(r, 1, n)[i] = r[1 + i - 1]
    BY <1>3, <2>1, SubSeqProperties
  <2>3. Len(SubSeq(r, 1, n)) = n
    BY <2>2
  <2>4. ASSUME NEW i \in 1 .. n PROVE SubSeq(r, 1, n)[i] = r[i]
    <3>1. i \in 1 .. n - 1 + 1 /\ 1 + i - 1 = i
      OBVIOUS
    <3> QED BY <2>2, <3>1
  <2> QED BY <2>1, <2>2, <2>3, <2>4
<1>4. ASSUME Len(p) <= Len(q)
      PROVE  SubSeq(p, 1, Len(p)) = SubSeq(q, 1, Len(p)) <=>
               \A i \in 1 .. Len(p) : p[i] = q[i]
  <2>1. PICK u : /\ u = SubSeq(p, 1, Len(p)) /\ u \in Seq(S) /\ Len(u) = Len(p)
                 /\ \A i \in 1 .. Len(p) : u[i] = p[i]
    BY <1>1, <1>3
  <2>2. \A i \in 1 .. Len(p) : q[i] \in S
    BY <1>1, <1>2, <1>4
  <2>3. PICK v : /\ v = SubSeq(q, 1, Len(p)) /\ v \in Seq(S) /\ Len(v) = Len(p)
                 /\ \A i \in 1 .. Len(p) : v[i] = q[i]
    BY <1>3, <2>2
  <2>4. u = v <=> \A i \in 1 .. Len(p) : u[i] = v[i]
    BY <2>1, <2>3, SeqEqual
  <2> QED BY <2>1, <2>3, <2>4
<1> QED BY <1>4 DEF IsPrefix

LEMMA PrefixOfItself ==
  ASSUME NEW p, IsList(p)
  PROVE  IsPrefix(p, p)
  BY PrefixIs DEF IsList

LEMMA PrefixOfPrefix ==
  ASSUME NEW p, NEW q, NEW r, IsList(p), IsList(q), IsList(r),
         IsPrefix(p, q), IsPrefix(q, r)
  PROVE  IsPrefix(p, r)
<1>1. Len(p) \in Nat /\ Len(q) \in Nat /\ Len(r) \in Nat
  BY DEF IsList
<1> QED BY <1>1, PrefixIs

\* Two paths of one length meet only where they are one.
LEMMA SameLengthMeet ==
  ASSUME NEW p, NEW q, IsList(p), IsList(q), Len(p) = Len(q), Related(p, q)
  PROVE  p = q
<1>1. \A i \in 1 .. Len(p) : p[i] = q[i]
  BY PrefixIs DEF Related
<1> QED BY <1>1 DEF IsList

LEMMA TwoLong ==
  ASSUME NEW a, NEW b
  PROVE  IsPath(<<a, b>>) /\ Len(<<a, b>>) = 2 /\ <<a, b>>[1] = a /\ <<a, b>>[2] = b
  BY DEF IsPath, IsList

LEMMA ThreeLong ==
  ASSUME NEW a, NEW b, NEW c
  PROVE  /\ IsPath(<<a, b, c>>) /\ Len(<<a, b, c>>) = 3
         /\ <<a, b, c>>[1] = a /\ <<a, b, c>>[2] = b /\ <<a, b, c>>[3] = c
  BY DEF IsPath, IsList

\* The paths of the dot-paths in use.
LEMMA SplitIsAPath ==
  ASSUME NEW key \in DOMAIN Split
  PROVE  /\ IsPath(Split[key])
         /\ \/ Split[key] = <<"training", "kind">>
            \/ Split[key] = <<"training", "learning_rate">>
            \/ Split[key] = <<"cv", "kind">>
            \/ Split[key] = <<"training", "model_kwargs">>
            \/ Split[key] = <<"training", "model_kwargs", "gamma">>
<1>1. \/ Split[key] = <<"training", "kind">>
      \/ Split[key] = <<"training", "learning_rate">>
      \/ Split[key] = <<"cv", "kind">>
      \/ Split[key] = <<"training", "model_kwargs">>
      \/ Split[key] = <<"training", "model_kwargs", "gamma">>
  BY DEF Split
<1> QED BY <1>1, TwoLong, ThreeLong

-----------------------------------------------------------------------------
(* Dicts with dot-paths for keys *)

IsFlat(flat) == IsList(flat) /\ \A i \in DOMAIN flat : flat[i][1] \in DOMAIN Split

Key(flat, i) == Split[flat[i][1]]

LEMMA LeavesOf ==
  ASSUME NEW flat, IsFlat(flat)
  PROVE  /\ Len(flat) \in Nat /\ DOMAIN flat = 1 .. Len(flat)
         /\ Len(Leaves(flat)) = Len(flat) /\ DOMAIN Leaves(flat) = 1 .. Len(flat)
         /\ \A i \in 1 .. Len(flat) : /\ DOMAIN Leaves(flat)[i] = {Key(flat, i)}
                                      /\ Leaves(flat)[i][Key(flat, i)] = flat[i][2]
<1>1. Len(flat) \in Nat /\ DOMAIN flat = 1 .. Len(flat)
  BY DEF IsFlat, IsList
<1>2. Len(Leaves(flat)) = Len(flat) /\ DOMAIN Leaves(flat) = 1 .. Len(flat)
  BY <1>1 DEF Leaves
<1>3. ASSUME NEW p, NEW v PROVE DOMAIN Leaf(p, v) = {p} /\ Leaf(p, v)[p] = v
  BY DEF Leaf
<1>4. ASSUME NEW i \in 1 .. Len(flat)
      PROVE  /\ DOMAIN Leaves(flat)[i] = {Key(flat, i)}
             /\ Leaves(flat)[i][Key(flat, i)] = flat[i][2]
  <2>1. Leaves(flat)[i] = Leaf(Key(flat, i), flat[i][2])
    BY <1>1 DEF Leaves, Key
  <2>2. PICK key, value : key = Key(flat, i) /\ value = flat[i][2]
    OBVIOUS
  <2>3. PICK leaf : leaf = Leaf(key, value)
    OBVIOUS
  <2>4. DOMAIN leaf = {key} /\ leaf[key] = value
    BY <1>3, <2>3
  <2> QED BY <2>1, <2>2, <2>3, <2>4
<1> QED BY <1>1, <1>2, <1>4

\* No key is lost: it is there itself, or a table it lies in was replaced.
LEMMA KeysStay ==
  ASSUME NEW flat, IsFlat(flat),
         \A n \in DOMAIN flat : \A p \in DOMAIN Merges(Leaves(flat))[n - 1] :
           ~IsStrictPrefix(p, Key(flat, n)),
         NEW n \in 0 .. Len(flat), NEW i \in 1 .. n
  PROVE  \E e \in DOMAIN Merges(Leaves(flat))[n] : IsPrefix(e, Key(flat, i))
<1>1. PICK f : f = Merges(Leaves(flat))
  OBVIOUS
<1>2. /\ Len(flat) \in Nat /\ DOMAIN flat = 1 .. Len(flat)
      /\ Len(Leaves(flat)) = Len(flat)
      /\ \A m \in 1 .. Len(flat) : DOMAIN Leaves(flat)[m] = {Key(flat, m)}
  BY LeavesOf
<1>3. \A m \in 1 .. Len(flat) : f[m] = DeepMerge(f[m - 1], Leaves(flat)[m])
  BY <1>1, <1>2, MergesStep
<1>4. \A m \in 1 .. Len(flat) : IsList(Key(flat, m))
  BY <1>2, SplitIsAPath DEF IsFlat, Key, IsPath
<1>5. ASSUME NEW m \in 0 .. Len(flat), NEW p \in DOMAIN f[m] PROVE IsList(p)
  <2>1. PICK j \in 1 .. m : p \in DOMAIN Leaves(flat)[j]
    BY <1>1, <1>2, LastDecides DEF Top
  <2> QED BY <1>2, <1>4, <2>1
<1>6. PICK T \in SUBSET Nat :
        \A m \in Nat : m \in T <=>
          /\ m <= Len(flat)
          /\ ~ \A j \in 1 .. m : \E e \in DOMAIN f[m] : IsPrefix(e, Key(flat, j))
  <2>1. {m \in Nat :
          /\ m <= Len(flat)
          /\ ~ \A j \in 1 .. m : \E e \in DOMAIN f[m] : IsPrefix(e, Key(flat, j))}
        \in SUBSET Nat
    OBVIOUS
  <2> QED BY <2>1
<1>7. 0 \notin T
  BY <1>6
<1>8. ASSUME NEW m \in Nat, m \notin T PROVE m + 1 \notin T
  <2> SUFFICES ASSUME m + 1 \in T PROVE FALSE
    OBVIOUS
  <2>1. /\ m + 1 \in 1 .. Len(flat) /\ m \in 0 .. Len(flat) /\ (m + 1) - 1 = m
        /\ ~ \A j \in 1 .. m + 1 : \E e \in DOMAIN f[m + 1] : IsPrefix(e, Key(flat, j))
    BY <1>2, <1>6
  <2>2. PICK key : key = Key(flat, m + 1)
    OBVIOUS
  <2>3. PICK g : g = f[m]
    OBVIOUS
  <2>4. PICK h : /\ h = f[m + 1] /\ key \in DOMAIN h
                 /\ \A p \in DOMAIN g : ~Related(p, key) => p \in DOMAIN h
    BY <1>2, <1>3, <2>1, <2>2, <2>3, Merged
  <2>5. PICK j \in 1 .. m + 1 : ~ \E e \in DOMAIN h : IsPrefix(e, Key(flat, j))
    BY <2>1, <2>4
  <2>6. j # m + 1
    BY <1>4, <2>1, <2>2, <2>4, <2>5, PrefixOfItself
  <2>7. PICK e \in DOMAIN g : IsPrefix(e, Key(flat, j))
    BY <1>2, <1>6, <1>8, <2>1, <2>3, <2>6
  <2>8. Related(e, key)
    BY <2>4, <2>5, <2>7
  <2>9. ~IsStrictPrefix(e, key)
    BY <1>1, <1>2, <2>1, <2>2, <2>3
  <2>10. IsPrefix(key, e)
    <3>1. IsList(key)
      BY <1>4, <2>1, <2>2
    <3> QED BY <2>8, <2>9, <3>1, PrefixOfItself DEF Related, IsStrictPrefix
  <2>11. IsList(key) /\ IsList(e) /\ IsList(Key(flat, j))
    BY <1>4, <1>5, <2>1, <2>2, <2>3, <2>5
  <2>12. IsPrefix(key, Key(flat, j))
    BY ONLY <2>7, <2>10, <2>11, PrefixOfPrefix
  <2> QED BY <2>4, <2>5, <2>12
<1>9. n \in Nat /\ n \notin T
  <2>1. \A m \in Nat : m \notin T => m + 1 \notin T
    BY <1>8
  <2>2. \A m \in Nat : m \notin T
    BY ONLY T \in SUBSET Nat, <1>7, <2>1, NoneFails
  <2> QED BY <2>2
<1> QED BY <1>1, <1>2, <1>6, <1>9

\* What a dict of dot-paths becomes.
LEMMA Unflattened ==
  ASSUME NEW flat, IsFlat(flat), NEW nested \in Unflatten(flat)
  PROVE  /\ nested = MergeAll(Leaves(flat))
         /\ \A i \in 1 .. Len(flat) : \E e \in DOMAIN nested : IsPrefix(e, Key(flat, i))
         /\ \A p \in DOMAIN nested : \E i \in 1 .. Len(flat) :
              /\ p = Key(flat, i) /\ nested[p] = flat[i][2]
              /\ \A j \in 1 .. Len(flat) :
                   Key(flat, j) = p \/ Related(p, Key(flat, j)) => j <= i
         /\ \A i \in 1 .. Len(flat) :
              (\A j \in 1 .. Len(flat) :
                 Key(flat, j) = Key(flat, i) \/ Related(Key(flat, i), Key(flat, j)) => j <= i)
              => Key(flat, i) \in DOMAIN nested
<1>1. /\ nested = MergeAll(Leaves(flat))
      /\ \A n \in DOMAIN flat : \A p \in DOMAIN Merges(Leaves(flat))[n - 1] :
           ~IsStrictPrefix(p, Key(flat, n))
  BY DEF Unflatten, Key
<1>2. /\ Len(flat) \in Nat /\ Len(Leaves(flat)) = Len(flat)
      /\ \A i \in 1 .. Len(flat) : /\ DOMAIN Leaves(flat)[i] = {Key(flat, i)}
                                   /\ Leaves(flat)[i][Key(flat, i)] = flat[i][2]
  BY LeavesOf
<1>3. nested = Merges(Leaves(flat))[Len(flat)] /\ Len(flat) \in 0 .. Len(flat)
  BY <1>1, <1>2 DEF MergeAll
<1>4. ASSUME NEW i \in 1 .. Len(flat)
      PROVE  \E e \in DOMAIN nested : IsPrefix(e, Key(flat, i))
  BY <1>1, <1>3, KeysStay
<1>5. ASSUME NEW j \in 1 .. Len(flat), NEW p
      PROVE  Says(Leaves(flat)[j], p) <=> Key(flat, j) = p \/ Related(p, Key(flat, j))
  BY <1>2 DEF Says
<1>6. ASSUME NEW p \in DOMAIN nested
      PROVE  \E i \in 1 .. Len(flat) :
               /\ p = Key(flat, i) /\ nested[p] = flat[i][2]
               /\ \A j \in 1 .. Len(flat) :
                    Key(flat, j) = p \/ Related(p, Key(flat, j)) => j <= i
  <2>1. PICK i \in 1 .. Len(flat) :
          /\ Top(Leaves(flat), Len(flat), p, i) /\ nested[p] = Leaves(flat)[i][p]
    BY <1>2, <1>3, LastDecides
  <2>2. p = Key(flat, i) /\ nested[p] = flat[i][2]
    BY <1>2, <2>1 DEF Top
  <2> QED BY <1>5, <2>1, <2>2 DEF Top
<1>7. ASSUME NEW i \in 1 .. Len(flat),
             \A j \in 1 .. Len(flat) :
               Key(flat, j) = Key(flat, i) \/ Related(Key(flat, i), Key(flat, j)) => j <= i
      PROVE  Key(flat, i) \in DOMAIN nested
  <2>1. PICK trees, n, p : /\ trees = Leaves(flat) /\ n = Len(flat) /\ p = Key(flat, i)
                           /\ Len(trees) \in Nat /\ n \in 0 .. Len(trees)
                           /\ i \in 1 .. n /\ p \in DOMAIN trees[i]
                           /\ \A j \in 1 .. n : Says(trees[j], p) => j <= i
    BY <1>2, <1>3, <1>5, <1>7
  <2>2. p \in DOMAIN Merges(trees)[n]
    BY ONLY <2>1, UnsaidStays
  <2> QED BY <1>3, <2>1, <2>2
<1> QED BY <1>1, <1>4, <1>6, <1>7

-----------------------------------------------------------------------------
(* Sources *)

LEMMA FourInReverse ==
  ASSUME NEW a, NEW b, NEW c, NEW d, NEW t, t = Reverse(<<a, b, c>> \o <<d>>)
  PROVE  Len(t) = 4 /\ t[1] = d /\ t[2] = c /\ t[3] = b /\ t[4] = a
<1>1. PICK s : s = <<a, b, c>> \o <<d>>
  OBVIOUS
<1>2. Len(s) = 4 /\ s[1] = a /\ s[2] = b /\ s[3] = c /\ s[4] = d
  BY <1>1
<1>3. t = [i \in 1 .. Len(s) |-> s[(Len(s) - i) + 1]]
  BY <1>1 DEF Reverse
<1> QED BY <1>2, <1>3

LEMMA ThreeInReverse ==
  ASSUME NEW a, NEW b, NEW c, NEW t, t = Reverse(<<a, b, c>> \o <<>>)
  PROVE  Len(t) = 3 /\ t[1] = c /\ t[2] = b /\ t[3] = a
<1>1. PICK s : s = <<a, b, c>> \o <<>>
  OBVIOUS
<1>2. Len(s) = 3 /\ s[1] = a /\ s[2] = b /\ s[3] = c
  BY <1>1
<1>3. t = [i \in 1 .. Len(s) |-> s[(Len(s) - i) + 1]]
  BY <1>1 DEF Reverse
<1> QED BY <1>2, <1>3

LEMMA NothingMerged ==
  ASSUME NEW trees, Len(trees) = 0
  PROVE  DOMAIN MergeAll(trees) = {}
<1>1. Merges(trees)[0] = NoLeaves
  BY MergesStep
<1> QED BY <1>1 DEF MergeAll, NoLeaves

LEMMA MergedWithNothing ==
  ASSUME NEW t
  PROVE  /\ DOMAIN DeepMerge(t, NoLeaves) = DOMAIN t
         /\ \A p \in DOMAIN t : DeepMerge(t, NoLeaves)[p] = t[p]
         /\ DOMAIN DeepMerge(NoLeaves, t) = DOMAIN t
         /\ \A p \in DOMAIN t : DeepMerge(NoLeaves, t)[p] = t[p]
<1>1. DOMAIN NoLeaves = {}
  BY DEF NoLeaves
<1> QED BY <1>1, Merged

\* What was typed goes before the environment, and that before the files.
LEMMA SourcesInOrder ==
  ASSUME NEW init, NEW env, NEW toml
  PROVE  \E low : /\ DOMAIN low = DOMAIN TomlStack(toml)
                  /\ \A p \in DOMAIN low : low[p] = TomlStack(toml)[p]
                  /\ MergeAll(Reverse(Sources(init, env, toml))) =
                       DeepMerge(DeepMerge(low, env), init)
<1>1. PICK t : t = Reverse(Sources(init, env, toml))
  OBVIOUS
<1>2. CASE toml = <<>>
  <2>1. Len(t) = 3 /\ t[1] = NoLeaves /\ t[2] = env /\ t[3] = init
    BY <1>1, <1>2, ThreeInReverse DEF Sources
  <2>2. PICK f : f = Merges(t)
    OBVIOUS
  <2>3. f[0] = NoLeaves /\ \A n \in 1 .. 3 : f[n] = DeepMerge(f[n - 1], t[n])
    <3>1. Len(t) = 3
      BY <2>1
    <3>2. Len(t) \in Nat
      BY <3>1
    <3> QED BY <2>2, <3>1, <3>2, MergesStep
  <2>4. /\ f[1] = DeepMerge(NoLeaves, NoLeaves) /\ f[2] = DeepMerge(f[1], env)
        /\ f[3] = DeepMerge(f[2], init)
    BY <2>1, <2>3
  <2>5. DOMAIN f[1] = {}
    BY <2>4, MergedWithNothing DEF NoLeaves
  <2>6. DOMAIN TomlStack(toml) = {}
    <3>1. Len(toml) = 0
      BY <1>2
    <3> QED BY <3>1, NothingMerged DEF TomlStack
  <2>7. MergeAll(t) = DeepMerge(DeepMerge(f[1], env), init)
    BY <2>1, <2>2, <2>4 DEF MergeAll
  <2> QED BY <1>1, <2>5, <2>6, <2>7
<1>3. CASE toml # <<>>
  <2>1. Len(t) = 4 /\ t[1] = TomlStack(toml) /\ t[2] = NoLeaves /\ t[3] = env /\ t[4] = init
    BY <1>1, <1>3, FourInReverse DEF Sources
  <2>2. PICK f : f = Merges(t)
    OBVIOUS
  <2>3. f[0] = NoLeaves /\ \A n \in 1 .. 4 : f[n] = DeepMerge(f[n - 1], t[n])
    <3>1. Len(t) = 4
      BY <2>1
    <3>2. Len(t) \in Nat
      BY <3>1
    <3> QED BY <2>2, <3>1, <3>2, MergesStep
  <2>4. /\ f[1] = DeepMerge(NoLeaves, TomlStack(toml)) /\ f[2] = DeepMerge(f[1], NoLeaves)
        /\ f[3] = DeepMerge(f[2], env) /\ f[4] = DeepMerge(f[3], init)
    BY <2>1, <2>3
  <2>5. /\ DOMAIN f[1] = DOMAIN TomlStack(toml)
        /\ \A p \in DOMAIN f[1] : f[1][p] = TomlStack(toml)[p]
    BY <2>4, MergedWithNothing
  <2>6. DOMAIN f[2] = DOMAIN f[1] /\ \A p \in DOMAIN f[1] : f[2][p] = f[1][p]
    BY <2>4, MergedWithNothing
  <2>7. MergeAll(t) = DeepMerge(DeepMerge(f[2], env), init)
    BY <2>1, <2>2, <2>4 DEF MergeAll
  <2>8. /\ DOMAIN f[2] = DOMAIN TomlStack(toml)
        /\ \A p \in DOMAIN f[2] : f[2][p] = TomlStack(toml)[p]
    BY <2>5, <2>6
  <2> QED BY <1>1, <2>7, <2>8
<1> QED BY <1>2, <1>3

\* Who decides on what of a load is set before validation.
LEMMA SourcesDecide ==
  ASSUME NEW init, NEW env, NEW toml, NEW tree,
         tree = MergeAll(Reverse(Sources(init, env, toml)))
  PROVE  /\ \A p \in DOMAIN init : p \in DOMAIN tree /\ tree[p] = init[p]
         /\ \A p \in DOMAIN tree \ DOMAIN init :
              /\ ~Says(init, p)
              /\ p \in DOMAIN env => tree[p] = env[p]
              /\ p \notin DOMAIN env =>
                   /\ ~Says(env, p)
                   /\ p \in DOMAIN TomlStack(toml) /\ tree[p] = TomlStack(toml)[p]
         /\ \A p \in DOMAIN env : p \in DOMAIN tree \/ Says(init, p)
         /\ \A p \in DOMAIN TomlStack(toml) :
              p \in DOMAIN tree \/ Says(init, p) \/ Says(env, p)
<1>1. PICK low : /\ DOMAIN low = DOMAIN TomlStack(toml)
                 /\ \A p \in DOMAIN low : low[p] = TomlStack(toml)[p]
                 /\ tree = DeepMerge(DeepMerge(low, env), init)
  BY SourcesInOrder
<1>2. PICK mid : mid = DeepMerge(low, env) /\ tree = DeepMerge(mid, init)
  BY <1>1
<1>3. /\ \A p \in DOMAIN env : p \in DOMAIN mid /\ mid[p] = env[p]
      /\ \A p \in DOMAIN mid \ DOMAIN env :
           p \in DOMAIN low /\ mid[p] = low[p] /\ ~Says(env, p)
      /\ \A p \in DOMAIN low : p \in DOMAIN mid \/ Says(env, p)
  BY <1>2, Merged DEF Says
<1>4. /\ \A p \in DOMAIN init : p \in DOMAIN tree /\ tree[p] = init[p]
      /\ \A p \in DOMAIN tree \ DOMAIN init :
           p \in DOMAIN mid /\ tree[p] = mid[p] /\ ~Says(init, p)
      /\ \A p \in DOMAIN mid : p \in DOMAIN tree \/ Says(init, p)
  BY <1>2, Merged DEF Says
<1> QED BY <1>1, <1>3, <1>4

-----------------------------------------------------------------------------
(* Validation *)

Kinds == {"xgboost", "lightgbm"}

\* Where a field, or an entry of one of the two open tables, may be.
IsSlot(p) ==
  /\ IsList(p)
  /\ \/ Len(p) = 2 /\ (p[1] = "training" => p[2] # "model_kwargs")
     \/ Len(p) = 3 /\ p[1] = "training" /\ p[2] = "model_kwargs"

\* No field lies within another.
LEMMA SlotsAreApart ==
  ASSUME NEW p, NEW q, IsSlot(p), IsSlot(q), Related(p, q)
  PROVE  p = q
<1>1. IsList(p) /\ IsList(q)
  BY DEF IsSlot
<1>2. ASSUME NEW a, NEW b, IsList(a), IsList(b), Len(a) = 2, Len(b) = 3,
             a[1] = "training" => a[2] # "model_kwargs",
             b[1] = "training", b[2] = "model_kwargs"
      PROVE  ~Related(a, b)
  <2>1. ~IsPrefix(b, a)
    BY <1>2, PrefixIs
  <2>2. IsPrefix(a, b) => a[1] = b[1] /\ a[2] = b[2]
    BY <1>2, PrefixIs
  <2> QED BY <1>2, <2>1, <2>2 DEF Related
<1>3. Len(p) = Len(q)
  <2>1. Related(q, p)
    BY DEF Related
  <2>2. ~(Len(p) = 2 /\ Len(q) = 3)
    BY <1>1, <1>2 DEF IsSlot
  <2>3. ~(Len(p) = 3 /\ Len(q) = 2)
    BY <1>1, <1>2, <2>1 DEF IsSlot
  <2> QED BY <2>2, <2>3 DEF IsSlot
<1> QED BY <1>1, <1>3, SameLengthMeet

LEMMA PlainPaths ==
  /\ \A p \in DOMAIN PlainDefaults : IsList(p) /\ Len(p) = 2 /\ p[1] \in {"data", "cv", "tuning", "runs"}
  /\ <<"runs", "storage_url">> \in DOMAIN PlainDefaults
<1>1. DOMAIN PlainDefaults =
        {<<"data", "source_path">>, <<"data", "split_kind">>,
         <<"data", "time_column">>, <<"cv", "kind">>,
         <<"tuning", "trial_isolation">>, <<"runs", "storage_url">>}
  BY DEF PlainDefaults
<1>2. ASSUME NEW a, NEW b PROVE IsList(<<a, b>>) /\ Len(<<a, b>>) = 2 /\ <<a, b>>[1] = a
  BY TwoLong DEF IsPath
<1> QED BY <1>1, <1>2

LEMMA TrainingPaths ==
  ASSUME NEW kind \in Kinds
  PROVE  /\ \A p \in DOMAIN TrainingDefaults(kind) :
              IsList(p) /\ Len(p) = 2 /\ p[1] = "training" /\ p[2] # "model_kwargs"
         /\ <<"training", "kind">> \in DOMAIN TrainingDefaults(kind)
         /\ TrainingDefaults(kind)[<<"training", "kind">>] = kind
         /\ <<"training", "tree_method">> \in DOMAIN TrainingDefaults(kind) <=> kind = "xgboost"
         /\ <<"training", "num_leaves">> \in DOMAIN TrainingDefaults(kind) <=> kind = "lightgbm"
<1>1. CASE kind = "xgboost"
  <2>1. TrainingDefaults(kind) =
          [p \in {<<"training", "kind">>, <<"training", "learning_rate">>,
                  <<"training", "tree_method">>} |->
             CASE p[2] = "kind" -> "xgboost"
               [] p[2] = "learning_rate" -> "0.1" [] OTHER -> "hist"]
    BY <1>1 DEF TrainingDefaults
  <2>2. ASSUME NEW a, NEW b
        PROVE  IsList(<<a, b>>) /\ Len(<<a, b>>) = 2 /\ <<a, b>>[1] = a /\ <<a, b>>[2] = b
    BY TwoLong DEF IsPath
  <2>3. DOMAIN TrainingDefaults(kind) =
          {<<"training", "kind">>, <<"training", "learning_rate">>,
           <<"training", "tree_method">>}
    BY <2>1
  <2>4. TrainingDefaults(kind)[<<"training", "kind">>] = "xgboost"
    BY <2>1
  <2> QED BY <1>1, <2>2, <2>3, <2>4
<1>2. CASE kind = "lightgbm"
  <2>1. TrainingDefaults(kind) =
          [p \in {<<"training", "kind">>, <<"training", "learning_rate">>,
                  <<"training", "num_leaves">>} |->
             CASE p[2] = "kind" -> "lightgbm"
               [] p[2] = "learning_rate" -> "0.1" [] OTHER -> "31"]
    BY <1>2 DEF TrainingDefaults
  <2>2. ASSUME NEW a, NEW b
        PROVE  IsList(<<a, b>>) /\ Len(<<a, b>>) = 2 /\ <<a, b>>[1] = a /\ <<a, b>>[2] = b
    BY TwoLong DEF IsPath
  <2>3. DOMAIN TrainingDefaults(kind) =
          {<<"training", "kind">>, <<"training", "learning_rate">>,
           <<"training", "num_leaves">>}
    BY <2>1
  <2>4. TrainingDefaults(kind)[<<"training", "kind">>] = "lightgbm"
    BY <2>1
  <2> QED BY <1>2, <2>2, <2>3, <2>4
<1> QED BY <1>1, <1>2 DEF Kinds

LEMMA DefaultsAre ==
  ASSUME NEW tree, TrainingKind(tree) \in Kinds
  PROVE  /\ \A p \in DOMAIN Defaults(tree) : IsSlot(p) /\ Len(p) = 2 /\ p[1] # "search_space"
         /\ <<"training", "kind">> \in DOMAIN Defaults(tree)
         /\ Defaults(tree)[<<"training", "kind">>] = TrainingKind(tree)
         /\ <<"training", "tree_method">> \in DOMAIN Defaults(tree) <=>
              TrainingKind(tree) = "xgboost"
         /\ <<"training", "num_leaves">> \in DOMAIN Defaults(tree) <=>
              TrainingKind(tree) = "lightgbm"
         /\ <<"runs", "storage_url">> \in DOMAIN Defaults(tree)
         /\ Defaults(tree)[<<"runs", "storage_url">>] = PlainDefaults[<<"runs", "storage_url">>]
<1>1. PICK kind \in Kinds : kind = TrainingKind(tree)
  OBVIOUS
<1>2. PICK low, top : /\ low = PlainDefaults /\ top = TrainingDefaults(kind)
                      /\ Defaults(tree) = DeepMerge(low, top)
  BY <1>1 DEF Defaults
<1>3. \A p \in DOMAIN low : IsList(p) /\ Len(p) = 2 /\ p[1] \in {"data", "cv", "tuning", "runs"}
  BY <1>2, PlainPaths
<1>4. \A p \in DOMAIN top : IsList(p) /\ Len(p) = 2 /\ p[1] = "training" /\ p[2] # "model_kwargs"
  BY <1>2, TrainingPaths
<1>5. ASSUME NEW p \in DOMAIN low, NEW q \in DOMAIN top PROVE ~Related(p, q)
  <2>1. p # q
    BY <1>3, <1>4
  <2> QED BY <1>3, <1>4, <2>1, SameLengthMeet
<1>6. /\ \A p : p \in DOMAIN Defaults(tree) <=> p \in DOMAIN low \/ p \in DOMAIN top
      /\ \A p \in DOMAIN top : Defaults(tree)[p] = top[p]
      /\ \A p \in DOMAIN low : p \notin DOMAIN top => Defaults(tree)[p] = low[p]
  BY <1>2, <1>5, Merged
<1>7. \A p \in DOMAIN Defaults(tree) : IsSlot(p) /\ Len(p) = 2 /\ p[1] # "search_space"
  BY <1>3, <1>4, <1>6 DEF IsSlot
<1>8. ASSUME NEW b PROVE <<"training", b>> \notin DOMAIN low
  <2>1. <<"training", b>>[1] = "training"
    BY TwoLong
  <2> QED BY <1>3, <2>1
<1>9. <<"runs", "storage_url">> \in DOMAIN low /\ <<"runs", "storage_url">> \notin DOMAIN top
  <2>1. <<"runs", "storage_url">>[1] = "runs"
    BY TwoLong
  <2> QED BY <1>2, <1>4, <2>1, PlainPaths
<1> QED BY <1>1, <1>2, <1>6, <1>7, <1>8, <1>9, TrainingPaths

LEMMA DeclaredIsASlot ==
  ASSUME NEW tree, TrainingKind(tree) \in Kinds, NEW p, IsPath(p), Declared(tree, p)
  PROVE  IsSlot(p)
<1>1. CASE p[1] = "search_space" /\ Len(p) = 2
  BY <1>1 DEF IsSlot, IsPath
<1>2. CASE p[1] = "training" /\ Len(p) = 3 /\ p[2] = "model_kwargs"
  BY <1>2 DEF IsSlot, IsPath
<1>3. CASE p \in DOMAIN Defaults(tree)
  BY <1>3, DefaultsAre
<1> QED BY <1>1, <1>2, <1>3 DEF Declared

\* Declared depends on the kind alone.
LEMMA SameKindSameFields ==
  ASSUME NEW t, NEW u, TrainingKind(t) = TrainingKind(u)
  PROVE  /\ Defaults(t) = Defaults(u)
         /\ \A p : Declared(t, p) <=> Declared(u, p)
<1>1. Defaults(t) = Defaults(u)
  BY DEF Defaults
<1> QED BY <1>1 DEF Declared

\* What an accepted configuration is made of.
LEMMA Accepted ==
  ASSUME NEW tree, IsDict(tree), NEW cfg \in Validated(tree)
  PROVE  /\ TrainingKind(tree) \in Kinds
         /\ \A p \in DOMAIN tree : Declared(tree, p)
         /\ \A p : p \in DOMAIN cfg <=> p \in DOMAIN tree \/ p \in DOMAIN Defaults(tree)
         /\ \A p \in DOMAIN tree : cfg[p] = tree[p]
         /\ \A p \in DOMAIN cfg \ DOMAIN tree : cfg[p] = Defaults(tree)[p]
         /\ \A p \in DOMAIN cfg : IsPath(p) /\ IsSlot(p) /\ Declared(tree, p)
         /\ TrainingKind(cfg) = TrainingKind(tree)
         /\ Defaults(cfg) = Defaults(tree)
<1>1. FitsSchema(tree) /\ cfg = DeepMerge(Defaults(tree), tree)
  BY DEF Validated
<1>2. TrainingKind(tree) \in Kinds /\ \A p \in DOMAIN tree : Declared(tree, p)
  BY <1>1 DEF FitsSchema, Kinds
<1>3. \A p \in DOMAIN tree : IsPath(p) /\ IsSlot(p)
  BY <1>2, DeclaredIsASlot DEF IsDict, IsPath
<1>4. \A p \in DOMAIN Defaults(tree) : IsPath(p) /\ IsSlot(p) /\ Declared(tree, p)
  BY <1>2, DefaultsAre DEF IsPath, IsSlot, Declared
<1>5. PICK d : d = Defaults(tree) /\ cfg = DeepMerge(d, tree)
  BY <1>1
<1>6. /\ \A p : p \in DOMAIN cfg <=> p \in DOMAIN tree \/ p \in DOMAIN d
      /\ \A p \in DOMAIN tree : cfg[p] = tree[p]
      /\ \A p \in DOMAIN cfg \ DOMAIN tree : cfg[p] = d[p]
  <2>1. /\ \A p : p \in DOMAIN cfg <=>
                    \/ p \in DOMAIN tree
                    \/ p \in DOMAIN d /\ \A q \in DOMAIN tree : ~Related(p, q)
        /\ \A p \in DOMAIN tree : cfg[p] = tree[p]
        /\ \A p \in DOMAIN cfg \ DOMAIN tree : cfg[p] = d[p]
    BY <1>5, Merged
  <2>2. \A p \in DOMAIN d, q \in DOMAIN tree : Related(p, q) => p = q
    BY <1>3, <1>4, <1>5, SlotsAreApart
  <2> QED BY <2>1, <2>2
<1>7. TrainingKind(cfg) = TrainingKind(tree)
  <2>1. PICK kind : kind = <<"training", "kind">> /\ kind[1] = "training"
    <3>1. <<"training", "kind">>[1] = "training"
      BY TwoLong
    <3> QED BY <3>1
  <2>2. /\ kind \in DOMAIN d /\ d[kind] = TrainingKind(tree)
    BY <1>2, <1>5, <2>1, DefaultsAre
  <2>3. kind \in DOMAIN cfg
    BY <1>6, <2>2
  <2>4. TrainingKind(cfg) = cfg[kind]
    BY <2>1, <2>3 DEF TrainingKind, Kind
  <2>5. CASE kind \in DOMAIN tree
    <3>1. TrainingKind(tree) = tree[kind]
      BY <2>1, <2>5 DEF TrainingKind, Kind
    <3> QED BY <1>6, <2>4, <2>5, <3>1
  <2>6. CASE kind \notin DOMAIN tree
    BY <1>6, <2>2, <2>3, <2>4, <2>6
  <2> QED BY <2>5, <2>6
<1>8. Defaults(cfg) = Defaults(tree)
  BY <1>7, SameKindSameFields
<1> QED BY <1>2, <1>3, <1>4, <1>5, <1>6, <1>7, <1>8

-----------------------------------------------------------------------------
(* Lists *)

LEMMA ListOver ==
  ASSUME NEW s, IsList(s), NEW S, \A i \in 1 .. Len(s) : s[i] \in S
  PROVE  s \in Seq(S)
<1>1. s \in [1 .. Len(s) -> S]
  BY DEF IsList
<1> QED BY <1>1 DEF IsList

LEMMA Joined ==
  ASSUME NEW s, NEW t, IsList(s), IsList(t)
  PROVE  /\ IsList(s \o t) /\ Len(s \o t) = Len(s) + Len(t)
         /\ \A i \in 1 .. Len(s) : (s \o t)[i] = s[i]
         /\ \A i \in 1 .. Len(t) : (s \o t)[Len(s) + i] = t[i]
<1>1. PICK S : /\ \A i \in 1 .. Len(s) : s[i] \in S
               /\ \A i \in 1 .. Len(t) : t[i] \in S
  <2>1. PICK P : \A i \in 1 .. Len(s) : s[i] \in P
    <3>1. \A i \in 1 .. Len(s) : s[i] \in {s[j] : j \in 1 .. Len(s)}
      OBVIOUS
    <3> QED BY <3>1
  <2>2. PICK Q : \A i \in 1 .. Len(t) : t[i] \in Q
    <3>1. \A i \in 1 .. Len(t) : t[i] \in {t[j] : j \in 1 .. Len(t)}
      OBVIOUS
    <3> QED BY <3>1
  <2>3. /\ \A i \in 1 .. Len(s) : s[i] \in P \cup Q
        /\ \A i \in 1 .. Len(t) : t[i] \in P \cup Q
    BY <2>1, <2>2
  <2> QED BY <2>3
<1>2. s \in Seq(S) /\ t \in Seq(S)
  BY <1>1, ListOver
<1>3. PICK u : /\ u = s \o t /\ u \in Seq(S) /\ Len(u) = Len(s) + Len(t)
               /\ \A i \in 1 .. Len(s) + Len(t) :
                    u[i] = IF i <= Len(s) THEN s[i] ELSE t[i - Len(s)]
  <2>1. /\ s \o t \in Seq(S) /\ Len(s \o t) = Len(s) + Len(t)
        /\ \A i \in 1 .. Len(s) + Len(t) :
             (s \o t)[i] = IF i <= Len(s) THEN s[i] ELSE t[i - Len(s)]
    BY ONLY <1>2, ConcatProperties
  <2> QED BY <2>1
<1>4. Len(s) \in Nat /\ Len(t) \in Nat
  BY DEF IsList
<1>5. \A i \in 1 .. Len(s) : u[i] = s[i]
  BY <1>3, <1>4
<1>6. ASSUME NEW i \in 1 .. Len(t) PROVE u[Len(s) + i] = t[i]
  <2>1. /\ Len(s) + i \in 1 .. Len(s) + Len(t) /\ ~(Len(s) + i <= Len(s))
        /\ (Len(s) + i) - Len(s) = i
    BY <1>4
  <2> QED BY <1>3, <2>1
<1>7. IsList(u)
  BY ONLY <1>3, LenProperties DEF IsList
<1> QED BY <1>3, <1>5, <1>6, <1>7

LEMMA Appended ==
  ASSUME NEW s, IsList(s), NEW e
  PROVE  /\ IsList(Append(s, e)) /\ Len(Append(s, e)) = Len(s) + 1
         /\ \A i \in 1 .. Len(s) : Append(s, e)[i] = s[i]
         /\ Append(s, e)[Len(s) + 1] = e
<1>1. PICK S : e \in S /\ \A i \in 1 .. Len(s) : s[i] \in S
  <2>1. PICK P : \A i \in 1 .. Len(s) : s[i] \in P
    <3>1. \A i \in 1 .. Len(s) : s[i] \in {s[j] : j \in 1 .. Len(s)}
      OBVIOUS
    <3> QED BY <3>1
  <2>2. e \in P \cup {e} /\ \A i \in 1 .. Len(s) : s[i] \in P \cup {e}
    BY <2>1
  <2> QED BY <2>2
<1>2. s \in Seq(S) /\ e \in S
  BY <1>1, ListOver
<1>3. /\ Append(s, e) \in Seq(S) /\ Len(Append(s, e)) = Len(s) + 1
      /\ \A i \in 1 .. Len(s) : Append(s, e)[i] = s[i]
      /\ Append(s, e)[Len(s) + 1] = e
  BY <1>2, AppendProperties
<1>4. IsList(Append(s, e))
  BY ONLY <1>3, LenProperties DEF IsList
<1> QED BY <1>3, <1>4

LEMMA OneLong ==
  ASSUME NEW a
  PROVE  IsList(<<a>>) /\ Len(<<a>>) = 1 /\ <<a>>[1] = a
  BY DEF IsList

LEMMA NoneLong == IsList(<<>>) /\ Len(<<>>) = 0
  BY DEF IsList

-----------------------------------------------------------------------------
(* What a command is given and finds *)

IsWorld(w) ==
  /\ w = [shell |-> w.shell, files |-> w.files]
  /\ w.shell \in Shells
  /\ \A l \in DOMAIN Contents : w.files[l] \in Contents[l]

IsLayer(tree) == IsDict(tree) /\ SetsStorageIn(tree, Storages)

LEMMA ShellIs ==
  ASSUME NEW shell \in Shells
  PROVE  /\ shell.problem \in BOOLEAN /\ shell.study \in BOOLEAN
         /\ shell = [problem |-> shell.problem, study |-> shell.study, env |-> shell.env,
                     overrides |-> shell.overrides]
         /\ IsLayer(shell.env) /\ IsFlat(shell.overrides)
  BY ShellsAssumption DEF IsLayer, IsFlat

LEMMA LayersOf ==
  ASSUME NEW w, IsWorld(w)
  PROVE  /\ IsList(Layers(w)) /\ Len(Layers(w)) # 0
         /\ \A i \in 1 .. Len(Layers(w)) : IsLayer(Layers(w)[i])
<1>1. \A l \in {"base", "problem", "study"} : IsLayer(w.files[l])
  BY FilesAssumption DEF IsWorld, IsLayer
<1>2. PICK base, problem, study :
        /\ base = <<w.files["base"]>>
        /\ problem = IF w.shell.problem THEN <<w.files["problem"]>> ELSE <<>>
        /\ study = IF w.shell.study THEN <<w.files["study"]>> ELSE <<>>
        /\ Layers(w) = (base \o problem) \o study
  BY DEF Layers
<1>3. IsList(base) /\ Len(base) = 1 /\ IsLayer(base[1])
  BY <1>1, <1>2, OneLong
<1>4. IsList(problem) /\ \A i \in 1 .. Len(problem) : IsLayer(problem[i])
  BY <1>1, <1>2, OneLong, NoneLong
<1>5. IsList(study) /\ \A i \in 1 .. Len(study) : IsLayer(study[i])
  BY <1>1, <1>2, OneLong, NoneLong
<1>6. ASSUME NEW s, NEW t, IsList(s), IsList(t), \A i \in 1 .. Len(s) : IsLayer(s[i]),
             \A i \in 1 .. Len(t) : IsLayer(t[i])
      PROVE  /\ IsList(s \o t) /\ Len(s \o t) = Len(s) + Len(t)
             /\ \A i \in 1 .. Len(s \o t) : IsLayer((s \o t)[i])
  <2>1. PICK u : /\ u = s \o t /\ IsList(u) /\ Len(u) = Len(s) + Len(t)
                 /\ \A i \in 1 .. Len(s) : u[i] = s[i]
                 /\ \A i \in 1 .. Len(t) : u[Len(s) + i] = t[i]
    <3>1. /\ IsList(s \o t) /\ Len(s \o t) = Len(s) + Len(t)
          /\ \A i \in 1 .. Len(s) : (s \o t)[i] = s[i]
          /\ \A i \in 1 .. Len(t) : (s \o t)[Len(s) + i] = t[i]
      BY <1>6, Joined
    <3> QED BY <3>1
  <2>2. Len(s) \in Nat /\ Len(t) \in Nat
    BY <1>6 DEF IsList
  <2>3. ASSUME NEW i \in 1 .. Len(u) PROVE IsLayer(u[i])
    <3>1. CASE i <= Len(s)
      <4>1. i \in 1 .. Len(s)
        BY <2>1, <2>2, <3>1
      <4> QED BY <1>6, <2>1, <4>1
    <3>2. CASE ~(i <= Len(s))
      <4>1. PICK j \in 1 .. Len(t) : i = Len(s) + j
        <5>1. i - Len(s) \in 1 .. Len(t) /\ i = Len(s) + (i - Len(s))
          BY <2>1, <2>2, <3>2
        <5> QED BY <5>1
      <4>2. u[i] = t[j] /\ IsLayer(t[j])
        BY <1>6, <2>1, <4>1
      <4> QED BY <4>2
    <3> QED BY <3>1, <3>2
  <2> QED BY <2>1, <2>3
<1>7. /\ IsList(base \o problem) /\ Len(base \o problem) = 1 + Len(problem)
      /\ \A i \in 1 .. Len(base \o problem) : IsLayer((base \o problem)[i])
  <2>1. \A i \in 1 .. Len(base) : IsLayer(base[i])
    BY <1>3
  <2> QED BY <1>3, <1>4, <1>6, <2>1
<1>8. /\ IsList(Layers(w)) /\ Len(Layers(w)) = Len(base \o problem) + Len(study)
      /\ \A i \in 1 .. Len(Layers(w)) : IsLayer(Layers(w)[i])
  BY <1>2, <1>5, <1>6, <1>7
<1>9. Len(problem) \in Nat /\ Len(study) \in Nat
  BY <1>4, <1>5 DEF IsList
<1> QED BY <1>7, <1>8, <1>9

LEMMA StackIs ==
  ASSUME NEW w, IsWorld(w)
  PROVE  \E L, N :
         /\ L = Len(Layers(w)) /\ N = Len(w.shell.overrides)
         /\ L \in Nat /\ L # 0 /\ N \in Nat
         /\ DOMAIN Stack(w) = 1 .. L + 1 + N
         /\ \A i \in 1 .. L : Stack(w)[i] = Layers(w)[i]
         /\ Stack(w)[L + 1] = w.shell.env
         /\ \A i \in 1 .. N : Stack(w)[L + 1 + i] = Leaves(w.shell.overrides)[i]
<1>1. PICK L, N : L = Len(Layers(w)) /\ N = Len(w.shell.overrides)
  OBVIOUS
<1>2. PICK flat : flat = w.shell.overrides /\ IsFlat(flat) /\ N = Len(flat)
  BY <1>1, ShellIs DEF IsWorld
<1>3. PICK low : low = Layers(w) /\ IsList(low) /\ Len(low) = L /\ L # 0
  BY <1>1, LayersOf
<1>4. PICK top : /\ top = Leaves(flat) /\ Len(top) = N /\ DOMAIN top = 1 .. N /\ N \in Nat
  BY <1>2, LeavesOf
<1>5. IsList(top)
  <2>1. top = [i \in 1 .. Len(top) |-> top[i]]
    <3>1. top = [i \in DOMAIN top |-> top[i]]
      BY <1>4 DEF Leaves
    <3> QED BY <1>4, <3>1
  <2> QED BY <1>4, <2>1 DEF IsList
<1>6. PICK env : env = <<w.shell.env>> /\ IsList(env) /\ Len(env) = 1 /\ env[1] = w.shell.env
  BY OneLong
<1>7. PICK mid : mid = low \o env
  OBVIOUS
<1>8. /\ IsList(mid) /\ Len(mid) = L + 1
      /\ \A i \in 1 .. L : mid[i] = low[i]
      /\ \A i \in 1 .. 1 : mid[L + i] = env[i]
  BY <1>3, <1>6, <1>7, Joined
<1>9. PICK stack : stack = mid \o top
  OBVIOUS
<1>10. /\ IsList(stack) /\ Len(stack) = L + 1 + N
       /\ \A i \in 1 .. L + 1 : stack[i] = mid[i]
       /\ \A i \in 1 .. N : stack[L + 1 + i] = top[i]
  <2>1. /\ IsList(mid \o top) /\ Len(mid \o top) = Len(mid) + Len(top)
        /\ \A i \in 1 .. Len(mid) : (mid \o top)[i] = mid[i]
        /\ \A i \in 1 .. Len(top) : (mid \o top)[Len(mid) + i] = top[i]
    BY <1>5, <1>8, Joined
  <2>2. Len(mid) = L + 1 /\ Len(top) = N
    BY <1>4, <1>8
  <2> QED BY <1>9, <2>1, <2>2
<1>11. stack = Stack(w)
  BY <1>2, <1>3, <1>4, <1>6, <1>7, <1>9 DEF Stack
<1>12. L \in Nat
  BY <1>3 DEF IsList
<1>13. /\ \A i \in 1 .. L : stack[i] = low[i]
       /\ stack[L + 1] = w.shell.env
  <2>1. 1 \in 1 .. 1 /\ L + 1 \in 1 .. L + 1 /\ \A i \in 1 .. L : i \in 1 .. L + 1
    BY <1>12
  <2> QED BY <1>6, <1>8, <1>10, <2>1
<1>14. DOMAIN stack = 1 .. L + 1 + N
  BY <1>10 DEF IsList
<1>15. \A i \in 1 .. L : Stack(w)[i] = Layers(w)[i]
  BY <1>3, <1>11, <1>13
<1>16. \A i \in 1 .. N : Stack(w)[L + 1 + i] = Leaves(w.shell.overrides)[i]
  <2>1. top = Leaves(w.shell.overrides)
    BY ONLY <1>2, <1>4
  <2>2. \A i \in 1 .. N : stack[L + 1 + i] = top[i]
    BY ONLY <1>10
  <2>3. stack = Stack(w)
    BY ONLY <1>11
  <2> QED BY ONLY <2>1, <2>2, <2>3
<1>17. /\ DOMAIN Stack(w) = 1 .. L + 1 + N /\ Stack(w)[L + 1] = w.shell.env
       /\ L \in Nat /\ L # 0 /\ N \in Nat
  BY <1>3, <1>4, <1>11, <1>12, <1>13, <1>14
<1> QED BY ONLY <1>1, <1>15, <1>16, <1>17

\* What is typed has no storage in it: that is the files' or the environment's.
LEMMA StackIsLayers ==
  ASSUME NEW w, IsWorld(w), NEW i \in DOMAIN Stack(w)
  PROVE  IsLayer(Stack(w)[i])
<1>1. PICK L, N : /\ L = Len(Layers(w)) /\ N = Len(w.shell.overrides)
                  /\ L \in Nat /\ L # 0 /\ N \in Nat
                  /\ DOMAIN Stack(w) = 1 .. L + 1 + N
                  /\ \A j \in 1 .. L : Stack(w)[j] = Layers(w)[j]
                  /\ Stack(w)[L + 1] = w.shell.env
                  /\ \A j \in 1 .. N : Stack(w)[L + 1 + j] = Leaves(w.shell.overrides)[j]
  BY StackIs
<1>2. CASE i \in 1 .. L
  BY <1>1, <1>2, LayersOf
<1>3. CASE i = L + 1
  BY <1>1, <1>3, ShellIs DEF IsWorld
<1>4. CASE i \notin 1 .. L /\ i # L + 1
  <2>1. PICK j \in 1 .. N : i = L + 1 + j
    <3>1. i \in 1 .. L + 1 + N
      BY <1>1
    <3>2. L \in Nat /\ N \in Nat
      BY <1>1
    <3>3. i - (L + 1) \in 1 .. N /\ i = L + 1 + (i - (L + 1))
      BY ONLY <1>4, <3>1, <3>2
    <3> QED BY <3>3
  <2>2. PICK flat : flat = w.shell.overrides /\ IsFlat(flat) /\ N = Len(flat)
    BY <1>1, ShellIs DEF IsWorld
  <2>3. DOMAIN Leaves(flat)[j] = {Key(flat, j)} /\ j \in DOMAIN flat
    BY <2>1, <2>2, LeavesOf
  <2>4. IsPath(Key(flat, j))
    BY <2>2, <2>3, SplitIsAPath DEF IsFlat, Key
  <2>5. Key(flat, j) # <<"runs", "storage_url">>
    <3>1. ASSUME NEW a, NEW b PROVE <<a, b>>[1] = a
      OBVIOUS
    <3>2. ASSUME NEW a, NEW b, NEW c PROVE <<a, b, c>>[1] = a
      OBVIOUS
    <3>3. Key(flat, j)[1] = "training" \/ Key(flat, j)[1] = "cv"
      BY <2>2, <2>3, <3>1, <3>2, SplitIsAPath DEF IsFlat, Key
    <3> QED BY <3>1, <3>3
  <2>6. IsLayer(Leaves(flat)[j])
    BY <2>3, <2>4, <2>5 DEF IsLayer, IsDict, IsPath, SetsStorageIn
  <2> QED BY <1>1, <2>1, <2>2, <2>6
<1> QED BY <1>2, <1>3, <1>4

\* What a load is.
LEMMA LoadIs ==
  ASSUME NEW w, IsWorld(w), NEW cfg \in FromLayers(w)
  PROVE  \E init, tree :
           /\ init \in Unflatten(w.shell.overrides)
           /\ tree = MergeAll(Reverse(Sources(init, w.shell.env, Layers(w))))
           /\ IsDict(tree) /\ cfg \in Validated(tree)
<1>1. PICK init \in Unflatten(w.shell.overrides) :
        cfg \in Settings(init, w.shell.env, Layers(w))
  BY DEF FromLayers
<1>2. PICK tree : /\ tree = MergeAll(Reverse(Sources(init, w.shell.env, Layers(w))))
                  /\ cfg \in Validated(tree)
  BY <1>1 DEF Settings
<1>3. IsDict(init)
  <2>1. IsFlat(w.shell.overrides)
    BY ShellIs DEF IsWorld
  <2>2. \A p \in DOMAIN init : \E i \in 1 .. Len(w.shell.overrides) : p = Key(w.shell.overrides, i)
    BY <2>1, Unflattened
  <2>3. \A i \in 1 .. Len(w.shell.overrides) : IsPath(Key(w.shell.overrides, i))
    BY <2>1, SplitIsAPath, LeavesOf DEF IsFlat, Key
  <2> QED BY <2>2, <2>3 DEF IsDict, IsPath
<1>4. IsDict(w.shell.env)
  BY ShellIs DEF IsWorld, IsLayer
<1>5. PICK toml : toml = Layers(w)
  OBVIOUS
<1>6. IsDict(TomlStack(toml))
  <2>1. Len(toml) \in Nat /\ \A i \in 1 .. Len(toml) : IsDict(toml[i])
    BY <1>5, LayersOf DEF IsList, IsLayer
  <2>2. Len(toml) \in 0 .. Len(toml)
    BY <2>1
  <2>3. \A p \in DOMAIN Merges(toml)[Len(toml)] : \E i \in 1 .. Len(toml) : p \in DOMAIN toml[i]
    BY <2>1, <2>2, LastDecides DEF Top
  <2> QED BY <2>1, <2>3 DEF TomlStack, MergeAll, IsDict
<1>7. \A p \in DOMAIN tree :
        p \in DOMAIN init \/ p \in DOMAIN w.shell.env \/ p \in DOMAIN TomlStack(toml)
  BY <1>2, <1>5, SourcesDecide
<1>8. IsDict(tree)
  BY <1>3, <1>4, <1>6, <1>7 DEF IsDict
<1> QED BY <1>1, <1>2, <1>8

-----------------------------------------------------------------------------
(* Which layer decides *)

LEMMA PrefixesMeet ==
  ASSUME NEW p, NEW q, NEW r, IsList(p), IsList(q), IsList(r),
         IsPrefix(p, r), IsPrefix(q, r)
  PROVE  Related(p, q)
<1>1. Len(p) \in Nat /\ Len(q) \in Nat
  BY DEF IsList
<1>2. /\ \A i \in 1 .. Len(p) : p[i] = r[i]
      /\ \A i \in 1 .. Len(q) : q[i] = r[i]
  BY PrefixIs
<1>3. CASE Len(p) <= Len(q)
  <2>1. \A i \in 1 .. Len(p) : p[i] = q[i]
    BY <1>1, <1>2, <1>3
  <2> QED BY <1>3, <2>1, PrefixIs DEF Related
<1>4. CASE Len(q) <= Len(p)
  <2>1. \A i \in 1 .. Len(q) : q[i] = p[i]
    BY <1>1, <1>2, <1>4
  <2> QED BY <1>4, <2>1, PrefixIs DEF Related
<1> QED BY <1>1, <1>3, <1>4

LEMMA SaysIs ==
  ASSUME NEW tree, NEW p, IsList(p)
  PROVE  Says(tree, p) <=> \E q \in DOMAIN tree : Related(p, q)
  BY PrefixOfItself DEF Says, Related

\* What was typed says something of a path iff one of its keys does.
LEMMA KeysSay ==
  ASSUME NEW flat, IsFlat(flat), NEW nested \in Unflatten(flat), NEW p, IsList(p)
  PROVE  Says(nested, p) <=> \E j \in 1 .. Len(flat) : Related(p, Key(flat, j))
<1>1. \A j \in 1 .. Len(flat) : IsList(Key(flat, j))
  BY SplitIsAPath, LeavesOf DEF IsFlat, Key, IsPath
<1>2. \A e \in DOMAIN nested : \E j \in 1 .. Len(flat) : e = Key(flat, j)
  BY Unflattened
<1>3. Says(nested, p) => \E j \in 1 .. Len(flat) : Related(p, Key(flat, j))
  BY <1>2, SaysIs
<1>4. ASSUME NEW j \in 1 .. Len(flat), Related(p, Key(flat, j))
      PROVE  Says(nested, p)
  <2>1. PICK e \in DOMAIN nested : IsPrefix(e, Key(flat, j))
    BY Unflattened
  <2>2. PICK key : key = Key(flat, j) /\ IsList(key) /\ IsList(e)
    BY <1>1, <1>2
  <2>3. CASE IsPrefix(p, key)
    <3>1. Related(p, e)
      BY <2>1, <2>2, <2>3, PrefixesMeet
    <3> QED BY <3>1 DEF Says
  <2>4. CASE IsPrefix(key, p)
    <3>1. IsPrefix(e, p)
      <4>1. IsPrefix(e, key)
        BY <2>1, <2>2
      <4> QED BY ONLY IsList(p), <2>2, <2>4, <4>1, PrefixOfPrefix
    <3> QED BY <3>1 DEF Says, Related
  <2> QED BY <1>4, <2>2, <2>3, <2>4 DEF Related
<1> QED BY <1>3, <1>4

IsTop(w, p, i) == i \in Meet(w, p) /\ \A j \in Meet(w, p) : j <= i

\* The parts of a stack: the files, the environment, what was typed.
LEMMA WhereLayersMeet ==
  ASSUME NEW w, IsWorld(w), NEW init \in Unflatten(w.shell.overrides), NEW p, IsPath(p)
  PROVE  \E L \in Nat, N \in Nat :
           /\ L = Len(Layers(w)) /\ L # 0 /\ N = Len(w.shell.overrides)
           /\ Meet(w, p) \in SUBSET (1 .. L + 1 + N)
           /\ \A i \in 1 .. L : /\ Stack(w)[i] = Layers(w)[i]
                                /\ i \in Meet(w, p) <=> Says(Layers(w)[i], p)
           /\ Stack(w)[L + 1] = w.shell.env
           /\ L + 1 \in Meet(w, p) <=> Says(w.shell.env, p)
           /\ \A j \in 1 .. N :
                /\ L + 1 + j \in Meet(w, p) <=> Related(p, Key(w.shell.overrides, j))
                /\ DOMAIN Stack(w)[L + 1 + j] = {Key(w.shell.overrides, j)}
                /\ Stack(w)[L + 1 + j][Key(w.shell.overrides, j)] = w.shell.overrides[j][2]
           /\ Says(init, p) <=> \E j \in 1 .. N : L + 1 + j \in Meet(w, p)
<1>1. PICK L, N : /\ L = Len(Layers(w)) /\ N = Len(w.shell.overrides)
                  /\ L \in Nat /\ L # 0 /\ N \in Nat
                  /\ DOMAIN Stack(w) = 1 .. L + 1 + N
                  /\ \A j \in 1 .. L : Stack(w)[j] = Layers(w)[j]
                  /\ Stack(w)[L + 1] = w.shell.env
                  /\ \A j \in 1 .. N : Stack(w)[L + 1 + j] = Leaves(w.shell.overrides)[j]
  BY StackIs
<1>2. PICK stack : stack = Stack(w)
  OBVIOUS
<1>3. \A i : i \in Meet(w, p) <=> i \in 1 .. L + 1 + N /\ Says(stack[i], p)
  <2>1. \A i : i \in Meet(w, p) <=>
          i \in DOMAIN stack /\ \E q \in DOMAIN stack[i] : Related(p, q)
    BY <1>2 DEF Meet
  <2>2. \A i : Says(stack[i], p) <=> \E q \in DOMAIN stack[i] : Related(p, q)
    BY SaysIs DEF IsPath
  <2> QED BY <1>1, <1>2, <2>1, <2>2
<1>4. L \in Nat /\ N \in Nat
  BY <1>1
<1>5. \A i \in 1 .. L : i \in 1 .. L + 1 + N
  BY <1>4
<1>6. L + 1 \in 1 .. L + 1 + N /\ \A j \in 1 .. N : L + 1 + j \in 1 .. L + 1 + N
  BY <1>4
<1>7. PICK flat : flat = w.shell.overrides /\ IsFlat(flat)
  BY ShellIs DEF IsWorld
<1>8. \A j \in 1 .. N : /\ DOMAIN stack[L + 1 + j] = {Key(flat, j)}
                        /\ stack[L + 1 + j][Key(flat, j)] = flat[j][2]
  <2>1. Len(flat) = N /\ \A j \in 1 .. N : stack[L + 1 + j] = Leaves(flat)[j]
    BY <1>1, <1>2, <1>7
  <2>2. \A j \in 1 .. Len(flat) : /\ DOMAIN Leaves(flat)[j] = {Key(flat, j)}
                                  /\ Leaves(flat)[j][Key(flat, j)] = flat[j][2]
    BY <1>7, LeavesOf
  <2>3. ASSUME NEW j \in 1 .. N
        PROVE  /\ DOMAIN stack[L + 1 + j] = {Key(flat, j)}
               /\ stack[L + 1 + j][Key(flat, j)] = flat[j][2]
    <3>1. PICK tree : tree = stack[L + 1 + j] /\ tree = Leaves(flat)[j]
      BY <2>1
    <3>2. DOMAIN tree = {Key(flat, j)} /\ tree[Key(flat, j)] = flat[j][2]
      BY <2>1, <2>2, <3>1
    <3> QED BY <3>1, <3>2
  <2> QED BY <2>3
<1>9. ASSUME NEW j \in 1 .. N
      PROVE  L + 1 + j \in Meet(w, p) <=> Related(p, Key(flat, j))
  <2>1. PICK tree, i : tree = stack[i] /\ i = L + 1 + j
    OBVIOUS
  <2>2. DOMAIN tree = {Key(flat, j)} /\ i \in 1 .. L + 1 + N
    BY <1>6, <1>8, <2>1
  <2>3. Says(tree, p) <=> Related(p, Key(flat, j))
    BY <2>2, SaysIs DEF IsPath
  <2>4. i \in Meet(w, p) <=> Says(tree, p)
    BY ONLY <1>3, <2>1, <2>2
  <2> QED BY ONLY <2>1, <2>3, <2>4
<1>10. Says(init, p) <=> \E j \in 1 .. N : L + 1 + j \in Meet(w, p)
  BY <1>1, <1>7, <1>9, KeysSay DEF IsPath
<1>11. \A i \in 1 .. L : i \in Meet(w, p) <=> Says(Layers(w)[i], p)
  BY <1>1, <1>2, <1>3, <1>5
<1>12. L + 1 \in Meet(w, p) <=> Says(w.shell.env, p)
  BY <1>1, <1>2, <1>3, <1>6
<1>13. Meet(w, p) \in SUBSET (1 .. L + 1 + N)
  BY <1>3
<1>14. /\ \A i \in 1 .. L : /\ Stack(w)[i] = Layers(w)[i]
                            /\ i \in Meet(w, p) <=> Says(Layers(w)[i], p)
       /\ Stack(w)[L + 1] = w.shell.env
  BY <1>1, <1>11
<1>15. \A j \in 1 .. N :
         /\ L + 1 + j \in Meet(w, p) <=> Related(p, Key(w.shell.overrides, j))
         /\ DOMAIN Stack(w)[L + 1 + j] = {Key(w.shell.overrides, j)}
         /\ Stack(w)[L + 1 + j][Key(w.shell.overrides, j)] = w.shell.overrides[j][2]
  BY <1>2, <1>7, <1>8, <1>9
<1>16. L = Len(Layers(w)) /\ L # 0 /\ N = Len(w.shell.overrides)
  BY <1>1
<1> QED BY ONLY <1>4, <1>10, <1>12, <1>13, <1>14, <1>15, <1>16

\* What a load sets, the highest layer that says anything of it sets.
LEMMA SetByTheTop ==
  ASSUME NEW w, IsWorld(w), NEW init \in Unflatten(w.shell.overrides), NEW tree,
         tree = MergeAll(Reverse(Sources(init, w.shell.env, Layers(w)))),
         NEW p \in DOMAIN tree, IsPath(p)
  PROVE  \E i : IsTop(w, p, i) /\ p \in DOMAIN Stack(w)[i] /\ tree[p] = Stack(w)[i][p]
<1>1. PICK L \in Nat, N \in Nat :
        /\ L = Len(Layers(w)) /\ L # 0 /\ N = Len(w.shell.overrides)
        /\ Meet(w, p) \in SUBSET (1 .. L + 1 + N)
        /\ \A i \in 1 .. L : /\ Stack(w)[i] = Layers(w)[i]
                             /\ i \in Meet(w, p) <=> Says(Layers(w)[i], p)
        /\ Stack(w)[L + 1] = w.shell.env
        /\ L + 1 \in Meet(w, p) <=> Says(w.shell.env, p)
        /\ \A j \in 1 .. N :
             /\ L + 1 + j \in Meet(w, p) <=> Related(p, Key(w.shell.overrides, j))
             /\ DOMAIN Stack(w)[L + 1 + j] = {Key(w.shell.overrides, j)}
             /\ Stack(w)[L + 1 + j][Key(w.shell.overrides, j)] = w.shell.overrides[j][2]
        /\ Says(init, p) <=> \E j \in 1 .. N : L + 1 + j \in Meet(w, p)
  BY WhereLayersMeet
<1>2. PICK flat : flat = w.shell.overrides /\ IsFlat(flat)
  BY ShellIs DEF IsWorld
<1>3. PICK env, toml : env = w.shell.env /\ toml = Layers(w)
  OBVIOUS
<1>4. /\ \A q \in DOMAIN init : q \in DOMAIN tree /\ tree[q] = init[q]
      /\ \A q \in DOMAIN tree \ DOMAIN init :
           /\ ~Says(init, q)
           /\ q \in DOMAIN env => tree[q] = env[q]
           /\ q \notin DOMAIN env =>
                /\ ~Says(env, q)
                /\ q \in DOMAIN TomlStack(toml) /\ tree[q] = TomlStack(toml)[q]
  BY <1>3, SourcesDecide
<1>5. \A i \in Meet(w, p) : i \in 1 .. L \/ i = L + 1 \/ \E j \in 1 .. N : i = L + 1 + j
  <2> SUFFICES ASSUME NEW i \in 1 .. L + 1 + N
               PROVE  i \in 1 .. L \/ i = L + 1 \/ \E j \in 1 .. N : i = L + 1 + j
    BY <1>1
  <2>1. i \in 1 .. L \/ i = L + 1 \/ (i - (L + 1) \in 1 .. N /\ i = L + 1 + (i - (L + 1)))
    OBVIOUS
  <2> QED BY <2>1
<1>6. CASE p \in DOMAIN init
  <2>1. PICK k \in 1 .. Len(flat) :
          /\ p = Key(flat, k) /\ init[p] = flat[k][2]
          /\ \A j \in 1 .. Len(flat) : Key(flat, j) = p \/ Related(p, Key(flat, j)) => j <= k
    BY <1>2, <1>6, Unflattened
  <2>2. k \in 1 .. N /\ p \in DOMAIN Stack(w)[L + 1 + k] /\ tree[p] = Stack(w)[L + 1 + k][p]
    BY <1>1, <1>2, <1>4, <1>6, <2>1
  <2>3. Related(p, p)
    BY PrefixOfItself DEF Related, IsPath
  <2>4. L + 1 + k \in Meet(w, p)
    BY <1>1, <1>2, <2>1, <2>2, <2>3
  <2>5. ASSUME NEW j \in Meet(w, p) PROVE j <= L + 1 + k
    <3>1. CASE j \in 1 .. L \/ j = L + 1
      BY <2>1, <3>1, <2>2
    <3>2. ASSUME NEW m \in 1 .. N, j = L + 1 + m PROVE j <= L + 1 + k
      <4>1. Related(p, Key(flat, m)) /\ m \in 1 .. Len(flat)
        BY <1>1, <1>2, <3>2
      <4>2. m <= k
        BY <2>1, <4>1
      <4> QED BY <2>2, <3>2, <4>2
    <3> QED BY <1>5, <3>1, <3>2
  <2> QED BY <2>2, <2>4, <2>5 DEF IsTop
<1>7. CASE p \notin DOMAIN init /\ p \in DOMAIN env
  <2>1. ~Says(init, p) /\ tree[p] = env[p] /\ Says(env, p)
    BY <1>4, <1>7 DEF Says
  <2>2. L + 1 \in Meet(w, p) /\ \A j \in 1 .. N : L + 1 + j \notin Meet(w, p)
    BY <1>1, <1>3, <2>1
  <2>3. \A j \in Meet(w, p) : j <= L + 1
    BY <1>5, <2>2
  <2> QED BY <1>1, <1>3, <1>7, <2>1, <2>2, <2>3 DEF IsTop
<1>8. CASE p \notin DOMAIN init /\ p \notin DOMAIN env
  <2>1. /\ ~Says(init, p) /\ ~Says(env, p)
        /\ p \in DOMAIN TomlStack(toml) /\ tree[p] = TomlStack(toml)[p]
    BY <1>4, <1>8
  <2>2. L + 1 \notin Meet(w, p) /\ \A j \in 1 .. N : L + 1 + j \notin Meet(w, p)
    BY <1>1, <1>3, <2>1
  <2>3. Len(toml) = L /\ L \in 0 .. L /\ p \in DOMAIN Merges(toml)[L]
        /\ Merges(toml)[L][p] = tree[p]
    BY <1>1, <1>3, <2>1 DEF TomlStack, MergeAll
  <2>4. PICK i \in 1 .. L : Top(toml, L, p, i) /\ Merges(toml)[L][p] = toml[i][p]
    BY <2>3, LastDecides
  <2>5. i \in Meet(w, p) /\ p \in DOMAIN Stack(w)[i] /\ tree[p] = Stack(w)[i][p]
    BY <1>1, <1>3, <2>3, <2>4 DEF Top, Says
  <2>6. ASSUME NEW j \in Meet(w, p) PROVE j <= i
    <3>1. j \in 1 .. L
      BY <1>5, <2>2
    <3>2. Says(toml[j], p)
      BY <1>1, <1>3, <3>1
    <3> QED BY <2>4, <3>1, <3>2 DEF Top
  <2> QED BY <2>5, <2>6 DEF IsTop
<1> QED BY <1>6, <1>7, <1>8

\* And what the highest layer sets, the load sets.
LEMMA TopIsSet ==
  ASSUME NEW w, IsWorld(w), NEW init \in Unflatten(w.shell.overrides), NEW tree,
         tree = MergeAll(Reverse(Sources(init, w.shell.env, Layers(w)))),
         NEW p, IsPath(p), NEW i, IsTop(w, p, i), p \in DOMAIN Stack(w)[i]
  PROVE  p \in DOMAIN tree
<1>1. PICK L \in Nat, N \in Nat :
        /\ L = Len(Layers(w)) /\ L # 0 /\ N = Len(w.shell.overrides)
        /\ Meet(w, p) \in SUBSET (1 .. L + 1 + N)
        /\ \A j \in 1 .. L : /\ Stack(w)[j] = Layers(w)[j]
                             /\ j \in Meet(w, p) <=> Says(Layers(w)[j], p)
        /\ Stack(w)[L + 1] = w.shell.env
        /\ L + 1 \in Meet(w, p) <=> Says(w.shell.env, p)
        /\ \A j \in 1 .. N :
             /\ L + 1 + j \in Meet(w, p) <=> Related(p, Key(w.shell.overrides, j))
             /\ DOMAIN Stack(w)[L + 1 + j] = {Key(w.shell.overrides, j)}
             /\ Stack(w)[L + 1 + j][Key(w.shell.overrides, j)] = w.shell.overrides[j][2]
        /\ Says(init, p) <=> \E j \in 1 .. N : L + 1 + j \in Meet(w, p)
  BY WhereLayersMeet
<1>2. PICK flat : flat = w.shell.overrides /\ IsFlat(flat)
  BY ShellIs DEF IsWorld
<1>3. PICK env, toml : env = w.shell.env /\ toml = Layers(w)
  OBVIOUS
<1>4. /\ \A q \in DOMAIN init : q \in DOMAIN tree
      /\ \A q \in DOMAIN env : q \in DOMAIN tree \/ Says(init, q)
      /\ \A q \in DOMAIN TomlStack(toml) : q \in DOMAIN tree \/ Says(init, q) \/ Says(env, q)
  BY <1>3, SourcesDecide
<1>5. i \in 1 .. L + 1 + N
  BY <1>1 DEF IsTop
<1>6. CASE i <= L + 1
  <2>1. ~Says(init, p)
    <3>1. ASSUME NEW j \in 1 .. N PROVE L + 1 + j \notin Meet(w, p)
      <4>1. ~(L + 1 + j <= i)
        BY <1>5, <1>6
      <4> QED BY <4>1 DEF IsTop
    <3> QED BY <1>1, <3>1
  <2>2. CASE i = L + 1
    BY <1>1, <1>3, <1>4, <2>1, <2>2
  <2>3. CASE i # L + 1
    <3>1. i \in 1 .. L
      BY <1>5, <1>6, <2>3
    <3>2. ~Says(env, p)
      <4>1. ~(L + 1 <= i)
        BY <3>1
      <4> QED BY <1>1, <1>3, <4>1 DEF IsTop
    <3>3. Len(toml) = L /\ Len(toml) \in Nat /\ L \in 0 .. Len(toml)
      BY <1>1, <1>3
    <3>4. p \in DOMAIN toml[i]
      BY <1>1, <1>3, <3>1
    <3>5. \A j \in 1 .. L : Says(toml[j], p) => j <= i
      BY <1>1, <1>3 DEF IsTop
    <3>6. p \in DOMAIN Merges(toml)[L]
      BY ONLY <3>1, <3>3, <3>4, <3>5, UnsaidStays
    <3> QED BY <1>4, <2>1, <3>2, <3>3, <3>6 DEF TomlStack, MergeAll
  <2> QED BY <2>2, <2>3
<1>7. CASE ~(i <= L + 1)
  <2>1. PICK k \in 1 .. N : i = L + 1 + k
    <3>1. i - (L + 1) \in 1 .. N /\ i = L + 1 + (i - (L + 1))
      BY <1>5, <1>7
    <3> QED BY <3>1
  <2>2. p = Key(flat, k) /\ N = Len(flat)
    BY <1>1, <1>2, <2>1
  <2>3. ASSUME NEW j \in 1 .. Len(flat),
               Key(flat, j) = Key(flat, k) \/ Related(Key(flat, k), Key(flat, j))
        PROVE  j <= k
    <3>1. Related(p, Key(flat, j))
      <4>1. Related(p, p)
        BY PrefixOfItself DEF Related, IsPath
      <4> QED BY <2>2, <2>3, <4>1
    <3>2. L + 1 + j \in Meet(w, p)
      BY <1>1, <1>2, <2>2, <3>1
    <3>3. L + 1 + j <= L + 1 + k /\ j \in Nat
      BY <2>1, <2>2, <3>2 DEF IsTop
    <3> QED BY <3>3
  <2>4. Key(flat, k) \in DOMAIN init
    BY <1>2, <2>2, <2>3, Unflattened
  <2> QED BY <1>4, <2>2, <2>4
<1> QED BY <1>5, <1>6, <1>7

-----------------------------------------------------------------------------
(* Loads *)

LEMMA LoadKeepsPrecedence ==
  ASSUME NEW w, IsWorld(w), NEW cfg \in FromLayers(w), NEW p \in DOMAIN cfg
  PROVE  /\ Meet(w, p) = {} => cfg[p] = Defaults(cfg)[p]
         /\ \A i \in Meet(w, p) : (\A j \in Meet(w, p) : j <= i) =>
              cfg[p] = IF p \in DOMAIN Stack(w)[i] THEN Stack(w)[i][p] ELSE Defaults(cfg)[p]
<1>1. PICK init, tree :
        /\ init \in Unflatten(w.shell.overrides)
        /\ tree = MergeAll(Reverse(Sources(init, w.shell.env, Layers(w))))
        /\ IsDict(tree) /\ cfg \in Validated(tree)
  BY LoadIs
<1>2. /\ p \in DOMAIN tree => cfg[p] = tree[p]
      /\ p \notin DOMAIN tree => cfg[p] = Defaults(cfg)[p]
      /\ IsPath(p)
  BY <1>1, Accepted
<1>3. CASE p \in DOMAIN tree
  <2>1. PICK i : IsTop(w, p, i) /\ p \in DOMAIN Stack(w)[i] /\ tree[p] = Stack(w)[i][p]
    BY <1>1, <1>2, <1>3, SetByTheTop
  <2>2. Meet(w, p) # {}
    BY <2>1 DEF IsTop
  <2>3. ASSUME NEW j \in Meet(w, p), \A k \in Meet(w, p) : k <= j PROVE j = i
    <3>1. j <= i /\ i <= j
      BY <2>1, <2>3 DEF IsTop
    <3>2. i \in Nat /\ j \in Nat
      <4>1. DOMAIN Stack(w) \in SUBSET Nat
        BY StackIs
      <4> QED BY <2>1, <4>1 DEF IsTop, Meet
    <3> QED BY <3>1, <3>2
  <2> QED BY <1>2, <1>3, <2>1, <2>2, <2>3
<1>4. CASE p \notin DOMAIN tree
  <2>1. ASSUME NEW i \in Meet(w, p), \A j \in Meet(w, p) : j <= i
        PROVE  p \notin DOMAIN Stack(w)[i]
    <3>1. IsTop(w, p, i)
      BY <2>1 DEF IsTop
    <3> QED BY <1>1, <1>2, <1>4, <3>1, TopIsSet
  <2> QED BY <1>2, <1>4, <2>1
<1> QED BY <1>3, <1>4

\* The storage of a configuration is one of those the files name, or the default.
LEMMA StorageIsKept ==
  ASSUME NEW w, IsWorld(w), NEW cfg \in FromLayers(w)
  PROVE  Storage(cfg) \in Storages
<1>1. PICK p : p = <<"runs", "storage_url">> /\ IsPath(p) /\ Len(p) = 2 /\ p[1] = "runs"
  <2>1. PICK a, b : a = "runs" /\ b = "storage_url"
    OBVIOUS
  <2>2. IsPath(<<a, b>>) /\ Len(<<a, b>>) = 2 /\ <<a, b>>[1] = a
    BY TwoLong
  <2> QED BY <2>1, <2>2
<1>2. PICK init, tree :
        /\ init \in Unflatten(w.shell.overrides)
        /\ tree = MergeAll(Reverse(Sources(init, w.shell.env, Layers(w))))
        /\ IsDict(tree) /\ cfg \in Validated(tree)
  BY LoadIs
<1>3. /\ TrainingKind(tree) \in Kinds
      /\ p \in DOMAIN tree => cfg[p] = tree[p]
      /\ p \in DOMAIN cfg \ DOMAIN tree => cfg[p] = Defaults(tree)[p]
      /\ p \in DOMAIN Defaults(tree) => p \in DOMAIN cfg
  BY <1>2, Accepted
<1>4. p \in DOMAIN Defaults(tree) /\ Defaults(tree)[p] \in Storages
  BY <1>1, <1>3, DefaultsAre, StoragesAssumption
<1>5. CASE p \notin DOMAIN tree
  BY <1>1, <1>3, <1>4, <1>5 DEF Storage
<1>6. CASE p \in DOMAIN tree
  <2>1. PICK i : IsTop(w, p, i) /\ p \in DOMAIN Stack(w)[i] /\ tree[p] = Stack(w)[i][p]
    BY <1>1, <1>2, <1>6, SetByTheTop
  <2>2. IsLayer(Stack(w)[i])
    BY <2>1, StackIsLayers DEF IsTop, Meet
  <2> QED BY <1>1, <1>3, <1>6, <2>1, <2>2 DEF IsLayer, SetsStorageIn, Storage
<1> QED BY <1>5, <1>6

\* What is given and found settles what a load ends with.
LEMMA OneSettings ==
  ASSUME NEW init, NEW env, NEW toml, NEW a \in Settings(init, env, toml),
         NEW b \in Settings(init, env, toml)
  PROVE  a = b
<1>1. ASSUME NEW tree, NEW x \in Validated(tree) PROVE x = DeepMerge(Defaults(tree), tree)
  BY DEF Validated
<1> QED BY <1>1 DEF Settings

LEMMA OneUnflattened ==
  ASSUME NEW flat, NEW a \in Unflatten(flat), NEW b \in Unflatten(flat)
  PROVE  a = b
  BY DEF Unflatten

LEMMA OneLoad ==
  ASSUME NEW w, NEW a \in FromLayers(w), NEW b \in FromLayers(w)
  PROVE  a = b
<1>1. PICK i \in Unflatten(w.shell.overrides) : a \in Settings(i, w.shell.env, Layers(w))
  BY DEF FromLayers
<1>2. PICK j \in Unflatten(w.shell.overrides) : b \in Settings(j, w.shell.env, Layers(w))
  BY DEF FromLayers
<1>3. i = j
  BY OneUnflattened
<1> QED BY <1>1, <1>2, <1>3, OneSettings

LEMMA OneDerived ==
  ASSUME NEW cfg, NEW env, NEW params, NEW a \in ApplyOverrides(cfg, env, params),
         NEW b \in ApplyOverrides(cfg, env, params)
  PROVE  a = b
<1>1. PICK i \in Unflatten(Items(params)) : a \in Settings(DeepMerge(cfg, i), env, <<>>)
  BY DEF ApplyOverrides
<1>2. PICK j \in Unflatten(Items(params)) : b \in Settings(DeepMerge(cfg, j), env, <<>>)
  BY DEF ApplyOverrides
<1>3. i = j
  BY OneUnflattened
<1> QED BY <1>1, <1>2, <1>3, OneSettings

\* The sweep and the promotion derive a trial's configuration the same way.
LEMMA OneWayToDerive ==
  ASSUME NEW cfg, NEW env, NEW params
  PROVE  ApplyTrialParams(cfg, env, params) = ApplyOverrides(cfg, env, params)
  BY DEF ApplyTrialParams, ApplyOverrides

\* Parameters drawn once are drawn again when they are all enqueued.
LEMMA DrawnAgain ==
  ASSUME NEW cfg, NEW fixed, NEW first \in Draws(cfg, fixed), NEW again \in Draws(cfg, first)
  PROVE  again = first
<1>1. DOMAIN first = SearchSpace(cfg) /\ first = [n \in SearchSpace(cfg) |-> first[n]]
  BY DEF Draws
<1>2. /\ again = [n \in SearchSpace(cfg) |-> again[n]]
      /\ \A n \in SearchSpace(cfg) : n \in DOMAIN first => again[n] = first[n]
  BY DEF Draws
<1> QED BY <1>1, <1>2

-----------------------------------------------------------------------------
(* The rows of a study *)

IsLoad(load) ==
  /\ load = [world |-> load.world, cfg |-> load.cfg]
  /\ IsWorld(load.world) /\ load.cfg \in FromLayers(load.world)

\* The trial ran the derivation of this load and these draws.
RanFrom(row, load, plan) ==
  /\ IsLoad(load)
  /\ \A p \in plan : IsLoad(p) /\ p.world.shell = load.world.shell
  /\ row.params \in Draws(load.cfg, row.fixed)
  /\ row.attrs = {Attrs(cfg) : cfg \in ApplyOverrides(load.cfg, load.world.shell.env, row.params)}
  /\ row.run = {[world |-> load.world, cfg |-> cfg, plan |-> plan] :
                  cfg \in ApplyOverrides(load.cfg, load.world.shell.env, row.params)}

IsRow(rows, row) ==
  /\ row = [state |-> row.state, fixed |-> row.fixed, params |-> row.params,
            attrs |-> row.attrs, of |-> row.of, run |-> row.run]
  /\ row.of \in 0 .. Len(rows)
  /\ row.of # 0 => rows[row.of].state = "SETTLED" /\ row.fixed = rows[row.of].params
  /\ \/ row.state = "WAITING" /\ row.attrs = {} /\ row.run = {}
     \/ row.state = "SETTLED" /\ \E load, plan : RanFrom(row, load, plan)

IsStudy(rows) == IsList(rows) /\ \A n \in 1 .. Len(rows) : IsRow(rows, rows[n])

\* A settled row stays as it is.
Keeps(before, after) ==
  /\ Len(before) <= Len(after)
  /\ \A n \in 1 .. Len(before) : before[n].state = "SETTLED" => after[n] = before[n]

LEMMA KeptRow ==
  ASSUME NEW before, NEW after, Len(before) \in Nat, Len(after) \in Nat,
         Keeps(before, after), NEW row, IsRow(before, row)
  PROVE  IsRow(after, row)
<1>1. row.of \in 0 .. Len(after)
  BY DEF Keeps, IsRow
<1>2. row.of # 0 => after[row.of] = before[row.of]
  <2>1. row.of # 0 => row.of \in 1 .. Len(before) /\ before[row.of].state = "SETTLED"
    BY DEF IsRow
  <2> QED BY <2>1 DEF Keeps
<1> QED BY <1>1, <1>2 DEF IsRow

LEMMA AskedIs ==
  ASSUME NEW rows, Len(rows) \in Nat
  PROVE  /\ Asked(rows) \in 1 .. Len(rows) + 1
         /\ Asked(rows) <= Len(rows) => rows[Asked(rows)].state = "WAITING"
<1>1. PICK I \in SUBSET Nat : I = {i \in 1 .. Len(rows) : rows[i].state = "WAITING"}
  <2>1. {i \in 1 .. Len(rows) : rows[i].state = "WAITING"} \in SUBSET Nat
    OBVIOUS
  <2> QED BY <2>1
<1>2. SelectInSeq(rows, LAMBDA row : row.state = "WAITING") = IF I # {} THEN Min(I) ELSE 0
  BY <1>1 DEF SelectInSeq
<1>3. CASE I = {}
  <2>1. Asked(rows) = Len(rows) + 1
    BY <1>2, <1>3 DEF Asked
  <2> QED BY <2>1
<1>4. CASE I # {}
  <2>1. Min(I) \in I
    BY <1>4, LeastNatural DEF Min
  <2>2. Asked(rows) = Min(I)
    BY <1>1, <1>2, <1>4, <2>1 DEF Asked
  <2> QED BY <1>1, <2>1, <2>2
<1> QED BY <1>3, <1>4

LEMMA WaitingIs ==
  ASSUME NEW fixed, NEW of
  PROVE  /\ Waiting(fixed, of) =
              [state |-> "WAITING", fixed |-> fixed, params |-> Waiting(fixed, of).params,
               attrs |-> {}, of |-> of, run |-> {}]
         /\ Waiting(fixed, of).state = "WAITING" /\ Waiting(fixed, of).attrs = {}
         /\ Waiting(fixed, of).run = {} /\ Waiting(fixed, of).of = of
         /\ Waiting(fixed, of).fixed = fixed
  BY DEF Waiting

\* Enqueueing a retry.
LEMMA QueuedIsAStudy ==
  ASSUME NEW rows, IsStudy(rows), NEW n \in 1 .. Len(rows), NEW of,
         of = IF rows[n].state = "WAITING" THEN 0 ELSE n, NEW queued,
         queued = Append(rows, Waiting(rows[n].params, of))
  PROVE  IsStudy(queued) /\ Keeps(rows, queued)
<1>1. /\ IsList(queued) /\ Len(queued) = Len(rows) + 1
      /\ \A i \in 1 .. Len(rows) : queued[i] = rows[i]
      /\ queued[Len(rows) + 1] = Waiting(rows[n].params, of)
  BY Appended DEF IsStudy
<1>2. Len(rows) \in Nat /\ Len(queued) \in Nat
  BY <1>1 DEF IsStudy, IsList
<1>3. Keeps(rows, queued)
  BY <1>1, <1>2 DEF Keeps
<1>4. ASSUME NEW i \in 1 .. Len(rows) PROVE IsRow(queued, queued[i])
  BY <1>1, <1>2, <1>3, KeptRow DEF IsStudy
<1>5. IsRow(queued, queued[Len(rows) + 1])
  <2>1. PICK row : row = Waiting(rows[n].params, of) /\ row = queued[Len(rows) + 1]
    BY <1>1
  <2>2. /\ row = [state |-> row.state, fixed |-> row.fixed, params |-> row.params,
                  attrs |-> row.attrs, of |-> row.of, run |-> row.run]
        /\ row.state = "WAITING" /\ row.attrs = {} /\ row.run = {}
        /\ row.of = of /\ row.fixed = rows[n].params
    BY <2>1, WaitingIs
  <2>3. of \in 0 .. Len(queued) /\ of # 0 => of = n /\ rows[n].state = "SETTLED"
    <3>1. rows[n].state \in {"WAITING", "SETTLED"}
      BY DEF IsStudy, IsRow
    <3> QED BY <1>1, <1>2, <3>1
  <2>4. of # 0 => queued[of].state = "SETTLED" /\ row.fixed = queued[of].params
    BY <1>1, <2>2, <2>3
  <2> QED BY <1>1, <1>2, <2>1, <2>2, <2>3, <2>4 DEF IsRow
<1>6. \A i \in 1 .. Len(queued) : i \in 1 .. Len(rows) \/ i = Len(rows) + 1
  BY <1>1, <1>2
<1> QED BY <1>1, <1>3, <1>4, <1>5, <1>6 DEF IsStudy

\* Running one trial.
LEMMA OptimizedIsAStudy ==
  ASSUME NEW rows, IsStudy(rows), NEW load, IsLoad(load), NEW plan,
         \A p \in plan : IsLoad(p) /\ p.world.shell = load.world.shell,
         NEW o \in Optimized(rows, load, plan)
  PROVE  IsStudy(o.rows) /\ Keeps(rows, o.rows)
<1>1. PICK n : n = Asked(rows)
  OBVIOUS
<1>2. PICK row : row = IF n <= Len(rows) THEN rows[n] ELSE Waiting(NoLeaves, 0)
  OBVIOUS
<1>3. PICK draw : /\ draw \in Draws(load.cfg, row.fixed)
                  /\ o.rows = [i \in 1 .. Len(rows) \cup {n} |->
                                 IF i = n THEN Settled(row, load, plan, draw) ELSE rows[i]]
  <2>1. \E draw \in Draws(load.cfg, row.fixed) :
          o = [rows |-> [i \in 1 .. Len(rows) \cup {n} |->
                           IF i = n THEN Settled(row, load, plan, draw) ELSE rows[i]],
               raised |-> [i \in 1 .. Len(rows) \cup {n} |->
                             IF i = n THEN Settled(row, load, plan, draw)
                             ELSE rows[i]][n].run = {}]
    BY <1>1, <1>2, Zenon DEF Optimized
  <2> QED BY <2>1
<1>4. PICK new : new = Settled(row, load, plan, draw)
  OBVIOUS
<1>5. PICK L \in Nat : L = Len(rows)
  BY DEF IsStudy, IsList
<1>6. n \in 1 .. L + 1 /\ (n <= L => rows[n].state = "WAITING")
  BY <1>1, <1>5, AskedIs
<1>7. PICK M \in Nat : /\ M \in {L, L + 1} /\ 1 .. L \cup {n} = 1 .. M
  <2>1. CASE n <= L
    <3>1. 1 .. L \cup {n} = 1 .. L
      BY <1>6, <2>1
    <3> QED BY <3>1
  <2>2. CASE ~(n <= L)
    <3>1. n = L + 1
      BY <1>6, <2>2
    <3>2. 1 .. L \cup {n} = 1 .. L + 1
      BY <3>1
    <3> QED BY <3>2
  <2> QED BY <2>1, <2>2
<1>8. PICK after : /\ after = o.rows
                   /\ after = [i \in 1 .. M |-> IF i = n THEN new ELSE rows[i]]
  BY <1>3, <1>4, <1>5, <1>7
<1>9. IsList(after) /\ Len(after) = M
  BY <1>8 DEF IsList
<1>10. n \in 1 .. M /\ after[n] = new /\ \A i \in 1 .. L : i # n => after[i] = rows[i]
  BY <1>6, <1>7, <1>8
<1>11. Keeps(rows, after)
  BY <1>5, <1>6, <1>7, <1>9, <1>10 DEF Keeps
<1>12. ASSUME NEW i \in 1 .. M, i # n PROVE IsRow(after, after[i])
  <2>1. i \in 1 .. L
    BY <1>6, <1>7, <1>12
  <2> QED BY <1>5, <1>9, <1>10, <1>11, <1>12, <2>1, KeptRow DEF IsStudy
<1>13. IsRow(rows, row) /\ row.state = "WAITING"
  <2>1. CASE n <= L
    BY <1>2, <1>5, <1>6, <2>1 DEF IsStudy
  <2>2. CASE ~(n <= L)
    <3>1. row = Waiting(NoLeaves, 0)
      BY <1>2, <1>5, <2>2
    <3>2. /\ row = [state |-> row.state, fixed |-> row.fixed, params |-> row.params,
                    attrs |-> row.attrs, of |-> row.of, run |-> row.run]
          /\ row.state = "WAITING" /\ row.attrs = {} /\ row.run = {} /\ row.of = 0
      BY <3>1, WaitingIs
    <3> QED BY <1>5, <3>2 DEF IsRow
  <2> QED BY <2>1, <2>2
<1>14. PICK derived : derived = ApplyOverrides(load.cfg, load.world.shell.env, draw)
  OBVIOUS
<1>15. new = [row EXCEPT !.state = "SETTLED", !.params = draw,
                         !.attrs = {Attrs(cfg) : cfg \in derived},
                         !.run = {[world |-> load.world, cfg |-> cfg, plan |-> plan] :
                                    cfg \in derived}]
  BY <1>4, <1>14 DEF Settled
<1>16. PICK state, fixed, params, attrs, of, run :
         row = [state |-> state, fixed |-> fixed, params |-> params,
                attrs |-> attrs, of |-> of, run |-> run]
  BY <1>13 DEF IsRow
<1>17. new = [state |-> "SETTLED", fixed |-> fixed, params |-> draw,
              attrs |-> {Attrs(cfg) : cfg \in derived}, of |-> of,
              run |-> {[world |-> load.world, cfg |-> cfg, plan |-> plan] : cfg \in derived}]
  BY <1>15, <1>16
<1>18. /\ new = [state |-> new.state, fixed |-> new.fixed, params |-> new.params,
                 attrs |-> new.attrs, of |-> new.of, run |-> new.run]
       /\ new.state = "SETTLED" /\ new.fixed = row.fixed /\ new.of = row.of
       /\ new.params = draw /\ new.attrs = {Attrs(cfg) : cfg \in derived}
       /\ new.run = {[world |-> load.world, cfg |-> cfg, plan |-> plan] : cfg \in derived}
  BY <1>16, <1>17
<1>19. RanFrom(new, load, plan)
  BY <1>3, <1>14, <1>18 DEF RanFrom
<1>20. IsRow(after, row)
  BY <1>5, <1>9, <1>11, <1>13, KeptRow
<1>21. IsRow(after, new)
  BY <1>18, <1>19, <1>20 DEF IsRow
<1> QED BY <1>8, <1>9, <1>10, <1>11, <1>12, <1>21 DEF IsStudy

-----------------------------------------------------------------------------
(* The inductive invariant *)

FilesOK == \A l \in DOMAIN Contents : files[l] \in Contents[l]

SweepOK ==
  /\ \A s \in sweep : s = [load |-> s.load, left |-> s.left] /\ IsLoad(s.load)
  /\ \A s \in sweep, t \in sweep : s = t

ChildOK ==
  \A load \in child :
    /\ IsLoad(load)
    /\ \E s \in sweep : ~InProcess(s.load) /\ load.world.shell = s.load.world.shell

StudiesOK == DOMAIN studies = Storages /\ \A s \in Storages : IsStudy(studies[s])

IsBundle(b) ==
  /\ b.storage \in Storages /\ b.trial \in 1 .. Len(studies[b.storage])
  /\ studies[b.storage][b.trial].state = "SETTLED"
  /\ \E cfg \in FromLayers(b.world) :
       b.cfg \in ApplyOverrides(cfg, b.world.shell.env, studies[b.storage][b.trial].params)
  /\ b.hashes \in studies[b.storage][b.trial].attrs

BundlesOK == IsList(bundles) /\ \A i \in 1 .. Len(bundles) : IsBundle(bundles[i])

IInv == FilesOK /\ SweepOK /\ ChildOK /\ StudiesOK /\ BundlesOK

LEMMA LoadsAre ==
  ASSUME FilesOK, NEW shell \in Shells, NEW load \in LoadsOf(World(shell))
  PROVE  /\ IsLoad(load) /\ load.world.shell = shell
         /\ load.cfg \in FromLayers(load.world) /\ Storage(load.cfg) \in Storages
<1>1. PICK cfg \in FromLayers(World(shell)) : load = [world |-> World(shell), cfg |-> cfg]
  BY DEF LoadsOf
<1>2. PICK w : /\ w = World(shell) /\ load = [world |-> w, cfg |-> cfg]
               /\ cfg \in FromLayers(w) /\ w = [shell |-> shell, files |-> files]
  BY <1>1 DEF World
<1>3. IsWorld(w) /\ w.shell = shell
  BY <1>2 DEF IsWorld, FilesOK
<1>4. IsLoad(load)
  BY <1>2, <1>3 DEF IsLoad
<1>5. Storage(cfg) \in Storages
  BY <1>2, <1>3, StorageIsKept
<1> QED BY <1>2, <1>3, <1>4, <1>5

LEMMA LoadsStore ==
  ASSUME NEW load, IsLoad(load)
  PROVE  Storage(load.cfg) \in Storages
  BY StorageIsKept DEF IsLoad

\* The child is given what the sweep was given.
LEMMA ChildShellIsTheShell ==
  ASSUME NEW shell \in Shells
  PROVE  ChildShell(shell) = shell
<1>1. ASSUME NEW o PROVE LoadOverrides(OverridesJson(o)) = o
  <2>1. CASE o = <<>>
    BY <2>1 DEF LoadOverrides, OverridesJson
  <2>2. CASE o # <<>>
    <3>1. OverridesJson(o) = {o}
      BY <2>2 DEF OverridesJson
    <3>2. (CHOOSE x \in {o} : TRUE) = o
      OBVIOUS
    <3> QED BY <3>1, <3>2 DEF LoadOverrides
  <2> QED BY <2>1, <2>2
<1>2. PICK problem, study, env, overrides :
        shell = [problem |-> problem, study |-> study, env |-> env, overrides |-> overrides]
  BY ShellIs
<1> QED BY <1>1, <1>2 DEF ChildShell

LEMMA BundlesKeep ==
  ASSUME NEW b, IsBundle(b), StudiesOK, StudiesOK',
         \A s \in Storages : Keeps(studies[s], studies'[s])
  PROVE  IsBundle(b)'
<1>1. PICK s, n : s \in Storages /\ n \in 1 .. Len(studies[s]) /\ s = b.storage /\ n = b.trial
  BY DEF IsBundle
<1>2. Len(studies[s]) \in Nat /\ Len(studies'[s]) \in Nat
  BY DEF StudiesOK, IsStudy, IsList
<1>3. n \in 1 .. Len(studies'[s]) /\ studies'[s][n] = studies[s][n]
  BY <1>1, <1>2 DEF IsBundle, Keeps
<1> QED BY <1>1, <1>3 DEF IsBundle

LEMMA KeepsItself ==
  ASSUME NEW rows, IsStudy(rows)
  PROVE  Keeps(rows, rows)
  BY DEF Keeps, IsStudy, IsList

LEMMA StudyChanges ==
  ASSUME IInv, NEW s \in Storages, NEW rows, IsStudy(rows), Keeps(studies[s], rows),
         studies' = [studies EXCEPT ![s] = rows], bundles' = bundles
  PROVE  StudiesOK' /\ BundlesOK'
<1>1. \A t \in Storages : studies'[t] = IF t = s THEN rows ELSE studies[t]
  BY DEF IInv, StudiesOK
<1>2. StudiesOK'
  BY <1>1 DEF IInv, StudiesOK
<1>3. \A t \in Storages : Keeps(studies[t], studies'[t])
  BY <1>1, KeepsItself DEF IInv, StudiesOK
<1>4. ASSUME NEW i \in 1 .. Len(bundles) PROVE IsBundle(bundles[i])'
  <2>1. PICK b : b = bundles[i] /\ b = bundles'[i] /\ IsBundle(b)
    BY DEF IInv, BundlesOK
  <2>2. IsBundle(b)'
    BY <1>2, <1>3, <2>1, BundlesKeep DEF IInv
  <2> QED BY <2>1, <2>2 DEF IsBundle
<1>5. BundlesOK'
  BY <1>4 DEF IInv, BundlesOK
<1> QED BY <1>2, <1>5

LEMMA NothingChanges ==
  ASSUME IInv, UNCHANGED <<studies, bundles>>
  PROVE  StudiesOK' /\ BundlesOK'
  BY DEF IInv, StudiesOK, BundlesOK, IsBundle

LEMMA OneLessIs ==
  ASSUME NEW s, s = [load |-> s.load, left |-> s.left], NEW t \in OneLess(s)
  PROVE  t = [load |-> t.load, left |-> t.left] /\ t.load = s.load
<1>1. t = [s EXCEPT !.left = @ - 1]
  BY DEF OneLess
<1> QED BY <1>1

LEMMA OneLessIsOne ==
  ASSUME NEW s, NEW t \in OneLess(s), NEW u \in OneLess(s)
  PROVE  t = u
  BY DEF OneLess

LEMMA Starts == Init => IInv
<1> SUFFICES ASSUME Init PROVE IInv
  OBVIOUS
<1>1. FilesOK /\ SweepOK /\ ChildOK
  BY DEF Init, FilesOK, SweepOK, ChildOK
<1>2. StudiesOK
  <2>1. \A s \in Storages : studies[s] = <<>>
    BY DEF Init
  <2>2. IsStudy(<<>>)
    BY NoneLong DEF IsStudy
  <2> QED BY <2>1, <2>2 DEF Init, StudiesOK
<1>3. BundlesOK
  BY NoneLong DEF Init, BundlesOK
<1> QED BY <1>1, <1>2, <1>3 DEF IInv

\* What a sweep does to itself.
LEMMA SweepGoesOn ==
  ASSUME IInv, NEW s \in sweep, sweep' \in {{}, OneLess(s), sweep}
  PROVE  /\ SweepOK'
         /\ \A t \in sweep' : t.load = s.load
<1>1. /\ s = [load |-> s.load, left |-> s.left] /\ IsLoad(s.load)
      /\ \A t \in sweep : t = s
  BY DEF IInv, SweepOK
<1>2. CASE sweep' = {}
  BY <1>2 DEF SweepOK
<1>3. CASE sweep' = OneLess(s)
  <2>1. \A t \in sweep' : t = [load |-> t.load, left |-> t.left] /\ t.load = s.load
    BY <1>1, <1>3, OneLessIs
  <2>2. \A t \in sweep', u \in sweep' : t = u
    BY <1>3, OneLessIsOne
  <2> QED BY <1>1, <2>1, <2>2 DEF SweepOK
<1>4. CASE sweep' = sweep
  BY <1>1, <1>4 DEF IInv, SweepOK
<1> QED BY <1>2, <1>3, <1>4

LEMMA EditStep ==
  ASSUME IInv, NEW layer \in DOMAIN Contents, Edit(layer)
  PROVE  IInv'
<1>1. PICK content \in Contents[layer] : files' = [files EXCEPT ![layer] = content]
  BY DEF Edit
<1>2. FilesOK'
  <2>1. \A l \in DOMAIN Contents : files'[l] = files[l] \/ (l = layer /\ files'[l] = content)
    BY <1>1
  <2> QED BY <2>1 DEF IInv, FilesOK
<1>3. SweepOK' /\ ChildOK'
  BY DEF IInv, SweepOK, ChildOK, Edit
<1>4. StudiesOK' /\ BundlesOK'
  BY NothingChanges DEF Edit
<1> QED BY <1>2, <1>3, <1>4 DEF IInv

LEMMA TuneStep ==
  ASSUME IInv, NEW shell \in Shells, Tune(shell)
  PROVE  IInv'
<1>1. StudiesOK' /\ BundlesOK'
  BY NothingChanges DEF Tune
<1>2. FilesOK'
  BY DEF IInv, FilesOK, Tune
<1>3. PICK load \in LoadsOf(World(shell)) : sweep' = {[load |-> load, left |-> NTrials]}
  BY DEF Tune
<1>4. IsLoad(load)
  BY LoadsAre DEF IInv
<1>5. SweepOK'
  <2>1. PICK s : s = [load |-> load, left |-> NTrials] /\ sweep' = {s}
    BY <1>3
  <2>2. s = [load |-> s.load, left |-> s.left] /\ s.load = load
    BY <2>1
  <2> QED BY <1>4, <2>1, <2>2 DEF SweepOK
<1>6. ChildOK'
  BY DEF IInv, ChildOK, Tune
<1> QED BY <1>1, <1>2, <1>5, <1>6 DEF IInv

\* A trial of this load leaves a study.
LEMMA TrialStep ==
  ASSUME IInv, NEW load, IsLoad(load), NEW plan,
         \A p \in plan : IsLoad(p) /\ p.world.shell = load.world.shell,
         NEW o \in Optimized(studies[Storage(load.cfg)], load, plan),
         studies' = [studies EXCEPT ![Storage(load.cfg)] = o.rows], bundles' = bundles
  PROVE  StudiesOK' /\ BundlesOK'
<1>1. PICK s \in Storages : s = Storage(load.cfg)
  BY LoadsStore
<1>2. IsStudy(studies[s])
  BY DEF IInv, StudiesOK
<1>3. IsStudy(o.rows) /\ Keeps(studies[s], o.rows)
  BY <1>1, <1>2, OptimizedIsAStudy
<1> QED BY <1>1, <1>3, StudyChanges

LEMMA TrialInProcessStep ==
  ASSUME IInv, TrialInProcess
  PROVE  IInv'
<1>1. PICK s \in sweep :
        /\ InProcess(s.load)
        /\ \E o \in Optimized(studies[Storage(s.load.cfg)], s.load, {s.load}) :
             /\ studies' = [studies EXCEPT ![Storage(s.load.cfg)] = o.rows]
             /\ sweep' = IF o.raised THEN {} ELSE OneLess(s)
        /\ UNCHANGED <<files, child, bundles, edits>>
  BY DEF TrialInProcess
<1>2. IsLoad(s.load) /\ \A t \in sweep : t = s
  BY DEF IInv, SweepOK
<1>3. StudiesOK' /\ BundlesOK'
  <2>1. PICK load, plan : load = s.load /\ plan = {load} /\ IsLoad(load)
    BY <1>2
  <2>2. \A p \in plan : IsLoad(p) /\ p.world.shell = load.world.shell
    BY <2>1
  <2>3. PICK o \in Optimized(studies[Storage(load.cfg)], load, plan) :
          studies' = [studies EXCEPT ![Storage(load.cfg)] = o.rows]
    BY <1>1, <2>1
  <2>4. bundles' = bundles
    BY <1>1
  <2> QED BY <2>1, <2>2, <2>3, <2>4, TrialStep
<1>4. SweepOK'
  BY <1>1, SweepGoesOn
<1>5. child' = {} /\ ChildOK'
  BY <1>1, <1>2 DEF IInv, ChildOK
<1>6. FilesOK'
  BY <1>1 DEF IInv, FilesOK
<1> QED BY <1>3, <1>4, <1>5, <1>6 DEF IInv

LEMMA DispatchStep ==
  ASSUME IInv, Dispatch
  PROVE  IInv'
<1>1. PICK s \in sweep :
        /\ ~InProcess(s.load) /\ child = {}
        /\ child' = LoadsOf(World(ChildShell(s.load.world.shell)))
        /\ sweep' = IF child' = {} THEN OneLess(s) ELSE sweep
        /\ UNCHANGED <<files, studies, bundles, edits>>
  BY DEF Dispatch
<1>2. PICK shell \in Shells : shell = s.load.world.shell /\ ChildShell(shell) = shell
  BY ChildShellIsTheShell DEF IInv, SweepOK, IsLoad, IsWorld
<1>3. StudiesOK' /\ BundlesOK'
  BY <1>1, NothingChanges
<1>4. SweepOK'
  BY <1>1, SweepGoesOn
<1>5. ChildOK'
  <2>1. \A load \in child' : IsLoad(load) /\ load.world.shell = s.load.world.shell
    BY <1>1, <1>2, LoadsAre DEF IInv
  <2>2. child' # {} => s \in sweep'
    BY <1>1
  <2> QED BY <1>1, <2>1, <2>2 DEF ChildOK
<1>6. FilesOK'
  BY <1>1 DEF IInv, FilesOK
<1> QED BY <1>3, <1>4, <1>5, <1>6 DEF IInv

LEMMA ChildTrialStep ==
  ASSUME IInv, ChildTrial
  PROVE  IInv'
<1>1. PICK s \in sweep, load \in child :
        /\ IF HasData(load.cfg)
           THEN \E o \in Optimized(studies[Storage(load.cfg)], load, {s.load}) :
                  studies' = [studies EXCEPT ![Storage(load.cfg)] = o.rows]
           ELSE UNCHANGED studies
        /\ child' = {}
        /\ sweep' = OneLess(s)
        /\ UNCHANGED <<files, bundles, edits>>
  BY DEF ChildTrial
<1>2. IsLoad(s.load) /\ \A t \in sweep : t = s
  BY DEF IInv, SweepOK
<1>3. IsLoad(load) /\ load.world.shell = s.load.world.shell
  BY <1>2 DEF IInv, ChildOK
<1>4. StudiesOK' /\ BundlesOK'
  <2>1. CASE HasData(load.cfg)
    <3>1. PICK plan : plan = {s.load}
      OBVIOUS
    <3>2. \A p \in plan : IsLoad(p) /\ p.world.shell = load.world.shell
      BY <1>2, <1>3, <3>1
    <3>3. PICK o \in Optimized(studies[Storage(load.cfg)], load, plan) :
            studies' = [studies EXCEPT ![Storage(load.cfg)] = o.rows]
      BY <1>1, <2>1, <3>1
    <3>4. bundles' = bundles
      BY <1>1
    <3> QED BY <1>3, <3>2, <3>3, <3>4, TrialStep
  <2>2. CASE ~HasData(load.cfg)
    BY <1>1, <2>2, NothingChanges
  <2> QED BY <2>1, <2>2
<1>5. SweepOK'
  BY <1>1, SweepGoesOn
<1>6. FilesOK' /\ ChildOK'
  BY <1>1 DEF IInv, FilesOK, ChildOK
<1> QED BY <1>4, <1>5, <1>6 DEF IInv

LEMMA KeepsOn ==
  ASSUME NEW a, NEW b, NEW c, IsStudy(a), IsStudy(b), IsStudy(c), Keeps(a, b), Keeps(b, c)
  PROVE  Keeps(a, c)
<1>1. Len(a) \in Nat /\ Len(b) \in Nat /\ Len(c) \in Nat
  BY DEF IsStudy, IsList
<1>2. \A n \in 1 .. Len(a) : n \in 1 .. Len(b)
  BY <1>1 DEF Keeps
<1> QED BY <1>1, <1>2 DEF Keeps

LEMMA RetryTrialStep ==
  ASSUME IInv, NEW shell \in Shells, RetryTrial(shell)
  PROVE  IInv'
<1>1. PICK load \in LoadsOf(World(shell)) :
        \E n \in DOMAIN studies[Storage(load.cfg)] :
          \E of, queued :
            /\ of = IF studies[Storage(load.cfg)][n].state = "WAITING" THEN 0 ELSE n
            /\ queued = Append(studies[Storage(load.cfg)],
                               Waiting(studies[Storage(load.cfg)][n].params, of))
            /\ IF HasData(load.cfg)
               THEN \E o \in Optimized(queued, load, {}) :
                      studies' = [studies EXCEPT ![Storage(load.cfg)] = o.rows]
               ELSE studies' = [studies EXCEPT ![Storage(load.cfg)] = queued]
  BY DEF RetryTrial
<1>2. PICK s, rows : s = Storage(load.cfg) /\ rows = studies[s]
  OBVIOUS
<1>3. PICK n, of, queued :
        /\ n \in DOMAIN rows
        /\ of = IF rows[n].state = "WAITING" THEN 0 ELSE n
        /\ queued = Append(rows, Waiting(rows[n].params, of))
        /\ IF HasData(load.cfg)
           THEN \E o \in Optimized(queued, load, {}) : studies' = [studies EXCEPT ![s] = o.rows]
           ELSE studies' = [studies EXCEPT ![s] = queued]
  BY <1>1, <1>2
<1>4. IsLoad(load) /\ s \in Storages
  BY <1>2, LoadsAre DEF IInv
<1>5. IsStudy(rows) /\ n \in 1 .. Len(rows)
  BY <1>2, <1>3, <1>4 DEF IInv, StudiesOK, IsStudy, IsList
<1>6. IsStudy(queued) /\ Keeps(rows, queued)
  BY <1>3, <1>5, QueuedIsAStudy
<1>7. bundles' = bundles /\ FilesOK' /\ SweepOK' /\ ChildOK'
  BY DEF RetryTrial, IInv, FilesOK, SweepOK, ChildOK
<1>8. CASE HasData(load.cfg)
  <2>1. PICK o \in Optimized(queued, load, {}) : studies' = [studies EXCEPT ![s] = o.rows]
    BY <1>3, <1>8
  <2>2. IsStudy(o.rows) /\ Keeps(queued, o.rows)
    <3>1. PICK plan : plan = {} /\ o \in Optimized(queued, load, plan)
                      /\ \A p \in plan : IsLoad(p) /\ p.world.shell = load.world.shell
      OBVIOUS
    <3> QED BY <1>4, <1>6, <3>1, OptimizedIsAStudy
  <2>3. Keeps(rows, o.rows)
    BY <1>5, <1>6, <2>2, KeepsOn
  <2>4. StudiesOK' /\ BundlesOK'
    BY <1>2, <1>4, <1>7, <2>1, <2>2, <2>3, StudyChanges
  <2> QED BY <1>7, <2>4 DEF IInv
<1>9. CASE ~HasData(load.cfg)
  <2>1. StudiesOK' /\ BundlesOK'
    BY <1>2, <1>3, <1>4, <1>6, <1>7, <1>9, StudyChanges
  <2> QED BY <1>7, <2>1 DEF IInv
<1> QED BY <1>8, <1>9

LEMMA PromoteStep ==
  ASSUME IInv, NEW shell \in Shells, Promote(shell)
  PROVE  IInv'
<1>1. PICK load \in LoadsOf(World(shell)) :
        \E n \in DOMAIN studies[Storage(load.cfg)] : \E run \in LoadRun(Storage(load.cfg), n) :
          \E cfg \in ApplyTrialParams(load.cfg, shell.env, run.params) :
            bundles' = Append(bundles,
              [world |-> load.world, cfg |-> cfg, hashes |-> run.attrs,
               storage |-> Storage(load.cfg), trial |-> n])
  BY DEF Promote
<1>2. PICK s : s = Storage(load.cfg)
  OBVIOUS
<1>3. PICK n \in DOMAIN studies[s] : \E run \in LoadRun(s, n) :
        \E cfg \in ApplyTrialParams(load.cfg, shell.env, run.params) :
          bundles' = Append(bundles,
            [world |-> load.world, cfg |-> cfg, hashes |-> run.attrs,
             storage |-> s, trial |-> n])
  BY <1>1, <1>2
<1>4. PICK run, cfg :
        /\ run \in LoadRun(s, n)
        /\ cfg \in ApplyTrialParams(load.cfg, shell.env, run.params)
        /\ bundles' = Append(bundles,
             [world |-> load.world, cfg |-> cfg, hashes |-> run.attrs, storage |-> s, trial |-> n])
  BY <1>3
<1>5. /\ IsLoad(load) /\ load.world.shell = shell /\ s \in Storages
      /\ load.cfg \in FromLayers(load.world)
  BY <1>2, LoadsAre DEF IInv
<1>6. PICK row : /\ row = studies[s][n] /\ run.params = row.params /\ run.attrs \in row.attrs
  BY <1>4 DEF LoadRun
<1>7. n \in 1 .. Len(studies[s]) /\ row.state = "SETTLED"
  <2>1. n \in 1 .. Len(studies[s]) /\ IsRow(studies[s], row)
    BY <1>5, <1>6 DEF IInv, StudiesOK, IsStudy, IsList
  <2> QED BY <1>6, <2>1 DEF IsRow
<1>8. PICK b : /\ b = [world |-> load.world, cfg |-> cfg, hashes |-> run.attrs,
                       storage |-> s, trial |-> n]
               /\ bundles' = Append(bundles, b)
  BY <1>4
<1>9. /\ b.world = load.world /\ b.cfg = cfg /\ b.hashes = run.attrs
      /\ b.storage = s /\ b.trial = n
  BY <1>8
<1>10. cfg \in ApplyOverrides(load.cfg, b.world.shell.env, row.params)
  BY <1>4, <1>5, <1>6, <1>9, OneWayToDerive
<1>11. IsBundle(b)
  BY <1>5, <1>6, <1>7, <1>9, <1>10 DEF IsBundle
<1>12. studies' = studies /\ FilesOK' /\ SweepOK' /\ ChildOK' /\ StudiesOK'
  BY DEF Promote, IInv, FilesOK, SweepOK, ChildOK, StudiesOK
<1>13. ASSUME NEW c PROVE IsBundle(c) => IsBundle(c)'
  BY <1>12 DEF IsBundle
<1>14. BundlesOK'
  <2>1. /\ IsList(bundles') /\ Len(bundles') = Len(bundles) + 1
        /\ \A i \in 1 .. Len(bundles) : bundles'[i] = bundles[i]
        /\ bundles'[Len(bundles) + 1] = b
    BY <1>8, Appended DEF IInv, BundlesOK
  <2>2. \A i \in 1 .. Len(bundles) + 1 : i \in 1 .. Len(bundles) \/ i = Len(bundles) + 1
    BY DEF IInv, BundlesOK, IsList
  <2>3. ASSUME NEW i \in 1 .. Len(bundles') PROVE IsBundle(bundles'[i])
    BY <1>11, <2>1, <2>2 DEF IInv, BundlesOK
  <2>4. ASSUME NEW i \in 1 .. Len(bundles') PROVE IsBundle(bundles[i])'
    <3>1. PICK c : c = bundles'[i] /\ IsBundle(c)
      BY <2>3
    <3>2. IsBundle(c)'
      BY <1>13, <3>1
    <3> QED BY <3>1, <3>2 DEF IsBundle
  <2> QED BY <2>1, <2>4 DEF BundlesOK
<1> QED BY <1>12, <1>14 DEF IInv

\* In every reachable state what runs is a load, what a row says of itself is
\* what its trial made of one, and a bundle is made of a settled trial.
THEOREM ConfigurationInvariant == Spec => []IInv
<1>1. ASSUME IInv, [Next]_vars PROVE IInv'
  <2>1. CASE UNCHANGED vars
    <3>1. StudiesOK' /\ BundlesOK'
      BY <1>1, <2>1, NothingChanges DEF vars
    <3>2. FilesOK' /\ SweepOK' /\ ChildOK'
      BY <1>1, <2>1 DEF vars, IInv, FilesOK, SweepOK, ChildOK
    <3> QED BY <3>1, <3>2 DEF IInv
  <2>2. CASE \E layer \in DOMAIN Contents : Edit(layer)
    BY <1>1, <2>2, EditStep
  <2>3. CASE \E shell \in Shells : Tune(shell)
    BY <1>1, <2>3, TuneStep
  <2>4. CASE \E shell \in Shells : RetryTrial(shell)
    BY <1>1, <2>4, RetryTrialStep
  <2>5. CASE \E shell \in Shells : Promote(shell)
    BY <1>1, <2>5, PromoteStep
  <2>6. CASE TrialInProcess
    BY <1>1, <2>6, TrialInProcessStep
  <2>7. CASE Dispatch
    BY <1>1, <2>7, DispatchStep
  <2>8. CASE ChildTrial
    BY <1>1, <2>8, ChildTrialStep
  <2> QED BY <1>1, <2>1, <2>2, <2>3, <2>4, <2>5, <2>6, <2>7, <2>8 DEF Next
<1> QED BY Starts, <1>1, PTL DEF Spec

\* Every field of a configuration in use has the value of the highest layer
\* that says anything of it: config/root.py:5-12.
THEOREM LayersHavePrecedence == Spec => []LayersKeepPrecedence
<1>1. ASSUME IInv PROVE LayersKeepPrecedence
  <2> SUFFICES ASSUME NEW load \in child \cup {s.load : s \in sweep}, NEW p \in DOMAIN load.cfg
               PROVE  /\ Meet(load.world, p) = {} => load.cfg[p] = Defaults(load.cfg)[p]
                      /\ \A i \in Meet(load.world, p) :
                           (\A j \in Meet(load.world, p) : j <= i) =>
                             load.cfg[p] = IF p \in DOMAIN Stack(load.world)[i]
                                           THEN Stack(load.world)[i][p]
                                           ELSE Defaults(load.cfg)[p]
    BY DEF LayersKeepPrecedence
  <2>1. IsWorld(load.world) /\ load.cfg \in FromLayers(load.world)
    BY <1>1 DEF IInv, SweepOK, ChildOK, IsLoad
  <2> QED BY <2>1, LoadKeepsPrecedence
<1> QED BY <1>1, ConfigurationInvariant, PTL

\* Two trials of one load and the same parameters.
LEMMA SameRun ==
  ASSUME NEW row, NEW load, NEW plan, RanFrom(row, load, plan), NEW run \in row.run
  PROVE  /\ load.world = run.world
         /\ run.cfg \in ApplyOverrides(load.cfg, load.world.shell.env, row.params)
         /\ run.plan = plan
         /\ row.attrs = {Attrs(run.cfg)}
<1>1. PICK cfg \in ApplyOverrides(load.cfg, load.world.shell.env, row.params) :
        run = [world |-> load.world, cfg |-> cfg, plan |-> plan]
  BY DEF RanFrom
<1>2. run.world = load.world /\ run.cfg = cfg /\ run.plan = plan
  BY <1>1
<1>3. \A c \in ApplyOverrides(load.cfg, load.world.shell.env, row.params) : c = cfg
  BY OneDerived
<1> QED BY <1>2, <1>3 DEF RanFrom

\* A retry or a promotion made in the shell of the trial, with the files the
\* trial read, has the trial's configuration: registry/promote.py:81-89, 175-193.
THEOREM SameWorldsAgree == Spec => []SameWorldSameConfig
<1>1. ASSUME IInv, NEW s \in Storages, NEW n \in DOMAIN studies[s], studies[s][n].of # 0,
             NEW run \in studies[s][n].run, NEW first \in studies[s][studies[s][n].of].run,
             run.world = first.world
      PROVE  studies[s][n].attrs = studies[s][studies[s][n].of].attrs
  <2>1. PICK rows, row, prior :
          rows = studies[s] /\ row = rows[n] /\ prior = rows[row.of]
    OBVIOUS
  <2>2. IsStudy(rows) /\ n \in 1 .. Len(rows) /\ Len(rows) \in Nat
    BY <1>1, <2>1 DEF IInv, StudiesOK, IsStudy, IsList
  <2>3. /\ IsRow(rows, row) /\ row.of \in 1 .. Len(rows)
        /\ prior.state = "SETTLED" /\ row.fixed = prior.params
    BY <1>1, <2>1, <2>2 DEF IsStudy, IsRow
  <2>4. IsRow(rows, prior)
    BY <2>1, <2>2, <2>3 DEF IsStudy
  <2>5. PICK load, plan : RanFrom(row, load, plan)
    BY <1>1, <2>1, <2>3 DEF IsRow
  <2>6. PICK before, plan0 : RanFrom(prior, before, plan0)
    BY <2>3, <2>4 DEF IsRow
  <2>7. run \in row.run /\ first \in prior.run
    BY <1>1, <2>1
  <2>8. /\ load.world = run.world /\ row.attrs = {Attrs(run.cfg)}
        /\ run.cfg \in ApplyOverrides(load.cfg, load.world.shell.env, row.params)
    BY <2>5, <2>7, SameRun
  <2>9. /\ before.world = first.world /\ prior.attrs = {Attrs(first.cfg)}
        /\ first.cfg \in ApplyOverrides(before.cfg, before.world.shell.env, prior.params)
    BY <2>6, <2>7, SameRun
  <2>10. load.world = before.world /\ load.cfg = before.cfg
    <3>1. load.world = before.world
      BY <1>1, <2>8, <2>9
    <3>2. load.cfg \in FromLayers(load.world) /\ before.cfg \in FromLayers(load.world)
      BY <2>5, <2>6, <3>1 DEF RanFrom, IsLoad
    <3> QED BY <3>1, <3>2, OneLoad
  <2>11. row.params = prior.params
    <3>1. /\ prior.params \in Draws(load.cfg, prior.fixed)
          /\ row.params \in Draws(load.cfg, prior.params)
      BY <2>3, <2>5, <2>6, <2>10 DEF RanFrom
    <3> QED BY <3>1, DrawnAgain
  <2>12. run.cfg = first.cfg
    BY <2>8, <2>9, <2>10, <2>11, OneDerived
  <2> QED BY <2>1, <2>8, <2>9, <2>12
<1>2. ASSUME IInv, NEW i \in DOMAIN bundles,
             NEW run \in studies[bundles[i].storage][bundles[i].trial].run,
             run.world = bundles[i].world
      PROVE  bundles[i].hashes = Attrs(bundles[i].cfg)
  <2>1. PICK b : b = bundles[i] /\ IsBundle(b)
    BY <1>2 DEF IInv, BundlesOK, IsList
  <2>2. PICK rows, row : rows = studies[b.storage] /\ row = rows[b.trial]
    OBVIOUS
  <2>3. IsRow(rows, row) /\ row.state = "SETTLED" /\ b.hashes \in row.attrs
    BY <1>2, <2>1, <2>2 DEF IInv, StudiesOK, IsStudy, IsBundle
  <2>4. PICK load, plan : RanFrom(row, load, plan)
    BY <2>3 DEF IsRow
  <2>5. PICK cfg \in FromLayers(b.world) :
          b.cfg \in ApplyOverrides(cfg, b.world.shell.env, row.params)
    BY <2>1, <2>2 DEF IsBundle
  <2>6. /\ load.world = run.world /\ row.attrs = {Attrs(run.cfg)}
        /\ run.cfg \in ApplyOverrides(load.cfg, load.world.shell.env, row.params)
    BY <1>2, <2>1, <2>2, <2>4, SameRun
  <2>7. load.world = b.world /\ load.cfg \in FromLayers(load.world)
    BY <1>2, <2>1, <2>4, <2>6 DEF RanFrom, IsLoad
  <2>8. load.cfg = cfg
    BY <2>5, <2>7, OneLoad
  <2>9. run.cfg = b.cfg
    BY <2>5, <2>6, <2>7, <2>8, OneDerived
  <2> QED BY <2>1, <2>3, <2>6, <2>9
<1>3. IInv => SameWorldSameConfig
  BY <1>1, <1>2 DEF SameWorldSameConfig
<1> QED BY <1>3, ConfigurationInvariant, PTL

-----------------------------------------------------------------------------
(* A trial's configuration *)

LEMMA SplitIsOneToOne ==
  ASSUME NEW a \in DOMAIN Split, NEW b \in DOMAIN Split, Split[a] = Split[b]
  PROVE  a = b
<1>1. PICK keys : keys = DOMAIN Split
  OBVIOUS
<1>2. DOMAIN Split = {"training.kind", "training.learning_rate", "cv.kind",
                      "training.model_kwargs", "training.model_kwargs.gamma"}
  BY DEF Split
<1>3. /\ Split["training.kind"] = <<"training", "kind">>
      /\ Split["training.learning_rate"] = <<"training", "learning_rate">>
      /\ Split["cv.kind"] = <<"cv", "kind">>
      /\ Split["training.model_kwargs"] = <<"training", "model_kwargs">>
      /\ Split["training.model_kwargs.gamma"] = <<"training", "model_kwargs", "gamma">>
  BY DEF Split
<1>4. ASSUME NEW x, NEW y, NEW z, NEW u, NEW v
      PROVE  /\ <<x, y>> # <<x, u, v>>
             /\ <<x, y>> = <<z, u>> => x = z /\ y = u
  BY DEF IsList
<1> QED BY <1>2, <1>3, <1>4

LEMMA SearchIsFinite ==
  ASSUME NEW cfg
  PROVE  IsFiniteSet(SearchSpace(cfg))
<1>1. PICK a, b, c, d, e : DOMAIN Split = {a, b, c, d, e}
  BY DEF Split
<1>2. {a, b, c, d, e} = {} \cup {a} \cup {b} \cup {c} \cup {d} \cup {e}
  OBVIOUS
<1>3. IsFiniteSet({} \cup {a} \cup {b} \cup {c} \cup {d} \cup {e})
  BY FS_EmptySet, FS_AddElement
<1>4. SearchSpace(cfg) \in SUBSET DOMAIN Split
  BY DEF SearchSpace
<1> QED BY <1>1, <1>2, <1>3, <1>4, FS_Subset

\* A dict's items, whatever their order: each of its entries, and nothing else.
LEMMA ItemsAre ==
  ASSUME NEW params, IsFiniteSet(DOMAIN params), DOMAIN params \in SUBSET DOMAIN Split
  PROVE  \E flat :
         /\ flat = Items(params) /\ IsFlat(flat)
         /\ \A i \in 1 .. Len(flat) :
              flat[i][1] \in DOMAIN params /\ flat[i][2] = params[flat[i][1]]
         /\ \A name \in DOMAIN params : \E i \in 1 .. Len(flat) : flat[i][1] = name
<1>1. PICK flat : flat = Items(params)
  OBVIOUS
<1>2. PICK S : S = {<<name, params[name]>> : name \in DOMAIN params}
  OBVIOUS
<1>3. \A x \in S : x[1] \in DOMAIN params /\ x[2] = params[x[1]]
  BY <1>2
<1>4. IsFiniteSet(S)
  <2>1. PICK f : f = [name \in DOMAIN params |-> <<name, params[name]>>]
    OBVIOUS
  <2>2. f \in Surjection(DOMAIN params, S)
    BY <1>2, <2>1 DEF Surjection
  <2> QED BY <2>2, FS_Surjection
<1>5. PICK n \in Nat : n = Cardinality(S) /\ ExistsBijection(1 .. n, S)
  BY <1>4, FS_CardinalityType
<1>6. PICK g : g \in [1 .. n -> S] /\ IsInjective(g)
  BY <1>5 DEF ExistsBijection, Bijection, Injection
<1>7. flat \in [1 .. n -> S] /\ IsInjective(flat)
  BY <1>1, <1>2, <1>5, <1>6 DEF Items, SetToSeq
<1>8. \A x \in S : \E i \in 1 .. n : flat[i] = x
  <2>1. flat \in Injection(1 .. n, S)
    BY <1>7 DEF Injection
  <2>2. Cardinality(1 .. n) = n
    BY FS_Interval
  <2>3. flat \in Surjection(1 .. n, S)
    BY <1>4, <1>5, <2>1, <2>2, FS_Injection
  <2> QED BY <2>3 DEF Surjection
<1>9. IsList(flat) /\ Len(flat) = n /\ DOMAIN flat = 1 .. n
  BY <1>7 DEF IsList
<1>10. \A i \in 1 .. n : flat[i] \in S
  BY <1>7
<1>11. IsFlat(flat)
  BY <1>3, <1>9, <1>10 DEF IsFlat
<1>12. ASSUME NEW name \in DOMAIN params
       PROVE  \E i \in 1 .. n : flat[i][1] = name
  <2>1. PICK value : value = params[name]
    OBVIOUS
  <2>2. <<name, value>> \in S
    BY <1>2, <2>1
  <2>3. PICK i \in 1 .. n : flat[i] = <<name, value>>
    BY <1>8, <2>2
  <2>4. <<name, value>>[1] = name
    OBVIOUS
  <2>5. flat[i][1] = name
    BY ONLY <2>3, <2>4
  <2> QED BY <2>5
<1>13. \A i \in 1 .. Len(flat) :
         flat[i][1] \in DOMAIN params /\ flat[i][2] = params[flat[i][1]]
  BY <1>3, <1>9, <1>10
<1>14. \A name \in DOMAIN params : \E i \in 1 .. Len(flat) : flat[i][1] = name
  BY <1>9, <1>12
<1> QED BY ONLY <1>1, <1>11, <1>13, <1>14

\* Each draw that is accepted has its field, and keeps its value.
LEMMA DrawsAreSet ==
  ASSUME NEW params, IsFiniteSet(DOMAIN params), DOMAIN params \in SUBSET DOMAIN Split,
         NEW nested \in Unflatten(Items(params)), \A p \in DOMAIN nested : IsSlot(p)
  PROVE  /\ \A p : p \in DOMAIN nested <=> \E name \in DOMAIN params : p = Split[name]
         /\ \A name \in DOMAIN params : nested[Split[name]] = params[name]
<1>1. PICK flat :
        /\ flat = Items(params) /\ IsFlat(flat)
        /\ \A i \in 1 .. Len(flat) :
             flat[i][1] \in DOMAIN params /\ flat[i][2] = params[flat[i][1]]
        /\ \A name \in DOMAIN params : \E i \in 1 .. Len(flat) : flat[i][1] = name
  BY ItemsAre
<1>2. /\ \A i \in 1 .. Len(flat) : \E e \in DOMAIN nested : IsPrefix(e, Key(flat, i))
      /\ \A p \in DOMAIN nested : \E i \in 1 .. Len(flat) :
           p = Key(flat, i) /\ nested[p] = flat[i][2]
  BY <1>1, Unflattened
<1>3. ASSUME NEW p \in DOMAIN nested
      PROVE  \E name \in DOMAIN params : p = Split[name] /\ nested[p] = params[name]
  <2>1. PICK i \in 1 .. Len(flat) : p = Key(flat, i) /\ nested[p] = flat[i][2]
    BY <1>2
  <2> QED BY <1>1, <2>1 DEF Key
<1>4. ASSUME NEW name \in DOMAIN params
      PROVE  Split[name] \in DOMAIN nested
  <2>1. PICK i \in 1 .. Len(flat) : flat[i][1] = name
    BY <1>1
  <2>2. PICK key : key = Split[name] /\ key = Key(flat, i) /\ IsPath(key)
    BY <2>1, SplitIsAPath DEF Key
  <2>3. PICK e \in DOMAIN nested : IsPrefix(e, key)
    BY <1>2, <2>2
  <2>4. IsSlot(e) /\ IsList(e) /\ IsList(key)
    BY <2>2 DEF IsSlot, IsPath
  <2>5. Len(key) = 2 \/ IsSlot(key)
    <3>1. ASSUME NEW a, NEW b PROVE Len(<<a, b>>) = 2
      OBVIOUS
    <3>2. CASE key = <<"training", "model_kwargs", "gamma">>
      <4>1. PICK a, b, d : a = "training" /\ b = "model_kwargs" /\ d = "gamma"
        OBVIOUS
      <4>2. Len(<<a, b, d>>) = 3 /\ <<a, b, d>>[1] = a /\ <<a, b, d>>[2] = b
        OBVIOUS
      <4> QED BY <2>4, <3>2, <4>1, <4>2 DEF IsSlot
    <3> QED BY <2>2, <3>1, <3>2, SplitIsAPath
  <2>6. Related(e, key)
    BY <2>3 DEF Related
  <2>7. e = key
    <3>1. CASE IsSlot(key)
      BY <2>4, <2>6, <3>1, SlotsAreApart
    <3>2. CASE Len(key) = 2
      <4>1. Len(e) <= 2
        BY <2>3, <2>4, <3>2, PrefixIs
      <4>2. Len(e) = 2
        BY <2>4, <4>1 DEF IsSlot
      <4> QED BY <2>4, <2>6, <3>2, <4>2, SameLengthMeet
    <3> QED BY <2>5, <3>1, <3>2
  <2> QED BY <2>2, <2>7
<1>5. ASSUME NEW name \in DOMAIN params
      PROVE  nested[Split[name]] = params[name]
  <2>1. PICK other \in DOMAIN params :
          Split[name] = Split[other] /\ nested[Split[name]] = params[other]
    BY <1>3, <1>4
  <2>2. name = other
    BY <2>1, SplitIsOneToOne
  <2> QED BY <2>1, <2>2
<1> QED BY <1>3, <1>4, <1>5

\* What a trial runs is what was loaded with the draws in it: the environment,
\* which is read again, adds nothing, and no draw changes the kind.
LEMMA DerivedIs ==
  ASSUME NEW w, IsWorld(w), NEW cfg \in FromLayers(w), NEW fixed,
         NEW params \in Draws(cfg, fixed),
         NEW c \in ApplyOverrides(cfg, w.shell.env, params)
  PROVE  /\ \A p : p \in DOMAIN c <=>
                  p \in DOMAIN cfg \/ \E name \in DOMAIN params : p = Split[name]
         /\ \A name \in DOMAIN params : c[Split[name]] = params[name]
         /\ \A p \in DOMAIN cfg : (\A name \in DOMAIN params : p # Split[name]) => c[p] = cfg[p]
<1>1. PICK init0, tree0 :
        /\ init0 \in Unflatten(w.shell.overrides)
        /\ tree0 = MergeAll(Reverse(Sources(init0, w.shell.env, Layers(w))))
        /\ IsDict(tree0) /\ cfg \in Validated(tree0)
  BY LoadIs
<1>2. PICK nested \in Unflatten(Items(params)) :
        c \in Settings(DeepMerge(cfg, nested), w.shell.env, <<>>)
  BY DEF ApplyOverrides
<1>3. PICK init, env, tree :
        /\ init = DeepMerge(cfg, nested) /\ env = w.shell.env
        /\ tree = MergeAll(Reverse(Sources(init, env, <<>>))) /\ c \in Validated(tree)
  BY <1>2 DEF Settings
<1>4. DOMAIN params = SearchSpace(cfg) /\ DOMAIN params \in SUBSET DOMAIN Split
  BY DEF Draws, SearchSpace
<1>5. IsFiniteSet(DOMAIN params)
  BY <1>4, SearchIsFinite
<1>6. /\ \A p \in DOMAIN init : p \in DOMAIN tree /\ tree[p] = init[p]
      /\ \A p \in DOMAIN tree \ DOMAIN init : p \in DOMAIN env
  <2>1. DOMAIN TomlStack(<<>>) = {}
    BY NoneLong, NothingMerged DEF TomlStack
  <2> QED BY <1>3, <2>1, SourcesDecide
<1>7. \A p \in DOMAIN cfg : IsPath(p) /\ IsSlot(p)
  BY <1>1, Accepted
<1>8. /\ \A p : p \in DOMAIN init <=>
               \/ p \in DOMAIN nested
               \/ p \in DOMAIN cfg /\ \A q \in DOMAIN nested : ~Related(p, q)
      /\ \A p \in DOMAIN nested : init[p] = nested[p]
      /\ \A p \in DOMAIN init \ DOMAIN nested : init[p] = cfg[p]
  BY <1>3, Merged
<1>9. \A p \in DOMAIN nested : IsPath(p)
  <2>1. PICK flat : /\ flat = Items(params) /\ IsFlat(flat)
    BY <1>4, <1>5, ItemsAre
  <2>2. \A p \in DOMAIN nested : \E i \in 1 .. Len(flat) : p = Key(flat, i)
    BY <2>1, Unflattened
  <2>3. \A i \in 1 .. Len(flat) : IsPath(Key(flat, i))
    BY <2>1, SplitIsAPath, LeavesOf DEF IsFlat, Key
  <2> QED BY <2>2, <2>3
<1>10. IsDict(tree)
  <2>1. \A p \in DOMAIN env : IsPath(p)
    BY <1>3, ShellIs DEF IsWorld, IsLayer, IsDict, IsPath
  <2>2. \A p \in DOMAIN tree : IsPath(p)
    BY <1>6, <1>7, <1>8, <1>9, <2>1
  <2> QED BY <2>2 DEF IsDict, IsPath
<1>11. /\ TrainingKind(tree) \in Kinds
       /\ \A p \in DOMAIN tree : Declared(tree, p)
       /\ \A p : p \in DOMAIN c <=> p \in DOMAIN tree \/ p \in DOMAIN Defaults(tree)
       /\ \A p \in DOMAIN tree : c[p] = tree[p]
       /\ \A p \in DOMAIN c : IsPath(p) /\ IsSlot(p)
  BY <1>3, <1>10, Accepted
<1>12. \A p \in DOMAIN nested : IsSlot(p)
  BY <1>6, <1>8, <1>11
<1>13. /\ \A p : p \in DOMAIN nested <=> \E name \in DOMAIN params : p = Split[name]
       /\ \A name \in DOMAIN params : nested[Split[name]] = params[name]
  BY <1>4, <1>5, <1>12, DrawsAreSet
<1>14. \A p : p \in DOMAIN init <=> p \in DOMAIN nested \/ p \in DOMAIN cfg
  <2>1. \A p \in DOMAIN cfg, q \in DOMAIN nested : Related(p, q) => p = q
    BY <1>7, <1>12, SlotsAreApart
  <2> QED BY <1>8, <2>1
<1>15. ASSUME NEW p \in DOMAIN tree PROVE p \in DOMAIN init
  <2> SUFFICES ASSUME p \notin DOMAIN init PROVE FALSE
    OBVIOUS
  <2>1. p \in DOMAIN env /\ p \notin DOMAIN cfg
    BY <1>6, <1>14
  <2>2. p \notin DOMAIN tree0
    BY <1>1, <2>1, Accepted
  <2>3. Says(init0, p) /\ \A q \in DOMAIN init0 : q \in DOMAIN tree0
    BY <1>1, <1>3, <2>1, <2>2, SourcesDecide
  <2>4. PICK q \in DOMAIN cfg : Related(p, q)
    <3>1. \A q \in DOMAIN tree0 : q \in DOMAIN cfg
      BY <1>1, Accepted
    <3> QED BY <2>2, <2>3, <3>1 DEF Says
  <2>5. IsSlot(p) /\ IsSlot(q)
    BY <1>7, <1>11, <2>4
  <2> QED BY <2>1, <2>4, <2>5, SlotsAreApart
<1>16. /\ TrainingKind(cfg) \in Kinds
       /\ \A p \in DOMAIN Defaults(cfg) : p \in DOMAIN cfg
  <2>1. /\ TrainingKind(tree0) \in Kinds /\ TrainingKind(cfg) = TrainingKind(tree0)
        /\ Defaults(cfg) = Defaults(tree0)
        /\ \A p \in DOMAIN Defaults(tree0) : p \in DOMAIN cfg
    BY <1>1, Accepted
  <2> QED BY <2>1
<1>17. TrainingKind(tree) = TrainingKind(cfg)
  <2>1. \A p \in DOMAIN cfg : p \in DOMAIN tree /\ Declared(tree, p)
    BY <1>6, <1>11, <1>14
  <2>2. ASSUME NEW b, b # "model_kwargs", <<"training", b>> \in DOMAIN Defaults(cfg)
        PROVE  <<"training", b>> \in DOMAIN Defaults(tree)
    <3>1. PICK a, p : a = "training" /\ p = <<a, b>>
      OBVIOUS
    <3>2. Len(p) = 2 /\ p[1] = a
      BY <3>1
    <3>3. Declared(tree, p)
      BY <1>16, <2>1, <2>2, <3>1
    <3> QED BY <3>1, <3>2, <3>3 DEF Declared
  <2>3. CASE TrainingKind(cfg) = "xgboost"
    BY <1>11, <1>16, <2>2, <2>3, DefaultsAre
  <2>4. CASE TrainingKind(cfg) = "lightgbm"
    BY <1>11, <1>16, <2>2, <2>4, DefaultsAre
  <2> QED BY <1>16, <2>3, <2>4 DEF Kinds
<1>18. Defaults(tree) = Defaults(cfg)
  BY <1>17, SameKindSameFields
<1>19. \A p : p \in DOMAIN c <=> p \in DOMAIN cfg \/ p \in DOMAIN nested
  BY <1>6, <1>11, <1>14, <1>15, <1>16, <1>18
<1>20. \A p \in DOMAIN nested : c[p] = nested[p]
  BY <1>6, <1>8, <1>11, <1>14
<1>21. \A p \in DOMAIN cfg \ DOMAIN nested : c[p] = cfg[p]
  BY <1>6, <1>8, <1>11, <1>14
<1> QED BY <1>13, <1>19, <1>20, <1>21

\* A trial of a sweep ran the configuration its parent printed, with its own
\* draws in it and nothing else changed, unless a file was edited between the
\* two loads: tuning/isolation.py:102-105 and _apply_overrides.
THEOREM TrialsAreTheSweeps == Spec => []TrialIsTheSweeps
<1>1. ASSUME IInv, NEW s \in Storages, NEW n \in DOMAIN studies[s],
             NEW run \in studies[s][n].run, NEW plan \in run.plan,
             run.world.files = plan.world.files
      PROVE  /\ DOMAIN run.cfg =
                  DOMAIN plan.cfg \cup {Split[name] : name \in DOMAIN studies[s][n].params}
             /\ \A name \in DOMAIN studies[s][n].params :
                  run.cfg[Split[name]] = studies[s][n].params[name]
             /\ \A p \in DOMAIN plan.cfg \ {Split[name] : name \in DOMAIN studies[s][n].params} :
                  run.cfg[p] = plan.cfg[p]
  <2>1. PICK rows, row, params :
          rows = studies[s] /\ row = rows[n] /\ params = studies[s][n].params
    OBVIOUS
  <2>2. IsRow(rows, row)
    BY <1>1, <2>1 DEF IInv, StudiesOK, IsStudy, IsList
  <2>3. PICK load, plans : RanFrom(row, load, plans)
    BY <1>1, <2>1, <2>2 DEF IsRow
  <2>4. /\ load.world = run.world /\ run.plan = plans
        /\ run.cfg \in ApplyOverrides(load.cfg, load.world.shell.env, row.params)
    BY <1>1, <2>1, <2>3, SameRun
  <2>5. IsLoad(load) /\ IsLoad(plan) /\ plan.world.shell = load.world.shell
    BY <1>1, <2>3, <2>4 DEF RanFrom
  <2>6. plan.world = load.world
    BY <1>1, <2>4, <2>5 DEF IsLoad, IsWorld
  <2>7. plan.cfg = load.cfg
    BY <2>5, <2>6, OneLoad DEF IsLoad
  <2>8. PICK w, cfg, c : /\ w = load.world /\ cfg = load.cfg /\ c = run.cfg
                         /\ IsWorld(w) /\ cfg \in FromLayers(w)
                         /\ params \in Draws(cfg, row.fixed)
                         /\ c \in ApplyOverrides(cfg, w.shell.env, params)
    BY <1>1, <2>1, <2>3, <2>4, <2>5 DEF IsLoad, RanFrom
  <2>9. /\ \A p : p \in DOMAIN c <=>
                  p \in DOMAIN cfg \/ \E name \in DOMAIN params : p = Split[name]
        /\ \A name \in DOMAIN params : c[Split[name]] = params[name]
        /\ \A p \in DOMAIN cfg : (\A name \in DOMAIN params : p # Split[name]) => c[p] = cfg[p]
    BY <2>8, DerivedIs
  <2>10. PICK drawn : drawn = {Split[name] : name \in DOMAIN params}
    OBVIOUS
  <2>11. DOMAIN c = DOMAIN cfg \cup drawn /\ \A p \in DOMAIN cfg \ drawn : c[p] = cfg[p]
    BY <2>9, <2>10
  <2> QED BY <2>1, <2>7, <2>8, <2>9, <2>10, <2>11
<1>2. IInv => TrialIsTheSweeps
  BY <1>1, Zenon DEF TrialIsTheSweeps
<1> QED BY <1>2, ConfigurationInvariant, PTL
=============================================================================
