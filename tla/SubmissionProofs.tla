--------------------------- MODULE SubmissionProofs ---------------------------
(***************************************************************************)
(* What the submissions of a user promise next to the user's uploads, for  *)
(* any number of both, of keys, days' limits and batch items: the storage  *)
(* quota, the reservations, the daily quota, the idempotency keys and the  *)
(* videos of the jobs.  Reservations are summed up by a fold, so the first *)
(* part of the module is about sums over finite sets.                      *)
(***************************************************************************)
EXTENDS Submission, UploadsProofs, FiniteSetTheorems, WellFoundedInduction

-----------------------------------------------------------------------------
\* SumFuns.

LEMMA LeastNat ==
  ASSUME NEW T, T \subseteq Nat, T # {}
  PROVE  \E n \in T : \A m \in T : n <= m
  <1> DEFINE F == {1 .. n : n \in T}
             R == StrictSubsetOrdering(Nat)
  <1>1. IsWellFoundedOn(R, FiniteSubsetsOf(Nat))
    BY FS_StrictSubsetOrderingWellFounded
  <1>2. F # {} /\ F \subseteq FiniteSubsetsOf(Nat)
    <2>1. \A n \in T : IsFiniteSet(1 .. n) /\ 1 .. n \in SUBSET Nat
      BY FS_Interval
    <2> QED BY <2>1 DEF FiniteSubsetsOf
  <1>3. \A x, y \in SUBSET Nat : x \subseteq y /\ x # y => <<x, y>> \in R
    BY DEF StrictSubsetOrdering
  <1> HIDE DEF R
  <1>4. PICK x \in F : \A y \in F : ~(<<y, x>> \in R)
    <2> HIDE DEF F
    <2> QED BY <1>1, <1>2, WFMin
  <1>5. PICK n \in T : x = 1 .. n
    OBVIOUS
  <1>6. ASSUME NEW m \in T, m < n PROVE FALSE
    <2>1. 1 .. m \in SUBSET Nat /\ 1 .. n \in SUBSET Nat /\ 1 .. m \subseteq 1 .. n
      BY <1>6
    <2>2. n \in 1 .. n /\ n \notin 1 .. m
      BY <1>6
    <2> QED BY <1>3, <1>4, <1>5, <2>1, <2>2
  <1> QED BY <1>6

\* The functions that a fold with + over the subsets of a set may be made from.
Pick(t) == CHOOSE x \in t : TRUE
Adds(f, D, g) == \A t \in D : g[t] = IF t = {} THEN 0 ELSE f[Pick(t)] + g[t \ {Pick(t)}]
SumFuns(f, D) == {g \in [D -> Nat] : Adds(f, D, g)}
Small(S, n) == {t \in SUBSET S : Cardinality(t) <= n}

LEMMA SumsExist ==
  ASSUME NEW S, IsFiniteSet(S), NEW f, \A x \in S : f[x] \in Nat, NEW n \in Nat
  PROVE  SumFuns(f, Small(S, n)) # {}
  <1> DEFINE Bad == {k \in Nat : SumFuns(f, Small(S, k)) = {}}
  <1> SUFFICES ASSUME n \in Bad PROVE FALSE
    OBVIOUS
  <1>1. PICK k \in Bad : \A m \in Bad : k <= m
    BY LeastNat
  <1>2. \A t \in SUBSET S : IsFiniteSet(t) /\ Cardinality(t) \in Nat
    BY FS_Subset, FS_CardinalityType
  <1>3. \A t \in SUBSET S : t # {} =>
           /\ Pick(t) \in t /\ f[Pick(t)] \in Nat
           /\ t \ {Pick(t)} \in SUBSET S
           /\ Cardinality(t \ {Pick(t)}) = Cardinality(t) - 1
    BY <1>2, FS_RemoveElement DEF Pick
  <1>4. CASE k = 0
    <2> DEFINE g == [t \in Small(S, 0) |-> 0]
    <2>1. \A t \in Small(S, 0) : t = {}
      BY <1>2, FS_EmptySet DEF Small
    <2>2. g \in SumFuns(f, Small(S, 0))
      BY <2>1 DEF SumFuns, Adds
    <2> QED BY <1>1, <1>4, <2>2
  <1>5. CASE k # 0
    <2>1. k - 1 \in Nat /\ SumFuns(f, Small(S, k - 1)) # {}
      BY <1>1, <1>5
    <2>2. PICK h : h \in SumFuns(f, Small(S, k - 1))
      BY <2>1
    <2>3. \A t \in Small(S, k) : t # {} => t \ {Pick(t)} \in Small(S, k - 1)
      BY <1>1, <1>2, <1>3 DEF Small
    <2> DEFINE g == [t \in Small(S, k) |-> IF t = {} THEN 0 ELSE f[Pick(t)] + h[t \ {Pick(t)}]]
    <2>4. g \in [Small(S, k) -> Nat]
      BY <1>3, <2>2, <2>3 DEF SumFuns, Adds, Small
    <2>5. \A t \in Small(S, k - 1) : t \in Small(S, k) /\ g[t] = h[t]
      BY <1>1, <1>2, <2>2 DEF SumFuns, Adds, Small
    <2>6. g \in SumFuns(f, Small(S, k))
      BY <2>3, <2>4, <2>5 DEF SumFuns, Adds
    <2> QED BY <1>1, <2>6
  <1> QED BY <1>4, <1>5

\* The subsets of a finite set, as one thing.
Subsets(S) == SUBSET S
LEMMA SubsetFacts ==
  ASSUME NEW S, IsFiniteSet(S)
  PROVE  /\ S \in Subsets(S)
         /\ \A t \in Subsets(S) :
              /\ IsFiniteSet(t) /\ t \subseteq S
              /\ Cardinality(t) \in Nat
              /\ (Cardinality(t) = 0 <=> t = {})
              /\ \A x \in t : /\ t \ {x} \in Subsets(S)
                             /\ Cardinality(t \ {x}) = Cardinality(t) - 1
  <1> SUFFICES ASSUME NEW t \in SUBSET S
               PROVE  /\ IsFiniteSet(t) /\ t \subseteq S
                      /\ Cardinality(t) \in Nat
                      /\ (Cardinality(t) = 0 <=> t = {})
                      /\ \A x \in t : /\ t \ {x} \in SUBSET S
                                     /\ Cardinality(t \ {x}) = Cardinality(t) - 1
    BY DEF Subsets
  <1>1. IsFiniteSet(t)
    BY FS_Subset
  <1> QED BY <1>1, FS_CardinalityType, FS_EmptySet, FS_RemoveElement

\* The fold sums whatever order it takes the elements in.
LEMMA SumsMany ==
  ASSUME NEW S, IsFiniteSet(S), NEW f, \A x \in S : f[x] \in Nat, NEW g \in SumFuns(f, Subsets(S)),
         NEW n \in Nat
  PROVE  \A t \in Subsets(S), x \in S :
            Cardinality(t) <= n /\ x \in t => g[t] = f[x] + g[t \ {x}]
  <1> DEFINE Fine(k) == \A t \in Subsets(S), x \in S :
                           Cardinality(t) <= k /\ x \in t => g[t] = f[x] + g[t \ {x}]
             Bad == {k \in Nat : ~Fine(k)}
  <1> SUFFICES ASSUME n \in Bad PROVE FALSE
    OBVIOUS
  <1>1. PICK k \in Bad : \A m \in Bad : k <= m
    <2> HIDE DEF Fine
    <2> QED BY LeastNat
  <1>2. k # 0 /\ Fine(k - 1)
    <2>1. Fine(0)
      BY SubsetFacts
    <2> HIDE DEF Fine
    <2>2. k # 0
      BY <2>1
    <2> QED BY <1>1, <2>2
  <1>3. ASSUME NEW t \in Subsets(S), NEW x \in S, Cardinality(t) <= k, x \in t
        PROVE  g[t] = f[x] + g[t \ {x}]
    <2> DEFINE y == Pick(t)
    <2>1. y \in t /\ y \in S
      BY <1>3, SubsetFacts DEF Pick
    <2>2. g[t] = f[y] + g[t \ {y}]
      BY <1>3 DEF SumFuns, Adds
    <2> HIDE DEF y
    <2>3. CASE x = y
      BY <2>2, <2>3
    <2>4. CASE x # y
      <3> DEFINE tx == t \ {x}
                 ty == t \ {y}
                 both == tx \ {y}
      <3>1. x \in ty /\ y \in tx /\ both = ty \ {x}
        BY <1>3, <2>1, <2>4
      <3>2. /\ ty \in Subsets(S) /\ tx \in Subsets(S)
            /\ Cardinality(ty) <= k - 1 /\ Cardinality(tx) <= k - 1
        BY <1>3, <2>1, SubsetFacts
      <3> HIDE DEF tx, ty
      <3>3. both \in Subsets(S)
        BY <3>1, <3>2, SubsetFacts
      <3>0. \A u \in Subsets(S), z \in S :
               Cardinality(u) <= k - 1 /\ z \in u => g[u] = f[z] + g[u \ {z}]
        BY <1>2, Zenon
      <3>4. g[ty] = f[x] + g[both]
        <4>1. g[ty] = f[x] + g[ty \ {x}]
          BY <3>0, <3>1, <3>2, Zenon
        <4> QED BY <3>1, <4>1
      <3>5. g[tx] = f[y] + g[both]
        BY <2>1, <3>0, <3>1, <3>2, Zenon
      <3>6. f[x] \in Nat /\ f[y] \in Nat /\ g[both] \in Nat
        BY <2>1, <3>3 DEF SumFuns, Adds
      <3> HIDE DEF both
      <3>7. g[t] = f[y] + g[ty]
        BY <2>2 DEF ty
      <3>8. g[t] = f[x] + g[tx]
        BY <3>4, <3>5, <3>6, <3>7
      <3> QED BY <3>8 DEF tx
    <2> QED BY <2>3, <2>4
  <1> QED BY <1>1, <1>3

\* Folds of two functions over a set on which these agree are equal.
LEMMA SumsAgree ==
  ASSUME NEW S, NEW T, NEW e, NEW f, NEW g, Adds(e, Subsets(S), g),
         NEW h, Adds(f, Subsets(T), h), NEW u, u \subseteq S, u \subseteq T, IsFiniteSet(u), \A x \in u : e[x] = f[x]
  PROVE  g[u] = h[u]
  <1> DEFINE Bad == {k \in Nat : \E t \in SUBSET u : Cardinality(t) = k /\ g[t] # h[t]}
  <1>1. \A t \in SUBSET u : IsFiniteSet(t) /\ Cardinality(t) \in Nat
    BY FS_Subset, FS_CardinalityType
  <1>2. SUFFICES ASSUME Bad # {} PROVE FALSE
    BY <1>1
  <1>3. PICK k \in Bad : \A m \in Bad : k <= m
    BY <1>2, LeastNat
  <1>4. PICK t \in SUBSET u : Cardinality(t) = k /\ g[t] # h[t]
    BY <1>3
  <1>5. t # {}
    BY <1>4 DEF Adds, Subsets
  <1>6. Pick(t) \in t
    BY <1>5 DEF Pick
  <1>7. t \ {Pick(t)} \in SUBSET u /\ Cardinality(t \ {Pick(t)}) = k - 1
    BY <1>1, <1>4, <1>6, FS_RemoveElement
  <1>8. g[t \ {Pick(t)}] = h[t \ {Pick(t)}]
    BY <1>1, <1>3, <1>7
  <1> QED BY <1>4, <1>5, <1>6, <1>8 DEF Adds, Subsets

\* The sum of f over the finite set S.
Total(f, S) == (CHOOSE g : g \in SumFuns(f, Subsets(S)))[S]

LEMMA SumsOfSubsets ==
  ASSUME NEW S, IsFiniteSet(S), NEW f, \A x \in S : f[x] \in Nat
  PROVE  SumFuns(f, Subsets(S)) # {}
  <1>1. Cardinality(S) \in Nat /\ \A t \in SUBSET S : Cardinality(t) <= Cardinality(S)
    BY FS_CardinalityType, FS_Subset
  <1>2. Small(S, Cardinality(S)) = Subsets(S)
    BY <1>1 DEF Small, Subsets
  <1> QED BY <1>1, <1>2, SumsExist

\* The total may be read from the fold over any larger set.
LEMMA TotalIs ==
  ASSUME NEW S, IsFiniteSet(S), NEW f, \A x \in S : f[x] \in Nat,
         NEW T, S \subseteq T, NEW h \in SumFuns(f, Subsets(T))
  PROVE  Total(f, S) = h[S]
  <1>1. PICK g : g = (CHOOSE k : k \in SumFuns(f, Subsets(S))) /\ g \in SumFuns(f, Subsets(S))
    BY SumsOfSubsets
  <1>2. Adds(f, Subsets(S), g) /\ Adds(f, Subsets(T), h)
    BY <1>1 DEF SumFuns
  <1>3. g[S] = h[S]
    <2>1. S \subseteq S /\ \A x \in S : f[x] = f[x]
      OBVIOUS
    <2>2. \A v : v \subseteq S /\ v \subseteq T /\ IsFiniteSet(v) /\ (\A x \in v : f[x] = f[x])
              => g[v] = h[v]
      BY <1>2, SumsAgree
    <2> QED BY <2>1, <2>2
  <1> QED BY <1>1, <1>3 DEF Total

LEMMA TotalSplit ==
  ASSUME NEW S, IsFiniteSet(S), NEW f, \A x \in S : f[x] \in Nat
  PROVE  /\ Total(f, S) \in Nat
         /\ S = {} => Total(f, S) = 0
         /\ \A x \in S : Total(f, S) = f[x] + Total(f, S \ {x})
  <1>1. PICK g : g \in SumFuns(f, Subsets(S))
    BY SumsOfSubsets
  <1>2. Total(f, S) = g[S] /\ S \in Subsets(S)
    BY <1>1, TotalIs DEF Subsets
  <1>3. g[S] \in Nat /\ (S = {} => g[S] = 0)
    BY <1>1, <1>2 DEF SumFuns, Adds
  <1>4. ASSUME NEW x \in S PROVE Total(f, S) = f[x] + Total(f, S \ {x})
    <2>1. g[S] = f[x] + g[S \ {x}]
      BY <1>1, <1>2, SumsMany, FS_CardinalityType
    <2>2. IsFiniteSet(S \ {x}) /\ S \ {x} \subseteq S
      BY FS_RemoveElement
    <2>3. Total(f, S \ {x}) = g[S \ {x}]
      BY <1>1, <2>2, TotalIs
    <2> QED BY <1>2, <2>1, <2>3
  <1> QED BY <1>2, <1>3, <1>4

LEMMA TotalSame ==
  ASSUME NEW S, IsFiniteSet(S), NEW e, NEW f, \A x \in S : f[x] \in Nat /\ e[x] = f[x]
  PROVE  Total(e, S) = Total(f, S)
  <1>1. PICK g, h : g \in SumFuns(e, Subsets(S)) /\ h \in SumFuns(f, Subsets(S))
    BY SumsOfSubsets
  <1>2. g[S] = h[S]
    BY <1>1, SumsAgree DEF SumFuns
  <1> QED BY <1>1, <1>2, TotalIs

\* Those who share nothing may be left out.
LEMMA TotalWithout ==
  ASSUME NEW S, IsFiniteSet(S), NEW f, \A x \in S : f[x] \in Nat,
         NEW T \in SUBSET S, \A x \in S \ T : f[x] = 0
  PROVE  Total(f, S) = Total(f, T)
  <1> DEFINE Bad == {n \in Nat : \E t \in Subsets(S) :
                        T \subseteq t /\ Cardinality(t) = n /\ Total(f, t) # Total(f, T)}
  <1> SUFFICES ASSUME Bad # {} PROVE FALSE
    BY SubsetFacts
  <1>1. PICK n \in Bad : \A m \in Bad : n <= m
    BY LeastNat
  <1>2. PICK t \in Subsets(S) : T \subseteq t /\ Cardinality(t) = n /\ Total(f, t) # Total(f, T)
    BY <1>1
  <1>3. PICK x \in t : x \notin T
    BY <1>2
  <1>4. /\ IsFiniteSet(t) /\ t \subseteq S /\ f[x] = 0 /\ \A y \in t : f[y] \in Nat
        /\ t \ {x} \in Subsets(S) /\ Cardinality(t \ {x}) = n - 1 /\ n - 1 \in Nat
        /\ IsFiniteSet(t \ {x}) /\ T \subseteq t \ {x}
    BY <1>2, <1>3, SubsetFacts
  <1>5. Total(f, t \ {x}) = Total(f, T)
    BY <1>1, <1>4
  <1>6. Total(f, t) = f[x] + Total(f, t \ {x}) /\ Total(f, t \ {x}) \in Nat
    BY <1>4, TotalSplit
  <1> QED BY <1>2, <1>4, <1>5, <1>6

\* The fold over the set of those who share is the total over all, where the others
\* share nothing.
FoldHeld(e, T) ==
    LET iter[t \in SUBSET T] ==
          IF t = {} THEN 0 ELSE e[Pick(t)].held + iter[t \ {Pick(t)}]
    IN iter[T]

LEMMA FoldIsTotal ==
  ASSUME NEW S, IsFiniteSet(S), NEW f, \A x \in S : f[x] \in Nat,
         NEW T \in SUBSET S, \A x \in S \ T : f[x] = 0,
         NEW e, \A x \in T : e[x].held = f[x]
  PROVE  FoldHeld(e, T) = Total(f, S)
  <1> DEFINE body(g) == [t \in SUBSET T |-> IF t = {} THEN 0 ELSE e[Pick(t)].held + g[t \ {Pick(t)}]]
             fold == CHOOSE g : g = body(g)
  <1>0. \A t \in SUBSET T : t # {} => e[Pick(t)].held = f[Pick(t)]
    BY DEF Pick
  <1>1. FoldHeld(e, T) = fold[T]
    BY DEF FoldHeld
  <1>2. IsFiniteSet(T) /\ \A x \in T : f[x] \in Nat
    BY FS_Subset
  <1>3. PICK g : g \in SumFuns(f, Subsets(T))
    BY <1>2, SumsOfSubsets
  <1>4. g = body(g)
    BY <1>0, <1>3 DEF SumFuns, Adds, Subsets
  <1>5. fold = body(fold)
    BY <1>4
  <1> HIDE DEF fold
  <1>6. Adds(f, Subsets(T), fold)
    BY <1>0, <1>5 DEF Adds, Subsets
  <1>7. fold[T] = g[T]
    BY <1>2, <1>3, <1>6, SumsAgree DEF SumFuns
  <1>8. g[T] = Total(f, T)
    BY <1>2, <1>3, TotalIs
  <1> QED BY <1>1, <1>7, <1>8, TotalWithout

\* One element's share changes.
LEMMA TotalChange ==
  ASSUME NEW S, IsFiniteSet(S), NEW e, NEW f, NEW x \in S,
         \A y \in S : e[y] \in Nat /\ f[y] \in Nat /\ (y # x => e[y] = f[y])
  PROVE  /\ Total(e, S) \in Nat /\ Total(f, S) \in Nat
         /\ e[x] <= Total(e, S)
         /\ Total(e, S) - e[x] = Total(f, S) - f[x]
  <1>1. IsFiniteSet(S \ {x})
    BY FS_RemoveElement
  <1>2. Total(e, S \ {x}) = Total(f, S \ {x}) /\ Total(e, S \ {x}) \in Nat
    BY <1>1, TotalSame, TotalSplit
  <1>3. /\ Total(e, S) = e[x] + Total(e, S \ {x}) /\ Total(f, S) = f[x] + Total(f, S \ {x})
        /\ Total(e, S) \in Nat /\ Total(f, S) \in Nat
    BY TotalSplit
  <1> QED BY <1>2, <1>3

\* Larger shares, larger sum.
LEMMA TotalMonotone ==
  ASSUME NEW S, IsFiniteSet(S), NEW e, NEW f,
         \A y \in S : e[y] \in Nat /\ f[y] \in Nat /\ e[y] <= f[y]
  PROVE  Total(e, S) <= Total(f, S)
  <1> DEFINE Bad == {n \in Nat : \E t \in Subsets(S) :
                        Cardinality(t) = n /\ ~(Total(e, t) <= Total(f, t))}
  <1> SUFFICES ASSUME Bad # {} PROVE FALSE
    BY SubsetFacts
  <1>1. PICK n \in Bad : \A m \in Bad : n <= m
    BY LeastNat
  <1>2. PICK t \in Subsets(S) : Cardinality(t) = n /\ ~(Total(e, t) <= Total(f, t))
    BY <1>1
  <1>3. /\ IsFiniteSet(t) /\ t \subseteq S
        /\ \A y \in t : e[y] \in Nat /\ f[y] \in Nat /\ e[y] <= f[y]
    BY SubsetFacts
  <1>4. t # {}
    BY <1>2, <1>3, TotalSplit
  <1>5. PICK x \in t : TRUE
    BY <1>4
  <1>6. t \ {x} \in Subsets(S) /\ Cardinality(t \ {x}) = n - 1 /\ n - 1 \in Nat
        /\ IsFiniteSet(t \ {x})
    BY <1>2, SubsetFacts
  <1>7. Total(e, t \ {x}) <= Total(f, t \ {x})
    BY <1>1, <1>6
  <1>8. Total(e, t) = e[x] + Total(e, t \ {x}) /\ Total(f, t) = f[x] + Total(f, t \ {x})
        /\ Total(e, t \ {x}) \in Nat /\ Total(f, t \ {x}) \in Nat
    BY <1>3, <1>6, TotalSplit
  <1> QED BY <1>2, <1>3, <1>7, <1>8

-----------------------------------------------------------------------------
\* The uploads of the user: what they do to the quota.

StoreTypes ==
    /\ used \in Nat /\ pending \in Nat /\ crashes \in Nat
    /\ charged \subseteq Uploads /\ doomed \subseteq Uploads /\ old \subseteq Uploads
    /\ gone \subseteq Uploads /\ lost \subseteq Uploads /\ torn \subseteq Uploads
    /\ IsFiniteSet(charged) /\ used >= N * Cardinality(charged)

\* The quota is respected where more is taken.
Takes == used' + pending' > used + pending => used' + pending' <= setup.bytes

LEMMA Numbers ==
  /\ N \in Nat /\ N > 0 /\ Limit \in Nat /\ Items \in Nat /\ Items > 0
  /\ setup \in Setups => setup.bytes \in Nat /\ setup.uploads \subseteq Uploads
                         /\ setup.sources \subseteq {"direct", "path", "batch"}
                         /\ setup.days \in Days
  BY UploadsAssumption, SubmissionAssumption, SubmissionsAssumption DEF Settings

\* An upload is charged once, and what it was charged is taken back with it.
LEMMA ChargeTypes ==
  ASSUME StoreTypes, NEW u \in Uploads
  PROVE  /\ Charge(u) => /\ used' \in Nat /\ used' <= used + N
                         /\ charged' \subseteq Uploads /\ IsFiniteSet(charged')
                         /\ used' >= N * Cardinality(charged')
         /\ charged' = charged \ {u} /\ used' = (IF u \in charged THEN used - N ELSE used)
              => /\ used' \in Nat /\ used' <= used
                 /\ charged' \subseteq Uploads /\ IsFiniteSet(charged')
                 /\ used' >= N * Cardinality(charged')
  <1> DEFINE n == Cardinality(charged)
  <1>1. n \in Nat /\ N \in Nat /\ used \in Nat /\ used >= N * n
    BY FS_CardinalityType, Numbers DEF StoreTypes
  <1>2. /\ IsFiniteSet(charged \cup {u}) /\ IsFiniteSet(charged \ {u})
        /\ Cardinality(charged \cup {u}) = IF u \in charged THEN n ELSE n + 1
        /\ Cardinality(charged \ {u}) = IF u \in charged THEN n - 1 ELSE n
    BY FS_AddElement, FS_RemoveElement DEF StoreTypes
  <1>3. u \in charged => n >= 1
    BY FS_CardinalityType, <1>2 DEF StoreTypes
  <1> HIDE DEF n
  <1>4. N * (n + 1) = N * n + N /\ N * (n - 1) = N * n - N /\ N * n \in Nat
        /\ (n >= 1 => N * (n - 1) >= 0)
    BY <1>1
  <1> QED BY <1>1, <1>2, <1>3, <1>4 DEF Charge, StoreTypes

LEMMA ServeTypes ==
  ASSUME FileInv, StoreTypes, NEW c \in Clients, Serve(c)
  PROVE  StoreTypes' /\ pending' = pending /\ setup' = setup /\ Takes
  <1> USE DEF StoreTypes, storeVars, fileVars, history, Takes
  <1>1. AtQuota(c) \/ AtChunk(c) => calls[c].u \in Uploads
    BY DEF AtQuota, AtChunk, FileInv, FileTypes, Chunk, Completion
  <1>2. CASE Finish(c)
    <2>1. calls[c].u \in Uploads /\ Charge(calls[c].u) /\ Room(N)
          /\ UNCHANGED <<old, pending, doomed, history, setup, crashes>>
      BY <1>1, <1>2 DEF Finish, Passes
    <2>2. /\ used' \in Nat /\ used' <= used + N
          /\ charged' \subseteq Uploads /\ IsFiniteSet(charged')
          /\ used' >= N * Cardinality(charged')
      BY <2>1, ChargeTypes
    <2>3. used + pending + N <= setup.bytes /\ setup.bytes \in Nat
      BY <2>1, Numbers DEF Room, FileInv, FileTypes
    <2>4. Takes
      BY <2>1, <2>2, <2>3, Numbers
    <2> QED BY <2>1, <2>2, <2>4
  <1>3. CASE Spoil(c)
    BY <1>1, <1>3 DEF Spoil
  <1>4. CASE SkipChunk(c) \/ KeepChunk(c) \/ Lock(c) \/ Refuse(c)
    BY <1>4 DEF SkipChunk, KeepChunk, Lock, Refuse
  <1> QED BY <1>2, <1>3, <1>4 DEF Serve

LEMMA UpNextTypes ==
  ASSUME FileInv, StoreTypes, UpNext
  PROVE  StoreTypes' /\ pending' = pending /\ setup' = setup /\ Takes
  <1>1. CASE \E c \in Clients : Serve(c)
    BY <1>1, ServeTypes
  <1> USE DEF StoreTypes, storeVars, fileVars, history, Takes
  <1>2. CASE \E u \in Uploads : New(u) \/ TakeUp(u)
    BY <1>2 DEF New, TakeUp
  <1>3. CASE \E c \in Clients : Send(c)
    BY <1>3 DEF Send, SendChunk, SendComplete
  <1>4. ASSUME NEW u \in Uploads, Purge(u)
        PROVE  StoreTypes' /\ pending' = pending /\ setup' = setup /\ Takes
    <2>1. /\ used' \in Nat /\ used' <= used
          /\ charged' \subseteq Uploads /\ IsFiniteSet(charged')
          /\ used' >= N * Cardinality(charged')
      BY <1>4, ChargeTypes DEF Purge
    <2> QED BY <1>4, <2>1 DEF Purge
  <1>5. CASE Retain
    BY <1>4, <1>5 DEF Retain, Age, Doom, PurgeFiles
  <1> QED BY <1>1, <1>2, <1>3, <1>5 DEF UpNext

LEMMA DiesTypes ==
  ASSUME FileInv, StoreTypes, Dies
  PROVE  StoreTypes' /\ pending' = 0 /\ setup' = setup /\ Takes
  <1>1. Restart => crashes' \in Nat /\ pending' = 0 /\ doomed' = {} /\ UNCHANGED <<gone, old, setup>>
    BY DEF Restart, StoreTypes
  <1>2. \A c \in Clients : AtQuota(c) \/ AtChunk(c) => calls[c].u \in Uploads
    BY DEF AtQuota, AtChunk, FileInv, FileTypes, Chunk, Completion
  <1>3. Restart /\ UNCHANGED <<charged, used>> /\ lost' \subseteq Uploads /\ torn' \subseteq Uploads
    BY <1>2 DEF Dies, Die, DieInChunk, DieMoved, DieUncharged, storeVars, StoreTypes
  <1> QED BY <1>1, <1>3 DEF StoreTypes, Takes

-----------------------------------------------------------------------------
\* A submission by itself: where it stands tells what it has reserved.

Fine(x) ==
    /\ x.src = "upload" => x.u \in Uploads
    /\ x.src = "batch" => x.key = NoKey
    /\ x.pc \in {"body", "busy", "daily"} => x.where = "none"
    /\ x.pc \in {"room", "reserve"} => (x.where # "none" <=> x.src = "batch")
    /\ x.pc \in {"policy", "queue", "undo"} => x.where # "none"
    /\ x.src # "batch" =>
          /\ x.stored = 0 /\ x.made = 0
          /\ x.pc \in {"body", "room", "reserve"} => x.held = 0
    /\ x.src = "batch" =>
          /\ x.pc # "busy"
          /\ x.where = "none" => x.stored = 0
          /\ x.pc = "queue" => x.stored = x.made + 1
          /\ x.pc = "undo" => x.stored = x.made \/ x.stored = x.made + 1
          /\ x.pc \notin {"queue", "undo"} => x.stored = x.made /\ x.stored < Items

SubTypes ==
    /\ subs \in [Subs -> {Idle} \cup Submissions]
    /\ \A s \in Subs : subs[s] # Idle => Fine(subs[s])
    /\ keyOf \in [Keys -> {NoJob} \cup {j.id : j \in jobs}]
    /\ IsFiniteSet(jobs)
    /\ local \in [Days -> Nat] /\ remote \in [Days -> 0 .. Limit]
    /\ day \in Days /\ leaked \in Nat /\ unpaid \in Nat /\ raced \subseteq Keys
    /\ crossed \in BOOLEAN /\ mixed \in BOOLEAN

\* What a submission x holds of the storage, how many jobs it may still store for
\* its reservation of day d, and how many it would give back.
Holds(x) == IF x = Idle THEN 0 ELSE x.held
Reserved(x, d) == x # Idle /\ x.where # "none" /\ x.day = d
Due(x, d) == IF ~Reserved(x, d) THEN 0
             ELSE IF x.src = "batch" THEN Items - x.stored
             ELSE IF x.pc = "queue" THEN 0 ELSE 1
Back(x, d) == IF ~Reserved(x, d) THEN 0
              ELSE IF x.src = "batch" THEN Items - x.made
              ELSE IF x.pc = "queue" THEN 0 ELSE 1

LEMMA Shares ==
  /\ \A x \in Submissions : x # Idle
  /\ Holds(Idle) = 0 /\ \A d : Due(Idle, d) = 0 /\ Back(Idle, d) = 0
  /\ \A x \in Submissions : Holds(x) = x.held /\ x.held \in Nat
  /\ \A x \in Submissions, d \in Days :
        /\ Due(x, d) \in Nat /\ Back(x, d) \in Nat
        /\ Fine(x) => Due(x, d) <= Back(x, d)
  <1>1. \A x \in Submissions : x # Idle /\ x.held \in Nat
    BY SubmissionsAssumption DEF Submissions
  <1>2. ASSUME NEW x \in Submissions, NEW d \in Days
        PROVE  /\ Due(x, d) \in Nat /\ Back(x, d) \in Nat
               /\ Fine(x) => Due(x, d) <= Back(x, d)
    <2>1. Items - x.stored \in Nat /\ Items - x.made \in Nat
          /\ (Fine(x) => Items - x.stored <= Items - x.made)
      BY Numbers DEF Submissions, Fine, Steps
    <2> QED BY <2>1 DEF Due, Back
  <1> QED BY <1>1, <1>2 DEF Holds, Due, Back, Reserved

\* What a step of submission s makes of it, r, and of what all share.
Moves(s, r) ==
    /\ subs[s] \in Submissions /\ r \in {Idle} \cup Submissions
    /\ subs' = [subs EXCEPT ![s] = r]
    /\ r # Idle =>
          /\ Fine(r) /\ r.pc # "body"
          /\ r.src = subs[s].src /\ r.u = subs[s].u /\ r.key = subs[s].key
          /\ subs[s].pc = "queue" => r.src = "batch"
          /\ subs[s].pc = "body" /\ r.src = "upload" => Done(r.u)

Books(s, r) ==
    \/ pending' = Less(pending, subs[s].held) /\ leaked' = leaked /\ Holds(r) = 0
    \/ /\ pending' \in Nat /\ leaked' \in Nat
       /\ pending' - leaked' - Holds(r) = pending - leaked - subs[s].held

\* Nothing happens to the days and the jobs, ...
Quiet(s, r) ==
    /\ UNCHANGED <<jobs, keyOf, local, remote, unpaid, crossed, mixed>>
    /\ \A d \in Days : Due(r, d) <= Due(subs[s], d) /\ Back(r, d) <= Back(subs[s], d)
    /\ r # Idle => r.where = subs[s].where
\* ... some of today is reserved, ...
Reserves(s, r) ==
    /\ Today + Count(s) <= Limit
    /\ remote' = IF redisUp THEN [remote EXCEPT ![day] = @ + Count(s)] ELSE remote
    /\ local' = IF redisUp THEN local ELSE [local EXCEPT ![day] = @ + Count(s)]
    /\ mixed' = (mixed \/ (setup.redis = "either" /\ ~redisUp))
    /\ UNCHANGED <<jobs, keyOf, unpaid, crossed>>
    /\ subs[s].where = "none"
    /\ r # Idle /\ r.where = IF redisUp THEN "remote" ELSE "local"
    /\ Due(r, day) = Count(s) /\ Back(r, day) = Count(s)
    /\ \A d \in Days \ {day} : Due(r, d) = 0 /\ Back(r, d) = 0
\* ... a job that is due is stored, ...
Stores(s, r) ==
    /\ Put(s)
    /\ PutKey(s)
    /\ subs[s].pc # "queue" /\ subs[s].pc # "body"
    /\ UNCHANGED <<local, remote, unpaid, mixed>>
    /\ Due(r, subs[s].day) = Due(subs[s], subs[s].day) - 1
    /\ \A d \in Days : Due(r, d) <= Due(subs[s], d) /\ Back(r, d) <= Back(subs[s], d)
    /\ r # Idle /\ r.pc = "queue" /\ r.where = subs[s].where
\* ... or what was reserved is given back.
GivesBack(s, r) ==
    LET x == subs[s]
        back == IF Batch(s) THEN Items - x.made ELSE 1
    IN /\ r = Idle
       /\ local' = IF x.where # "local" THEN local ELSE [local EXCEPT ![day] = Less(@, back)]
       /\ remote' = IF x.where # "remote" \/ ~redisUp THEN remote
                    ELSE [remote EXCEPT ![day] = Less(@, back)]
       /\ crossed' = (crossed \/ x.day # day)
       /\ unpaid' = unpaid + (x.stored - x.made)
       /\ x.pc = "undo" /\ x.where # "none"
       /\ UNCHANGED <<jobs, keyOf, mixed>>

Step(s, r) ==
    /\ Moves(s, r) /\ Books(s, r) /\ Takes
    /\ Quiet(s, r) \/ Reserves(s, r) \/ Stores(s, r) \/ GivesBack(s, r)
    /\ used' \in Nat /\ used' >= used
    /\ UNCHANGED <<othersVars, redisUp, day, raced>>

LEMMA Lessens ==
  \A p, n \in Nat : Less(p, n) \in Nat /\ Less(p, n) <= p /\ Less(p, n) >= p - n
                   /\ (n <= p => Less(p, n) = p - n)
  BY DEF Less

\* What the lemmas on the single steps start from.
LEMMA Submitted ==
  ASSUME FileInv, StoreTypes, SubTypes, NEW s \in Subs, subs[s] # Idle
  PROVE  /\ subs[s] \in Submissions /\ Fine(subs[s])
         /\ subs[s].held \in Nat /\ subs[s].size \in {0, N} /\ subs[s].day \in Days
         /\ pending \in Nat /\ leaked \in Nat /\ used \in Nat /\ setup.bytes \in Nat
  BY Numbers DEF SubTypes, StoreTypes, Submissions, FileInv, FileTypes

\* The ways out.
LEMMA Leaves ==
  ASSUME FileInv, StoreTypes, SubTypes, NEW s \in Subs, subs[s] # Idle,
         Leave(s), Books(s, Idle), Takes,
         UNCHANGED <<used, othersVars, jobs, keyOf, dailyVars, redisUp, day, raced>>
  PROVE  Step(s, Idle)
  <1>1. Moves(s, Idle)
    BY Submitted DEF Moves, Leave
  <1>2. Quiet(s, Idle)
    BY Submitted, Shares DEF Quiet, dailyVars
  <1> QED BY <1>1, <1>2, Submitted DEF Step

LEMMA Releases ==
  ASSUME FileInv, StoreTypes, SubTypes, NEW s \in Subs, subs[s] # Idle,
         ReleaseStorage(s), Leave(s),
         UNCHANGED <<used, othersVars, jobs, keyOf, dailyVars, redisUp, day, leaked, raced>>
  PROVE  Step(s, Idle)
  <1>1. Books(s, Idle)
    BY Shares DEF Books, ReleaseStorage
  <1>2. pending' \in Nat /\ pending' <= pending
    BY Submitted, Lessens DEF ReleaseStorage
  <1>3. Takes
    BY <1>2, Submitted DEF Takes
  <1> QED BY <1>1, <1>3, Leaves

LEMMA BadExtensionStep ==
  ASSUME FileInv, StoreTypes, SubTypes, NEW s \in Subs, BadExtension(s)
  PROVE  Step(s, Idle)
  <1>0. /\ subs[s] # Idle /\ subs[s].pc = "reserve" /\ subs[s].src = "path"
        /\ subs[s].size > 0 => Room(subs[s].size)
        /\ pending' = pending + subs[s].size /\ leaked' = leaked + subs[s].size
        /\ used' = used
    BY DEF BadExtension, Fits, At
  <1>1. Books(s, Idle)
    BY <1>0, Submitted, Shares, Numbers DEF Books, Fine
  <1>2. Takes
    BY <1>0, Submitted, Numbers DEF Takes, Room
  <1> QED BY <1>0, <1>1, <1>2, Leaves DEF BadExtension

LEMMA EscapesStep ==
  ASSUME FileInv, StoreTypes, SubTypes, NEW s \in Subs, Escapes(s)
  PROVE  Step(s, Idle)
  <1>0. subs[s] # Idle /\ pending' = pending /\ leaked' = leaked + subs[s].held /\ used' = used
    BY DEF Escapes, ForgetStorage, At, upVars, storeVars
  <1>1. Books(s, Idle) /\ Takes
    BY <1>0, Submitted, Shares DEF Books, Takes
  <1> QED BY <1>0, <1>1, Leaves DEF Escapes, upVars, storeVars, othersVars

\* A step that only goes on, or holds some more.
LEMMA GoesOn ==
  ASSUME FileInv, StoreTypes, SubTypes, NEW s \in Subs, subs[s] # Idle,
         NEW r \in Submissions, subs' = [subs EXCEPT ![s] = r],
         Fine(r), r.pc # "body", r.src = subs[s].src, r.u = subs[s].u, r.key = subs[s].key,
         subs[s].pc = "queue" => r.src = "batch",
         subs[s].pc = "body" /\ r.src = "upload" => Done(r.u),
         r.where = subs[s].where, r.day = subs[s].day,
         r.stored = subs[s].stored, r.made >= subs[s].made,
         r.pc = "queue" \/ subs[s].pc # "queue" \/ r.src = "batch",
         Takes, leaked' = leaked, pending' \in Nat,
         pending' - r.held = pending - subs[s].held,
         used' \in Nat, used' >= used,
         UNCHANGED <<othersVars, jobs, keyOf, dailyVars, redisUp, day, raced>>
  PROVE  \E q : Step(s, q)
  <1>1. Moves(s, r)
    BY Submitted, Shares DEF Moves
  <1>2. Books(s, r)
    BY Submitted, Shares DEF Books, Submissions, Holds
  <1>3. Quiet(s, r)
    <2>1. /\ subs[s].stored \in Nat /\ subs[s].made \in Nat /\ r.stored \in Nat /\ r.made \in Nat
          /\ subs[s] # Idle /\ r # Idle
      BY Submitted, Shares, Numbers DEF Submissions
    <2>2. \A d \in Days : Due(r, d) <= Due(subs[s], d) /\ Back(r, d) <= Back(subs[s], d)
      BY <2>1, Numbers DEF Due, Back, Reserved
    <2> QED BY <2>1, <2>2 DEF Quiet, dailyVars
  <1> QED BY <1>1, <1>2, <1>3 DEF Step

\* The steps that go on.

LEMMA Edited ==
  ASSUME NEW x \in Submissions, NEW p \in Steps
  PROVE  LET r == [x EXCEPT !.pc = p] IN
         /\ r \in Submissions
         /\ r.pc = p /\ r.src = x.src /\ r.u = x.u /\ r.key = x.key /\ r.size = x.size
         /\ r.held = x.held /\ r.where = x.where /\ r.day = x.day
         /\ r.stored = x.stored /\ r.made = x.made
  BY DEF Submissions

LEMMA GoStep ==
  ASSUME FileInv, StoreTypes, SubTypes, NEW s \in Subs, subs[s] # Idle,
         NEW p \in Steps \ {"body", "queue"}, Go(s, p), Fine([subs[s] EXCEPT !.pc = p]),
         subs[s].pc = "queue" => subs[s].src = "batch",
         subs[s].pc # "body", Takes, leaked' = leaked, pending' = pending,
         used' \in Nat, used' >= used,
         UNCHANGED <<othersVars, jobs, keyOf, dailyVars, redisUp, day, raced>>
  PROVE  \E r : Step(s, r)
  <1> DEFINE r == [subs[s] EXCEPT !.pc = p]
  <1>2. subs' = [subs EXCEPT ![s] = r]
    BY DEF Go, SubTypes
  <1>3. /\ r \in Submissions /\ Fine(r)
        /\ r.pc = p /\ r.src = subs[s].src /\ r.u = subs[s].u /\ r.key = subs[s].key
        /\ r.held = subs[s].held /\ r.where = subs[s].where /\ r.day = subs[s].day
        /\ r.stored = subs[s].stored /\ r.made = subs[s].made
    BY Submitted, Edited
  <1> HIDE DEF r
  <1>1. subs[s].made \in Nat /\ subs[s].held \in Nat /\ pending \in Nat
    BY Submitted, Numbers DEF Submissions
  <1>4. /\ r.made >= subs[s].made /\ pending' \in Nat
        /\ pending' - r.held = pending - subs[s].held
    BY <1>1, <1>3
  <1>5. /\ r.pc # "body" /\ r.pc # "queue" /\ r \in Submissions /\ Fine(r)
        /\ r.src = subs[s].src /\ r.u = subs[s].u /\ r.key = subs[s].key
        /\ r.where = subs[s].where /\ r.day = subs[s].day /\ r.stored = subs[s].stored
        /\ subs[s].pc = "queue" => r.src = "batch"
    BY <1>3
  <1>6. subs[s].pc = "body" /\ r.src = "upload" => Done(r.u)
    OBVIOUS
  <1>7. r.pc = "queue" \/ subs[s].pc # "queue" \/ r.src = "batch"
    BY <1>5
  <1> QED BY <1>2, <1>4, <1>5, <1>6, <1>7, GoesOn

LEMMA BodyStep ==
  ASSUME FileInv, StoreTypes, SubTypes, NEW s \in Subs, Body(s)
  PROVE  \E r : Step(s, r)
  <1> DEFINE x == subs[s]
  <1>0. /\ x # Idle /\ x.pc = "body"
        /\ UNCHANGED <<othersVars, used, pending, leaked, jobs, keyOf, dailyVars, redisUp, day, raced>>
    BY DEF Body, At, upVars, storeVars, othersVars
  <1>1. x \in Submissions /\ Fine(x)
    BY <1>0, Submitted
  <1>2. Takes
    BY <1>0, Submitted DEF Takes
  <1>5. /\ x.src \in {"upload", "direct", "path", "batch"}
        /\ subs \in [Subs -> {Idle} \cup Submissions]
    BY <1>1 DEF Submissions, Sources, SubTypes
  <1>6. /\ x.src = "upload" =>
             subs' = IF ~Done(x.u) THEN [subs EXCEPT ![s] = Idle]
                     ELSE [subs EXCEPT ![s].pc = "reserve",
                                       ![s].size = IF final[x.u] = NoFile THEN 0 ELSE N]
        /\ x.src \in {"direct", "path"} => subs' = [subs EXCEPT ![s].pc = "room", ![s].size = N]
        /\ x.src = "batch" => subs' = [subs EXCEPT ![s].pc = "daily", ![s].size = N]
    <2> USE DEF Body, Batch
    <2>1. CASE x.src = "upload"
      BY <2>1
    <2>2. CASE x.src \in {"direct", "path"}
      BY <2>2
    <2>3. CASE x.src = "batch"
      BY <2>3
    <2> QED BY <1>5, <2>1, <2>2, <2>3
  <1>3. CASE x.src = "upload" /\ ~Done(x.u)
    <2>1. x.held = 0
      BY <1>0, <1>1, <1>3 DEF Fine
    <2>2. Books(s, Idle)
      BY <1>0, <2>1, Submitted, Shares DEF Books
    <2>3. Leave(s)
      BY <1>3, <1>6 DEF Leave
    <2> QED BY <1>0, <1>2, <2>2, <2>3, Leaves
  <1>4. CASE x.src # "upload" \/ Done(x.u)
    <2>1. PICK p \in {"reserve", "room", "daily"}, n \in {0, N} :
            /\ subs' = [subs EXCEPT ![s] = [x EXCEPT !.pc = p, !.size = n]]
            /\ x.src = "batch" <=> p = "daily"
      <3>3. CASE x.src = "upload"
        BY <1>4, <1>5, <1>6, <3>3
      <3>4. CASE x.src \in {"direct", "path"}
        BY <1>5, <1>6, <3>4
      <3>5. CASE x.src = "batch"
        BY <1>5, <1>6, <3>5
      <3> QED BY <1>5, <3>3, <3>4, <3>5
    <2> DEFINE r == [x EXCEPT !.pc = p, !.size = n]
    <2>6. p \in Steps /\ n \in {0, N}
      BY DEF Steps
    <2>2. /\ r \in Submissions
          /\ r.pc = p /\ r.src = x.src /\ r.u = x.u /\ r.key = x.key
          /\ r.held = x.held /\ r.where = x.where /\ r.day = x.day
          /\ r.stored = x.stored /\ r.made = x.made
      BY <1>1, <2>6 DEF Submissions
    <2>7. x.made \in Nat /\ x.held \in Nat /\ pending \in Nat
      BY <1>0, <1>1, Submitted, Numbers DEF Submissions
    <2>3. subs' = [subs EXCEPT ![s] = r]
      BY <2>1
    <2> HIDE DEF r
    <2>4. Fine(r)
      BY <1>0, <1>1, <2>1, <2>2 DEF Fine
    <2>5. r.src = "upload" => Done(r.u)
      BY <1>4, <2>2
    <2>8. /\ r.made >= x.made /\ pending' - r.held = pending - x.held
          /\ r.pc # "body" /\ used' \in Nat /\ used' >= used
      BY <1>0, <2>2, <2>7, Submitted
    <2> QED BY <1>0, <1>2, <2>2, <2>3, <2>4, <2>5, <2>7, <2>8, GoesOn
  <1> QED BY <1>3, <1>4

LEMMA HasRoomStep ==
  ASSUME FileInv, StoreTypes, SubTypes, NEW s \in Subs, HasRoom(s)
  PROVE  \E r : Step(s, r)
  <1>0. /\ subs[s] # Idle /\ subs[s].pc = "room" /\ Room(N)
        /\ Go(s, "reserve")
        /\ used' = used \/ used' = used + N
        /\ UNCHANGED <<othersVars, pending, leaked, jobs, keyOf, dailyVars, redisUp, day, raced>>
    BY DEF HasRoom, At
  <1>1. Takes /\ used' \in Nat /\ used' >= used
    BY <1>0, Submitted, Numbers DEF Takes, Room
  <1>2. Fine([subs[s] EXCEPT !.pc = "reserve"])
    BY <1>0, Submitted, Edited DEF Fine, Steps
  <1> QED BY <1>0, <1>1, <1>2, GoStep DEF Steps

LEMMA FineOn ==
  ASSUME NEW x \in Submissions, Fine(x), NEW r \in Submissions,
         r.src = x.src, r.u = x.u, r.key = x.key, r.where = x.where, r.stored = x.stored, r.made = x.made,
         \/ /\ r.pc = "undo"
            /\ \/ x.pc \in {"policy", "queue"}
               \/ x.pc \in {"room", "reserve"} /\ x.src = "batch"
         \/ r.pc = "room" /\ x.pc = "policy" /\ x.src = "batch"
  PROVE  Fine(r)
  <1>1. /\ r.src = "upload" => r.u \in Uploads
        /\ r.src = "batch" => r.key = NoKey
    BY DEF Fine
  <1>2. /\ r.pc \in {"room", "reserve"} => (r.where # "none" <=> r.src = "batch")
        /\ r.pc \in {"policy", "queue", "undo"} => r.where # "none"
        /\ r.pc \notin {"body", "busy", "daily"}
    BY DEF Fine
  <1>3. r.src # "batch" =>
          /\ r.stored = 0 /\ r.made = 0
          /\ r.pc \in {"body", "room", "reserve"} => r.held = 0
    BY DEF Fine
  <1>4. r.src = "batch" =>
          /\ r.pc # "busy"
          /\ r.where = "none" => r.stored = 0
          /\ r.pc = "queue" => r.stored = r.made + 1
          /\ r.pc = "undo" => r.stored = r.made \/ r.stored = r.made + 1
          /\ r.pc \notin {"queue", "undo"} => r.stored = r.made /\ r.stored < Items
    BY DEF Fine
  <1> QED BY <1>1, <1>2, <1>3, <1>4 DEF Fine

LEMMA UndoIsFine ==
  ASSUME SubTypes, NEW s \in Subs, subs[s] # Idle,
         \/ subs[s].pc \in {"policy", "queue"}
         \/ subs[s].pc \in {"room", "reserve"} /\ Batch(s)
  PROVE  Fine([subs[s] EXCEPT !.pc = "undo"])
  <1>1. subs[s] \in Submissions /\ Fine(subs[s])
    BY DEF SubTypes
  <1> QED BY <1>1, Edited, FineOn DEF Steps, Batch

LEMMA FullStep ==
  ASSUME FileInv, StoreTypes, SubTypes, NEW s \in Subs, Full(s)
  PROVE  \E r : Step(s, r)
  <1>0. /\ subs[s] # Idle /\ subs[s].pc \in {"room", "reserve"}
        /\ IF Batch(s) THEN Go(s, "undo") ELSE Leave(s)
        /\ UNCHANGED <<othersVars, used, pending, leaked, jobs, keyOf, dailyVars, redisUp, day, raced>>
    BY DEF Full, At, upVars, storeVars, othersVars
  <1>1. Takes /\ Fine(subs[s])
    BY <1>0, Submitted DEF Takes
  <1>2. CASE Batch(s)
    <2>1. Fine([subs[s] EXCEPT !.pc = "undo"])
      BY <1>0, <1>1, <1>2, UndoIsFine DEF Batch
    <2> QED BY <1>0, <1>1, <1>2, <2>1, Submitted, GoStep DEF Steps
  <1>3. CASE ~Batch(s)
    <2>1. Books(s, Idle)
      BY <1>0, <1>1, <1>3, Submitted, Shares DEF Books, Fine, Batch
    <2> QED BY <1>0, <1>1, <1>3, <2>1, Leaves
  <1> QED BY <1>2, <1>3

LEMMA NotBusyStep ==
  ASSUME FileInv, StoreTypes, SubTypes, NEW s \in Subs, NotBusy(s)
  PROVE  \E r : Step(s, r)
  <1>0. /\ subs[s] # Idle /\ subs[s].pc = "busy" /\ Go(s, "daily")
        /\ UNCHANGED <<othersVars, used, pending, leaked, jobs, keyOf, dailyVars, redisUp, day, raced>>
    BY DEF NotBusy, At, upVars, storeVars, othersVars
  <1>1. Takes /\ Fine([subs[s] EXCEPT !.pc = "daily"])
    BY <1>0, Submitted, Edited DEF Takes, Fine, Steps
  <1> QED BY <1>0, <1>1, Submitted, GoStep DEF Steps

LEMMA RefusedStep ==
  ASSUME FileInv, StoreTypes, SubTypes, NEW s \in Subs, Refused(s)
  PROVE  \E r : Step(s, r)
  <1>0. /\ subs[s] # Idle /\ subs[s].pc = "policy" /\ Go(s, "undo")
        /\ UNCHANGED <<othersVars, used, pending, leaked, jobs, keyOf, dailyVars, redisUp, day, raced>>
    BY DEF Refused, At, upVars, storeVars, othersVars
  <1>1. Takes /\ Fine([subs[s] EXCEPT !.pc = "undo"])
    BY <1>0, Submitted, UndoIsFine DEF Takes
  <1> QED BY <1>0, <1>1, Submitted, GoStep DEF Steps

LEMMA BeginStep ==
  ASSUME FileInv, StoreTypes, SubTypes, NEW s \in Subs, Begin(s)
  PROVE  \E r : Step(s, r)
  <1>0. /\ subs[s] # Idle /\ subs[s].pc = "policy" /\ subs[s].src = "batch" /\ Go(s, "room")
        /\ UNCHANGED <<othersVars, used, pending, leaked, jobs, keyOf, dailyVars, redisUp, day, raced>>
    BY DEF Begin, Batch, At, upVars, storeVars, othersVars
  <1>1. Takes /\ subs[s] \in Submissions /\ Fine(subs[s])
    BY <1>0, Submitted DEF Takes
  <1>2. Fine([subs[s] EXCEPT !.pc = "room"])
    BY <1>0, <1>1, Edited, FineOn DEF Steps
  <1> QED BY <1>0, <1>1, <1>2, Submitted, GoStep DEF Steps

\* Storage is reserved where there is room.
LEMMA HoldStep ==
  ASSUME FileInv, StoreTypes, SubTypes, NEW s \in Subs, Fits(s),
         NEW p \in {"busy", "undo"}, Hold(s, p), p = "undo" <=> Batch(s),
         UNCHANGED <<othersVars, used, leaked, jobs, keyOf, dailyVars, redisUp, day, raced>>
  PROVE  \E r : Step(s, r)
  <1> DEFINE x == subs[s]
             r == [x EXCEPT !.pc = p, !.held = @ + x.size]
  <1>0. /\ x # Idle /\ x.pc = "reserve" /\ (x.size > 0 => Room(x.size))
        /\ pending' = pending + x.size
    BY DEF Fits, At, Hold
  <1>1. x \in Submissions /\ Fine(x) /\ x.held \in Nat /\ x.size \in Nat /\ x.made \in Nat
    BY <1>0, Submitted, Numbers DEF Submissions
  <1>2. subs' = [subs EXCEPT ![s] = r]
    BY DEF Hold, SubTypes
  <1>3. /\ r \in Submissions /\ r.pc = p /\ r.src = x.src /\ r.u = x.u /\ r.key = x.key
        /\ r.held = x.held + x.size /\ r.where = x.where /\ r.day = x.day
        /\ r.stored = x.stored /\ r.made = x.made
    <2>1. p \in Steps /\ x.held + x.size \in Nat
      BY <1>1 DEF Steps
    <2> QED BY <1>1, <2>1 DEF Submissions
  <1> HIDE DEF r
  <1>4. Fine(r)
    BY <1>0, <1>1, <1>3 DEF Fine, Batch
  <1>5. Takes
    BY <1>0, <1>1, Submitted DEF Takes, Room
  <1>6. /\ r.pc # "body" /\ x.pc # "body" /\ x.pc # "queue" /\ r.made >= x.made
        /\ pending' \in Nat /\ pending' - r.held = pending - x.held
        /\ used' \in Nat /\ used' >= used
    BY <1>0, <1>1, <1>3, Submitted
  <1> QED BY <1>0, <1>2, <1>3, <1>4, <1>5, <1>6, GoesOn

LEMMA ReserveStep ==
  ASSUME FileInv, StoreTypes, SubTypes, NEW s \in Subs, Reserve(s)
  PROVE  \E r : Step(s, r)
  BY HoldStep DEF Reserve

LEMMA BadItemStep ==
  ASSUME FileInv, StoreTypes, SubTypes, NEW s \in Subs, BadItem(s)
  PROVE  \E r : Step(s, r)
  BY HoldStep DEF BadItem

LEMMA BusyStep ==
  ASSUME FileInv, StoreTypes, SubTypes, NEW s \in Subs, Busy(s) \/ DailyFull(s)
  PROVE  \E r : Step(s, r)
  BY Releases DEF Busy, DailyFull, At

LEMMA QueuedStep ==
  ASSUME FileInv, StoreTypes, SubTypes, NEW s \in Subs, Queued(s)
  PROVE  \E r : Step(s, r)
  <1> DEFINE x == subs[s]
  <1>0. /\ x # Idle /\ x.pc = "queue"
        /\ UNCHANGED <<othersVars, used, leaked, jobs, keyOf, dailyVars, redisUp, day, raced>>
    BY DEF Queued, At
  <1>1. x \in Submissions /\ Fine(x)
    BY <1>0, Submitted
  <1>2. CASE Batch(s) /\ x.stored < Items
    <2> DEFINE r == [x EXCEPT !.pc = "room", !.made = @ + 1]
    <2>1. subs' = [subs EXCEPT ![s] = r] /\ pending' = pending
      BY <1>2 DEF Queued, SubTypes
    <2>2. /\ x.made \in 0 .. Items /\ x.stored = x.made + 1 /\ x.made + 1 \in 0 .. Items
          /\ x.held \in Nat
      BY <1>0, <1>1, <1>2, Numbers DEF Submissions, Fine, Batch
    <2>3. /\ r \in Submissions /\ r.pc = "room" /\ r.src = x.src /\ r.u = x.u /\ r.key = x.key
          /\ r.held = x.held /\ r.where = x.where /\ r.day = x.day
          /\ r.stored = x.stored /\ r.made = x.made + 1
      BY <1>1, <2>2 DEF Submissions, Steps
    <2> HIDE DEF r
    <2>4. Fine(r)
      BY <1>0, <1>1, <1>2, <2>2, <2>3 DEF Fine, Batch
    <2>5. /\ Takes /\ r.pc # "body" /\ x.pc # "body" /\ r.src = "batch" /\ r.made >= x.made
          /\ pending' \in Nat /\ pending' - r.held = pending - x.held
          /\ used' \in Nat /\ used' >= used
      BY <1>0, <1>2, <2>1, <2>2, <2>3, Submitted, Numbers DEF Takes, Batch
    <2> QED BY <1>0, <2>1, <2>3, <2>4, <2>5, GoesOn
  <1>3. CASE ~(Batch(s) /\ x.stored < Items)
    BY <1>0, <1>3, Releases DEF Queued
  <1> QED BY <1>2, <1>3

LEMMA NotQueuedStep ==
  ASSUME FileInv, StoreTypes, SubTypes, NEW s \in Subs, NotQueued(s)
  PROVE  \E r : Step(s, r)
  <1>0. /\ subs[s] # Idle /\ subs[s].pc = "queue"
        /\ UNCHANGED <<othersVars, used, leaked, jobs, keyOf, dailyVars, redisUp, day, raced>>
    BY DEF NotQueued, At
  <1>1. CASE Batch(s)
    <2>1. Go(s, "undo") /\ pending' = pending
      BY <1>1 DEF NotQueued
    <2>2. Takes /\ Fine([subs[s] EXCEPT !.pc = "undo"]) /\ used' \in Nat /\ used' >= used
      BY <1>0, <2>1, Submitted, UndoIsFine DEF Takes
    <2> QED BY <1>0, <1>1, <2>1, <2>2, GoStep DEF Steps, Batch
  <1>2. CASE ~Batch(s)
    BY <1>0, <1>2, Releases DEF NotQueued
  <1> QED BY <1>1, <1>2

\* The steps that change the days and the jobs.

LEMMA DailyStep ==
  ASSUME FileInv, StoreTypes, SubTypes, NEW s \in Subs, Daily(s)
  PROVE  \E r : Step(s, r)
  <1> DEFINE x == subs[s]
             w == IF redisUp THEN "remote" ELSE "local"
             r == [x EXCEPT !.pc = "policy", !.day = day, !.where = w]
  <1>0. /\ x # Idle /\ x.pc = "daily" /\ subs' = [subs EXCEPT ![s] = r]
        /\ UNCHANGED <<othersVars, used, pending, leaked, jobs, keyOf, unpaid, crossed, redisUp, day, raced>>
    BY DEF Daily, At, upVars, storeVars, othersVars, SubTypes
  <1>1. x \in Submissions /\ Fine(x) /\ x.held \in Nat /\ x.stored \in Nat
    BY <1>0, Submitted, Numbers DEF Submissions
  <1>2. day \in Days /\ w \in {"local", "remote"}
    BY DEF SubTypes
  <1> HIDE DEF w
  <1>3. /\ r \in Submissions /\ r.pc = "policy" /\ r.src = x.src /\ r.u = x.u /\ r.key = x.key
        /\ r.held = x.held /\ r.where = w /\ r.day = day /\ r.stored = x.stored /\ r.made = x.made
    BY <1>1, <1>2 DEF Submissions, Steps
  <1> HIDE DEF r
  <1>4. Fine(r) /\ x.where = "none" /\ (x.src = "batch" => x.stored = 0 /\ x.made = 0)
    BY <1>0, <1>1, <1>2, <1>3 DEF Fine
  <1>5. Moves(s, r) /\ Books(s, r) /\ Takes
    BY <1>0, <1>1, <1>3, <1>4, Submitted, Shares DEF Moves, Books, Takes
  <1>6. /\ r # Idle
        /\ Due(r, day) = Count(s) /\ Back(r, day) = Count(s)
        /\ \A d \in Days \ {day} : Due(r, d) = 0 /\ Back(r, d) = 0
    BY <1>2, <1>3, <1>4, Shares, Numbers DEF Due, Back, Reserved, Count, Batch
  <1>7. Reserves(s, r)
    BY <1>0, <1>3, <1>4, <1>6 DEF Reserves, Daily, w
  <1> QED BY <1>0, <1>5, <1>7, Submitted DEF Step

LEMMA StoreSteps ==
  ASSUME FileInv, StoreTypes, SubTypes, NEW s \in Subs, Store(s) \/ StoreItem(s)
  PROVE  \E r : Step(s, r)
  <1> DEFINE x == subs[s]
             single == [x EXCEPT !.pc = "queue"]
             item == [x EXCEPT !.pc = "queue", !.held = @ + x.size, !.stored = @ + 1]
             more == IF x.src = "batch" THEN x.size ELSE 0
  <1>0. /\ x # Idle /\ Put(s) /\ PutKey(s)
        /\ x.pc = (IF x.src = "batch" THEN "reserve" ELSE "policy")
        /\ x.src = "batch" /\ x.size > 0 => Room(x.size)
        /\ subs' = [subs EXCEPT ![s] = IF x.src = "batch" THEN item ELSE single]
        /\ pending' = pending + more
        /\ UNCHANGED <<othersVars, used, leaked, local, remote, unpaid, mixed, redisUp, day, raced>>
    <2>1. x # Idle => pending \in Nat /\ (x.src = "batch" => x.key = NoKey)
      BY Submitted DEF Fine
    <2>2. CASE Store(s)
      BY <2>1, <2>2 DEF Store, Batch, At, Go, SubTypes, upVars, storeVars, othersVars
    <2>3. CASE StoreItem(s)
      BY <2>1, <2>3 DEF StoreItem, Fits, Batch, At, SubTypes, PutKey
    <2> QED BY <2>2, <2>3
  <1>1. x \in Submissions /\ Fine(x) /\ x.held \in Nat /\ x.size \in Nat
        /\ x.stored \in Nat /\ x.made \in Nat
    BY <1>0, Submitted, Numbers DEF Submissions
  <1>2. PICK r : r = IF x.src = "batch" THEN item ELSE single
    OBVIOUS
  <1>3. /\ r \in Submissions /\ r.pc = "queue" /\ r.src = x.src /\ r.u = x.u /\ r.key = x.key
        /\ r.held = x.held + more /\ r.where = x.where /\ r.day = x.day
        /\ r.stored = (IF x.src = "batch" THEN x.stored + 1 ELSE x.stored) /\ r.made = x.made
    <2>1. CASE x.src = "batch"
      <3>1. x.stored + 1 \in 0 .. Items /\ x.held + x.size \in Nat
        BY <1>0, <1>1, <2>1, Numbers DEF Fine
      <3> QED BY <1>1, <1>2, <2>1, <3>1 DEF Submissions, Steps
    <2>2. CASE x.src # "batch"
      <3>1. r = single /\ more = 0 /\ x.held + 0 = x.held
        BY <1>1, <1>2, <2>2
      <3>2. /\ single \in Submissions /\ single.pc = "queue" /\ single.src = x.src
            /\ single.u = x.u /\ single.key = x.key /\ single.held = x.held
            /\ single.where = x.where /\ single.day = x.day
            /\ single.stored = x.stored /\ single.made = x.made
        BY <1>1, Edited DEF Steps
      <3> HIDE DEF single, more
      <3> QED BY <2>2, <3>1, <3>2
    <2> QED BY <2>1, <2>2
  <1>4. more \in Nat /\ subs' = [subs EXCEPT ![s] = r]
    BY <1>0, <1>1, <1>2
  <1> HIDE DEF single, item
  <1>5. Fine(r)
    BY <1>0, <1>1, <1>3 DEF Fine
  <1>6. Books(s, r) /\ Takes
    BY <1>0, <1>1, <1>3, <1>4, Submitted, Shares, Numbers DEF Books, Takes, Room
  <1>7. Moves(s, r)
    BY <1>0, <1>1, <1>3, <1>4, <1>5, Submitted, Shares DEF Moves
  <1>8. Stores(s, r)
    <2>1. /\ x # Idle /\ r # Idle /\ x.where # "none" /\ x.day \in Days
          /\ x.src = "batch" => x.stored < Items
      BY <1>0, <1>1, <1>3, Submitted, Shares DEF Fine
    <2>2. /\ Due(r, x.day) = Due(x, x.day) - 1
          /\ \A d \in Days : Due(r, d) <= Due(x, d) /\ Back(r, d) <= Back(x, d)
      BY <1>0, <1>1, <1>3, <2>1, Numbers DEF Due, Back, Reserved
    <2> QED BY <1>0, <1>3, <2>1, <2>2 DEF Stores
  <1> QED BY <1>0, <1>6, <1>7, <1>8, Submitted DEF Step

LEMMA UndoStep ==
  ASSUME FileInv, StoreTypes, SubTypes, NEW s \in Subs, Undo(s)
  PROVE  \E r : Step(s, r)
  <1> DEFINE x == subs[s]
  <1>0. /\ x # Idle /\ x.pc = "undo" /\ ReleaseStorage(s) /\ Leave(s)
        /\ UNCHANGED <<othersVars, used, leaked, jobs, keyOf, mixed, redisUp, day, raced>>
    BY DEF Undo, At
  <1>1. x \in Submissions /\ Fine(x) /\ x.where # "none"
    BY <1>0, Submitted DEF Fine
  <1>2. Moves(s, Idle) /\ Books(s, Idle)
    BY <1>0, <1>1, Shares DEF Moves, Books, Leave, ReleaseStorage
  <1>3. pending' \in Nat /\ pending' <= pending
    BY <1>0, Submitted, Lessens DEF ReleaseStorage
  <1>4. Takes
    BY <1>0, <1>3, Submitted DEF Takes
  <1>5. GivesBack(s, Idle)
    BY <1>0, <1>1 DEF GivesBack, Undo
  <1> QED BY <1>0, <1>2, <1>4, <1>5, Submitted DEF Step

LEMMA HandleStep ==
  ASSUME FileInv, StoreTypes, SubTypes, NEW s \in Subs, Handle(s)
  PROVE  \E r : Step(s, r)
  BY BodyStep, HasRoomStep, FullStep, ReserveStep, BadExtensionStep, NotBusyStep, BusyStep, DailyStep,
     RefusedStep, EscapesStep, StoreSteps, BeginStep, BadItemStep, QueuedStep, NotQueuedStep, UndoStep
     DEF Handle

-----------------------------------------------------------------------------
\* Types.

TypeInv == FileInv /\ StoreTypes /\ SubTypes

LEMMA InitTypeInv == SubInit => TypeInv
  <1> SUFFICES ASSUME SubInit PROVE TypeInv
    OBVIOUS
  <1>1. FileInv
    BY InitFileInv DEF SubInit
  <1>2. StoreTypes
    BY FS_EmptySet, Numbers DEF SubInit, UpInit, StoreTypes
  <1>3. SubTypes
    <2>1. subs \in [Subs -> {Idle} \cup Submissions] /\ \A s \in Subs : subs[s] = Idle
      BY DEF SubInit
    <2>2. local \in [Days -> Nat] /\ remote \in [Days -> 0 .. Limit] /\ day \in Days
      BY Numbers DEF SubInit, Days
    <2>3. IsFiniteSet(jobs) /\ keyOf \in [Keys -> {NoJob} \cup {j.id : j \in jobs}]
      BY FS_EmptySet DEF SubInit
    <2>4. leaked \in Nat /\ unpaid \in Nat /\ raced \subseteq Keys
          /\ crossed \in BOOLEAN /\ mixed \in BOOLEAN
      BY DEF SubInit
    <2> QED BY <2>1, <2>2, <2>3, <2>4 DEF SubTypes
  <1> QED BY <1>1, <1>2, <1>3 DEF TypeInv

\* A job is stored.
LEMMA PutTypes ==
  ASSUME SubTypes, NEW s \in Subs, Put(s)
  PROVE  /\ IsFiniteSet(jobs') /\ crossed' \in BOOLEAN
         /\ PutKey(s) /\ subs[s] \in Submissions
              => keyOf' \in [Keys -> {NoJob} \cup {j.id : j \in jobs'}]
         /\ keyOf' = keyOf => keyOf' \in [Keys -> {NoJob} \cup {j.id : j \in jobs'}]
         /\ \A d : /\ IsFiniteSet(JobsOn(d)) /\ IsFiniteSet(JobsOn(d)')
                   /\ Cardinality(JobsOn(d)) \in Nat /\ Cardinality(JobsOn(d)') \in Nat
                   /\ d # day => JobsOn(d)' = JobsOn(d)
                   /\ Cardinality(JobsOn(d)') <= Cardinality(JobsOn(d)) + 1
  <1> DEFINE j == [id |-> Cardinality(jobs) + 1, day |-> day, key |-> subs[s].key,
                   src |-> subs[s].src, u |-> subs[s].u]
  <1>1. jobs' = jobs \cup {j} /\ IsFiniteSet(jobs) /\ crossed' \in BOOLEAN
    BY DEF Put, SubTypes
  <1>2. IsFiniteSet(jobs')
    BY <1>1, FS_AddElement
  <1>3. \A k \in {NoJob} \cup {i.id : i \in jobs} : k \in {NoJob} \cup {i.id : i \in jobs'}
    BY <1>1
  <1>4. Cardinality(jobs) + 1 \in {i.id : i \in jobs'}
    <2>1. j \in jobs' /\ j.id = Cardinality(jobs) + 1
      BY <1>1
    <2> HIDE DEF j
    <2> QED BY <2>1
  <1>5. keyOf \in [Keys -> {NoJob} \cup {i.id : i \in jobs}]
    BY DEF SubTypes
  <1>6. ASSUME PutKey(s), subs[s] \in Submissions
        PROVE  keyOf' \in [Keys -> {NoJob} \cup {i.id : i \in jobs'}]
    BY <1>3, <1>4, <1>5, <1>6 DEF PutKey, Submissions
  <1>7. keyOf' = keyOf => keyOf' \in [Keys -> {NoJob} \cup {i.id : i \in jobs'}]
    BY <1>3, <1>5
  <1>8. ASSUME NEW d
        PROVE  /\ IsFiniteSet(JobsOn(d)) /\ IsFiniteSet(JobsOn(d)')
               /\ Cardinality(JobsOn(d)) \in Nat /\ Cardinality(JobsOn(d)') \in Nat
               /\ d # day => JobsOn(d)' = JobsOn(d)
               /\ Cardinality(JobsOn(d)') <= Cardinality(JobsOn(d)) + 1
    <2>1. JobsOn(d) \in SUBSET jobs /\ JobsOn(d)' \in SUBSET jobs'
      BY DEF JobsOn
    <2>2. IsFiniteSet(JobsOn(d)) /\ IsFiniteSet(JobsOn(d)')
      BY <1>1, <1>2, <2>1, FS_Subset
    <2>3. JobsOn(d)' = JobsOn(d) \/ (JobsOn(d)' = JobsOn(d) \cup {j} /\ d = day)
      BY <1>1 DEF JobsOn
    <2>4. Cardinality(JobsOn(d)) \in Nat /\ Cardinality(JobsOn(d)') \in Nat
      BY <2>2, FS_CardinalityType
    <2>5. Cardinality(JobsOn(d) \cup {j}) =
            IF j \in JobsOn(d) THEN Cardinality(JobsOn(d)) ELSE Cardinality(JobsOn(d)) + 1
      BY <2>2, FS_AddElement
    <2>6. CASE JobsOn(d)' = JobsOn(d)
      BY <2>2, <2>4, <2>6
    <2>7. CASE JobsOn(d)' = JobsOn(d) \cup {j} /\ d = day
      <3>1. Cardinality(JobsOn(d)') = Cardinality(JobsOn(d) \cup {j})
        BY <2>7
      <3> QED BY <2>2, <2>4, <2>5, <2>7, <3>1
    <2> QED BY <2>3, <2>6, <2>7
  <1> QED BY <1>1, <1>2, <1>6, <1>7, <1>8

LEMMA StepTypes ==
  ASSUME TypeInv, NEW s \in Subs, NEW r, Step(s, r)
  PROVE  TypeInv'
  <1> USE DEF TypeInv
  <1>1. FileInv'
    BY StutterKeeps DEF Step, othersVars, fileVars
  <1>2. pending' \in Nat /\ leaked' \in Nat
    <2>1. Moves(s, r) /\ Books(s, r)
      BY DEF Step
    <2>2. subs[s].held \in Nat /\ pending \in Nat /\ leaked \in Nat
      BY <2>1, Shares DEF Moves, StoreTypes, SubTypes
    <2> QED BY <2>1, <2>2, Lessens DEF Books
  <1>3. StoreTypes'
    <2>1. /\ used' \in Nat /\ used' >= used
          /\ UNCHANGED <<charged, doomed, old, gone, lost, torn, crashes>>
      BY DEF Step, othersVars, fileVars, history
    <2>2. Cardinality(charged) \in Nat
      BY FS_CardinalityType DEF StoreTypes
    <2>3. N * Cardinality(charged) \in Nat
      BY <2>2, Numbers
    <2>4. used' >= N * Cardinality(charged)
      BY <2>1, <2>3 DEF StoreTypes
    <2> QED BY <1>2, <2>1, <2>4 DEF StoreTypes
  <1>4. /\ subs' \in [Subs -> {Idle} \cup Submissions]
        /\ \A t \in Subs : subs'[t] # Idle => Fine(subs'[t])
    BY DEF Step, Moves, SubTypes
  <1>5. day' = day /\ day \in Days /\ raced' = raced
    BY DEF Step, SubTypes
  <1>6. SubTypes'
    <2>1. CASE Quiet(s, r)
      BY <1>2, <1>4, <1>5, <2>1 DEF Quiet, SubTypes
    <2>2. CASE Reserves(s, r)
      <3>1. Count(s) \in Nat /\ remote \in [Days -> 0 .. Limit] /\ local \in [Days -> Nat]
        BY Numbers DEF Count, SubTypes
      <3>2. redisUp => remote[day] + Count(s) \in 0 .. Limit
        BY <1>5, <2>2, <3>1, Numbers DEF Reserves, Today
      <3>3. remote' \in [Days -> 0 .. Limit] /\ local' \in [Days -> Nat]
        BY <1>5, <2>2, <3>1, <3>2 DEF Reserves
      <3> QED BY <1>2, <1>4, <1>5, <2>2, <3>3 DEF Reserves, SubTypes
    <2>3. CASE Stores(s, r)
      BY <1>2, <1>4, <1>5, <2>3, PutTypes DEF Stores, SubTypes, Step, Moves
    <2>4. CASE GivesBack(s, r)
      <3> DEFINE back == IF Batch(s) THEN Items - subs[s].made ELSE 1
      <3>1. subs[s] \in Submissions /\ Fine(subs[s]) /\ subs[s].pc = "undo"
        BY <2>4, Shares DEF GivesBack, Step, Moves, SubTypes
      <3>2. back \in Nat /\ subs[s].stored - subs[s].made \in Nat
        BY <3>1, Numbers DEF Submissions, Fine, Batch
      <3>3. /\ \A n \in Nat : Less(n, back) \in Nat
            /\ \A n \in 0 .. Limit : Less(n, back) \in 0 .. Limit
        BY <3>2, Numbers DEF Less
      <3>4. /\ local' = IF subs[s].where # "local" THEN local
                        ELSE [local EXCEPT ![day] = Less(@, back)]
            /\ remote' = IF subs[s].where # "remote" \/ ~redisUp THEN remote
                         ELSE [remote EXCEPT ![day] = Less(@, back)]
            /\ unpaid' = unpaid + (subs[s].stored - subs[s].made)
            /\ crossed' = (crossed \/ subs[s].day # day)
            /\ UNCHANGED <<jobs, keyOf, mixed>>
        BY <2>4 DEF GivesBack
      <3> HIDE DEF back
      <3>5. remote \in [Days -> 0 .. Limit] /\ local \in [Days -> Nat] /\ unpaid \in Nat
        BY DEF SubTypes
      <3>6. remote' \in [Days -> 0 .. Limit] /\ local' \in [Days -> Nat] /\ unpaid' \in Nat
        BY <1>5, <3>2, <3>3, <3>4, <3>5
      <3> QED BY <1>2, <1>4, <1>5, <3>4, <3>6 DEF SubTypes
    <2> QED BY <2>1, <2>2, <2>3, <2>4 DEF Step
  <1> QED BY <1>1, <1>3, <1>6

\* A submission that arrives.
Arrives(s) == \E src \in Sources, u \in Uploads \cup {Free}, key \in Keys \cup {NoKey} :
                 /\ Arrive(s, src, u, key)
                 /\ src = "upload" => u \in Uploads

LEMMA ArriveTypes ==
  ASSUME TypeInv, NEW s \in Subs, Arrives(s)
  PROVE  TypeInv' /\ UNCHANGED upVars
  <1> USE DEF TypeInv
  <1> PICK src \in Sources, u \in Uploads \cup {Free}, key \in Keys \cup {NoKey} :
         /\ Arrive(s, src, u, key)
         /\ src = "upload" => u \in Uploads
    BY DEF Arrives
  <1>1. UNCHANGED upVars /\ FileInv'
    BY StutterKeeps DEF Arrive, upVars, storeVars, fileVars
  <1>2. StoreTypes'
    BY <1>1 DEF StoreTypes, upVars, storeVars, fileVars, history
  <1>3. Request(src, u, key) \in Submissions
    BY Numbers DEF Request, Submissions, Steps, Days
  <1>4. Fine(Request(src, u, key))
    BY Numbers DEF Request, Fine, Arrive
  <1>5. SubTypes'
    BY <1>3, <1>4 DEF Arrive, SubTypes, dailyVars
  <1> QED BY <1>1, <1>2, <1>5

\* Around the requests, and the end of the process.
Around == Midnight \/ Toggle \/ Drain \/ UNCHANGED inVars
Ends == Dead \/ \E s \in Subs : DieKeyless(s)

LEMMA AroundTypes ==
  ASSUME TypeInv, Around
  PROVE  TypeInv' /\ UNCHANGED <<upVars, subs, jobs, keyOf, dailyVars, leaked, raced>>
  <1> USE DEF TypeInv
  <1>1. UNCHANGED <<upVars, subs, jobs, keyOf, dailyVars, leaked, raced>>
    BY DEF Around, Midnight, Toggle, Drain, inVars, subVars
  <1>2. FileInv'
    BY <1>1, StutterKeeps DEF upVars, storeVars, fileVars
  <1>3. StoreTypes'
    BY <1>1 DEF StoreTypes, upVars, storeVars, fileVars, history
  <1>4. day' \in Days
    <2>1. setup.days \in 0 .. 2 /\ day \in 0 .. 2
      BY Numbers DEF SubTypes, FileInv, FileTypes, Days
    <2>2. day' = day \/ (day < setup.days /\ day' = day + 1)
      BY DEF Around, Midnight, Toggle, Drain, inVars, subVars
    <2> QED BY <2>1, <2>2 DEF Days
  <1>5. SubTypes'
    BY <1>1, <1>4 DEF SubTypes, dailyVars
  <1> QED BY <1>1, <1>2, <1>3, <1>5

LEMMA EndsTypes ==
  ASSUME TypeInv, Ends
  PROVE  /\ TypeInv' /\ Dies /\ Fresh
         /\ pending' = 0 /\ setup' = setup /\ Takes
  <1> USE DEF TypeInv
  <1>1. Dies /\ Fresh
    BY DEF Ends, Dead, DieKeyless, Dies
  <1>2. FileInv' /\ StoreTypes' /\ pending' = 0 /\ setup' = setup /\ Takes
    BY <1>1, DiesKeeps, DiesTypes
  <1>3. /\ UNCHANGED <<keyOf, remote, mixed, day>>
        /\ subs' = [s \in Subs |-> Idle] /\ local' = [d \in Days |-> 0] /\ leaked' = 0
    BY <1>1 DEF Fresh
  <1>4. SubTypes'
    <2>1. CASE Dead
      BY <1>3, <2>1 DEF Dead, SubTypes
    <2>2. ASSUME NEW s \in Subs, DieKeyless(s)
          PROVE  SubTypes'
      <3>1. subs[s] \in Submissions /\ subs[s].key \in Keys
        BY <2>2 DEF DieKeyless, At, SubTypes, Submissions
      <3>2. Put(s) /\ raced' = raced \cup {subs[s].key} /\ unpaid' = unpaid
        BY <2>2 DEF DieKeyless
      <3> QED BY <1>3, <3>1, <3>2, PutTypes DEF SubTypes
    <2> QED BY <2>1, <2>2 DEF Ends
  <1> QED BY <1>1, <1>2, <1>4

\* Each step is one of these.
LEMMA Kinds ==
  ASSUME TypeInv, [InNext]_inVars
  PROVE  \/ UpNext /\ UNCHANGED subVars
         \/ \E s \in Subs : Arrives(s)
         \/ \E s \in Subs : \E r : Step(s, r)
         \/ Around
         \/ Ends
  <1>1. setup.uploads \subseteq Uploads /\ setup.sources \subseteq Sources \ {"upload"}
    BY Numbers DEF TypeInv, FileInv, FileTypes, Sources
  <1>2. ASSUME NEW s \in Subs, Submit(s) \/ Name(s)
        PROVE  Arrives(s)
    BY <1>1, <1>2 DEF Submit, Name, Arrives, Sources
  <1>3. ASSUME NEW s \in Subs, Handle(s)
        PROVE  \E r : Step(s, r)
    BY <1>3, HandleStep DEF TypeInv
  <1> QED BY <1>2, <1>3 DEF InNext, Around, Ends

LEMMA TypeInvKept ==
  ASSUME TypeInv, [InNext]_inVars
  PROVE  TypeInv' /\ Takes
  <1>1. CASE UpNext /\ UNCHANGED subVars
    BY <1>1, UpNextKeeps, UpNextTypes DEF TypeInv, SubTypes, subVars, dailyVars
  <1>2. ASSUME UNCHANGED upVars
        PROVE  Takes
    BY <1>2 DEF Takes, upVars, storeVars, TypeInv, StoreTypes
  <1>3. CASE \E s \in Subs : Arrives(s)
    BY <1>2, <1>3, ArriveTypes
  <1>4. CASE \E s \in Subs : \E r : Step(s, r)
    BY <1>4, StepTypes DEF Step
  <1>5. CASE Around
    BY <1>2, <1>5, AroundTypes
  <1>6. CASE Ends
    BY <1>6, EndsTypes
  <1> QED BY <1>1, <1>3, <1>4, <1>5, <1>6, Kinds

LEMMA TypeInvAlways == InSpec => []TypeInv
  <1>1. TypeInv /\ [InNext]_inVars => TypeInv'
    BY TypeInvKept
  <1> QED BY <1>1, InitTypeInv, PTL DEF InSpec

-----------------------------------------------------------------------------
\* All values stay of their types, whatever uploads and submissions do to each other
\* and whenever the process dies: in particular no counter of a quota goes below zero,
\* no daily counter in Redis above the limit, and no batch makes more jobs than it
\* has items (security/quotas.py, api/routes/jobs_submit.py, web/routes/uploads.py).
THEOREM IntakeTypes == InSpec => []InTypeOK
  <1>1. TypeInv => UpTypeOK
    BY DEF TypeInv, FileInv, FileTypes, StoreTypes, UpTypeOK, Chunk, Completion
  <1>2. TypeInv => InTypeOK
    BY <1>1 DEF TypeInv, SubTypes, InTypeOK
  <1> QED BY <1>2, TypeInvAlways, PTL

\* Next to submissions that take up the uploads, too: a completed upload whose checksum
\* was announced is the announced file (upload_complete in web/routes/uploads.py) ...
THEOREM AnnouncedFiles == InSpec => []FinalIsAnnounced
  <1>1. TypeInv => FinalIsAnnounced
    BY FileInvImplies DEF TypeInv
  <1> QED BY <1>1, TypeInvAlways, PTL

\* ... the store and the part file agree on every chunk (upload_chunk) ...
THEOREM ReceivedChunks == InSpec => []PartIsReceived
  <1>1. TypeInv => PartIsReceived
    BY FileInvImplies DEF TypeInv
  <1> QED BY <1>1, TypeInvAlways, PTL

\* ... and no completed upload has bytes that nobody sent.
THEOREM WholeFiles == InSpec => []FinalIsWhole
  <1>1. TypeInv => FinalIsWhole
    BY FileInvImplies DEF TypeInv
  <1> QED BY <1>1, TypeInvAlways, PTL

\* Uploads and submissions never take more than the storage quota of the user, however
\* many are under way: every check of the quota is in one step with the reservation or
\* the charge it is made for (check_upload_bytes, reserve_storage_bytes).
THEOREM QuotaKept == InSpec => IntakeRespectsCap
  <1>1. TypeInv /\ [InNext]_inVars
          => [used' + pending' > used + pending => used' + pending' <= setup.bytes]_<<used, pending>>
    BY TypeInvKept DEF Takes
  <1> QED BY <1>1, TypeInvAlways, PTL DEF InSpec, IntakeRespectsCap

-----------------------------------------------------------------------------
\* The reservations.

HeldBy(f) == [s \in Subs |-> Holds(f[s])]
Held == HeldBy(subs)
BooksOK == pending = leaked + Total(Held, Subs)

LEMMA HeldTypes ==
  ASSUME NEW f \in [Subs -> {Idle} \cup Submissions]
  PROVE  \A s \in Subs : HeldBy(f)[s] = Holds(f[s]) /\ Holds(f[s]) \in Nat
  BY Shares DEF HeldBy

LEMMA NothingHeld ==
  ASSUME NEW f, \A s \in Subs : f[s] = Idle
  PROVE  Total(HeldBy(f), Subs) = 0
  <1>1. \A s \in Subs : HeldBy(f)[s] = 0
    BY Shares DEF HeldBy
  <1>2. IsFiniteSet({}) /\ {} \in SUBSET Subs /\ IsFiniteSet(Subs)
    BY FS_EmptySet, SubmissionsAssumption
  <1>3. Total(HeldBy(f), Subs) = Total(HeldBy(f), {})
    BY <1>1, <1>2, TotalWithout
  <1>4. Total(HeldBy(f), {}) = 0
    BY <1>2, TotalSplit
  <1> QED BY <1>3, <1>4

LEMMA HeldMoves ==
  ASSUME NEW f \in [Subs -> {Idle} \cup Submissions], NEW s \in Subs,
         NEW r \in {Idle} \cup Submissions, NEW g, g = [f EXCEPT ![s] = r]
  PROVE  /\ Total(HeldBy(f), Subs) \in Nat /\ Total(HeldBy(g), Subs) \in Nat
         /\ Holds(f[s]) \in Nat /\ Holds(r) \in Nat
         /\ Holds(f[s]) <= Total(HeldBy(f), Subs)
         /\ Total(HeldBy(f), Subs) - Holds(f[s]) = Total(HeldBy(g), Subs) - Holds(r)
  <1>1. g \in [Subs -> {Idle} \cup Submissions] /\ g[s] = r
        /\ \A t \in Subs : t # s => g[t] = f[t]
    OBVIOUS
  <1>2. /\ \A t \in Subs : HeldBy(f)[t] = Holds(f[t]) /\ Holds(f[t]) \in Nat
        /\ \A t \in Subs : HeldBy(g)[t] = Holds(g[t]) /\ Holds(g[t]) \in Nat
    BY <1>1, HeldTypes
  <1>3. \A t \in Subs : /\ HeldBy(f)[t] \in Nat /\ HeldBy(g)[t] \in Nat
                        /\ t # s => HeldBy(f)[t] = HeldBy(g)[t]
    BY <1>1, <1>2
  <1>4. IsFiniteSet(Subs) /\ HeldBy(f)[s] = Holds(f[s]) /\ HeldBy(g)[s] = Holds(r)
    BY <1>1, <1>2, SubmissionsAssumption
  <1>5. PICK e, h : e = HeldBy(f) /\ h = HeldBy(g)
    OBVIOUS
  <1>6. /\ Total(e, Subs) \in Nat /\ Total(h, Subs) \in Nat /\ e[s] <= Total(e, Subs)
        /\ Total(e, Subs) - e[s] = Total(h, Subs) - h[s]
    <2>1. \A y \in Subs : e[y] \in Nat /\ h[y] \in Nat /\ (y # s => e[y] = h[y])
      BY <1>3, <1>5
    <2>2. IsFiniteSet(Subs)
      BY <1>4
    <2>3. ASSUME NEW y \in Subs PROVE e[y] \in Nat /\ h[y] \in Nat /\ (y # s => e[y] = h[y])
      BY <2>1
    <2>4. Total(e, Subs) \in Nat /\ Total(h, Subs) \in Nat
      BY <2>2, <2>3, TotalChange
    <2>5. e[s] <= Total(e, Subs)
      BY <2>2, <2>3, TotalChange
    <2>6. Total(e, Subs) - e[s] = Total(h, Subs) - h[s]
      BY <2>2, <2>3, TotalChange
    <2> QED BY <2>4, <2>5, <2>6
  <1> QED BY <1>1, <1>2, <1>4, <1>5, <1>6

LEMMA StepBooks ==
  ASSUME TypeInv, BooksOK, NEW s \in Subs, NEW r, Step(s, r)
  PROVE  BooksOK'
  <1>1. /\ subs \in [Subs -> {Idle} \cup Submissions]
        /\ r \in {Idle} \cup Submissions /\ subs' = [subs EXCEPT ![s] = r]
        /\ subs[s] \in Submissions
    BY DEF TypeInv, SubTypes, Step, Moves
  <1>2. PICK sum, held, new, hr :
          /\ sum = Total(HeldBy(subs), Subs) /\ held = Holds(subs[s])
          /\ new = Total(HeldBy(subs'), Subs) /\ hr = Holds(r)
    OBVIOUS
  <1>3. /\ sum \in Nat /\ held \in Nat /\ new \in Nat /\ hr \in Nat
        /\ held <= sum /\ sum - held = new - hr
    BY <1>1, <1>2, HeldMoves
  <1>4. held = subs[s].held
    BY <1>1, <1>2, Shares DEF Holds
  <1>5. leaked \in Nat /\ pending \in Nat /\ pending = leaked + sum
    BY <1>2 DEF TypeInv, SubTypes, StoreTypes, BooksOK, Held
  <1>6. pending' = leaked' + new
    <2>1. CASE pending' = Less(pending, held) /\ leaked' = leaked /\ hr = 0
      <3>1. pending' = pending - held
        BY <1>3, <1>5, <2>1, Lessens
      <3> QED BY <1>3, <1>5, <2>1, <3>1
    <2>2. CASE /\ pending' \in Nat /\ leaked' \in Nat
               /\ pending' - leaked' - hr = pending - leaked - held
      <3>1. PICK p, l : p = pending' /\ l = leaked'
        OBVIOUS
      <3>2. p \in Nat /\ l \in Nat /\ p - l - hr = pending - leaked - held
        BY <2>2, <3>1
      <3>3. p = l + new
        BY <1>3, <1>5, <3>2
      <3> QED BY <3>1, <3>3
    <2> QED BY <1>2, <1>4, <2>1, <2>2 DEF Step, Books
  <1> QED BY <1>2, <1>6 DEF BooksOK, Held

LEMMA BooksKept ==
  ASSUME TypeInv, BooksOK, [InNext]_inVars
  PROVE  BooksOK'
  <1>1. ASSUME UNCHANGED <<pending, leaked>>, \A s \in Subs : Holds(subs'[s]) = Holds(subs[s])
        PROVE  BooksOK'
    <2>1. Held' = Held
      BY <1>1 DEF Held, HeldBy
    <2> QED BY <1>1, <2>1 DEF BooksOK
  <1>2. CASE UpNext /\ UNCHANGED subVars
    BY <1>1, <1>2, UpNextTypes DEF TypeInv, subVars
  <1>3. ASSUME NEW s \in Subs, Arrives(s)
        PROVE  BooksOK'
    <2>1. pending' = pending /\ leaked' = leaked
      BY <1>3 DEF Arrives, Arrive, upVars
    <2>2. \A src, u, key : Holds(Request(src, u, key)) = 0
      BY DEF Holds, Request
    <2>3. subs \in [Subs -> {Idle} \cup Submissions]
      BY DEF TypeInv, SubTypes
    <2>4. \A t \in Subs : Holds(subs'[t]) = Holds(subs[t])
      BY <1>3, <2>2, <2>3, Shares DEF Arrives, Arrive
    <2> QED BY <1>1, <2>1, <2>4
  <1>4. CASE \E s \in Subs : \E r : Step(s, r)
    BY <1>4, StepBooks
  <1>5. CASE Around
    BY <1>1, <1>5, AroundTypes DEF upVars
  <1>6. CASE Ends
    <2>1. pending' = 0 /\ leaked' = 0 /\ \A s \in Subs : subs'[s] = Idle
      BY <1>6, EndsTypes DEF Fresh
    <2>2. Total(HeldBy(subs'), Subs) = 0
      BY <2>1, NothingHeld
    <2> QED BY <2>1, <2>2 DEF BooksOK, Held
  <1> QED BY <1>2, <1>3, <1>4, <1>5, <1>6, Kinds

\* The books of the model and of the property are the same sum.
LEMMA BooksSay == TypeInv /\ BooksOK => PendingIsHeld
  <1> SUFFICES ASSUME TypeInv, BooksOK PROVE PendingIsHeld
    OBVIOUS
  <1> DEFINE T == {s \in Subs : subs[s] # Idle}
  <1>1. subs \in [Subs -> {Idle} \cup Submissions] /\ IsFiniteSet(Subs)
    BY SubmissionsAssumption DEF TypeInv, SubTypes
  <1>2. \A s \in Subs : Held[s] \in Nat
    BY <1>1, HeldTypes DEF Held
  <1>3. \A s \in T : subs[s].held = Held[s]
    BY <1>1, Shares DEF Held, HeldBy, Holds
  <1>4. \A s \in Subs \ T : Held[s] = 0
    BY <1>1, Shares DEF Held, HeldBy
  <1>5. MapThenSumSet(LAMBDA s : subs[s].held, T) = FoldHeld(subs, T)
    BY DEF MapThenSumSet, MapThenFoldSet, FoldHeld, Pick
  <1>6. T \in SUBSET Subs
    OBVIOUS
  <1> HIDE DEF T
  <1>7. FoldHeld(subs, T) = Total(Held, Subs)
    BY <1>1, <1>2, <1>3, <1>4, <1>6, FoldIsTotal
  <1> QED BY <1>5, <1>7 DEF PendingIsHeld, BooksOK, T

\* Storage is reserved by requests under way or leaked on one of the known ways out;
\* no other way out of POST /api/jobs and /api/jobs/batch forgets a reservation, and
\* none releases one twice (StorageReservation in security/quotas.py).
THEOREM ReservationsHeld == InSpec => []PendingIsHeld
  <1>1. SubInit => BooksOK
    <2> SUFFICES ASSUME SubInit PROVE BooksOK
      OBVIOUS
    <2>1. pending = 0 /\ leaked = 0 /\ \A s \in Subs : subs[s] = Idle
      BY DEF SubInit, UpInit
    <2>2. Total(HeldBy(subs), Subs) = 0
      BY <2>1, NothingHeld
    <2> QED BY <2>1, <2>2 DEF BooksOK, Held
  <1>2. TypeInv /\ BooksOK /\ [InNext]_inVars => BooksOK'
    BY BooksKept
  <1>3. TypeInv /\ BooksOK => PendingIsHeld
    BY BooksSay
  <1> QED BY <1>1, <1>2, <1>3, TypeInvAlways, PTL DEF InSpec


-----------------------------------------------------------------------------
\* The idempotency keys.

Waits(s, k) == subs[s] # Idle /\ subs[s].key = k /\ subs[s].pc # "queue"

\* A key whose job is stored is in the table, nobody then is on the way to a second
\* job with it, and nobody else while one is on the way to the first.
KeyOK(k) ==
    /\ \A i \in jobs : i.key = k => keyOf[k] # NoJob
    /\ keyOf[k] # NoJob => \A s \in Subs : ~Waits(s, k)
    /\ \A s, t \in Subs : Waits(s, k) /\ Waits(t, k) => s = t
    /\ \A i, j \in jobs : i.key = k /\ j.key = k => i = j
KeysOK == \A k \in Keys \ raced : KeyOK(k)

LEMMA KeyAlone ==
  ASSUME NEW k, KeyOK(k), jobs' = jobs, keyOf' = keyOf,
         \A s \in Subs : Waits(s, k)' => Waits(s, k)
  PROVE  KeyOK(k)'
  <1> USE DEF KeyOK
  <1>1. /\ \A i \in jobs' : i.key = k => keyOf'[k] # NoJob
        /\ \A i, j \in jobs' : i.key = k /\ j.key = k => i = j
    OBVIOUS
  <1>2. keyOf'[k] # NoJob => \A s \in Subs : ~Waits(s, k)'
    OBVIOUS
  <1>3. \A s, t \in Subs : Waits(s, k)' /\ Waits(t, k)' => s = t
    OBVIOUS
  <1> QED BY <1>1, <1>2, <1>3

LEMMA ArriveKeys ==
  ASSUME TypeInv, KeysOK, NEW s \in Subs, Arrives(s)
  PROVE  KeysOK'
  <1> PICK src, u, key : Arrive(s, src, u, key)
    BY DEF Arrives
  <1>1. raced \subseteq raced' /\ jobs' = jobs /\ keyOf' = keyOf /\ subs[s] = Idle
        /\ subs \in [Subs -> {Idle} \cup Submissions]
    BY DEF Arrive, TypeInv, SubTypes
  <1> SUFFICES ASSUME NEW k \in Keys \ raced' PROVE KeyOK(k)'
    BY DEF KeysOK
  <1>2. KeyOK(k) /\ k # NoKey
    BY <1>1, SubmissionAssumption DEF KeysOK
  <1>3. CASE subs' = subs
    BY <1>1, <1>2, <1>3, KeyAlone DEF Waits
  <1>4. CASE subs' # subs
    <2>1. /\ subs' = [subs EXCEPT ![s] = Request(src, u, key)]
          /\ key # NoKey => keyOf[key] = NoJob
          /\ key # NoKey /\ Unstored(key) => key \in raced'
      BY <1>4 DEF Arrive
    <2>2. Request(src, u, key).key = key /\ \A t \in Subs : t # s => subs'[t] = subs[t]
      BY <2>1 DEF Request
    <2>3. CASE key # k
      <3>1. \A t \in Subs : Waits(t, k)' => Waits(t, k)
        BY <1>1, <2>1, <2>2, <2>3 DEF Waits
      <3> QED BY <1>1, <1>2, <3>1, KeyAlone
    <2>4. CASE key = k
      <3>1. keyOf[k] = NoJob /\ \A t \in Subs : ~Waits(t, k)
        BY <1>2, <2>1, <2>4 DEF Unstored, Waits
      <3>2. \A t \in Subs : Waits(t, k)' => t = s
        BY <2>2, <3>1 DEF Waits
      <3>3. \A i \in jobs : i.key # k
        BY <1>2, <3>1 DEF KeyOK
      <3> QED BY <1>1, <3>1, <3>2, <3>3 DEF KeyOK
    <2> QED BY <2>3, <2>4
  <1> QED BY <1>3, <1>4

LEMMA StepKeys ==
  ASSUME TypeInv, KeysOK, NEW s \in Subs, NEW r, Step(s, r)
  PROVE  KeysOK'
  <1> SUFFICES ASSUME NEW k \in Keys \ raced PROVE KeyOK(k)'
    BY DEF KeysOK, Step
  <1>1. KeyOK(k) /\ k # NoKey
    BY SubmissionAssumption DEF KeysOK
  <1>2. /\ subs \in [Subs -> {Idle} \cup Submissions] /\ keyOf \in [Keys -> {NoJob} \cup {i.id : i \in jobs}]
        /\ subs[s] # Idle /\ Fine(subs[s]) /\ subs' = [subs EXCEPT ![s] = r]
        /\ r # Idle => /\ r.key = subs[s].key /\ r.src = subs[s].src
                       /\ subs[s].pc = "queue" => r.src = "batch"
    BY Shares DEF Step, Moves, TypeInv, SubTypes
  <1>3. \A t \in Subs : Waits(t, k)' => Waits(t, k)
    BY <1>1, <1>2 DEF Waits, Fine
  <1>4. CASE jobs' = jobs /\ keyOf' = keyOf
    BY <1>1, <1>3, <1>4, KeyAlone
  <1>5. CASE Stores(s, r)
    <2>1. PICK j : j.key = subs[s].key /\ jobs' = jobs \cup {j}
      BY <1>5 DEF Stores, Put
    <2>2. CASE subs[s].key # k
      <3>1. keyOf'[k] = keyOf[k]
        BY <1>2, <1>5, <2>2 DEF Stores, PutKey
      <3>2. \A i \in jobs' : i.key = k => i \in jobs
        BY <2>1, <2>2
      <3> QED BY <1>1, <1>3, <3>1, <3>2 DEF KeyOK
    <2>3. CASE subs[s].key = k
      <3>1. Waits(s, k)
        BY <1>2, <1>5, <2>3 DEF Waits, Stores
      <3>2. \A i \in jobs : i.key # k
        BY <1>1, <3>1 DEF KeyOK
      <3>3. keyOf'[k] # NoJob
        <4>1. keyOf'[k] = Cardinality(jobs) + 1
          BY <1>1, <1>2, <1>5, <2>3 DEF Stores, PutKey
        <4>2. Cardinality(jobs) + 1 \in Nat
          BY FS_CardinalityType DEF TypeInv, SubTypes
        <4> QED BY <4>1, <4>2, SubmissionsAssumption
      <3>4. \A t \in Subs : ~Waits(t, k)'
        <4>1. r # Idle /\ r.pc = "queue"
          BY <1>5 DEF Stores
        <4>2. ~Waits(s, k)'
          BY <1>2, <4>1 DEF Waits
        <4>3. \A t \in Subs : Waits(t, k) => t = s
          BY <1>1, <3>1 DEF KeyOK
        <4> QED BY <1>3, <4>2, <4>3
      <3> QED BY <2>1, <3>2, <3>3, <3>4 DEF KeyOK
    <2> QED BY <2>2, <2>3
  <1> QED BY <1>4, <1>5 DEF Step, Quiet, Reserves, GivesBack

LEMMA KeysKept ==
  ASSUME TypeInv, KeysOK, [InNext]_inVars
  PROVE  KeysOK'
  <1>1. ASSUME UNCHANGED <<subs, jobs, keyOf, raced>>
        PROVE  KeysOK'
    <2> SUFFICES ASSUME NEW k \in Keys \ raced PROVE KeyOK(k)'
      BY <1>1 DEF KeysOK
    <2> QED BY <1>1, KeyAlone DEF KeysOK, Waits
  <1>2. CASE UpNext /\ UNCHANGED subVars
    BY <1>1, <1>2 DEF subVars
  <1>3. CASE \E s \in Subs : Arrives(s)
    BY <1>3, ArriveKeys
  <1>4. CASE \E s \in Subs : \E r : Step(s, r)
    BY <1>4, StepKeys
  <1>5. CASE Around
    BY <1>1, <1>5, AroundTypes
  <1>6. CASE Ends
    <2>1. keyOf' = keyOf /\ \A s \in Subs : subs'[s] = Idle
      BY <1>6, EndsTypes DEF Fresh
    <2>2. raced \subseteq raced' /\ \A i \in jobs' : i.key \in Keys \ raced' => i \in jobs
      BY <1>6 DEF Ends, Dead, DieKeyless, Put
    <2>3. ASSUME NEW k \in Keys \ raced'
          PROVE  KeyOK(k)'
      BY <2>1, <2>2 DEF KeysOK, KeyOK, Waits
    <2> QED BY <2>3 DEF KeysOK
  <1> QED BY <1>2, <1>3, <1>4, <1>5, <1>6, Kinds

\* A key makes at most one job, also when the answer was an error and the request is
\* sent again, while no two requests with it overlap and the process does not die
\* between the two writes (jobs_submit.py: get_idempotency before put_idempotency).
THEOREM KeysMakeOneJob == InSpec => []OneJobPerKey
  <1>1. SubInit => KeysOK
    BY DEF SubInit, KeysOK, KeyOK, Waits
  <1>2. TypeInv /\ KeysOK /\ [InNext]_inVars => KeysOK'
    BY KeysKept
  <1>3. TypeInv /\ KeysOK => OneJobPerKey
    <2> SUFFICES ASSUME TypeInv, KeysOK, NEW k \in Keys \ raced
                 PROVE  Cardinality({j \in jobs : j.key = k}) <= 1
      BY DEF OneJobPerKey
    <2>1. \A i, j \in {l \in jobs : l.key = k} : i = j
      BY DEF KeysOK, KeyOK
    <2>2. CASE {j \in jobs : j.key = k} = {}
      BY <2>2, FS_EmptySet
    <2>3. CASE {j \in jobs : j.key = k} # {}
      <3>1. PICK i : {j \in jobs : j.key = k} = {i}
        BY <2>1, <2>3
      <3> QED BY <3>1, FS_Singleton
    <2> QED BY <2>2, <2>3
  <1> QED BY <1>1, <1>2, <1>3, TypeInvAlways, PTL DEF InSpec

-----------------------------------------------------------------------------
\* The videos of the jobs: without retention nothing takes a completed upload's file.

FilesStay == doomed = {} /\ \A u \in Uploads : Done(u) => final[u] # NoFile
DoneStays == \A u \in Uploads : Done(u) => Done(u)'

LEMMA RowEdits ==
  ASSUME NEW r \in Rows, NEW g \in Contents
  PROVE  /\ [r EXCEPT !.got = g, !.idle = FALSE] \in Rows
         /\ [r EXCEPT !.got = g, !.idle = FALSE].done = r.done
         /\ [r EXCEPT !.done = TRUE, !.idle = FALSE] \in Rows
         /\ [r EXCEPT !.done = TRUE, !.idle = FALSE].done
  BY DEF Rows

LEMMA MovedStays ==
  ASSUME FileInv, FilesStay, NEW c \in Clients, AtQuota(c), Passes(c), Moved(calls[c].u),
         Completed(calls[c].u) \/ row' = row
  PROVE  DoneStays /\ \A u \in Uploads : Done(u)' => final'[u] # NoFile
  <1> PICK v : v = calls[c].u
    OBVIOUS
  <1>1. v \in Uploads /\ part[v] # NoFile
    BY DEF AtQuota, Passes, FileInv, FileTypes, Chunk, Completion
  <1>2. /\ final'[v] = part[v] /\ \A u \in Uploads : u # v => final'[u] = final[u]
        /\ \A u \in Uploads : u # v => row'[u] = row[u]
        /\ row[v] = NoRow => row'[v] = NoRow
    BY <1>1 DEF Moved, Completed, FileInv, FileTypes
  <1>3. Done(v) => Done(v)'
    <2>1. CASE row' = row
      BY <2>1 DEF Done
    <2>2. CASE Completed(v) /\ Done(v)
      <3>1. row' = [row EXCEPT ![v].done = TRUE, ![v].idle = FALSE] /\ row[v] \in Rows
        BY <1>1, <2>2 DEF Completed, Done, FileInv, FileTypes
      <3>2. row'[v] = [row[v] EXCEPT !.done = TRUE, !.idle = FALSE]
        BY <1>1, <3>1 DEF FileInv, FileTypes
      <3>3. row'[v] \in Rows /\ row'[v].done
        <4>1. Empty \in Contents
          BY Values
        <4> QED BY <3>1, <3>2, <4>1, RowEdits
      <3> QED BY <3>3, Values DEF Done
    <2> QED BY <2>1, <2>2
  <1> QED BY <1>1, <1>2, <1>3 DEF DoneStays, Done, FilesStay

LEMMA RowAndFileStay ==
  ASSUME FilesStay, row' = row, final' = final
  PROVE  DoneStays /\ \A u \in Uploads : Done(u)' => final'[u] # NoFile
  BY DEF FilesStay, DoneStays, Done

LEMMA ServeStays ==
  ASSUME FileInv, FilesStay, NEW c \in Clients, Serve(c)
  PROVE  FilesStay' /\ DoneStays
  <1>0. doomed' = {}
    BY DEF Serve, SkipChunk, KeepChunk, Lock, Refuse, Finish, Spoil, FilesStay
  <1>1. CASE SkipChunk(c) \/ Lock(c) \/ Refuse(c)
    BY <1>0, <1>1, RowAndFileStay DEF SkipChunk, Lock, Refuse, storeVars, fileVars, FilesStay
  <1>2. CASE KeepChunk(c)
    <2>1. PICK v : v = calls[c].u
      OBVIOUS
    <2>2. v \in Uploads /\ final' = final /\ AtChunk(c) /\ Received(c)
      BY <1>2, <2>1 DEF KeepChunk, AtChunk, FileInv, FileTypes, Chunk, Completion
    <2>3. row \in [Uploads -> Rows \cup {NoRow}]
      BY DEF FileInv, FileTypes
    <2>4. /\ \A u \in Uploads : u # v => row'[u] = row[u]
          /\ row[v] = NoRow => row'[v] = NoRow
      BY <2>1, <2>2, <2>3 DEF Received
    <2>5. ASSUME row[v] # NoRow
          PROVE  row'[v] # NoRow /\ row'[v].done = row[v].done
      <3> DEFINE g == [Reread(c).got EXCEPT ![calls[c].i] = calls[c].v]
      <3>1. row[v] \in Rows /\ row' = [row EXCEPT ![v] = [row[v] EXCEPT !.got = g, !.idle = FALSE]]
        BY <2>1, <2>2, <2>3, <2>5 DEF Received
      <3>2. Reread(c) \in Rows /\ calls[c].i \in Chunks /\ calls[c].v \in Versions
        BY <2>1, <2>2, <2>5, <3>1 DEF AtChunk, Reread, FileInv, FileTypes, Chunk, Completion
      <3>3. g \in Contents
        BY <3>2, Values
      <3> HIDE DEF g
      <3>4. row'[v] = [row[v] EXCEPT !.got = g, !.idle = FALSE]
        BY <2>2, <2>3, <3>1
      <3>5. row'[v] \in Rows /\ row'[v].done = row[v].done
        <4>1. row[v] \in Rows
          BY <3>1
        <4> QED BY <3>3, <3>4, <4>1, RowEdits
      <3> QED BY <3>5, Values
    <2> QED BY <1>0, <2>2, <2>4, <2>5 DEF FilesStay, DoneStays, Done
  <1>3. CASE Finish(c)
    BY <1>0, <1>3, MovedStays DEF Finish, FilesStay
  <1>4. CASE Spoil(c)
    <2>1. PICK v : v = calls[c].u
      OBVIOUS
    <2>2. v \in Uploads /\ ~Done(v)
      BY <1>4, <2>1 DEF Spoil, AtQuota, FileInv, FileTypes, Chunk, Completion, CallsOK, ReadsRight,
                        Holding, Here, Open, Done
    <2>3. row' = row /\ \A u \in Uploads : u # v => final'[u] = final[u]
      BY <1>4, <2>1 DEF Spoil, storeVars, FileInv, FileTypes
    <2> QED BY <1>0, <2>2, <2>3 DEF FilesStay, DoneStays, Done
  <1> QED BY <1>1, <1>2, <1>3, <1>4 DEF Serve

LEMMA UpNextStays ==
  ASSUME FileInv, FilesStay, ~setup.retention, UpNext
  PROVE  FilesStay' /\ DoneStays
  <1>1. ASSUME NEW u \in Uploads, New(u)
        PROVE  FilesStay' /\ DoneStays
    <2>1. /\ final' = final /\ doomed' = doomed /\ ~Done(u) /\ ~Done(u)'
          /\ \A x \in Uploads : x # u => row'[x] = row[x]
      BY <1>1 DEF New, fileVars, Done, FileInv, FileTypes
    <2> QED BY <2>1 DEF FilesStay, DoneStays, Done
  <1>2. ASSUME NEW u \in Uploads, TakeUp(u)
        PROVE  FilesStay' /\ DoneStays
    <2>1. /\ final' = final /\ doomed' = doomed /\ row[u] \in Rows
          /\ row' = [row EXCEPT ![u] = [row[u] EXCEPT !.idle = FALSE]]
      BY <1>2 DEF TakeUp, fileVars, FileInv, FileTypes
    <2>2. /\ row'[u].done = row[u].done /\ row'[u] \in Rows
          /\ \A x \in Uploads : x # u => row'[x] = row[x]
      BY <2>1 DEF FileInv, FileTypes, Rows
    <2> QED BY <2>1, <2>2, Values DEF FilesStay, DoneStays, Done
  <1>3. ASSUME NEW c \in Clients, Send(c)
        PROVE  FilesStay' /\ DoneStays
    BY <1>3, RowAndFileStay DEF Send, SendChunk, SendComplete, storeVars, fileVars, FilesStay
  <1>4. ~Retain
    BY DEF Retain, Age, Doom, Purge, PurgeFiles, FilesStay
  <1> QED BY <1>1, <1>2, <1>3, <1>4, ServeStays DEF UpNext

LEMMA DiesStays ==
  ASSUME FileInv, FilesStay, Dies
  PROVE  FilesStay' /\ DoneStays
  <1>1. doomed' = {}
    BY DEF Dies, Die, DieInChunk, DieMoved, DieUncharged, Restart
  <1>2. CASE Die \/ \E c \in Clients : DieInChunk(c)
    BY <1>1, <1>2, RowAndFileStay DEF Die, DieInChunk, storeVars, FilesStay
  <1>3. CASE \E c \in Clients : DieMoved(c) \/ DieUncharged(c)
    BY <1>1, <1>3, MovedStays DEF DieMoved, DieUncharged, storeVars, FilesStay
  <1> QED BY <1>2, <1>3 DEF Dies

VideosOK ==
    ~setup.retention =>
       /\ FilesStay
       /\ \A s \in Subs : subs[s] # Idle /\ subs[s].src = "upload" /\ subs[s].pc # "body"
                            => Done(subs[s].u)
       /\ \A j \in jobs : j.src = "upload" => j.u \in Uploads /\ Done(j.u)

LEMMA VideosAlone ==
  ASSUME TypeInv, VideosOK, setup' = setup, ~setup.retention => FilesStay' /\ DoneStays,
         \A s \in Subs : /\ subs'[s] # Idle /\ subs'[s].src = "upload" /\ subs'[s].pc # "body"
                         => \/ /\ subs[s] # Idle /\ subs[s].src = "upload" /\ subs[s].pc # "body"
                               /\ subs'[s].u = subs[s].u
                            \/ Done(subs'[s].u) /\ subs'[s].u \in Uploads,
         \A j \in jobs' : \/ j \in jobs
                          \/ j.src # "upload"
                          \/ ~setup.retention => j.u \in Uploads /\ Done(j.u)
  PROVE  VideosOK'
  <1> SUFFICES ASSUME ~setup.retention
               PROVE  /\ FilesStay'
                      /\ \A s \in Subs : \A u : subs'[s] # Idle /\ subs'[s].src = "upload"
                            /\ subs'[s].pc # "body" /\ subs'[s].u = u => Done(u)'
                      /\ \A j \in jobs' : j.src = "upload" => j.u \in Uploads /\ Done(j.u)'
    BY DEF VideosOK
  <1>1. \A s \in Subs : subs[s] # Idle /\ subs[s].src = "upload" => subs[s].u \in Uploads
    BY DEF TypeInv, SubTypes, Fine
  <1>2. \A u \in Uploads : Done(u) => Done(u)'
    BY DEF DoneStays
  <1>3. ASSUME NEW s \in Subs, NEW u, subs'[s].u = u,
               subs'[s] # Idle /\ subs'[s].src = "upload" /\ subs'[s].pc # "body"
        PROVE  Done(u)'
    <2>1. Done(u) /\ u \in Uploads
      BY <1>1, <1>3 DEF VideosOK
    <2> QED BY <1>2, <2>1
  <1>4. ASSUME NEW j \in jobs', j.src = "upload"
        PROVE  j.u \in Uploads /\ Done(j.u)'
    BY <1>2, <1>4 DEF VideosOK
  <1> QED BY <1>3, <1>4

LEMMA VideosKept ==
  ASSUME TypeInv, VideosOK, [InNext]_inVars
  PROVE  VideosOK'
  <1>1. ASSUME UNCHANGED <<row, final, doomed>>, ~setup.retention
        PROVE  FilesStay' /\ DoneStays
    BY <1>1, RowAndFileStay DEF VideosOK, FilesStay
  <1>2. CASE UpNext /\ UNCHANGED subVars
    <2>1. setup' = setup
      BY <1>2, UpNextTypes DEF TypeInv
    <2>2. ~setup.retention => FilesStay' /\ DoneStays
      BY <1>2, UpNextStays DEF VideosOK, TypeInv
    <2> QED BY <1>2, <2>1, <2>2, VideosAlone DEF subVars
  <1>3. ASSUME NEW s \in Subs, Arrives(s)
        PROVE  VideosOK'
    <2>1. UNCHANGED upVars /\ jobs' = jobs
      BY <1>3, ArriveTypes DEF Arrives, Arrive
    <2>2. /\ \A t \in Subs : t # s => subs'[t] = subs[t]
          /\ subs'[s] = Idle \/ subs'[s].pc = "body"
      BY <1>3 DEF Arrives, Arrive, Request, TypeInv, SubTypes
    <2>3. setup' = setup /\ (~setup.retention => FilesStay' /\ DoneStays)
      BY <1>1, <2>1 DEF upVars, storeVars, fileVars
    <2> QED BY <2>1, <2>2, <2>3, VideosAlone
  <1>4. ASSUME NEW s \in Subs, NEW r, Step(s, r)
        PROVE  VideosOK'
    <2>1. /\ subs[s] # Idle /\ subs[s] \in Submissions /\ Fine(subs[s])
          /\ subs \in [Subs -> {Idle} \cup Submissions] /\ subs' = [subs EXCEPT ![s] = r]
          /\ r # Idle => /\ Fine(r) /\ r.src = subs[s].src /\ r.u = subs[s].u
                         /\ subs[s].pc = "body" /\ r.src = "upload" => Done(r.u)
      BY <1>4, Shares DEF Step, Moves, TypeInv, SubTypes
    <2>2. setup' = setup /\ (~setup.retention => FilesStay' /\ DoneStays)
      BY <1>1, <1>4 DEF Step, othersVars, fileVars
    <2>3. \A t \in Subs : t # s => subs'[t] = subs[t]
      BY <2>1
    <2>4. subs'[s] = r
      BY <2>1
    <2>5. r # Idle /\ r.src = "upload" /\ r.pc # "body"
            => \/ /\ subs[s] # Idle /\ subs[s].src = "upload" /\ subs[s].pc # "body"
                  /\ r.u = subs[s].u
               \/ Done(r.u) /\ r.u \in Uploads
      BY <2>1 DEF Fine
    <2>6. ASSUME NEW j \in jobs', j \notin jobs, j.src = "upload", ~setup.retention
          PROVE  j.u \in Uploads /\ Done(j.u)
      <3>1. Stores(s, r) /\ Put(s)
        BY <1>4, <2>6 DEF Step, Quiet, Reserves, Stores, GivesBack
      <3>2. j.u = subs[s].u /\ subs[s].src = "upload" /\ subs[s].pc # "body"
        BY <2>6, <3>1 DEF Put, Stores
      <3> QED BY <2>1, <2>6, <3>2 DEF Fine, VideosOK
    <2> QED BY <2>2, <2>3, <2>4, <2>5, <2>6, VideosAlone
  <1>5. CASE Around
    <2>1. UNCHANGED <<upVars, subs, jobs>>
      BY <1>5, AroundTypes
    <2>2. setup' = setup /\ (~setup.retention => FilesStay' /\ DoneStays)
      BY <1>1, <2>1 DEF upVars, storeVars, fileVars
    <2> QED BY <2>1, <2>2, VideosAlone
  <1>6. CASE Ends
    <2>1. Dies /\ setup' = setup /\ \A s \in Subs : subs'[s] = Idle
      BY <1>6, EndsTypes DEF Fresh
    <2>2. ~setup.retention => FilesStay' /\ DoneStays
      BY <2>1, DiesStays DEF VideosOK, TypeInv
    <2>3. ASSUME NEW j \in jobs', j \notin jobs, j.src = "upload", ~setup.retention
          PROVE  j.u \in Uploads /\ Done(j.u)
      <3>1. PICK s \in Subs : At(s, "policy") /\ Put(s)
        BY <1>6, <2>3 DEF Ends, Dead, DieKeyless
      <3>2. j.u = subs[s].u /\ j.src = subs[s].src
        BY <2>3, <3>1 DEF Put
      <3> QED BY <2>3, <3>1, <3>2 DEF At, VideosOK, TypeInv, SubTypes, Fine
    <2> QED BY <2>1, <2>2, <2>3, VideosAlone
  <1> QED BY <1>2, <1>3, <1>4, <1>5, <1>6, Kinds

\* A job made from an upload has the completed file as its video, as announced, as long
\* as retention does not delete it: also when the upload is completed again, spoiled or
\* cut off by a crash while the submission is under way (jobs_submit.py, uploads.py).
THEOREM VideosAreThere == InSpec => []JobsHaveTheirVideo
  <1>1. SubInit => VideosOK
    BY DEF SubInit, UpInit, VideosOK, FilesStay, Done
  <1>2. TypeInv /\ VideosOK /\ [InNext]_inVars => VideosOK'
    BY VideosKept
  <1>3. TypeInv /\ VideosOK => JobsHaveTheirVideo
    <2> SUFFICES ASSUME TypeInv, VideosOK, NEW j \in jobs, j.src = "upload", ~setup.retention
                 PROVE  Done(j.u) /\ final[j.u] # NoFile /\ Agrees(final[j.u], row[j.u].sha)
      BY DEF JobsHaveTheirVideo
    <2>1. j.u \in Uploads /\ Done(j.u) /\ final[j.u] # NoFile
      BY DEF VideosOK, FilesStay
    <2> QED BY <2>1, FileInvImplies DEF TypeInv, FinalIsAnnounced
  <1> QED BY <1>1, <1>2, <1>3, TypeInvAlways, PTL DEF InSpec

-----------------------------------------------------------------------------
\* The daily quota.  What may still be stored for reservations of day d, and what would
\* be given back of them, when the submissions are f.

DueSum(f, d) == Total([s \in Subs |-> Due(f[s], d)], Subs)
BackSum(f, d) == Total([s \in Subs |-> Back(f[s], d)], Subs)

\* A submission s that becomes r makes the submissions g out of f.
Shift(f, s, r, g, d) ==
    /\ DueSum(f, d) \in Nat /\ DueSum(g, d) \in Nat
    /\ BackSum(f, d) \in Nat /\ BackSum(g, d) \in Nat
    /\ Due(f[s], d) <= DueSum(f, d) /\ Back(f[s], d) <= BackSum(f, d)
    /\ DueSum(f, d) - Due(f[s], d) = DueSum(g, d) - Due(r, d)
    /\ BackSum(f, d) - Back(f[s], d) = BackSum(g, d) - Back(r, d)

LEMMA DayMoves ==
  ASSUME NEW f \in [Subs -> {Idle} \cup Submissions], NEW s \in Subs,
         NEW r \in {Idle} \cup Submissions, NEW g, g = [f EXCEPT ![s] = r], NEW d \in Days
  PROVE  Shift(f, s, r, g, d)
  <1>1. g \in [Subs -> {Idle} \cup Submissions] /\ g[s] = r
        /\ \A t \in Subs : t # s => g[t] = f[t]
    OBVIOUS
  <1>2. \A x \in {Idle} \cup Submissions : Due(x, d) \in Nat /\ Back(x, d) \in Nat
    BY Shares
  <1>3. IsFiniteSet(Subs)
    BY SubmissionsAssumption
  <1>4. PICK e, h : e = [t \in Subs |-> Due(f[t], d)] /\ h = [t \in Subs |-> Due(g[t], d)]
    OBVIOUS
  <1>5. \A t \in Subs : e[t] \in Nat /\ h[t] \in Nat /\ (t # s => e[t] = h[t])
    BY <1>1, <1>2, <1>4
  <1>6. Total(e, Subs) \in Nat /\ Total(h, Subs) \in Nat
    BY <1>3, <1>5, TotalChange
  <1>7. e[s] <= Total(e, Subs)
    BY <1>3, <1>5, TotalChange
  <1>8. Total(e, Subs) - e[s] = Total(h, Subs) - h[s]
    BY <1>3, <1>5, TotalChange
  <1>9. PICK i, j : i = [t \in Subs |-> Back(f[t], d)] /\ j = [t \in Subs |-> Back(g[t], d)]
    OBVIOUS
  <1>10. \A t \in Subs : i[t] \in Nat /\ j[t] \in Nat /\ (t # s => i[t] = j[t])
    BY <1>1, <1>2, <1>9
  <1>11. Total(i, Subs) \in Nat /\ Total(j, Subs) \in Nat
    BY <1>3, <1>10, TotalChange
  <1>12. i[s] <= Total(i, Subs)
    BY <1>3, <1>10, TotalChange
  <1>13. Total(i, Subs) - i[s] = Total(j, Subs) - j[s]
    BY <1>3, <1>10, TotalChange
  <1>14. e[s] = Due(f[s], d) /\ h[s] = Due(r, d) /\ i[s] = Back(f[s], d) /\ j[s] = Back(r, d)
    BY <1>1, <1>4, <1>9
  <1>15. DueSum(f, d) = Total(e, Subs) /\ DueSum(g, d) = Total(h, Subs)
    BY <1>4 DEF DueSum
  <1>16. BackSum(f, d) = Total(i, Subs) /\ BackSum(g, d) = Total(j, Subs)
    BY <1>9 DEF BackSum
  <1> QED BY <1>6, <1>7, <1>8, <1>11, <1>12, <1>13, <1>14, <1>15, <1>16 DEF Shift

LEMMA DayNothing ==
  ASSUME NEW f, \A s \in Subs : f[s] = Idle, NEW d
  PROVE  DueSum(f, d) = 0 /\ BackSum(f, d) = 0
  <1> DEFINE zero == [s \in Subs |-> 0]
  <1>1. /\ [s \in Subs |-> Due(f[s], d)] = zero
        /\ [s \in Subs |-> Back(f[s], d)] = zero
    BY Shares
  <1>2. IsFiniteSet({}) /\ {} \in SUBSET Subs /\ IsFiniteSet(Subs) /\ \A s \in Subs : zero[s] = 0
    BY FS_EmptySet, SubmissionsAssumption
  <1> HIDE DEF zero
  <1>3. Total(zero, Subs) = Total(zero, {})
    BY <1>2, TotalWithout
  <1>4. Total(zero, {}) = 0
    BY <1>2, TotalSplit
  <1> QED BY <1>1, <1>3, <1>4 DEF DueSum, BackSum

LEMMA DueTypes ==
  ASSUME NEW f \in [Subs -> {Idle} \cup Submissions], NEW d \in Days
  PROVE  DueSum(f, d) \in Nat /\ \A s \in Subs : Due(f[s], d) <= DueSum(f, d)
  <1> DEFINE e == [s \in Subs |-> Due(f[s], d)]
  <1>1. \A s \in Subs : e[s] \in Nat /\ e[s] = Due(f[s], d)
    <2>1. \A x \in {Idle} \cup Submissions : Due(x, d) \in Nat
      BY Shares
    <2> QED BY <2>1
  <1>2. IsFiniteSet(Subs)
    BY SubmissionsAssumption
  <1> HIDE DEF e
  <1>3. Total(e, Subs) \in Nat
    BY <1>1, <1>2, TotalSplit
  <1>4. \A s \in Subs : e[s] <= Total(e, Subs)
    BY <1>1, <1>2, TotalChange
  <1> QED BY <1>1, <1>3, <1>4 DEF DueSum, e

LEMMA DueIsBack ==
  ASSUME NEW f \in [Subs -> {Idle} \cup Submissions], \A s \in Subs : f[s] # Idle => Fine(f[s]),
         NEW d \in Days
  PROVE  DueSum(f, d) <= BackSum(f, d)
  <1> DEFINE e == [s \in Subs |-> Due(f[s], d)]
             h == [s \in Subs |-> Back(f[s], d)]
  <1>1. \A s \in Subs : e[s] \in Nat /\ h[s] \in Nat /\ e[s] <= h[s]
    <2> SUFFICES ASSUME NEW s \in Subs
                 PROVE  /\ Due(f[s], d) \in Nat /\ Back(f[s], d) \in Nat
                        /\ Due(f[s], d) <= Back(f[s], d)
      OBVIOUS
    <2>1. CASE f[s] = Idle
      BY <2>1, Shares
    <2>2. CASE f[s] # Idle
      BY <2>2, Shares
    <2> QED BY <2>1, <2>2
  <1>2. IsFiniteSet(Subs)
    BY SubmissionsAssumption
  <1> HIDE DEF e, h
  <1>3. Total(e, Subs) <= Total(h, Subs)
    BY <1>1, <1>2, TotalMonotone
  <1> QED BY <1>3 DEF DueSum, BackSum, e, h

\* Where the day is counted: by the rows and the process where there is no Redis,
\* else, with Redis up at every reservation, by the counter in Redis.
Stored(d) == Cardinality(JobsOn(d))
Counted == IF setup.redis = "down" THEN "local" ELSE "remote"
DayOK(d) ==
    IF setup.redis = "down"
    THEN /\ Stored(d) + DueSum(subs, d) <= Limit + unpaid
         /\ BackSum(subs, d) <= local[d]
    ELSE Stored(d) + DueSum(subs, d) <= remote[d] + unpaid
DailyInv ==
    /\ setup.redis = "up" => redisUp
    /\ setup.redis = "down" => ~redisUp
    /\ ~mixed => \A s \in Subs : subs[s] # Idle => subs[s].where \in {"none", Counted}
    /\ ~crossed /\ ~mixed => \A d \in Days : DayOK(d)

LEMMA DayTypes ==
  ASSUME TypeInv, NEW d \in Days
  PROVE  /\ Stored(d) \in Nat /\ local[d] \in Nat /\ remote[d] \in 0 .. Limit
         /\ unpaid \in Nat /\ Limit \in Nat /\ day \in Days
  <1>1. JobsOn(d) \in SUBSET jobs /\ IsFiniteSet(jobs)
    BY DEF JobsOn, TypeInv, SubTypes
  <1>2. IsFiniteSet(JobsOn(d))
    BY <1>1, FS_Subset
  <1> QED BY <1>2, FS_CardinalityType, Numbers DEF Stored, TypeInv, SubTypes

LEMMA StepDay ==
  ASSUME TypeInv, DailyInv, NEW s \in Subs, NEW r, Step(s, r), ~crossed', ~mixed', NEW d \in Days
  PROVE  DayOK(d)'
  <1>1. /\ subs \in [Subs -> {Idle} \cup Submissions] /\ r \in {Idle} \cup Submissions
        /\ subs' = [subs EXCEPT ![s] = r] /\ subs[s] \in Submissions /\ Fine(subs[s])
        /\ subs[s] # Idle
        /\ \A t \in Subs : subs[t] # Idle => Fine(subs[t])
    BY Shares DEF Step, Moves, TypeInv, SubTypes
  <1>2. setup' = setup /\ redisUp' = redisUp /\ day' = day
    BY DEF Step, othersVars
  <1>3. ~crossed /\ ~mixed /\ DayOK(d)
    <2>1. crossed => crossed'
      BY DEF Step, Quiet, Reserves, Stores, GivesBack, Put
    <2>2. mixed => mixed'
      BY DEF Step, Quiet, Reserves, Stores, GivesBack
    <2> QED BY <2>1, <2>2 DEF DailyInv
  <1>4. PICK J, D, DD, B, BB, x, xx, y, yy :
          /\ J = Stored(d) /\ D = DueSum(subs, d) /\ DD = DueSum(subs', d)
          /\ B = BackSum(subs, d) /\ BB = BackSum(subs', d)
          /\ x = Due(subs[s], d) /\ xx = Due(r, d) /\ y = Back(subs[s], d) /\ yy = Back(r, d)
    OBVIOUS
  <1>5. /\ D \in Nat /\ DD \in Nat /\ B \in Nat /\ BB \in Nat
        /\ x <= D /\ y <= B /\ D - x = DD - xx /\ B - y = BB - yy
    <2>1. Shift(subs, s, r, subs', d)
      BY <1>1, DayMoves
    <2> QED BY <1>4, <2>1 DEF Shift
  <1>6. /\ x \in Nat /\ y \in Nat /\ xx \in Nat /\ yy \in Nat /\ x <= y
    BY <1>1, <1>4, Shares
  <1>7. J \in Nat /\ unpaid \in Nat /\ local[d] \in Nat /\ remote[d] \in 0 .. Limit /\ Limit \in Nat
        /\ day \in Days /\ local \in [Days -> Nat] /\ remote \in [Days -> 0 .. Limit]
    BY <1>4, DayTypes DEF TypeInv, SubTypes
  <1>8. D <= B
    BY <1>1, <1>4, DueIsBack
  <1>9. IF setup.redis = "down" THEN J + D <= Limit + unpaid /\ B <= local[d]
        ELSE J + D <= remote[d] + unpaid
    BY <1>3, <1>4 DEF DayOK
  <1>10. ASSUME IF setup.redis = "down"
                THEN Stored(d)' + DD <= Limit + unpaid' /\ BB <= local'[d]
                ELSE Stored(d)' + DD <= remote'[d] + unpaid'
         PROVE  DayOK(d)'
    BY <1>2, <1>4, <1>10 DEF DayOK
  <1>11. jobs' = jobs => Stored(d)' = J
    BY <1>4 DEF Stored, JobsOn
  <1>12. setup.redis \in {"up", "down", "either"}
    BY UploadsAssumption DEF TypeInv, FileInv, FileTypes, Settings
  <1>13. CASE Quiet(s, r)
    <2>1. xx <= x /\ yy <= y /\ Stored(d)' = J
          /\ local' = local /\ remote' = remote /\ unpaid' = unpaid
      BY <1>4, <1>11, <1>13 DEF Quiet
    <2> QED BY <1>5, <1>6, <1>7, <1>9, <1>10, <2>1
  <1>14. CASE Reserves(s, r)
    <2>1. x = 0 /\ y = 0 /\ Stored(d)' = J /\ unpaid' = unpaid
      BY <1>4, <1>11, <1>14 DEF Reserves, Due, Back, Reserved
    <2>2. PICK n : n = Count(s) /\ n \in Nat
      BY Numbers DEF Count
    <2>3. redisUp <=> setup.redis # "down"
      BY <1>12, <1>14 DEF Reserves, DailyInv
    <2>4. CASE d = day
      <3>1. xx = n /\ yy = n
        BY <1>4, <1>14, <2>2, <2>4 DEF Reserves
      <3>2. IF redisUp THEN remote'[d] = remote[d] + n ELSE local'[d] = local[d] + n
        BY <1>7, <1>14, <2>2, <2>4 DEF Reserves
      <3>3. ~redisUp => J + local[d] + n <= Limit
        BY <1>4, <1>14, <2>2, <2>4 DEF Reserves, Today, Stored
      <3> QED BY <1>5, <1>7, <1>8, <1>9, <1>10, <2>1, <2>2, <2>3, <3>1, <3>2, <3>3
    <2>5. CASE d # day
      <3>1. xx = 0 /\ yy = 0
        BY <1>4, <1>14, <2>5 DEF Reserves
      <3>2. remote'[d] = remote[d] /\ local'[d] = local[d]
        BY <1>7, <1>14, <2>5 DEF Reserves
      <3> QED BY <1>5, <1>7, <1>9, <1>10, <2>1, <3>1, <3>2
    <2> QED BY <2>4, <2>5
  <1>15. CASE Stores(s, r)
    <2>1. subs[s].day = day /\ local' = local /\ remote' = remote /\ unpaid' = unpaid
      BY <1>15 DEF Stores, Put
    <2>2. xx <= x /\ yy <= y
      BY <1>4, <1>15 DEF Stores
    <2>3. /\ Stored(d)' \in Nat /\ Stored(d)' <= J + 1
          /\ d # day => Stored(d)' = J
      BY <1>4, <1>15, PutTypes DEF Stores, Stored, TypeInv
    <2>4. d = day => xx = x - 1
      BY <1>4, <1>15, <2>1 DEF Stores
    <2> QED BY <1>5, <1>6, <1>7, <1>9, <1>10, <2>1, <2>2, <2>3, <2>4
  <1>16. CASE GivesBack(s, r)
    <2> DEFINE sub == subs[s]
    <2>1. PICK back, more : /\ back = IF Batch(s) THEN Items - sub.made ELSE 1
                            /\ more = sub.stored - sub.made
      OBVIOUS
    <2>2. /\ sub.day = day /\ sub.pc = "undo" /\ sub.where # "none" /\ jobs' = jobs
          /\ local' = IF sub.where # "local" THEN local ELSE [local EXCEPT ![day] = Less(@, back)]
          /\ remote' = IF sub.where # "remote" \/ ~redisUp THEN remote
                       ELSE [remote EXCEPT ![day] = Less(@, back)]
          /\ unpaid' = unpaid + more /\ r = Idle
      BY <1>16, <2>1 DEF GivesBack
    <2>3. sub.where = Counted
      BY <1>1, <1>3, <2>2 DEF DailyInv
    <2>4. xx = 0 /\ yy = 0 /\ more \in Nat /\ back \in Nat
      BY <1>1, <1>4, <2>1, <2>2, Shares, Numbers DEF Submissions, Fine, Batch
    <2>5. CASE d = day
      <3>1. y = back /\ x = back - more
        BY <1>1, <1>4, <2>1, <2>2, <2>5, Numbers DEF Due, Back, Reserved, Batch, Fine, Submissions
      <3>2. Less(local[d], back) >= local[d] - back /\ Less(remote[d], back) >= remote[d] - back
            /\ Less(local[d], back) \in Nat /\ Less(remote[d], back) \in Nat
        <4>1. local[d] \in Nat /\ remote[d] \in Nat
          BY <1>7
        <4> QED BY <2>4, <4>1, Lessens
      <3>3. CASE setup.redis = "down"
        <4>1. local'[d] = Less(local[d], back)
          BY <1>7, <2>2, <2>3, <2>5, <3>3 DEF Counted
        <4> QED BY <1>5, <1>6, <1>7, <1>9, <1>10, <1>11, <2>2, <2>4, <3>1, <3>2, <3>3, <4>1
      <3>4. CASE setup.redis # "down"
        <4>1. remote'[d] = remote[d] \/ remote'[d] = Less(remote[d], back)
          BY <1>7, <2>2, <2>5
        <4> QED BY <1>5, <1>6, <1>7, <1>9, <1>10, <1>11, <2>2, <2>4, <3>1, <3>2, <3>4, <4>1
      <3> QED BY <3>3, <3>4
    <2>6. CASE d # day
      <3>1. x = 0 /\ y = 0 /\ local'[d] = local[d] /\ remote'[d] = remote[d]
        BY <1>4, <1>7, <2>2, <2>6 DEF Due, Back, Reserved
      <3> QED BY <1>5, <1>7, <1>9, <1>10, <1>11, <2>2, <2>4, <3>1
    <2> QED BY <2>5, <2>6
  <1> QED BY <1>13, <1>14, <1>15, <1>16 DEF Step

LEMMA DailyKept ==
  ASSUME TypeInv, DailyInv, [InNext]_inVars
  PROVE  DailyInv'
  <1>0. setup.redis \in {"up", "down", "either"}
    BY UploadsAssumption DEF TypeInv, FileInv, FileTypes, Settings
  <1>1. ASSUME UNCHANGED <<setup, subs, jobs, dailyVars>>,
               redisUp' = redisUp \/ setup.redis = "either"
        PROVE  DailyInv'
    <2>1. \A d \in Days : DayOK(d) => DayOK(d)'
      BY <1>1 DEF DayOK, Stored, JobsOn, dailyVars
    <2> QED BY <1>1, <2>1 DEF DailyInv, Counted, dailyVars
  <1>2. CASE UpNext /\ UNCHANGED subVars
    BY <1>1, <1>2, UpNextTypes DEF TypeInv, subVars
  <1>3. ASSUME NEW s \in Subs, Arrives(s)
        PROVE  DailyInv'
    <2>1. PICK src \in Sources, u \in Uploads \cup {Free}, key \in Keys \cup {NoKey} : Arrive(s, src, u, key)
      BY <1>3 DEF Arrives
    <2>2. UNCHANGED <<setup, jobs, dailyVars, redisUp>> /\ subs[s] = Idle
      BY <2>1 DEF Arrive, upVars
    <2>3. CASE subs' = subs
      BY <1>1, <2>2, <2>3
    <2>4. CASE subs' # subs
      <3> DEFINE r == Request(src, u, key)
      <3>1. /\ subs' = [subs EXCEPT ![s] = r] /\ r.where = "none"
            /\ subs \in [Subs -> {Idle} \cup Submissions]
        BY <2>1, <2>4 DEF Arrive, Request, TypeInv, SubTypes
      <3>2. r \in Submissions
        BY Numbers DEF Request, Submissions, Steps, Days
      <3> HIDE DEF r
      <3>3. \A t \in Subs : t # s => subs'[t] = subs[t]
        BY <3>1
      <3>4. subs'[s] = r
        BY <3>1
      <3>5. ASSUME NEW d \in Days, DayOK(d)
            PROVE  DayOK(d)'
        <4>1. Shift(subs, s, r, subs', d)
          BY <3>1, <3>2, DayMoves
        <4>7. Due(subs[s], d) = 0 /\ Due(r, d) = 0 /\ Back(subs[s], d) = 0 /\ Back(r, d) = 0
          BY <2>2, <3>1, Shares DEF Due, Back, Reserved
        <4>8. DueSum(subs', d) = DueSum(subs, d) /\ BackSum(subs', d) = BackSum(subs, d)
          BY <4>1, <4>7 DEF Shift
        <4>9. Stored(d)' = Stored(d)
          BY <2>2 DEF Stored, JobsOn
        <4> QED BY <2>2, <3>5, <4>8, <4>9 DEF DayOK, dailyVars
      <3> QED BY <2>2, <3>1, <3>3, <3>4, <3>5 DEF DailyInv, Counted, dailyVars
    <2> QED BY <2>3, <2>4
  <1>4. ASSUME NEW s \in Subs, NEW r, Step(s, r)
        PROVE  DailyInv'
    <2>1. \A d \in Days : ~crossed' /\ ~mixed' => DayOK(d)'
      BY <1>4, StepDay
    <2>2. setup' = setup /\ redisUp' = redisUp
      BY <1>4 DEF Step, othersVars
    <2>3. /\ subs \in [Subs -> {Idle} \cup Submissions] /\ subs' = [subs EXCEPT ![s] = r]
          /\ subs[s] # Idle
      BY <1>4, Shares DEF Step, Moves, TypeInv, SubTypes
    <2>4. mixed => mixed'
      BY <1>4 DEF Step, Quiet, Reserves, Stores, GivesBack
    <2>5. ASSUME ~mixed', r # Idle
          PROVE  r.where \in {"none", Counted}
      <3>1. subs[s].where \in {"none", Counted}
        BY <2>3, <2>4, <2>5 DEF DailyInv
      <3>2. CASE Reserves(s, r)
        BY <1>0, <2>5, <3>2 DEF Reserves, Counted, DailyInv
      <3>3. CASE ~Reserves(s, r)
        BY <1>4, <2>5, <3>1, <3>3 DEF Step, Quiet, Stores, GivesBack
      <3> QED BY <3>2, <3>3
    <2>6. ~mixed' => \A t \in Subs : subs'[t] # Idle => subs'[t].where \in {"none", Counted}
      BY <2>3, <2>4, <2>5 DEF DailyInv
    <2> QED BY <2>1, <2>2, <2>6 DEF DailyInv, Counted
  <1>5. CASE Around
    <2>1. UNCHANGED <<setup, subs, jobs, dailyVars>>
      BY <1>5, AroundTypes DEF upVars
    <2>2. redisUp' = redisUp \/ setup.redis = "either"
      BY <1>5 DEF Around, Midnight, Toggle, Drain, inVars, subVars
    <2> QED BY <1>1, <2>1, <2>2
  <1>6. CASE Ends
    <2>1. /\ setup' = setup /\ UNCHANGED <<remote, mixed, redisUp>>
          /\ \A s \in Subs : subs'[s] = Idle
          /\ \A d \in Days : local'[d] = 0
      BY <1>6, EndsTypes DEF Fresh
    <2>2. unpaid' = unpaid
      BY <1>6 DEF Ends, Dead, DieKeyless
    <2>3. ASSUME NEW d \in Days, ~crossed', ~mixed'
          PROVE  /\ DayOK(d)
                 /\ Stored(d)' \in Nat /\ Stored(d)' <= Stored(d) + DueSum(subs, d)
                 /\ DueSum(subs, d) \in Nat
      <3>1. subs \in [Subs -> {Idle} \cup Submissions] /\ Stored(d) \in Nat
        BY DayTypes DEF TypeInv, SubTypes
      <3>2. CASE Dead
        <4>1. crossed' = crossed /\ Stored(d)' = Stored(d)
          BY <3>2 DEF Dead, Stored, JobsOn
        <4>2. DueSum(subs, d) \in Nat
          BY <3>1, DueTypes
        <4> QED BY <2>1, <2>3, <3>1, <4>1, <4>2 DEF DailyInv
      <3>3. ASSUME NEW s \in Subs, DieKeyless(s)
            PROVE  /\ DayOK(d)
                   /\ Stored(d)' \in Nat /\ Stored(d)' <= Stored(d) + DueSum(subs, d)
                   /\ DueSum(subs, d) \in Nat
        <4>1. /\ Put(s) /\ subs[s] # Idle /\ subs[s].pc = "policy" /\ subs[s].src # "batch"
              /\ subs[s] \in Submissions /\ Fine(subs[s])
          BY <3>3 DEF DieKeyless, At, Batch, TypeInv, SubTypes
        <4>2. ~crossed /\ subs[s].day = day
          BY <2>3, <4>1 DEF Put, TypeInv, SubTypes
        <4>3. d = day => Due(subs[s], d) = 1
          BY <4>1, <4>2 DEF Due, Reserved, Fine
        <4>4. Due(subs[s], d) <= DueSum(subs, d) /\ DueSum(subs, d) \in Nat
          BY <3>1, DueTypes
        <4>5. /\ Stored(d)' \in Nat /\ Stored(d)' <= Stored(d) + 1
              /\ d # day => Stored(d)' = Stored(d)
          BY <4>1, PutTypes DEF Stored, TypeInv
        <4> QED BY <2>1, <2>3, <3>1, <4>2, <4>3, <4>4, <4>5 DEF DailyInv
      <3> QED BY <1>6, <3>2, <3>3 DEF Ends
    <2>4. ASSUME NEW d \in Days, ~crossed', ~mixed'
          PROVE  DayOK(d)'
      <3>1. DueSum(subs', d) = 0 /\ BackSum(subs', d) = 0
        BY <2>1, DayNothing
      <3>2. /\ Stored(d) \in Nat /\ remote[d] \in Nat /\ unpaid \in Nat
        BY DayTypes, Numbers
      <3>3. /\ Stored(d)' \in Nat /\ Stored(d)' <= Stored(d) + DueSum(subs, d)
            /\ DueSum(subs, d) \in Nat
            /\ IF setup.redis = "down" THEN Stored(d) + DueSum(subs, d) <= Limit + unpaid
               ELSE Stored(d) + DueSum(subs, d) <= remote[d] + unpaid
        BY <2>3, <2>4 DEF DayOK
      <3>4. IF setup.redis = "down" THEN Stored(d)' + 0 <= Limit + unpaid
            ELSE Stored(d)' + 0 <= remote[d] + unpaid
        BY <3>2, <3>3, Numbers
      <3> QED BY <2>1, <2>2, <3>1, <3>4 DEF DayOK
    <2> QED BY <2>1, <2>4 DEF DailyInv, Counted
  <1> QED BY <1>2, <1>3, <1>4, <1>5, <1>6, Kinds

\* No more jobs are stored on a day than the limit allows, however many requests race,
\* unless a stored item was given back, a reservation met another day, or Redis came and
\* went (reserve_daily_jobs and JobReservation in security/quotas.py).
THEOREM DaysAreCapped == InSpec => []DailyCapHolds
  <1>1. SubInit => DailyInv
    <2> SUFFICES ASSUME SubInit PROVE DailyInv
      OBVIOUS
    <2>1. /\ \A s \in Subs : subs[s] = Idle
          /\ jobs = {} /\ unpaid = 0 /\ redisUp = (setup.redis # "down")
          /\ \A d \in Days : local[d] = 0 /\ remote[d] = 0
      BY DEF SubInit
    <2>2. ASSUME NEW d \in Days
          PROVE  DayOK(d)
      <3>1. DueSum(subs, d) = 0 /\ BackSum(subs, d) = 0
        BY <2>1, DayNothing
      <3>2. JobsOn(d) = {}
        BY <2>1 DEF JobsOn
      <3>3. Stored(d) = 0
        BY <3>2, FS_EmptySet DEF Stored
      <3> QED BY <2>1, <3>1, <3>3, Numbers DEF DayOK
    <2> QED BY <2>1, <2>2 DEF DailyInv
  <1>2. TypeInv /\ DailyInv /\ [InNext]_inVars => DailyInv'
    BY DailyKept
  <1>3. TypeInv /\ DailyInv => DailyCapHolds
    <2> SUFFICES ASSUME TypeInv, DailyInv, ~crossed, ~mixed, NEW d \in Days
                 PROVE  Stored(d) <= Limit + unpaid
      BY DEF DailyCapHolds, Stored
    <2>1. DayOK(d)
      BY DEF DailyInv
    <2>2. DueSum(subs, d) \in Nat
      BY DueTypes DEF TypeInv, SubTypes
    <2> QED BY <2>1, <2>2, DayTypes DEF DayOK
  <1> QED BY <1>1, <1>2, <1>3, TypeInvAlways, PTL DEF InSpec

==============================================================================
