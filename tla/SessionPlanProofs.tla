-------------------------- MODULE SessionPlanProofs --------------------------
(***************************************************************************)
(* What the graph policy computes, for every dependency graph: Reach is    *)
(* the least set that contains the start and is closed under the pairs.    *)
(***************************************************************************)
EXTENDS SessionPlan, Integers, FiniteSetTheorems, WellFoundedInduction, TLAPS

USE PackagesAssumption

-----------------------------------------------------------------------------
(* Induction over the naturals, from the well-foundedness of <.  The       *)
(* library's theorem takes the hypothesis as an operator; here it is a set. *)

Less == {pair \in Nat \X Nat : pair[1] < pair[2]}

LEMMA LessIsWellFounded == IsWellFoundedOn(Less, Nat)
<1>1. OpToRel(<, Nat) = Less
  BY DEF OpToRel, Less
<1> QED
  BY <1>1, NatLessThanWellFounded

LEMMA Least ==
  ASSUME NEW T \in SUBSET Nat, T # {}
  PROVE  \E n \in T : \A m \in T : n <= m
<1>1. PICK n \in T : \A m \in T : ~(<<m, n>> \in Less)
  BY LessIsWellFounded, WFMin
<1>2. ASSUME NEW m \in T PROVE n <= m
  <2>1. <<m, n>> \in Nat \X Nat /\ <<m, n>> \notin Less
    BY <1>1
  <2>2. ~(m < n)
    BY <2>1 DEF Less
  <2> QED
    BY <2>2
<1> QED
  BY <1>1, <1>2

LEMMA Induction ==
  ASSUME NEW S, 0 \in S, \A n \in Nat : n \in S => n + 1 \in S
  PROVE  Nat \subseteq S
<1> SUFFICES ASSUME Nat \ S # {} PROVE FALSE
  OBVIOUS
<1>1. PICK n \in Nat \ S : \A m \in Nat \ S : n <= m
  BY Least
<1>2. n # 0
  BY <1>1
<1>3. n - 1 \in Nat /\ n - 1 \in S
  BY <1>1, <1>2
<1> QED
  BY <1>1, <1>3

-----------------------------------------------------------------------------
(* Reach *)

\* One more step along the pairs.
Onwards(X, pairs) == X \cup {pair[2] : pair \in {d \in pairs : d[1] \in X}}

Closed(X, pairs) == \A d \in pairs : d[1] \in X => d[2] \in X

\* within is the recursive function of Reach, up to k.
IsWithin(within, k, start, pairs) ==
  within = [n \in 0 .. k |-> IF n = 0 THEN start ELSE Onwards(within[n - 1], pairs)]

LEMMA WithinValues ==
  ASSUME NEW f, NEW k \in Nat, NEW start, NEW pairs, IsWithin(f, k, start, pairs)
  PROVE  /\ f[0] = start
         /\ \A n \in Nat : n + 1 <= k => f[n + 1] = Onwards(f[n], pairs)
<1> DEFINE g == [n \in 0 .. k |-> IF n = 0 THEN start ELSE Onwards(f[n - 1], pairs)]
<1>1. f = g
  BY DEF IsWithin
<1>2. g[0] = start
  BY SMT
<1>3. ASSUME NEW n \in Nat, n + 1 <= k PROVE g[n + 1] = Onwards(f[n], pairs)
  <2>1. n + 1 \in 0 .. k /\ n + 1 # 0 /\ (n + 1) - 1 = n
    BY <1>3
  <2> QED
    BY <2>1
<1> HIDE DEF g
<1> QED
  BY <1>1, <1>2, <1>3

LEMMA WithinExists ==
  ASSUME NEW start, NEW pairs, NEW N \in Nat
  PROVE  \E f : IsWithin(f, N, start, pairs)
<1> DEFINE S == {k \in Nat : \E f : IsWithin(f, k, start, pairs)}
<1>1. 0 \in S
  <2> DEFINE f == [n \in 0 .. 0 |-> start]
  <2>1. IsWithin(f, 0, start, pairs)
    BY DEF IsWithin
  <2> QED
    BY <2>1
<1>2. ASSUME NEW k \in Nat, k \in S PROVE k + 1 \in S
  <2>1. PICK f : IsWithin(f, k, start, pairs)
    BY <1>2
  <2> DEFINE g == [n \in 0 .. k + 1 |-> IF n = k + 1 THEN Onwards(f[k], pairs) ELSE f[n]]
             h == [n \in 0 .. k + 1 |-> IF n = 0 THEN start ELSE Onwards(g[n - 1], pairs)]
  <2>2. /\ f[0] = start
        /\ \A n \in Nat : n + 1 <= k => f[n + 1] = Onwards(f[n], pairs)
    BY <2>1, WithinValues
  <2>3. \A n \in 0 .. k : g[n] = f[n]
    BY SMT
  <2>4. ASSUME NEW n \in 0 .. k + 1 PROVE g[n] = h[n]
    <3>1. CASE n = 0
      <4>1. g[0] = f[0] /\ h[0] = start
        BY <2>3
      <4> QED
        BY <2>2, <3>1, <4>1
    <3>2. CASE n # 0
      <4>1. n - 1 \in 0 .. k /\ n - 1 \in Nat
        BY <3>2
      <4>2. g[n - 1] = f[n - 1]
        BY <2>3, <4>1
      <4>3. h[n] = Onwards(f[n - 1], pairs)
        BY <3>2, <4>2
      <4>4. g[n] = Onwards(f[n - 1], pairs)
        <5>1. CASE n = k + 1
          <6>1. n - 1 = k
            BY <5>1
          <6> QED
            BY <5>1, <6>1
        <5>2. CASE n # k + 1
          <6>1. n \in 0 .. k /\ (n - 1) + 1 = n /\ (n - 1) + 1 <= k
            BY <5>2, <3>2
          <6>2. f[n] = Onwards(f[n - 1], pairs)
            BY <2>2, <4>1, <6>1
          <6> QED
            BY <2>3, <6>1, <6>2
        <5> QED
          BY <5>1, <5>2
      <4> QED
        BY <4>3, <4>4
    <3> QED
      BY <3>1, <3>2
  <2>5. g = h
    BY <2>4
  <2>6. IsWithin(g, k + 1, start, pairs)
    <3> HIDE DEF g
    <3> QED
      BY <2>5 DEF IsWithin
  <2> QED
    BY <2>6
<1> HIDE DEF S
<1>3. Nat \subseteq S
  BY <1>1, <1>2, Induction
<1> QED
  BY <1>3 DEF S

LEMMA ReachIsWithin ==
  ASSUME NEW start, NEW pairs
  PROVE  /\ Cardinality(Packages) \in Nat
         /\ \E f : /\ IsWithin(f, Cardinality(Packages), start, pairs)
                   /\ Reach(start, pairs) = f[Cardinality(Packages)]
<1> DEFINE N == Cardinality(Packages)
           Within == CHOOSE f : f = [n \in 0 .. N |->
                       IF n = 0 THEN start
                       ELSE LET closer == f[n - 1]
                            IN  closer \cup {pair[2] : pair \in {d \in pairs : d[1] \in closer}}]
<1>1. N \in Nat
  BY FS_CardinalityType DEF PackagesAssumption
<1>2. \E f : IsWithin(f, N, start, pairs)
  BY <1>1, WithinExists
<1>3. IsWithin(Within, N, start, pairs)
  BY <1>2 DEF IsWithin, Onwards
<1>4. Reach(start, pairs) = Within[N]
  BY DEF Reach
<1> QED
  BY <1>1, <1>3, <1>4

LEMMA ReachHasStart ==
  ASSUME NEW start, NEW pairs
  PROVE  start \subseteq Reach(start, pairs)
<1> DEFINE N == Cardinality(Packages)
<1>1. PICK f : IsWithin(f, N, start, pairs) /\ Reach(start, pairs) = f[N]
  BY ReachIsWithin
<1>2. N \in Nat
  BY ReachIsWithin
<1> HIDE DEF N
<1>3. f[0] = start /\ \A n \in Nat : n + 1 <= N => f[n + 1] = Onwards(f[n], pairs)
  BY <1>1, <1>2, WithinValues
<1> DEFINE S == {n \in Nat : n <= N => start \subseteq f[n]}
<1>4. 0 \in S
  BY <1>3
<1>5. ASSUME NEW n \in Nat, n \in S PROVE n + 1 \in S
  <2> SUFFICES ASSUME n + 1 <= N PROVE start \subseteq f[n + 1]
    OBVIOUS
  <2>1. start \subseteq f[n] /\ f[n + 1] = Onwards(f[n], pairs)
    BY <1>2, <1>3, <1>5
  <2> QED
    BY <2>1 DEF Onwards
<1> HIDE DEF S
<1>6. N \in S
  BY <1>2, <1>4, <1>5, Induction
<1> QED
  BY <1>1, <1>2, <1>6 DEF S

\* No set that is closed and contains the start is smaller.
LEMMA ReachIsWithinClosed ==
  ASSUME NEW start, NEW pairs, NEW X, start \subseteq X, Closed(X, pairs)
  PROVE  Reach(start, pairs) \subseteq X
<1> DEFINE N == Cardinality(Packages)
<1>1. PICK f : IsWithin(f, N, start, pairs) /\ Reach(start, pairs) = f[N]
  BY ReachIsWithin
<1>2. N \in Nat
  BY ReachIsWithin
<1> HIDE DEF N
<1>3. f[0] = start /\ \A n \in Nat : n + 1 <= N => f[n + 1] = Onwards(f[n], pairs)
  BY <1>1, <1>2, WithinValues
<1> DEFINE S == {n \in Nat : n <= N => f[n] \subseteq X}
<1>4. 0 \in S
  BY <1>3
<1>5. ASSUME NEW n \in Nat, n \in S PROVE n + 1 \in S
  <2> SUFFICES ASSUME n + 1 <= N PROVE f[n + 1] \subseteq X
    OBVIOUS
  <2>1. f[n] \subseteq X /\ f[n + 1] = Onwards(f[n], pairs)
    BY <1>2, <1>3, <1>5
  <2> QED
    BY <2>1 DEF Onwards, Closed
<1> HIDE DEF S
<1>6. N \in S
  BY <1>2, <1>4, <1>5, Induction
<1> QED
  BY <1>1, <1>2, <1>6 DEF S

LEMMA ReachStaysIn ==
  ASSUME NEW start \in SUBSET Packages, NEW pairs \in SUBSET (Packages \X Packages)
  PROVE  Reach(start, pairs) \subseteq Packages
<1>1. Closed(Packages, pairs)
  BY DEF Closed
<1> QED
  BY <1>1, ReachIsWithinClosed

LEMMA Whole ==
  ASSUME NEW X \in SUBSET Packages, Cardinality(X) >= Cardinality(Packages)
  PROVE  X = Packages
<1>1. IsFiniteSet(Packages)
  BY DEF PackagesAssumption
<1>2. /\ Cardinality(X) \in Nat /\ Cardinality(Packages) \in Nat
      /\ X # Packages => Cardinality(X) < Cardinality(Packages)
  BY <1>1, FS_Subset, FS_CardinalityType
<1> QED
  BY <1>2

\* A step that reaches nothing new reaches nothing new ever after, and as many
\* steps as there are packages cannot all reach something new.
LEMMA ReachIsClosed ==
  ASSUME NEW start \in SUBSET Packages, NEW pairs \in SUBSET (Packages \X Packages)
  PROVE  Closed(Reach(start, pairs), pairs)
<1> DEFINE N == Cardinality(Packages)
<1>1. PICK f : IsWithin(f, N, start, pairs) /\ Reach(start, pairs) = f[N]
  BY ReachIsWithin
<1>2. N \in Nat
  BY ReachIsWithin
<1>3. N = Cardinality(Packages)
  OBVIOUS
<1> HIDE DEF N
<1>4. f[0] = start /\ \A n \in Nat : n + 1 <= N => f[n + 1] = Onwards(f[n], pairs)
  BY <1>1, <1>2, WithinValues
<1> DEFINE Enough(X, n) == X \subseteq Packages /\ (Closed(X, pairs) \/ Cardinality(X) >= n)
           S == {n \in Nat : n <= N => Enough(f[n], n)}
<1>5. 0 \in S
  <2>1. Cardinality(start) \in Nat
    BY FS_Subset, FS_CardinalityType DEF PackagesAssumption
  <2> QED
    BY <1>4, <2>1
<1>6. ASSUME NEW n \in Nat, n \in S PROVE n + 1 \in S
  <2> SUFFICES ASSUME n + 1 <= N PROVE Enough(f[n + 1], n + 1)
    OBVIOUS
  <2>1. Enough(f[n], n) /\ f[n + 1] = Onwards(f[n], pairs)
    BY <1>2, <1>4, <1>6
  <2>2. f[n + 1] \subseteq Packages /\ f[n] \subseteq f[n + 1]
    BY <2>1 DEF Onwards
  <2>3. CASE Closed(f[n], pairs)
    <3>1. f[n + 1] = f[n]
      BY <2>1, <2>3 DEF Onwards, Closed
    <3> QED
      BY <2>2, <2>3, <3>1
  <2>4. CASE ~Closed(f[n], pairs)
    <3>1. PICK d \in pairs : d[1] \in f[n] /\ d[2] \notin f[n]
      BY <2>4 DEF Closed
    <3>2. f[n] # f[n + 1]
      BY <2>1, <3>1 DEF Onwards
    <3>3. IsFiniteSet(f[n + 1])
      BY <2>2, FS_Subset DEF PackagesAssumption
    <3>4. /\ Cardinality(f[n]) \in Nat /\ Cardinality(f[n + 1]) \in Nat
          /\ Cardinality(f[n]) < Cardinality(f[n + 1])
      BY <2>2, <3>2, <3>3, FS_Subset, FS_CardinalityType
    <3>5. Cardinality(f[n]) >= n
      BY <2>1, <2>4
    <3> QED
      BY <2>2, <3>4, <3>5
  <2> QED
    BY <2>3, <2>4
<1> HIDE DEF S
<1>7. N \in S
  BY <1>2, <1>5, <1>6, Induction
<1>8. f[N] \subseteq Packages /\ (Closed(f[N], pairs) \/ Cardinality(f[N]) >= N)
  BY <1>2, <1>7 DEF S
<1>9. CASE Cardinality(f[N]) >= N
  <2>2. f[N] = Packages
    BY <1>3, <1>8, <1>9, Whole
  <2> QED
    BY <1>1, <2>2 DEF Closed
<1> QED
  BY <1>1, <1>8, <1>9

\* What reachable_from computes: the packages the pairs lead to, all of them and no
\* other (the loop of the code ends when nothing new is found).
THEOREM ReachIsLeast ==
  ASSUME NEW start \in SUBSET Packages, NEW pairs \in SUBSET (Packages \X Packages)
  PROVE  /\ start \subseteq Reach(start, pairs)
         /\ Reach(start, pairs) \subseteq Packages
         /\ Closed(Reach(start, pairs), pairs)
         /\ \A X : start \subseteq X /\ Closed(X, pairs) => Reach(start, pairs) \subseteq X
BY ReachHasStart, ReachStaysIn, ReachIsClosed, ReachIsWithinClosed

\* What is reached leads only to what is reached.
LEMMA ReachGoesOn ==
  ASSUME NEW start \in SUBSET Packages, NEW pairs \in SUBSET (Packages \X Packages),
         NEW more \in SUBSET Reach(start, pairs), NEW some \in SUBSET pairs
  PROVE  Reach(more, some) \subseteq Reach(start, pairs)
<1>1. Closed(Reach(start, pairs), some)
  BY ReachIsLeast DEF Closed
<1> QED
  BY <1>1, ReachIsWithinClosed

LEMMA ReachGrows ==
  ASSUME NEW start \in SUBSET Packages, NEW pairs \in SUBSET (Packages \X Packages),
         NEW fewer \in SUBSET start, NEW some \in SUBSET pairs
  PROVE  Reach(fewer, some) \subseteq Reach(start, pairs)
<1>1. fewer \subseteq Reach(start, pairs)
  BY ReachIsLeast
<1> QED
  BY <1>1, ReachGoesOn

\* A package that is reached is reached from one of the start.
LEMMA ReachedFromOne ==
  ASSUME NEW start \in SUBSET Packages, NEW pairs \in SUBSET (Packages \X Packages),
         NEW p \in Reach(start, pairs)
  PROVE  \E s \in start : p \in Reach({s}, pairs)
<1> DEFINE X == {x \in Packages : \E s \in start : x \in Reach({s}, pairs)}
<1>1. ASSUME NEW s \in start
      PROVE  s \in Reach({s}, pairs) /\ Closed(Reach({s}, pairs), pairs)
  BY ReachIsLeast, {s} \in SUBSET Packages
<1>2. start \subseteq X
  BY <1>1
<1>3. Closed(X, pairs)
  <2> SUFFICES ASSUME NEW d \in pairs, d[1] \in X PROVE d[2] \in X
    BY DEF Closed
  <2>1. PICK s \in start : d[1] \in Reach({s}, pairs)
    OBVIOUS
  <2>2. d[2] \in Reach({s}, pairs)
    BY <1>1, <2>1 DEF Closed
  <2> QED
    BY <2>2
<1> HIDE DEF X
<1>4. p \in X
  BY <1>2, <1>3, ReachIsWithinClosed
<1> QED
  BY <1>4 DEF X

LEMMA PairsOfEdges ==
  ASSUME NEW edges, \A e \in edges : e.from \in Packages /\ e.to \in Packages
  PROVE  Pairs(edges) \in SUBSET (Packages \X Packages)
BY DEF Pairs

LEMMA PairsGrow ==
  ASSUME NEW edges, NEW some \in SUBSET edges
  PROVE  Pairs(some) \subseteq Pairs(edges)
BY DEF Pairs

-----------------------------------------------------------------------------
(* What the plan holds *)

\* The innermost directory around a package's source is its own.
LEMMA PackageOfIs ==
  ASSUME NEW p \in Packages
  PROVE  PackageOf(p) = p
<1> DEFINE around == {q \in Packages : q = p \/ <<p, q>> \in Inside}
           Innermost(q) == \A d \in around \ {q} : <<q, d>> \in Inside
<1>1. p \in around /\ Innermost(p)
  OBVIOUS
<1>2. ASSUME NEW q \in around, Innermost(q), q # p PROVE FALSE
  <2>1. <<p, q>> \in Inside /\ <<q, p>> \in Inside
    BY <1>1, <1>2
  <2> QED
    BY <2>1 DEF PackagesAssumption
<1> QED
  BY <1>1, <1>2 DEF PackageOf

LEMMA TokioOfIsTokio ==
  ASSUME NEW edges, NEW p \in DOMAIN TokioPackage(edges)
  PROVE  TokioPackage(edges)[p] \in Named("tokio")
<1> DEFINE bound == [q \in Packages |-> {e.to : e \in TokioEdges(q, edges)}]
<1>1. /\ p \in Packages /\ \E t \in Named("tokio") : bound[p] = {t}
      /\ TokioPackage(edges)[p] = CHOOSE t \in bound[p] : TRUE
  BY DEF TokioPackage
<1>2. PICK t \in Named("tokio") : bound[p] = {t}
  BY <1>1
<1> QED
  BY <1>1, <1>2

\* Native code in a package is bound to the one OpenTelemetry that every root which
\* reaches the package has, and no root has a second one (r4_otel_package_map).
THEOREM RootsAgree ==
  ASSUME NEW reached, NEW p \in DOMAIN R4OtelPackage(reached),
         NEW r \in DOMAIN reached, p \in reached[r]
  PROVE  reached[r] \cap Named("opentelemetry") = {R4OtelPackage(reached)[p]}
<1> DEFINE otels == [s \in DOMAIN reached |-> reached[s] \cap Named("opentelemetry")]
           ids == {otels[s] : s \in {q \in DOMAIN reached : p \in reached[q]}}
           mine == reached[r] \cap Named("opentelemetry")
<1>1. /\ Cardinality(ids) = 1 /\ \A set \in ids : Cardinality(set) = 1
      /\ R4OtelPackage(reached)[p] = CHOOSE o \in UNION ids : TRUE
  <2> DEFINE seen == [q \in UNION {reached[s] : s \in DOMAIN reached} |->
                        {otels[s] : s \in {x \in DOMAIN reached : q \in reached[x]}}]
             mapped == {q \in DOMAIN seen :
                          Cardinality(seen[q]) = 1 /\ \A set \in seen[q] : Cardinality(set) = 1}
  <2>1. R4OtelPackage(reached) = [q \in mapped |-> CHOOSE o \in UNION seen[q] : TRUE]
    BY DEF R4OtelPackage
  <2>2. p \in mapped
    BY <2>1
  <2>3. seen[p] = ids
    BY <2>2
  <2> HIDE DEF mapped, ids
  <2>4. R4OtelPackage(reached)[p] = CHOOSE o \in UNION seen[p] : TRUE
    BY <2>1, <2>2
  <2>5. Cardinality(seen[p]) = 1 /\ \A set \in seen[p] : Cardinality(set) = 1
    BY <2>2 DEF mapped
  <2> HIDE DEF seen
  <2> QED
    BY <2>3, <2>4, <2>5
<1>2. mine \in ids /\ ids \subseteq SUBSET Packages
  BY DEF Named
<1>3. IsFiniteSet(SUBSET Packages)
  BY FS_SUBSET DEF PackagesAssumption
<1>4. IsFiniteSet(ids) /\ IsFiniteSet(mine)
  <2>1. mine \subseteq Packages
    BY DEF Named
  <2> HIDE DEF ids, mine
  <2> QED
    BY <1>2, <1>3, <2>1, FS_Subset DEF PackagesAssumption
<1> HIDE DEF ids, mine
<1>5. PICK o : mine = {o}
  BY <1>1, <1>2, <1>4, FS_Singleton
<1>6. ids = {mine}
  <2>1. PICK set : ids = {set}
    BY <1>1, <1>4, FS_Singleton
  <2> QED
    BY <1>2, <2>1
<1>7. R4OtelPackage(reached)[p] = o
  BY <1>1, <1>5, <1>6
<1> QED
  BY <1>5, <1>7 DEF mine

\* The wrapper recovers the profile Cargo compiles a unit with from the flags that
\* Cargo passes (rustc_profile), so that an artifact is matched by its own profile.
THEOREM ProfileIsRecovered ==
  ASSUME NEW profile \in Profiles
  PROVE  RustcProfile(CargoFlags(profile)) = profile
<1> DEFINE flags == CargoFlags(profile)
           read == RustcProfile(flags)
<1>1. /\ profile = [opt |-> profile.opt, debug |-> profile.debug,
                    overflow |-> profile.overflow]
      /\ profile.opt \in {"0", "3"}
      /\ profile.debug \in BOOLEAN /\ profile.overflow \in BOOLEAN
  BY DEF Profiles
<1>2. (IF flags.opt = "absent" THEN "0" ELSE flags.opt) = profile.opt
  BY <1>1 DEF CargoFlags
<1>3. (IF flags.debug = "absent" THEN profile.opt = "0" ELSE flags.debug = "on")
        = profile.debug
  BY <1>1 DEF CargoFlags
<1>4. (IF flags.overflow = "absent" THEN profile.debug ELSE flags.overflow = "on")
        = profile.overflow
  BY <1>1 DEF CargoFlags
<1>5. read = [opt |-> profile.opt, debug |-> profile.debug, overflow |-> profile.overflow]
  <2> HIDE DEF flags
  <2> QED
    BY <1>2, <1>3, <1>4 DEF RustcProfile
<1> QED
  BY <1>1, <1>5

\* Every root of a plan is a package of the target, and so is all it reaches.
LEMMA RootsOfTarget ==
  ASSUME NEW edges \in SUBSET Edges, NEW selected \in SUBSET Members
  PROVE  TargetRoots(edges, selected) \subseteq Packages \ ProcMacros
BY DEF TargetRoots, DefaultRoots

\* An executable that is selected, or any if nothing is, is a root.
LEMMA ExecutablesAreRoots ==
  ASSUME NEW edges, NEW selected, NEW p \in Members \cap Executables,
         selected = {} \/ p \in selected
  PROVE  p \in TargetRoots(edges, selected)
BY DEF TargetRoots, DefaultRoots

\* What package p reaches when the target is built.
Reached(p, edges) == Reach({p}, Pairs(TargetEdges(edges)))

LEMMA TargetPairs ==
  ASSUME NEW edges \in SUBSET Edges
  PROVE  Pairs(TargetEdges(edges)) \in SUBSET (Packages \X (Packages \ ProcMacros))
BY DEF TargetEdges, Edges, Pairs

LEMMA ReachedIsTarget ==
  ASSUME NEW edges \in SUBSET Edges, NEW p \in Packages \ ProcMacros
  PROVE  /\ p \in Reached(p, edges)
         /\ Reached(p, edges) \subseteq Packages \ ProcMacros
         /\ Closed(Reached(p, edges), Pairs(TargetEdges(edges)))
<1> DEFINE pairs == Pairs(TargetEdges(edges))
<1>1. {p} \in SUBSET Packages /\ pairs \in SUBSET (Packages \X Packages)
  BY TargetPairs
<1>2. Closed(Packages \ ProcMacros, pairs) /\ {p} \subseteq Packages \ ProcMacros
  BY TargetPairs DEF Closed
<1> HIDE DEF pairs
<1>3. Reach({p}, pairs) \subseteq Packages \ ProcMacros
  BY <1>2, ReachIsWithinClosed
<1>4. p \in Reach({p}, pairs) /\ Closed(Reach({p}, pairs), pairs)
  BY <1>1, ReachIsLeast
<1> QED
  BY <1>3, <1>4 DEF Reached, pairs

\* The parts of a plan.
LEMMA PlanParts ==
  ASSUME NEW edges, NEW selected
  PROVE  LET plan == PlanOf(edges, selected)
             roots == TargetRoots(edges, selected)
             reached == Reachability(edges, roots)
         IN  /\ DOMAIN reached = roots
             /\ \A r \in roots : reached[r] = Reached(r, edges)
             /\ plan.reachable = UNION {Reached(r, edges) : r \in roots}
             /\ plan.hostNames = Names \ {Name[p] : p \in plan.reachable}
             /\ plan.hostDirs = Packages \ plan.reachable
             /\ plan.otelOf = R4OtelPackage(reached)
             /\ plan.shimUnsafe = ShimUnsafe(reached)
<1> DEFINE roots == TargetRoots(edges, selected)
           reached == Reachability(edges, roots)
<1>1. DOMAIN reached = roots /\ \A r \in roots : reached[r] = Reached(r, edges)
  BY DEF Reachability, Reached
<1> HIDE DEF reached, roots
<1>2. UNION {reached[r] : r \in DOMAIN reached} = UNION {Reached(r, edges) : r \in roots}
  BY <1>1
<1> QED
  BY <1>1, <1>2 DEF PlanOf, reached, roots

LEMMA ReachableIsTarget ==
  ASSUME NEW edges \in SUBSET Edges, NEW selected \in SUBSET Members
  PROVE  PlanOf(edges, selected).reachable \subseteq Packages \ ProcMacros
<1> DEFINE roots == TargetRoots(edges, selected)
<1>1. roots \subseteq Packages \ ProcMacros
  BY RootsOfTarget
<1>2. \A r \in roots : Reached(r, edges) \subseteq Packages \ ProcMacros
  BY <1>1, ReachedIsTarget
<1>3. PlanOf(edges, selected).reachable = UNION {Reached(r, edges) : r \in roots}
  BY PlanParts
<1> HIDE DEF roots
<1> QED
  BY <1>2, <1>3

\* A package that an image without the shim reaches is not given trampolines.
THEOREM ShimlessIsUnsafe ==
  ASSUME NEW edges \in SUBSET Edges, NEW selected \in SUBSET Members,
         NEW r \in TargetRoots(edges, selected), NEW p \in Reached(r, edges),
         Reached(r, edges) \cap Named("otel_shim") = {}
  PROVE  Name[p] \in PlanOf(edges, selected).shimUnsafe
<1> DEFINE reached == Reachability(edges, TargetRoots(edges, selected))
<1>1. r \in DOMAIN reached /\ reached[r] = Reached(r, edges)
  BY PlanParts
<1>2. PlanOf(edges, selected).shimUnsafe = ShimUnsafe(reached)
  BY PlanParts
<1> HIDE DEF reached
<1>3. r \in Shimless(reached)
  BY <1>1 DEF Shimless
<1>4. p \in UNION {reached[s] : s \in Shimless(reached)}
  BY <1>1, <1>3
<1> QED
  BY <1>2, <1>4 DEF ShimUnsafe

=============================================================================
