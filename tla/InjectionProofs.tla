-------------------------- MODULE InjectionProofs --------------------------
(***************************************************************************)
(* What the injection makes of a pod spec, for any spec and any FluentPVC: *)
(* all containers share the claim, have the common variables, and the      *)
(* sidecar is among them.                                                  *)
(*                                                                         *)
(* The provers cannot instantiate an induction theorem whose parameter is  *)
(* an operator.  Induction is over a set of numbers here, from the         *)
(* theorem that the strict subset ordering is well-founded.                *)
(***************************************************************************)
EXTENDS PodInjection, FiniteSetTheorems, TLAPS

-----------------------------------------------------------------------------
(* Induction and folds.                                                    *)

\* A set that has 0, and with a number its successor, has all of them.
LEMMA SetInduction ==
    ASSUME NEW S, 0 \in S, \A n \in Nat : n \in S => n + 1 \in S
    PROVE  Nat \subseteq S
<1> SUFFICES ASSUME NEW m \in Nat, m \notin S PROVE FALSE
  OBVIOUS
<1> DEFINE T == {0..k : k \in Nat \ S}
<1>1. T \subseteq FiniteSubsetsOf(Nat) /\ T # {}
  <2>1. \A k \in Nat : IsFiniteSet(0..k) /\ 0..k \subseteq Nat
    BY FS_Interval
  <2>2. 0..m \in T
    OBVIOUS
  <2> QED BY <2>1, <2>2 DEF FiniteSubsetsOf
<1>2. IsWellFoundedOn(StrictSubsetOrdering(Nat), FiniteSubsetsOf(Nat))
  BY FS_StrictSubsetOrderingWellFounded
<1>3. PICK t \in T : \A u \in T : <<u, t>> \notin StrictSubsetOrdering(Nat)
  <2> HIDE DEF T
  <2> QED BY <1>1, <1>2, WFMin
<1>4. PICK k \in Nat \ S : t = 0..k
  BY <1>3
<1>5. k # 0 /\ k - 1 \in Nat \ S
  BY <1>4
<1>6. 0..(k - 1) \in T
  BY <1>5
<1>7. <<0..(k - 1), 0..k>> \in StrictSubsetOrdering(Nat)
  BY <1>5 DEF StrictSubsetOrdering
<1> QED BY <1>3, <1>4, <1>6, <1>7

\* What is true of the first index, and handed on to the next, is true of the last.
LEMMA IndexInduction ==
    ASSUME NEW n \in Nat, NEW S, 0 \in S, \A i \in 1..n : i - 1 \in S => i \in S
    PROVE  n \in S
<1> DEFINE U == {k \in Nat : k <= n => k \in S}
<1>1. \A k \in Nat : k \in U => k + 1 \in U
  <2> SUFFICES ASSUME NEW k \in Nat, k \in S, k + 1 <= n PROVE k + 1 \in S
    OBVIOUS
  <2>1. k + 1 \in 1..n /\ (k + 1) - 1 = k
    OBVIOUS
  <2> QED BY <2>1
<1>2. Nat \subseteq U
  <2> HIDE DEF U
  <2>1. 0 \in U
    BY DEF U
  <2> QED BY <1>1, <2>1, SetInduction
<1> QED BY <1>2

\* The last index of a set of them.
LEMMA LastIndex ==
    ASSUME NEW k \in Nat, NEW s \in SUBSET (1..k), k \in s
    PROVE  Max(s) = k
<1>1. \A y \in s : k >= y
  OBVIOUS
<1>2. \A x \in s : (\A y \in s : x >= y) => x = k
  OBVIOUS
<1> QED BY <1>1, <1>2 DEF Max

\* It is one of them.
LEMMA LastIndexIsIndex ==
    ASSUME NEW n \in Nat, NEW s \in SUBSET (1..n), s # {}
    PROVE  Max(s) \in s
<1> DEFINE S == {k \in Nat : \A t \in SUBSET (1..k) : t # {} => Max(t) \in t}
<1>1. 0 \in S
  <2>1. 1..0 = {}
    OBVIOUS
  <2> QED BY <2>1
<1>2. ASSUME NEW k \in Nat, k \in S PROVE k + 1 \in S
  <2> SUFFICES ASSUME NEW t \in SUBSET (1..(k + 1)), t # {} PROVE Max(t) \in t
    OBVIOUS
  <2>1. CASE k + 1 \in t
    BY <2>1, LastIndex
  <2>2. CASE k + 1 \notin t
    <3>1. t \in SUBSET (1..k)
      BY <2>2
    <3> QED BY <1>2, <3>1
  <2> QED BY <2>1, <2>2
<1>3. Nat \subseteq S
  <2> HIDE DEF S
  <2> QED BY <1>1, <1>2, SetInduction
<1> QED BY <1>3

\* The recursion that folds are defined by (MapThenFoldSet), of a step that is a
\* function.
Folded(it, F, base, xs, n) ==
    it = [s \in SUBSET (1..n) |->
             IF s = {} THEN base ELSE F[<<it[s \ {Max(s)}], xs[Max(s)]>>]]

Foldable(D, F, base, xs, n) ==
    \E it \in [SUBSET (1..n) -> D] : Folded(it, F, base, xs, n)

\* It has a solution.
LEMMA FoldExists ==
    ASSUME NEW D, NEW V, NEW F \in [D \X V -> D], NEW base \in D, NEW xs \in Seq(V)
    PROVE  Foldable(D, F, base, xs, Len(xs))
<1> DEFINE S == {n \in Nat : n <= Len(xs) => Foldable(D, F, base, xs, n)}
<1>1. Foldable(D, F, base, xs, 0)
  <2>1. Folded([s \in SUBSET (1..0) |-> base], F, base, xs, 0)
    BY DEF Folded
  <2> QED BY <2>1 DEF Foldable
<1>2. ASSUME NEW n \in Nat, Foldable(D, F, base, xs, n), n + 1 <= Len(xs)
      PROVE  Foldable(D, F, base, xs, n + 1)
  <2>1. PICK g \in [SUBSET (1..n) -> D] : Folded(g, F, base, xs, n)
    BY <1>2 DEF Foldable
  <2> DEFINE h == [s \in SUBSET (1..(n + 1)) |->
                     IF n + 1 \in s THEN F[<<g[s \ {n + 1}], xs[n + 1]>>] ELSE g[s]]
  <2>2. xs[n + 1] \in V
    BY <1>2
  <2>3. h \in [SUBSET (1..(n + 1)) -> D]
    <3> SUFFICES ASSUME NEW s \in SUBSET (1..(n + 1)) PROVE h[s] \in D
      OBVIOUS
    <3>1. s \ {n + 1} \in SUBSET (1..n)
      OBVIOUS
    <3>2. n + 1 \notin s => s \in SUBSET (1..n)
      OBVIOUS
    <3> QED BY <2>2, <3>1, <3>2
  <2>4. ASSUME NEW s \in SUBSET (1..(n + 1))
        PROVE  h[s] = IF s = {} THEN base ELSE F[<<h[s \ {Max(s)}], xs[Max(s)]>>]
    <3>1. CASE n + 1 \in s
      <4>1. Max(s) = n + 1
        BY <3>1, LastIndex
      <4>2. s \ {n + 1} \in SUBSET (1..(n + 1)) /\ n + 1 \notin s \ {n + 1}
        OBVIOUS
      <4> QED BY <3>1, <4>1, <4>2
    <3>2. CASE n + 1 \notin s
      <4>1. s \in SUBSET (1..n)
        BY <3>2
      <4>2. s \ {Max(s)} \in SUBSET (1..(n + 1)) /\ n + 1 \notin s \ {Max(s)}
        BY <3>2
      <4>3. g[s] = IF s = {} THEN base ELSE F[<<g[s \ {Max(s)}], xs[Max(s)]>>]
        BY <2>1, <4>1 DEF Folded
      <4> QED BY <3>2, <4>2, <4>3
    <3> QED BY <3>1, <3>2
  <2>5. Folded(h, F, base, xs, n + 1)
    <3>1. h = [s \in SUBSET (1..(n + 1)) |-> h[s]]
      OBVIOUS
    <3> HIDE DEF h
    <3> QED BY <2>4, <3>1 DEF Folded
  <2> HIDE DEF h
  <2> QED BY <2>3, <2>5 DEF Foldable
<1>3. Len(xs) \in Nat
  OBVIOUS
<1>4. 0 \in S /\ \A n \in Nat : n \in S => n + 1 \in S
  BY <1>1, <1>2, <1>3
<1>5. Nat \subseteq S
  <2> HIDE DEF S
  <2> QED BY <1>4, SetInduction
<1> QED BY <1>3, <1>5

\* What is before the last index of a prefix is a prefix.
LEMMA PrefixIndices ==
    ASSUME NEW n \in Nat, NEW i \in 1..n
    PROVE  /\ 1..i \in SUBSET (1..n) /\ 1..i # {} /\ Max(1..i) = i
           /\ (1..i) \ {Max(1..i)} = 1..(i - 1)
<1>1. 1..i \in SUBSET (1..n) /\ i \in 1..i /\ 1..i \in SUBSET (1..i) /\ i \in Nat
  OBVIOUS
<1>2. Max(1..i) = i
  BY <1>1, LastIndex
<1>3. (1..i) \ {i} = 1..(i - 1)
  OBVIOUS
<1>4. (1..i) \ {Max(1..i)} = 1..(i - 1)
  BY <1>2, <1>3
<1> QED BY <1>1, <1>2, <1>4, Zenon

-----------------------------------------------------------------------------
(* One injection.                                                          *)

\* The injected element is there, and everything else was there and has another name.
LEMMA Injected ==
    ASSUME NEW T, NEW s \in Seq(T), NEW x \in T
    PROVE  /\ InjectOrReplace(s, x) \in Seq(T)
           /\ \E i \in DOMAIN InjectOrReplace(s, x) : InjectOrReplace(s, x)[i] = x
           /\ \A i \in DOMAIN InjectOrReplace(s, x) :
                 \/ InjectOrReplace(s, x)[i] = x
                 \/ i \in DOMAIN s /\ InjectOrReplace(s, x)[i] = s[i] /\ s[i].name # x.name
<1>1. CASE x.name \in NamesOf(s)
  <2> DEFINE r == [i \in DOMAIN s |-> IF s[i].name = x.name THEN x ELSE s[i]]
  <2>1. InjectOrReplace(s, x) = r
    BY <1>1 DEF InjectOrReplace
  <2>2. r \in Seq(T) /\ DOMAIN r = DOMAIN s
    OBVIOUS
  <2>3. PICK i \in DOMAIN s : s[i].name = x.name
    BY <1>1 DEF NamesOf
  <2> QED BY <2>1, <2>2, <2>3
<1>2. CASE x.name \notin NamesOf(s)
  <2>1. InjectOrReplace(s, x) = Append(s, x)
    BY <1>2 DEF InjectOrReplace
  <2>2. /\ Append(s, x) \in Seq(T) /\ Len(Append(s, x)) = Len(s) + 1
        /\ Append(s, x)[Len(s) + 1] = x
        /\ \A i \in DOMAIN s : Append(s, x)[i] = s[i]
    OBVIOUS
  <2>3. \A i \in DOMAIN s : s[i].name # x.name
    BY <1>2 DEF NamesOf
  <2>4. DOMAIN Append(s, x) = DOMAIN s \cup {Len(s) + 1}
    BY <2>2
  <2> QED BY <2>1, <2>2, <2>3, <2>4
<1> QED BY <1>1, <1>2

\* The two facts by themselves.
LEMMA InjectedIsThere ==
    ASSUME NEW T, NEW s \in Seq(T), NEW x \in T
    PROVE  \E i \in DOMAIN InjectOrReplace(s, x) : InjectOrReplace(s, x)[i] = x
BY Injected

LEMMA InjectedTakesTheName ==
    ASSUME NEW T, NEW s \in Seq(T), NEW x \in T, NEW i \in DOMAIN InjectOrReplace(s, x),
           InjectOrReplace(s, x)[i].name = x.name
    PROVE  InjectOrReplace(s, x)[i] = x
<1>1. \/ InjectOrReplace(s, x)[i] = x
      \/ i \in DOMAIN s /\ InjectOrReplace(s, x)[i] = s[i] /\ s[i].name # x.name
  BY Injected
<1> QED BY <1>1

\* A volume is injected: the containers are as they were.
LEMMA VolumeInjected ==
    ASSUME NEW spec \in PodSpec, NEW v \in Volume
    PROVE  LET t == InjectOrReplaceVolume(spec, v)
           IN  /\ t \in PodSpec
               /\ t.containers = spec.containers
               /\ t.volumes = InjectOrReplace(spec.volumes, v)
<1>1. InjectOrReplace(spec.volumes, v) \in Seq(Volume)
  BY Injected DEF PodSpec
<1> QED BY <1>1 DEF InjectOrReplaceVolume, PodSpec

\* A sequence whose elements are changed one by one.
LEMMA MappedSequence ==
    ASSUME NEW T, NEW U, NEW s \in Seq(T), NEW r, r = [i \in DOMAIN s |-> r[i]],
           \A i \in DOMAIN s : r[i] \in U
    PROVE  r \in Seq(U)
<1>1. Len(s) \in Nat /\ DOMAIN s = 1..Len(s)
  OBVIOUS
<1>2. r \in [1..Len(s) -> U]
  BY <1>1
<1> QED BY <1>1, <1>2

\* What a container of a spec has.
LEMMA ContainerTypes ==
    ASSUME NEW spec \in PodSpec, NEW i \in DOMAIN spec.containers
    PROVE  /\ spec.containers[i] \in Container
           /\ spec.containers[i].mounts \in Seq(VolumeMount)
           /\ spec.containers[i].envs \in Seq(EnvVar)
<1>1. spec.containers \in Seq(Container)
  BY DEF PodSpec
<1>2. spec.containers[i] \in Container
  BY <1>1
<1> QED BY <1>2 DEF Container

\* Containers are changed one by one.
SameContainers(t, spec) ==
    /\ DOMAIN t.containers = DOMAIN spec.containers
    /\ \A i \in DOMAIN spec.containers :
          /\ t.containers[i].name = spec.containers[i].name
          /\ t.containers[i].image = spec.containers[i].image

\* A mount is injected into every container, of which nothing else is changed.
LEMMA MountInjected ==
    ASSUME NEW spec \in PodSpec, NEW m \in VolumeMount
    PROVE  LET t == InjectOrReplaceVolumeMount(spec, m)
           IN  /\ t \in PodSpec
               /\ t.volumes = spec.volumes
               /\ SameContainers(t, spec)
               /\ \A i \in DOMAIN spec.containers :
                     t.containers[i].mounts = InjectOrReplace(spec.containers[i].mounts, m)
<1> DEFINE cs == [i \in DOMAIN spec.containers |->
                    [spec.containers[i] EXCEPT !.mounts = InjectOrReplace(@, m)]]
<1>1. InjectOrReplaceVolumeMount(spec, m) = [spec EXCEPT !.containers = cs]
  BY DEF InjectOrReplaceVolumeMount, EachContainer
<1>2. spec.containers \in Seq(Container)
  BY DEF PodSpec
<1>3. ASSUME NEW i \in DOMAIN spec.containers
      PROVE  /\ cs[i] \in Container
             /\ cs[i].name = spec.containers[i].name
             /\ cs[i].image = spec.containers[i].image
             /\ cs[i].mounts = InjectOrReplace(spec.containers[i].mounts, m)
  <2>1. spec.containers[i] \in Container
    BY <1>2
  <2>2. InjectOrReplace(spec.containers[i].mounts, m) \in Seq(VolumeMount)
    BY <2>1, Injected DEF Container
  <2> QED BY <2>1, <2>2 DEF Container
<1>4. cs \in Seq(Container) /\ DOMAIN cs = DOMAIN spec.containers
  <2> HIDE DEF cs
  <2>1. cs = [i \in DOMAIN spec.containers |-> cs[i]]
    BY DEF cs
  <2> QED BY <1>2, <1>3, <2>1, MappedSequence
<1>5. /\ [spec EXCEPT !.containers = cs] \in PodSpec
      /\ [spec EXCEPT !.containers = cs].containers = cs
      /\ [spec EXCEPT !.containers = cs].volumes = spec.volumes
  <2> HIDE DEF cs
  <2> QED BY <1>4 DEF PodSpec
<1> QED BY <1>1, <1>3, <1>4, <1>5 DEF SameContainers

\* Folds, from the left: each value comes from the one before it.  The step is not a
\* function and the fold is a choice, of which this says that there is one.
LEMMA AroundFold ==
    ASSUME NEW base \in Seq(EnvVar), NEW xs \in Seq(EnvVar), NEW e \in EnvVar
    PROVE  \E a : /\ a[0] = base
                  /\ \A i \in 1..Len(xs) : a[i] = a[i - 1] \o Around(xs[i], e)
                  /\ FoldLeft(LAMBDA s, env : s \o Around(env, e), base, xs) = a[Len(xs)]
<1> DEFINE F == [p \in Seq(EnvVar) \X EnvVar |-> p[1] \o Around(p[2], e)]
<1>1. F \in [Seq(EnvVar) \X EnvVar -> Seq(EnvVar)]
  <2> SUFFICES ASSUME NEW s \in Seq(EnvVar), NEW env \in EnvVar
               PROVE  s \o Around(env, e) \in Seq(EnvVar)
    OBVIOUS
  <2>1. Around(env, e) \in Seq(EnvVar)
    BY DEF Around
  <2> QED BY <2>1
<1>2. Len(xs) \in Nat /\ DOMAIN xs = 1..Len(xs)
  OBVIOUS
<1>3. PICK it \in [SUBSET (1..Len(xs)) -> Seq(EnvVar)] : Folded(it, F, base, xs, Len(xs))
  <2> HIDE DEF F
  <2> QED BY <1>1, <1>2, FoldExists DEF Foldable
<1>4. it = [s \in SUBSET (1..Len(xs)) |->
              IF s = {} THEN base ELSE it[s \ {Max(s)}] \o Around(xs[Max(s)], e)]
  <2>1. ASSUME NEW t \in Seq(EnvVar), NEW x \in EnvVar
        PROVE  F[<<t, x>>] = t \o Around(x, e)
    OBVIOUS
  <2>2. ASSUME NEW s \in SUBSET (1..Len(xs)), s # {}
        PROVE  it[s \ {Max(s)}] \in Seq(EnvVar) /\ xs[Max(s)] \in EnvVar
    <3>1. Max(s) \in 1..Len(xs)
      BY <1>2, <2>2, LastIndexIsIndex
    <3>2. s \ {Max(s)} \in SUBSET (1..Len(xs))
      OBVIOUS
    <3> QED BY <1>2, <3>1, <3>2
  <2> HIDE DEF F
  <2> QED BY <1>3, <2>1, <2>2 DEF Folded
<1>5. PICK iter : /\ iter = [s \in SUBSET (1..Len(xs)) |->
                       IF s = {} THEN base ELSE iter[s \ {Max(s)}] \o Around(xs[Max(s)], e)]
                  /\ FoldLeft(LAMBDA s, env : s \o Around(env, e), base, xs)
                        = iter[1..Len(xs)]
  BY <1>2, <1>4, Zenon DEF FoldLeft, MapThenFoldSet
<1>6. iter[{}] = base
  BY <1>5
<1>7. ASSUME NEW i \in 1..Len(xs)
      PROVE  iter[1..i] = iter[1..(i - 1)] \o Around(xs[i], e)
  BY <1>2, <1>5, PrefixIndices
<1> DEFINE a == [i \in 0..Len(xs) |-> iter[1..i]]
<1>8. /\ a[0] = base
      /\ \A i \in 1..Len(xs) : a[i] = a[i - 1] \o Around(xs[i], e)
      /\ a[Len(xs)] = iter[1..Len(xs)]
  BY <1>2, <1>6, <1>7
<1> HIDE DEF a
<1> QED BY <1>5, <1>8

\* All variables are kept, and the injected one is among them.
LEMMA EnvsInjected ==
    ASSUME NEW envs \in Seq(EnvVar), NEW e \in EnvVar
    PROVE  LET r == InjectEnv(envs, e)
           IN  /\ r \in Seq(EnvVar)
               /\ Range(envs) \cup {e} \subseteq Range(r)
<1>1. CASE e.name \notin NamesOf(envs)
  <2>1. InjectEnv(envs, e) = Append(envs, e)
    BY <1>1 DEF InjectEnv
  <2>2. /\ Append(envs, e) \in Seq(EnvVar) /\ Len(Append(envs, e)) = Len(envs) + 1
        /\ Append(envs, e)[Len(envs) + 1] = e
        /\ \A i \in DOMAIN envs : Append(envs, e)[i] = envs[i]
    OBVIOUS
  <2>3. DOMAIN Append(envs, e) = DOMAIN envs \cup {Len(envs) + 1}
    BY <2>2
  <2> QED BY <2>1, <2>2, <2>3 DEF Range
<1>2. CASE e.name \in NamesOf(envs)
  <2>1. << >> \in Seq(EnvVar)
    OBVIOUS
  <2>2. PICK a : /\ a[0] = << >>
                 /\ \A i \in 1..Len(envs) : a[i] = a[i - 1] \o Around(envs[i], e)
                 /\ FoldLeft(LAMBDA s, env : s \o Around(env, e), << >>, envs)
                       = a[Len(envs)]
    BY <2>1, AroundFold
  <2>3. InjectEnv(envs, e) = a[Len(envs)]
    BY <1>2, <2>2, Zenon DEF InjectEnv
  <2> DEFINE S == {i \in 0..Len(envs) :
                     /\ a[i] \in Seq(EnvVar)
                     /\ \A j \in 1..i : /\ envs[j] \in Range(a[i])
                                        /\ envs[j].name = e.name => e \in Range(a[i])}
  <2>4. 0 \in S
    <3>1. 1..0 = {} /\ 0 \in 0..Len(envs)
      OBVIOUS
    <3> QED BY <2>1, <2>2, <3>1
  <2>5. ASSUME NEW i \in 1..Len(envs), i - 1 \in S PROVE i \in S
    <3>1. /\ Around(envs[i], e) \in Seq(EnvVar) /\ envs[i] \in Range(Around(envs[i], e))
          /\ envs[i].name = e.name => e \in Range(Around(envs[i], e))
      BY DEF Around, Range
    <3>2. \A s, t \in Seq(EnvVar) : /\ s \o t \in Seq(EnvVar)
                                    /\ Range(s) \cup Range(t) \subseteq Range(s \o t)
      <4> SUFFICES ASSUME NEW s \in Seq(EnvVar), NEW t \in Seq(EnvVar)
                   PROVE  Range(s) \cup Range(t) \subseteq Range(s \o t)
        OBVIOUS
      <4>1. /\ Len(s) \in Nat /\ Len(t) \in Nat /\ Len(s \o t) = Len(s) + Len(t)
            /\ DOMAIN s = 1..Len(s) /\ DOMAIN t = 1..Len(t)
            /\ DOMAIN (s \o t) = 1..(Len(s) + Len(t))
        OBVIOUS
      <4>2. ASSUME NEW k \in DOMAIN s PROVE k \in DOMAIN (s \o t) /\ (s \o t)[k] = s[k]
        BY <4>1
      <4>3. ASSUME NEW k \in DOMAIN t
            PROVE  Len(s) + k \in DOMAIN (s \o t) /\ (s \o t)[Len(s) + k] = t[k]
        BY <4>1
      <4> QED BY <4>2, <4>3 DEF Range
    <3>3. i \in 0..Len(envs) /\ \A j \in 1..i : j = i \/ j \in 1..(i - 1)
      OBVIOUS
    <3>4. a[i] = a[i - 1] \o Around(envs[i], e) /\ a[i - 1] \in Seq(EnvVar)
      BY <2>2, <2>5
    <3>5. /\ a[i] \in Seq(EnvVar)
          /\ Range(a[i - 1]) \cup Range(Around(envs[i], e)) \subseteq Range(a[i])
      BY <3>1, <3>2, <3>4
    <3> QED BY <2>5, <3>1, <3>3, <3>5
  <2>6. Len(envs) \in S
    <3> HIDE DEF S
    <3> QED BY <2>4, <2>5, IndexInduction
  <2>7. PICK k \in 1..Len(envs) : envs[k].name = e.name
    BY <1>2 DEF NamesOf
  <2>8. e \in Range(a[Len(envs)]) /\ Range(envs) \subseteq Range(a[Len(envs)])
    BY <2>6, <2>7 DEF Range
  <2> QED BY <2>3, <2>6, <2>8
<1> QED BY <1>1, <1>2

\* A variable is injected into every container, of which nothing else is changed.
LEMMA EnvInjected ==
    ASSUME NEW spec \in PodSpec, NEW e \in EnvVar
    PROVE  LET t == InjectOrReplaceEnv(spec, e)
           IN  /\ t \in PodSpec
               /\ t.volumes = spec.volumes
               /\ SameContainers(t, spec)
               /\ \A i \in DOMAIN spec.containers :
                     /\ t.containers[i].mounts = spec.containers[i].mounts
                     /\ t.containers[i].envs = InjectEnv(spec.containers[i].envs, e)
<1> DEFINE cs == [i \in DOMAIN spec.containers |->
                    [spec.containers[i] EXCEPT !.envs = InjectEnv(@, e)]]
<1>1. InjectOrReplaceEnv(spec, e) = [spec EXCEPT !.containers = cs]
  BY DEF InjectOrReplaceEnv, EachContainer
<1>2. spec.containers \in Seq(Container)
  BY DEF PodSpec
<1>3. ASSUME NEW i \in DOMAIN spec.containers
      PROVE  /\ cs[i] \in Container
             /\ cs[i].name = spec.containers[i].name
             /\ cs[i].image = spec.containers[i].image
             /\ cs[i].mounts = spec.containers[i].mounts
             /\ cs[i].envs = InjectEnv(spec.containers[i].envs, e)
  <2>1. spec.containers[i] \in Container
    BY <1>2
  <2>2. InjectEnv(spec.containers[i].envs, e) \in Seq(EnvVar)
    BY <2>1, EnvsInjected DEF Container
  <2> QED BY <2>1, <2>2 DEF Container
<1>4. cs \in Seq(Container) /\ DOMAIN cs = DOMAIN spec.containers
  <2>1. cs = [i \in DOMAIN spec.containers |-> cs[i]]
    OBVIOUS
  <2> HIDE DEF cs
  <2> QED BY <1>2, <1>3, <2>1, MappedSequence
<1>5. /\ [spec EXCEPT !.containers = cs] \in PodSpec
      /\ [spec EXCEPT !.containers = cs].containers = cs
      /\ [spec EXCEPT !.containers = cs].volumes = spec.volumes
  <2> HIDE DEF cs
  <2> QED BY <1>4 DEF PodSpec
<1> QED BY <1>1, <1>3, <1>4, <1>5 DEF SameContainers

-----------------------------------------------------------------------------
(* Lists of them, one after the other.                                     *)

\* To inject a list of volumes, of mounts or of variables is to inject one after the
\* other.
LEMMA VolumesFold ==
    ASSUME NEW base \in PodSpec, NEW xs \in Seq(Volume)
    PROVE  \E a : /\ a[0] = base
                  /\ \A i \in 1..Len(xs) : a[i] = InjectOrReplaceVolume(a[i - 1], xs[i])
                  /\ FoldLeft(InjectOrReplaceVolume, base, xs) = a[Len(xs)]
<1> DEFINE F == [p \in PodSpec \X Volume |-> InjectOrReplaceVolume(p[1], p[2])]
<1>1. F \in [PodSpec \X Volume -> PodSpec]
  BY VolumeInjected
<1>2. Len(xs) \in Nat /\ DOMAIN xs = 1..Len(xs)
  OBVIOUS
<1>3. PICK it \in [SUBSET (1..Len(xs)) -> PodSpec] : Folded(it, F, base, xs, Len(xs))
  <2> HIDE DEF F
  <2> QED BY <1>1, <1>2, FoldExists DEF Foldable
<1>4. it = [s \in SUBSET (1..Len(xs)) |->
              IF s = {} THEN base
              ELSE InjectOrReplaceVolume(it[s \ {Max(s)}], xs[Max(s)])]
  <2>1. ASSUME NEW t \in PodSpec, NEW x \in Volume
        PROVE  F[<<t, x>>] = InjectOrReplaceVolume(t, x)
    OBVIOUS
  <2>2. ASSUME NEW s \in SUBSET (1..Len(xs)), s # {}
        PROVE  it[s \ {Max(s)}] \in PodSpec /\ xs[Max(s)] \in Volume
    <3>1. Max(s) \in 1..Len(xs)
      BY <1>2, <2>2, LastIndexIsIndex
    <3>2. s \ {Max(s)} \in SUBSET (1..Len(xs))
      OBVIOUS
    <3> QED BY <1>2, <3>1, <3>2
  <2> HIDE DEF F
  <2> QED BY <1>3, <2>1, <2>2 DEF Folded
<1>5. PICK iter : /\ iter = [s \in SUBSET (1..Len(xs)) |->
                       IF s = {} THEN base
                       ELSE InjectOrReplaceVolume(iter[s \ {Max(s)}], xs[Max(s)])]
                  /\ FoldLeft(InjectOrReplaceVolume, base, xs) = iter[1..Len(xs)]
  BY <1>2, <1>4, Zenon DEF FoldLeft, MapThenFoldSet
<1>6. iter[{}] = base
  BY <1>5
<1>7. ASSUME NEW i \in 1..Len(xs)
      PROVE  iter[1..i] = InjectOrReplaceVolume(iter[1..(i - 1)], xs[i])
  BY <1>2, <1>5, PrefixIndices
<1> DEFINE a == [i \in 0..Len(xs) |-> iter[1..i]]
<1>8. /\ a[0] = base
      /\ \A i \in 1..Len(xs) : a[i] = InjectOrReplaceVolume(a[i - 1], xs[i])
      /\ a[Len(xs)] = iter[1..Len(xs)]
  BY <1>2, <1>6, <1>7
<1> HIDE DEF a
<1> QED BY <1>5, <1>8

LEMMA MountsFold ==
    ASSUME NEW base \in PodSpec, NEW xs \in Seq(VolumeMount)
    PROVE  \E a : /\ a[0] = base
                  /\ \A i \in 1..Len(xs) :
                        a[i] = InjectOrReplaceVolumeMount(a[i - 1], xs[i])
                  /\ FoldLeft(InjectOrReplaceVolumeMount, base, xs) = a[Len(xs)]
<1> DEFINE F == [p \in PodSpec \X VolumeMount |-> InjectOrReplaceVolumeMount(p[1], p[2])]
<1>1. F \in [PodSpec \X VolumeMount -> PodSpec]
  BY MountInjected
<1>2. Len(xs) \in Nat /\ DOMAIN xs = 1..Len(xs)
  OBVIOUS
<1>3. PICK it \in [SUBSET (1..Len(xs)) -> PodSpec] : Folded(it, F, base, xs, Len(xs))
  <2> HIDE DEF F
  <2> QED BY <1>1, <1>2, FoldExists DEF Foldable
<1>4. it = [s \in SUBSET (1..Len(xs)) |->
              IF s = {} THEN base
              ELSE InjectOrReplaceVolumeMount(it[s \ {Max(s)}], xs[Max(s)])]
  <2>1. ASSUME NEW t \in PodSpec, NEW x \in VolumeMount
        PROVE  F[<<t, x>>] = InjectOrReplaceVolumeMount(t, x)
    OBVIOUS
  <2>2. ASSUME NEW s \in SUBSET (1..Len(xs)), s # {}
        PROVE  it[s \ {Max(s)}] \in PodSpec /\ xs[Max(s)] \in VolumeMount
    <3>1. Max(s) \in 1..Len(xs)
      BY <1>2, <2>2, LastIndexIsIndex
    <3>2. s \ {Max(s)} \in SUBSET (1..Len(xs))
      OBVIOUS
    <3> QED BY <1>2, <3>1, <3>2
  <2> HIDE DEF F
  <2> QED BY <1>3, <2>1, <2>2 DEF Folded
<1>5. PICK iter : /\ iter = [s \in SUBSET (1..Len(xs)) |->
                       IF s = {} THEN base
                       ELSE InjectOrReplaceVolumeMount(iter[s \ {Max(s)}], xs[Max(s)])]
                  /\ FoldLeft(InjectOrReplaceVolumeMount, base, xs) = iter[1..Len(xs)]
  BY <1>2, <1>4, Zenon DEF FoldLeft, MapThenFoldSet
<1>6. iter[{}] = base
  BY <1>5
<1>7. ASSUME NEW i \in 1..Len(xs)
      PROVE  iter[1..i] = InjectOrReplaceVolumeMount(iter[1..(i - 1)], xs[i])
  BY <1>2, <1>5, PrefixIndices
<1> DEFINE a == [i \in 0..Len(xs) |-> iter[1..i]]
<1>8. /\ a[0] = base
      /\ \A i \in 1..Len(xs) : a[i] = InjectOrReplaceVolumeMount(a[i - 1], xs[i])
      /\ a[Len(xs)] = iter[1..Len(xs)]
  BY <1>2, <1>6, <1>7
<1> HIDE DEF a
<1> QED BY <1>5, <1>8

LEMMA EnvsFold ==
    ASSUME NEW base \in PodSpec, NEW xs \in Seq(EnvVar)
    PROVE  \E a : /\ a[0] = base
                  /\ \A i \in 1..Len(xs) : a[i] = InjectOrReplaceEnv(a[i - 1], xs[i])
                  /\ FoldLeft(InjectOrReplaceEnv, base, xs) = a[Len(xs)]
<1> DEFINE F == [p \in PodSpec \X EnvVar |-> InjectOrReplaceEnv(p[1], p[2])]
<1>1. F \in [PodSpec \X EnvVar -> PodSpec]
  BY EnvInjected
<1>2. Len(xs) \in Nat /\ DOMAIN xs = 1..Len(xs)
  OBVIOUS
<1>3. PICK it \in [SUBSET (1..Len(xs)) -> PodSpec] : Folded(it, F, base, xs, Len(xs))
  <2> HIDE DEF F
  <2> QED BY <1>1, <1>2, FoldExists DEF Foldable
<1>4. it = [s \in SUBSET (1..Len(xs)) |->
              IF s = {} THEN base
              ELSE InjectOrReplaceEnv(it[s \ {Max(s)}], xs[Max(s)])]
  <2>1. ASSUME NEW t \in PodSpec, NEW x \in EnvVar
        PROVE  F[<<t, x>>] = InjectOrReplaceEnv(t, x)
    OBVIOUS
  <2>2. ASSUME NEW s \in SUBSET (1..Len(xs)), s # {}
        PROVE  it[s \ {Max(s)}] \in PodSpec /\ xs[Max(s)] \in EnvVar
    <3>1. Max(s) \in 1..Len(xs)
      BY <1>2, <2>2, LastIndexIsIndex
    <3>2. s \ {Max(s)} \in SUBSET (1..Len(xs))
      OBVIOUS
    <3> QED BY <1>2, <3>1, <3>2
  <2> HIDE DEF F
  <2> QED BY <1>3, <2>1, <2>2 DEF Folded
<1>5. PICK iter : /\ iter = [s \in SUBSET (1..Len(xs)) |->
                       IF s = {} THEN base
                       ELSE InjectOrReplaceEnv(iter[s \ {Max(s)}], xs[Max(s)])]
                  /\ FoldLeft(InjectOrReplaceEnv, base, xs) = iter[1..Len(xs)]
  BY <1>2, <1>4, Zenon DEF FoldLeft, MapThenFoldSet
<1>6. iter[{}] = base
  BY <1>5
<1>7. ASSUME NEW i \in 1..Len(xs)
      PROVE  iter[1..i] = InjectOrReplaceEnv(iter[1..(i - 1)], xs[i])
  BY <1>2, <1>5, PrefixIndices
<1> DEFINE a == [i \in 0..Len(xs) |-> iter[1..i]]
<1>8. /\ a[0] = base
      /\ \A i \in 1..Len(xs) : a[i] = InjectOrReplaceEnv(a[i - 1], xs[i])
      /\ a[Len(xs)] = iter[1..Len(xs)]
  BY <1>2, <1>6, <1>7
<1> HIDE DEF a
<1> QED BY <1>5, <1>8

-----------------------------------------------------------------------------
(* All of a FluentPVC.                                                     *)

\* The claim's volume is injected, after the common ones.
LEMMA WithVolumesInjected ==
    ASSUME NEW spec \in PodSpec, NEW f \in FluentPVCSpec, NEW claim \in Nat
    PROVE  LET t == WithVolumes(spec, f, claim)
           IN  /\ t \in PodSpec
               /\ \E i \in DOMAIN t.volumes :
                     t.volumes[i] = [name |-> f.pvcVolumeName, claim |-> claim]
<1> DEFINE v == [name |-> f.pvcVolumeName, claim |-> claim]
           u == FoldLeft(InjectOrReplaceVolume, spec, f.commonVolumes)
<1>1. f.commonVolumes \in Seq(Volume) /\ v \in Volume
  BY DEF FluentPVCSpec, Volume
<1>2. u \in PodSpec
  <2>1. PICK a : /\ a[0] = spec
                 /\ \A i \in 1..Len(f.commonVolumes) :
                       a[i] = InjectOrReplaceVolume(a[i - 1], f.commonVolumes[i])
                 /\ u = a[Len(f.commonVolumes)]
    BY <1>1, VolumesFold
  <2> DEFINE S == {i \in 0..Len(f.commonVolumes) : a[i] \in PodSpec}
  <2>2. Len(f.commonVolumes) \in Nat
    BY <1>1
  <2>3. 0 \in S
    BY <2>1, <2>2
  <2>4. ASSUME NEW i \in 1..Len(f.commonVolumes), i - 1 \in S PROVE i \in S
    <3>1. f.commonVolumes[i] \in Volume
      BY <1>1
    <3> QED BY <2>1, <2>4, <3>1, VolumeInjected
  <2>5. Len(f.commonVolumes) \in S
    <3> HIDE DEF S
    <3> QED BY <2>2, <2>3, <2>4, IndexInduction
  <2> QED BY <2>1, <2>5
<1>3. WithVolumes(spec, f, claim) = InjectOrReplaceVolume(u, v)
  BY DEF WithVolumes
<1> HIDE DEF u, v
<1>4. u.volumes \in Seq(Volume)
  BY <1>2 DEF PodSpec
<1>5. /\ InjectOrReplaceVolume(u, v) \in PodSpec
      /\ InjectOrReplaceVolume(u, v).volumes = InjectOrReplace(u.volumes, v)
  BY <1>1, <1>2, VolumeInjected
<1>6. \E i \in DOMAIN InjectOrReplace(u.volumes, v) : InjectOrReplace(u.volumes, v)[i] = v
  <2>1. \A s \in Seq(Volume), x \in Volume :
           \E i \in DOMAIN InjectOrReplace(s, x) : InjectOrReplace(s, x)[i] = x
    BY InjectedIsThere
  <2> QED BY <1>1, <1>4, <2>1
<1> QED BY <1>3, <1>5, <1>6 DEF v

\* Every container mounts the claim's volume, at the path of the FluentPVC only.
LEMMA WithVolumeMountsInjected ==
    ASSUME NEW spec \in PodSpec, NEW f \in FluentPVCSpec
    PROVE  LET t == WithVolumeMounts(spec, f)
               m == [name |-> f.pvcVolumeName, path |-> f.pvcVolumeMountPath]
           IN  /\ t \in PodSpec
               /\ t.volumes = spec.volumes
               /\ SameContainers(t, spec)
               /\ \A i \in DOMAIN t.containers :
                     LET mounts == t.containers[i].mounts
                     IN  /\ \E j \in DOMAIN mounts : mounts[j] = m
                         /\ \A j \in DOMAIN mounts :
                               mounts[j].name = m.name => mounts[j] = m
<1> DEFINE m == [name |-> f.pvcVolumeName, path |-> f.pvcVolumeMountPath]
           xs == f.commonVolumeMounts
           u == FoldLeft(InjectOrReplaceVolumeMount, spec, xs)
<1>1. xs \in Seq(VolumeMount) /\ m \in VolumeMount /\ Len(xs) \in Nat
  BY DEF FluentPVCSpec, VolumeMount
<1>2. u \in PodSpec /\ u.volumes = spec.volumes /\ SameContainers(u, spec)
  <2> HIDE DEF xs
  <2>1. PICK a : /\ a[0] = spec
                 /\ \A i \in 1..Len(xs) : a[i] = InjectOrReplaceVolumeMount(a[i - 1], xs[i])
                 /\ u = a[Len(xs)]
    BY <1>1, MountsFold
  <2> DEFINE S == {i \in 0..Len(xs) : /\ a[i] \in PodSpec /\ a[i].volumes = spec.volumes
                                      /\ SameContainers(a[i], spec)}
  <2>2. 0 \in S
    BY <1>1, <2>1 DEF SameContainers
  <2>3. ASSUME NEW i \in 1..Len(xs), i - 1 \in S PROVE i \in S
    <3>1. xs[i] \in VolumeMount /\ i \in 0..Len(xs) /\ a[i - 1] \in PodSpec
      BY <1>1, <2>3
    <3>2. /\ a[i] \in PodSpec /\ a[i].volumes = a[i - 1].volumes
          /\ SameContainers(a[i], a[i - 1])
      BY <2>1, <3>1, MountInjected
    <3> QED BY <2>3, <3>1, <3>2 DEF SameContainers
  <2>4. Len(xs) \in S
    <3> HIDE DEF S
    <3> QED BY <1>1, <2>2, <2>3, IndexInduction
  <2> QED BY <2>1, <2>4
<1> DEFINE t == InjectOrReplaceVolumeMount(u, m)
<1>3. WithVolumeMounts(spec, f) = t
  BY DEF WithVolumeMounts
<1> HIDE DEF u, m
<1>4. /\ t \in PodSpec /\ t.volumes = u.volumes /\ SameContainers(t, u)
      /\ \A i \in DOMAIN u.containers :
            t.containers[i].mounts = InjectOrReplace(u.containers[i].mounts, m)
  BY <1>1, <1>2, MountInjected
<1> HIDE DEF t
<1>5. ASSUME NEW i \in DOMAIN t.containers
      PROVE  /\ \E j \in DOMAIN t.containers[i].mounts : t.containers[i].mounts[j] = m
             /\ \A j \in DOMAIN t.containers[i].mounts :
                   t.containers[i].mounts[j].name = m.name => t.containers[i].mounts[j] = m
  <2>1. i \in DOMAIN u.containers
    BY <1>4 DEF SameContainers
  <2>2. u.containers[i].mounts \in Seq(VolumeMount)
    BY <1>2, <2>1, ContainerTypes
  <2>3. t.containers[i].mounts = InjectOrReplace(u.containers[i].mounts, m)
    BY <1>4, <2>1
  <2> QED BY <1>1, <2>2, <2>3, InjectedIsThere, InjectedTakesTheName
<1>6. SameContainers(t, spec) /\ t.volumes = spec.volumes
  BY <1>2, <1>4 DEF SameContainers
<1> QED BY <1>3, <1>4, <1>5, <1>6 DEF m

\* Every container has the common variables.
LEMMA WithEnvsInjected ==
    ASSUME NEW spec \in PodSpec, NEW f \in FluentPVCSpec
    PROVE  LET t == WithEnvs(spec, f)
           IN  /\ t \in PodSpec
               /\ t.volumes = spec.volumes
               /\ SameContainers(t, spec)
               /\ \A i \in DOMAIN t.containers :
                     /\ t.containers[i].mounts = spec.containers[i].mounts
                     /\ \A j \in DOMAIN f.commonEnvs :
                           f.commonEnvs[j] \in Range(t.containers[i].envs)
<1> DEFINE xs == f.commonEnvs
           t == FoldLeft(InjectOrReplaceEnv, spec, xs)
<1>1. xs \in Seq(EnvVar) /\ Len(xs) \in Nat /\ DOMAIN xs = 1..Len(xs)
  BY DEF FluentPVCSpec
<1>2. WithEnvs(spec, f) = t
  BY DEF WithEnvs
<1> HIDE DEF xs
<1>3. PICK a : /\ a[0] = spec
               /\ \A i \in 1..Len(xs) : a[i] = InjectOrReplaceEnv(a[i - 1], xs[i])
               /\ t = a[Len(xs)]
  BY <1>1, EnvsFold
<1> HIDE DEF t
<1> DEFINE Has(u, k) ==
              \A i \in DOMAIN spec.containers :
                 /\ u.containers[i].mounts = spec.containers[i].mounts
                 /\ \A j \in 1..k : xs[j] \in Range(u.containers[i].envs)
           S == {k \in 0..Len(xs) : /\ a[k] \in PodSpec /\ a[k].volumes = spec.volumes
                                    /\ SameContainers(a[k], spec)
                                    /\ Has(a[k], k)}
<1>4. 0 \in S
  <2>1. 1..0 = {} /\ 0 \in 0..Len(xs)
    BY <1>1
  <2> QED BY <1>3, <2>1 DEF SameContainers
<1>5. ASSUME NEW k \in 1..Len(xs), k - 1 \in S PROVE k \in S
  <2>1. /\ xs[k] \in EnvVar /\ k \in 0..Len(xs) /\ a[k - 1] \in PodSpec
        /\ \A j \in 1..k : j = k \/ j \in 1..(k - 1)
    BY <1>1, <1>5
  <2>2. /\ a[k] \in PodSpec /\ a[k].volumes = a[k - 1].volumes
        /\ SameContainers(a[k], a[k - 1])
        /\ \A i \in DOMAIN a[k - 1].containers :
              /\ a[k].containers[i].mounts = a[k - 1].containers[i].mounts
              /\ a[k].containers[i].envs = InjectEnv(a[k - 1].containers[i].envs, xs[k])
    BY <1>3, <2>1, EnvInjected
  <2>3. SameContainers(a[k], spec) /\ DOMAIN a[k - 1].containers = DOMAIN spec.containers
    BY <1>5, <2>2 DEF SameContainers
  <2>4. ASSUME NEW i \in DOMAIN spec.containers
        PROVE  Range(a[k - 1].containers[i].envs) \cup {xs[k]}
                  \subseteq Range(a[k].containers[i].envs)
    <3>1. a[k - 1].containers[i].envs \in Seq(EnvVar)
      BY <2>1, <2>3, ContainerTypes
    <3> QED BY <2>1, <2>2, <2>3, <3>1, EnvsInjected
  <2>5. Has(a[k], k)
    BY <1>5, <2>1, <2>2, <2>3, <2>4
  <2> QED BY <1>5, <2>1, <2>2, <2>3, <2>5
<1>6. Len(xs) \in S
  <2> HIDE DEF S
  <2> QED BY <1>1, <1>4, <1>5, IndexInduction
<1>7. /\ t \in PodSpec /\ t.volumes = spec.volumes /\ SameContainers(t, spec)
      /\ Has(t, Len(xs))
  BY <1>3, <1>6
<1> QED BY <1>1, <1>2, <1>7 DEF SameContainers, xs
=============================================================================
