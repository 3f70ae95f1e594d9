--------------------------- MODULE FileStoreProofs ---------------------------
(***************************************************************************)
(* Machine-checked proofs about FileStore, for any names, locations, links *)
(* and roots, any paths and any bound on the links that are followed.      *)
(*                                                                         *)
(* Clean and Walk are recursive functions.  What a recursive function      *)
(* computes rests on two things that are proved first: that there is a     *)
(* function with its equation, and that the way down is well-founded.      *)
(***************************************************************************)
EXTENDS FileStore, SequenceTheorems, WellFoundedInduction, TLAPS

-----------------------------------------------------------------------------
(***************************************************************************)
(* Recursion.                                                              *)
(***************************************************************************)

\* A non-empty set of numbers has a least element.
LEMMA Least ==
    ASSUME NEW T, T \subseteq Nat, T # {}
    PROVE  \E n \in T : \A m \in T : n <= m
<1> DEFINE R == {ss \in Nat \X Nat : ss[1] < ss[2]}
<1>1. OpToRel(<, Nat) = R
  BY Zenon DEF OpToRel
<1>2. IsWellFoundedOn(R, Nat)
  BY <1>1, NatLessThanWellFounded, Zenon
<1>3. \A x, y \in Nat : y < x => <<y, x>> \in R
  BY DEF R
<1> HIDE DEF R
<1>4. PICK n \in T : \A y \in T : ~(<<y, n>> \in R)
  BY <1>2, WFMin, Zenon
<1>5. \A y \in T : ~(y < n)
  BY <1>3, <1>4
<1>6. \A y \in T : n <= y
  BY <1>5
<1>7. QED
  BY <1>6

\* What is less by the first measure, or equal by it and less by the second.
Less(m1, m2, c, d) == m1[c] < m1[d] \/ (m1[c] = m1[d] /\ m2[c] < m2[d])

\* The order by two measures has no infinite descent.
LEMMA LeastByMeasures ==
    ASSUME NEW D, NEW m1 \in [D -> Nat], NEW m2 \in [D -> Nat],
           NEW T \in SUBSET D, T # {}
    PROVE  \E d \in T : \A c \in T : ~Less(m1, m2, c, d)
<1> DEFINE N == {m1[c] : c \in T}
<1>1. PICK n \in N : \A k \in N : n <= k
  <2>1. N \subseteq Nat /\ N # {}
    OBVIOUS
  <2> HIDE DEF N
  <2>2. QED
    BY <2>1, Least
<1> DEFINE U == {c \in T : m1[c] = n}
           K == {m2[c] : c \in U}
<1>2. PICK k \in K : \A j \in K : k <= j
  <2>1. K \subseteq Nat /\ K # {}
    BY <1>1
  <2> HIDE DEF K
  <2>2. QED
    BY <2>1, Least
<1>3. PICK d \in U : m2[d] = k
  BY <1>2
<1>4. \A c \in T : n <= m1[c]
  BY <1>1
<1>5. \A c \in U : k <= m2[c]
  BY <1>2
<1>6. ASSUME NEW c \in T, Less(m1, m2, c, d) PROVE FALSE
  <2>1. m1[c] \in Nat /\ m2[c] \in Nat /\ m1[d] = n /\ m2[d] = k
        /\ n \in Nat /\ k \in Nat
    BY <1>3
  <2>2. m1[c] = n /\ m2[c] < k
    BY <1>4, <1>6, <2>1 DEF Less
  <2>3. c \in U
    BY <2>2
  <2>4. QED
    BY <1>5, <2>1, <2>2, <2>3
<1>7. QED
  BY <1>3, <1>6

\* The shape of the recursions of the model: at the arguments of stop the
\* value is base, elsewhere it is made by up of the value at down.
Recursive(D, stop, base, down, up, f) ==
    \A c \in D : f[c] = IF c \in stop THEN base[c] ELSE up[<<c, f[down[c]]>>]

\* The way down stays in the domain and decreases, and values are in V.
Descends(D, V, stop, base, down, up, m1, m2) ==
    \A c \in D :
        /\ c \in stop => base[c] \in V
        /\ c \notin stop => /\ down[c] \in D /\ Less(m1, m2, down[c], c)
                            /\ \A v \in V : up[<<c, v>>] \in V

\* There is a function with the equation.  It is the least relation that has
\* what stop and base, and down and up, ask for.
LEMMA RecursionExists ==
    ASSUME NEW D, NEW V, NEW stop, NEW base, NEW down, NEW up,
           NEW m1 \in [D -> Nat], NEW m2 \in [D -> Nat],
           Descends(D, V, stop, base, down, up, m1, m2)
    PROVE  \E f \in [D -> V] : Recursive(D, stop, base, down, up, f)
<1> DEFINE Closed(Q) ==
             /\ \A c \in D \cap stop : <<c, base[c]>> \in Q
             /\ \A c \in D \ stop : \A v \in V :
                   <<down[c], v>> \in Q => <<c, up[<<c, v>>]>> \in Q
           W == {z \in D \X V : \A Q \in SUBSET (D \X V) : Closed(Q) => z \in Q}
<1>1. Closed(W)
  <2>1. ASSUME NEW c \in D \cap stop PROVE <<c, base[c]>> \in W
    BY DEF Descends
  <2>2. ASSUME NEW c \in D \ stop, NEW v \in V, <<down[c], v>> \in W
        PROVE  <<c, up[<<c, v>>]>> \in W
    <3>1. <<c, up[<<c, v>>]>> \in D \X V
      BY DEF Descends
    <3>2. ASSUME NEW Q \in SUBSET (D \X V), Closed(Q)
          PROVE  <<c, up[<<c, v>>]>> \in Q
      <4>1. <<down[c], v>> \in Q
        BY <2>2, <3>2
      <4>2. QED
        BY <3>2, <4>1
    <3>3. QED
      BY <3>1, <3>2
  <2>3. QED
    BY <2>1, <2>2
<1>2. ASSUME NEW Q \in SUBSET (D \X V), Closed(Q) PROVE W \subseteq Q
  BY <1>2
<1>3. W \in SUBSET (D \X V)
  OBVIOUS
<1> HIDE DEF W
<1> DEFINE Bad == {c \in D : ~\E v \in V : /\ <<c, v>> \in W
                                           /\ \A u \in V : <<c, u>> \in W => u = v}
<1>4. Bad = {}
  <2> SUFFICES ASSUME Bad # {} PROVE FALSE
    OBVIOUS
  <2>1. PICK c \in Bad : \A d \in Bad : ~Less(m1, m2, d, c)
    <3>1. Bad \in SUBSET D
      OBVIOUS
    <3> HIDE DEF Bad
    <3>2. QED
      BY <3>1, LeastByMeasures
  <2>2. ASSUME NEW v \in V, <<c, v>> \in W,
               \A u \in V : <<c, u>> \in W /\ u # v => Closed(W \ {<<c, u>>})
        PROVE  FALSE
    <3>1. ASSUME NEW u \in V, <<c, u>> \in W, u # v PROVE FALSE
      <4>1. Closed(W \ {<<c, u>>})
        BY <2>2, <3>1
      <4>2. W \ {<<c, u>>} \in SUBSET (D \X V)
        BY <1>3
      <4> HIDE DEF Closed
      <4>3. W \subseteq W \ {<<c, u>>}
        BY <1>2, <4>1, <4>2
      <4>4. QED
        BY <3>1, <4>3
    <3>2. QED
      BY <2>2, <3>1
  <2>3. CASE c \in stop
    <3>1. base[c] \in V /\ <<c, base[c]>> \in W
      BY <1>1, <2>3 DEF Descends
    <3>2. ASSUME NEW u \in V, <<c, u>> \in W, u # base[c]
          PROVE  Closed(W \ {<<c, u>>})
      BY <1>1, <2>3, <3>2
    <3>3. QED
      BY <2>2, <3>1, <3>2
  <2>4. CASE c \notin stop
    <3>1. down[c] \in D /\ Less(m1, m2, down[c], c)
      BY <2>4 DEF Descends
    <3>2. down[c] \notin Bad
      BY <2>1, <3>1
    <3>3. PICK v \in V : /\ <<down[c], v>> \in W
                         /\ \A u \in V : <<down[c], u>> \in W => u = v
      BY <3>1, <3>2
    <3>4. up[<<c, v>>] \in V /\ <<c, up[<<c, v>>]>> \in W
      BY <1>1, <2>4, <3>3 DEF Descends
    <3>5. ASSUME NEW u \in V, <<c, u>> \in W, u # up[<<c, v>>]
          PROVE  Closed(W \ {<<c, u>>})
      <4>1. \A d \in D \cap stop : <<d, base[d]>> \in W \ {<<c, u>>}
        BY <1>1, <2>4
      <4>2. ASSUME NEW d \in D \ stop, NEW x \in V,
                   <<down[d], x>> \in W \ {<<c, u>>}
            PROVE  <<d, up[<<d, x>>]>> \in W \ {<<c, u>>}
        <5>1. <<d, up[<<d, x>>]>> \in W
          BY <1>1, <4>2
        <5>2. ASSUME d = c, up[<<d, x>>] = u PROVE FALSE
          <6>1. x = v
            BY <3>3, <4>2, <5>2
          <6>2. QED
            BY <3>5, <5>2, <6>1
        <5>3. QED
          BY <5>1, <5>2
      <4>3. QED
        BY <4>1, <4>2
    <3>6. QED
      BY <2>2, <3>4, <3>5
  <2>5. QED
    BY <2>3, <2>4
<1> DEFINE f == [c \in D |-> CHOOSE v \in V : <<c, v>> \in W]
<1>5. ASSUME NEW c \in D
      PROVE  /\ f[c] \in V /\ <<c, f[c]>> \in W
             /\ \A u \in V : <<c, u>> \in W => u = f[c]
  BY <1>4
<1> HIDE DEF f, Bad
<1>6. ASSUME NEW c \in D
      PROVE  f[c] = IF c \in stop THEN base[c] ELSE up[<<c, f[down[c]]>>]
  <2>1. CASE c \in stop
    <3>1. base[c] \in V /\ <<c, base[c]>> \in W
      BY <1>1, <2>1 DEF Descends
    <3>2. QED
      BY <1>5, <2>1, <3>1
  <2>2. CASE c \notin stop
    <3>1. down[c] \in D
      BY <2>2 DEF Descends
    <3>2. f[down[c]] \in V /\ <<down[c], f[down[c]]>> \in W
      BY <1>5, <3>1
    <3>3. up[<<c, f[down[c]]>>] \in V /\ <<c, up[<<c, f[down[c]]>>]>> \in W
      BY <1>1, <2>2, <3>2 DEF Descends
    <3>4. QED
      BY <1>5, <2>2, <3>3
  <2>3. QED
    BY <2>1, <2>2
<1>7. f \in [D -> V]
  BY <1>5 DEF f
<1>8. QED
  BY <1>6, <1>7 DEF Recursive

-----------------------------------------------------------------------------
(***************************************************************************)
(* The walk along a path.                                                  *)
(***************************************************************************)

Results == [result : {"found", "notexist", "error"}, at : Seq(Names)]

\* What is in the file system.
FsType == fs \in [Locations -> Nodes \cup {Nothing}]

\* The target of a link is a path.
LEMMA LinksLeadToPaths ==
    ASSUME FsType, NEW loc \in Seq(Names), Kind(loc) = "link"
    PROVE  fs[loc].to \in Seq(Names)
<1>1. loc \in Locations /\ fs[loc].kind = "link"
  BY DEF Kind
<1>2. fs[loc] \in Nodes \cup {Nothing}
  BY <1>1 DEF FsType
<1>3. PICK t \in LinkTargets : fs[loc] = Link(t)
  BY <1>1, <1>2 DEF Nodes, Nothing, Directory, File
<1>4. QED
  BY <1>3, LinksAssumption DEF Link

\* The kinds there are.
LEMMA Kinds ==
    ASSUME FsType, NEW loc
    PROVE  /\ Kind(loc) \in {"none", "dir", "file", "link"}
           /\ Kind(<<>>) = "dir"
           /\ Kind(loc) # "none" /\ loc # <<>> =>
                 loc \in Locations /\ fs[loc] # Nothing
BY DEF FsType, Kind, Nodes, Nothing, Directory, File, Link

\* The head and the tail of what is left.
LEMMA AheadIsPath ==
    ASSUME NEW w \in Walkers, w.rest # <<>>
    PROVE  /\ Ahead(w) \in Seq(Names) /\ Ahead(w) # <<>>
           /\ Tail(w.rest) \in Seq(Names)
           /\ Len(Tail(w.rest)) < Len(w.rest)
           /\ Len(w.rest) \in Nat /\ Len(Tail(w.rest)) \in Nat
<1>1. w.done \in Seq(Names) /\ w.rest \in Seq(Names)
  BY DEF Walkers
<1>2. /\ Head(w.rest) \in Names /\ Tail(w.rest) \in Seq(Names)
      /\ Len(Tail(w.rest)) = Len(w.rest) - 1
  BY <1>1, HeadTailProperties
<1>3. Ahead(w) \in Seq(Names) /\ Ahead(w) # <<>>
  BY <1>1, <1>2, AppendProperties DEF Ahead
<1>4. Len(w.rest) \in Nat /\ Len(Tail(w.rest)) \in Nat
  BY <1>1, <1>2, LenProperties
<1>5. QED
  BY <1>2, <1>3, <1>4

Links == [w \in Walkers |-> w.links]
Names2Go == [w \in Walkers |-> Len(w.rest)]

\* A step of the walk uses up a link or a name.
LEMMA WalkDescends ==
    ASSUME FsType, NEW w \in Walkers, ~Stops(w)
    PROVE  Further(w) \in Walkers /\ Less(Links, Names2Go, Further(w), w)
<1>1. w.rest # <<>> /\ w.links \in 0 .. MaxLinks
  BY DEF Stops, Walkers
<1>2. /\ Ahead(w) \in Seq(Names) /\ Tail(w.rest) \in Seq(Names)
      /\ Len(Tail(w.rest)) < Len(w.rest)
  BY <1>1, AheadIsPath
<1>3. CASE Kind(Ahead(w)) = "link"
  <2>1. fs[Ahead(w)].to \in Seq(Names)
    BY <1>2, <1>3, LinksLeadToPaths
  <2>2. w.links # 0
    BY <1>3 DEF Stops
  <2> DEFINE r == fs[Ahead(w)].to \o Tail(w.rest)
  <2>3. r \in Seq(Names) /\ <<>> \in Seq(Names)
    BY <1>2, <2>1, ConcatProperties, EmptySeq
  <2>4. Further(w) = [links |-> w.links - 1, done |-> <<>>, rest |-> r]
    BY <1>3 DEF Further
  <2> HIDE DEF r
  <2>5. w.links - 1 \in 0 .. MaxLinks /\ w.links - 1 < w.links
    BY <1>1, <2>2, LinksAssumption
  <2>6. Further(w) \in Walkers
    BY <2>3, <2>4, <2>5 DEF Walkers
  <2>7. QED
    BY <2>4, <2>5, <2>6 DEF Less, Links
<1>4. CASE Kind(Ahead(w)) # "link"
  <2>1. Further(w) = [links |-> w.links, done |-> Ahead(w), rest |-> Tail(w.rest)]
    BY <1>4 DEF Further
  <2>2. Further(w) \in Walkers
    BY <1>1, <1>2, <2>1 DEF Walkers
  <2>3. QED
    BY <1>2, <2>1, <2>2 DEF Less, Links, Names2Go
<1>5. QED
  BY <1>3, <1>4

\* The measures are numbers.
LEMMA WalkMeasures == Links \in [Walkers -> Nat] /\ Names2Go \in [Walkers -> Nat]
<1>1. \A w \in Walkers : w.links \in Nat /\ Len(w.rest) \in Nat
  BY LinksAssumption, LenProperties DEF Walkers
<1>2. QED
  BY <1>1 DEF Links, Names2Go

\* A walk that stops has a result.
LEMMA OutcomeIsResult ==
    ASSUME NEW w \in Walkers
    PROVE  Outcome(w) \in Results
<1>1. w.done \in Seq(Names)
  BY DEF Walkers
<1>2. w.rest # <<>> => Ahead(w) \in Seq(Names)
  BY AheadIsPath
<1>3. QED
  BY <1>1, <1>2 DEF Outcome, Results

\* The equation of Walk, and its type.
LEMMA WalkEquation ==
    ASSUME FsType
    PROVE  /\ Walk \in [Walkers -> Results]
           /\ \A w \in Walkers :
                 Walk[w] = IF Stops(w) THEN Outcome(w) ELSE Walk[Further(w)]
<1> DEFINE stop == {w \in Walkers : Stops(w)}
           base == [w \in Walkers |-> Outcome(w)]
           down == [w \in Walkers |-> Further(w)]
           up == [z \in Walkers \X Results |-> z[2]]
<1>1. \A w \in Walkers : /\ w \in stop <=> Stops(w)
                         /\ base[w] = Outcome(w) /\ down[w] = Further(w)
  OBVIOUS
<1>2. \A w \in Walkers, v \in Results : up[<<w, v>>] = v
  OBVIOUS
<1> HIDE DEF stop, base, down, up
<1>3. Descends(Walkers, Results, stop, base, down, up, Links, Names2Go)
  BY <1>1, <1>2, WalkDescends, OutcomeIsResult DEF Descends
<1>4. PICK f \in [Walkers -> Results] : Recursive(Walkers, stop, base, down, up, f)
  BY <1>3, WalkMeasures, RecursionExists
<1>5. ASSUME NEW w \in Walkers
      PROVE  f[w] = IF Stops(w) THEN Outcome(w) ELSE f[Further(w)]
  <2>1. f[w] = IF Stops(w) THEN Outcome(w) ELSE up[<<w, f[Further(w)]>>]
    BY <1>1, <1>4 DEF Recursive
  <2>2. ~Stops(w) => f[Further(w)] \in Results
    BY WalkDescends
  <2>3. QED
    BY <1>2, <2>1, <2>2
<1>6. f = [w \in Walkers |-> IF Stops(w) THEN Outcome(w) ELSE f[Further(w)]]
  BY <1>5
<1>7. Walk = [w \in Walkers |-> IF Stops(w) THEN Outcome(w) ELSE Walk[Further(w)]]
  BY <1>6, Zenon DEF Walk
<1>8. \A w \in Walkers : Walk[w] = IF Stops(w) THEN Outcome(w) ELSE Walk[Further(w)]
  BY <1>7
<1> DEFINE Bad == {w \in Walkers : Walk[w] \notin Results}
<1>9. Bad = {}
  <2> SUFFICES ASSUME Bad # {} PROVE FALSE
    OBVIOUS
  <2>1. PICK w \in Bad : \A v \in Bad : ~Less(Links, Names2Go, v, w)
    <3>1. Bad \in SUBSET Walkers
      OBVIOUS
    <3> HIDE DEF Bad
    <3>2. QED
      BY <3>1, WalkMeasures, LeastByMeasures
  <2>2. QED
    BY <1>8, <2>1, WalkDescends, OutcomeIsResult
<1>10. QED
  BY <1>7, <1>8, <1>9

\* What holds where a walk stops, and before each step after which it holds,
\* holds of every walk.
LEMMA WalkInduction ==
    ASSUME FsType, NEW Good \in SUBSET Walkers,
           \A w \in Walkers : Stops(w) \/ Further(w) \in Good => w \in Good
    PROVE  \A w \in Walkers : w \in Good
<1> DEFINE Bad == Walkers \ Good
<1> SUFFICES ASSUME Bad # {} PROVE FALSE
  OBVIOUS
<1>1. PICK w \in Bad : \A v \in Bad : ~Less(Links, Names2Go, v, w)
  <2>1. Bad \in SUBSET Walkers
    OBVIOUS
  <2> HIDE DEF Bad
  <2>2. QED
    BY <2>1, WalkMeasures, LeastByMeasures
<1>2. QED
  BY <1>1, WalkDescends

\* A property of sequences that Append preserves.
LEMMA SeqInduction ==
    ASSUME NEW S, NEW Good \in SUBSET Seq(S), <<>> \in Good,
           \A s \in Good, e \in S : Append(s, e) \in Good
    PROVE  \A s \in Seq(S) : s \in Good
<1> DEFINE Bad == Seq(S) \ Good
           N == {Len(s) : s \in Bad}
<1> SUFFICES ASSUME Bad # {} PROVE FALSE
  OBVIOUS
<1>1. \A s \in Seq(S) : Len(s) \in Nat
  BY LenProperties
<1>2. PICK n \in N : \A m \in N : n <= m
  <2>1. N \subseteq Nat /\ N # {}
    BY <1>1
  <2> HIDE DEF N
  <2>2. QED
    BY <2>1, Least
<1>3. PICK s \in Bad : Len(s) = n
  BY <1>2
<1>4. PICK r \in Seq(S), e \in S : s = Append(r, e)
  BY <1>3, SequenceEmptyOrAppend
<1>5. Len(s) = Len(r) + 1 /\ Len(r) \in Nat
  BY <1>4, AppendProperties, LenProperties
<1>6. r \notin Bad
  <2>1. n \in Nat /\ (r \in Bad => n <= Len(r))
    BY <1>1, <1>2
  <2>2. QED
    BY <1>3, <1>5, <2>1
<1>7. QED
  BY <1>3, <1>4, <1>6

\* The same walk with more names to go.
Onward(w, t) == [links |-> w.links, done |-> w.done, rest |-> w.rest \o t]

\* The first step of a longer way is that of the way, unless it ends there.
LEMMA OnwardSteps ==
    ASSUME FsType, NEW w \in Walkers, NEW t \in Seq(Names)
    PROVE  /\ Onward(w, t) \in Walkers
           /\ w.rest # <<>> =>
                 /\ Onward(w, t).rest # <<>> /\ Ahead(Onward(w, t)) = Ahead(w)
                 /\ Tail(Onward(w, t).rest) = Tail(w.rest) \o t
           /\ ~Stops(w) /\ Kind(Ahead(w)) # "file" =>
                 ~Stops(Onward(w, t)) /\ Further(Onward(w, t)) = Onward(Further(w), t)
<1>1. w.rest \in Seq(Names) /\ w.done \in Seq(Names) /\ w.links \in 0 .. MaxLinks
  BY DEF Walkers
<1>2. w.rest \o t \in Seq(Names)
  BY <1>1, ConcatProperties
<1>3. Onward(w, t) \in Walkers
  BY <1>1, <1>2 DEF Walkers, Onward
<1>4. ASSUME w.rest # <<>>
      PROVE  /\ w.rest \o t # <<>> /\ Head(w.rest \o t) = Head(w.rest)
             /\ Tail(w.rest \o t) = Tail(w.rest) \o t
  <2> DEFINE r == w.rest
  <2>1. r \in Seq(Names) /\ r # <<>>
    BY <1>1, <1>4
  <2> HIDE DEF r
  <2>2. r \o t # <<>> /\ r \o t \in Seq(Names)
    BY <2>1, ConcatEqualIffEmpty, ConcatProperties
  <2>3. /\ Len(r) \in Nat \ {0} /\ Len(t) \in Nat
        /\ Len(r \o t) = Len(r) + Len(t)
        /\ \A i \in 1 .. Len(r) + Len(t) :
              (r \o t)[i] = IF i <= Len(r) THEN r[i] ELSE t[i - Len(r)]
    BY <2>1, ConcatProperties, EmptySeq, LenProperties
  <2>4. Head(r \o t) = (r \o t)[1] /\ Head(r) = r[1]
    BY <2>1, <2>2
  <2>5. Head(r \o t) = Head(r)
    BY <2>3, <2>4
  <2>6. /\ Tail(r) \in Seq(Names) /\ Len(Tail(r)) = Len(r) - 1
        /\ \A i \in 1 .. Len(r) - 1 : Tail(r)[i] = r[i + 1]
    BY <2>1, HeadTailProperties
  <2>7. /\ Tail(r \o t) \in Seq(Names) /\ Len(Tail(r \o t)) = Len(r) + Len(t) - 1
        /\ \A i \in 1 .. Len(r) + Len(t) - 1 : Tail(r \o t)[i] = (r \o t)[i + 1]
    BY <2>2, <2>3, HeadTailProperties
  <2>8. /\ Tail(r) \o t \in Seq(Names) /\ Len(Tail(r) \o t) = Len(r) - 1 + Len(t)
        /\ \A i \in 1 .. Len(r) - 1 + Len(t) : (Tail(r) \o t)[i] =
              IF i <= Len(r) - 1 THEN Tail(r)[i] ELSE t[i - (Len(r) - 1)]
    BY <2>6, ConcatProperties
  <2>9. \A i \in 1 .. Len(r) - 1 + Len(t) : Tail(r \o t)[i] = (Tail(r) \o t)[i]
    <3> TAKE i \in 1 .. Len(r) - 1 + Len(t)
    <3>1. Tail(r \o t)[i] = (r \o t)[i + 1] /\ i + 1 \in 1 .. Len(r) + Len(t)
      BY <2>3, <2>7
    <3>2. CASE i <= Len(r) - 1
      BY <2>3, <2>6, <2>8, <3>1, <3>2
    <3>3. CASE ~(i <= Len(r) - 1)
      <4>1. (r \o t)[i + 1] = t[i + 1 - Len(r)]
        BY <2>3, <3>1, <3>3
      <4>2. i + 1 - Len(r) = i - (Len(r) - 1)
        BY <2>3
      <4>3. QED
        BY <2>8, <3>1, <3>3, <4>1, <4>2
    <3>4. QED
      BY <3>2, <3>3
  <2>10. Tail(r \o t) = Tail(r) \o t
    <3>1. Len(Tail(r \o t)) = Len(Tail(r) \o t)
      BY <2>3, <2>7, <2>8
    <3>2. \A i \in 1 .. Len(Tail(r \o t)) : Tail(r \o t)[i] = (Tail(r) \o t)[i]
      BY <2>3, <2>7, <2>9
    <3>3. QED
      BY <2>7, <2>8, <3>1, <3>2, SeqEqual
  <2>11. QED
    BY <2>2, <2>5, <2>10 DEF r
<1>5. w.rest # <<>> => /\ Onward(w, t).rest # <<>> /\ Ahead(Onward(w, t)) = Ahead(w)
                       /\ Tail(Onward(w, t).rest) = Tail(w.rest) \o t
  BY <1>4 DEF Onward, Ahead
<1>6. ASSUME ~Stops(w), Kind(Ahead(w)) # "file"
      PROVE  ~Stops(Onward(w, t)) /\ Further(Onward(w, t)) = Onward(Further(w), t)
  <2>1. w.rest # <<>> /\ Kind(Ahead(w)) # "none"
    BY <1>6 DEF Stops
  <2>2. Onward(w, t).links = w.links
    BY DEF Onward
  <2>3. ~Stops(Onward(w, t))
    BY <1>5, <1>6, <2>1, <2>2 DEF Stops
  <2>4. CASE Kind(Ahead(w)) = "link"
    <3> DEFINE to == fs[Ahead(w)].to
    <3>1. to \in Seq(Names) /\ Tail(w.rest) \in Seq(Names)
      BY <2>1, <2>4, AheadIsPath, LinksLeadToPaths
    <3>2. (to \o Tail(w.rest)) \o t = to \o (Tail(w.rest) \o t)
      <4> DEFINE b == Tail(w.rest)
      <4> HIDE DEF to, b
      <4>1. to \in Seq(Names) /\ b \in Seq(Names)
        BY <3>1 DEF b
      <4>2. (to \o b) \o t = to \o (b \o t)
        BY <4>1, ConcatAssociative
      <4>3. QED
        BY <4>2 DEF b
    <3>3. Further(Onward(w, t)) = [links |-> w.links - 1, done |-> <<>>,
                                   rest |-> to \o (Tail(w.rest) \o t)]
      BY <1>5, <2>1, <2>2, <2>4 DEF Further
    <3>4. Further(w) = [links |-> w.links - 1, done |-> <<>>,
                        rest |-> to \o Tail(w.rest)]
      BY <2>4 DEF Further
    <3> HIDE DEF to
    <3>5. Onward(Further(w), t) = [links |-> w.links - 1, done |-> <<>>,
                                   rest |-> (to \o Tail(w.rest)) \o t]
      BY <3>4 DEF Onward
    <3>6. QED
      BY <2>3, <3>2, <3>3, <3>5
  <2>5. CASE Kind(Ahead(w)) # "link"
    <3>1. Further(w) = [links |-> w.links, done |-> Ahead(w), rest |-> Tail(w.rest)]
      BY <2>5 DEF Further
    <3>2. Further(Onward(w, t)) = [links |-> w.links, done |-> Ahead(w),
                                   rest |-> Tail(w.rest) \o t]
      BY <1>5, <2>1, <2>2, <2>5 DEF Further
    <3>3. QED
      BY <2>3, <3>1, <3>2 DEF Onward
  <2>6. QED
    BY <2>4, <2>5
<1>7. QED
  BY <1>3, <1>5, <1>6

\* A walk from one place, and the walk of EvalSymlinks.
From(l, loc, path) == [links |-> l, done |-> loc, rest |-> path]

\* These are walks.
LEMMA FromIsWalker ==
    ASSUME NEW l \in 0 .. MaxLinks, NEW loc \in Seq(Names), NEW path \in Seq(Names)
    PROVE  /\ From(l, loc, path) \in Walkers
           /\ From(l, loc, path).links = l /\ From(l, loc, path).done = loc
           /\ From(l, loc, path).rest = path
BY DEF From, Walkers

\* One step of a walk, in terms of what it finds.
LEMMA WalkStep ==
    ASSUME FsType, NEW w \in Walkers
    PROVE  /\ Stops(w) => Walk[w] = Outcome(w)
           /\ ~Stops(w) => Walk[w] = Walk[Further(w)]
           /\ Walk[w].result \in {"found", "notexist", "error"}
           /\ Walk[w].at \in Seq(Names)
           /\ w.rest = <<>> => Walk[w].result = "found" /\ Walk[w].at = w.done
           /\ w.rest # <<>> /\ Kind(Ahead(w)) = "none" => Walk[w].result = "notexist"
           /\ Stops(w) /\ Walk[w].result = "found" => w.rest = <<>>
           /\ Stops(w) /\ Walk[w].result = "notexist" =>
                 w.rest # <<>> /\ Kind(Ahead(w)) = "none"
<1>1. Walk \in [Walkers -> Results]
  BY WalkEquation
<1>2. Walk[w] = IF Stops(w) THEN Outcome(w) ELSE Walk[Further(w)]
  BY WalkEquation
<1>3. Walk[w] \in Results
  BY <1>1
<1>4. Walk[w].result \in {"found", "notexist", "error"} /\ Walk[w].at \in Seq(Names)
  BY <1>3 DEF Results
<1>5. w.rest = <<>> => Walk[w].result = "found" /\ Walk[w].at = w.done
  BY <1>2 DEF Stops, Outcome
<1>6. w.rest # <<>> /\ Kind(Ahead(w)) = "none" => Walk[w].result = "notexist"
  BY <1>2 DEF Stops, Outcome
<1>7. Stops(w) /\ Walk[w].result = "found" => w.rest = <<>>
  BY <1>2 DEF Outcome
<1>8. Stops(w) /\ Walk[w].result = "notexist" =>
        w.rest # <<>> /\ Kind(Ahead(w)) = "none"
  BY <1>2 DEF Outcome
<1>9. QED
  BY <1>2, <1>4, <1>5, <1>6, <1>7, <1>8

\* A walk that goes on to a file ends there.
LEMMA FileEnds ==
    ASSUME FsType, NEW w \in Walkers, ~Stops(w), Kind(Ahead(w)) = "file"
    PROVE  /\ Tail(w.rest) = <<>>
           /\ Walk[w].result = "found" /\ Walk[w].at = Ahead(w)
<1>1. Tail(w.rest) = <<>>
  BY DEF Stops
<1>2. Further(w) \in Walkers
  BY WalkDescends
<1>3. Further(w).rest = <<>> /\ Further(w).done = Ahead(w)
  BY <1>1 DEF Further
<1>4. QED
  BY <1>1, <1>2, <1>3, WalkStep

\* What does not exist does not exist further on.
LEMMA NothingBelowNothing ==
    ASSUME FsType
    PROVE  \A w \in Walkers : Walk[w].result = "notexist" =>
              \A t \in Seq(Names) : Walk[Onward(w, t)].result = "notexist"
<1> DEFINE Good == {w \in Walkers : Walk[w].result = "notexist" =>
              \A t \in Seq(Names) : Walk[Onward(w, t)].result = "notexist"}
<1>1. ASSUME NEW w \in Walkers, Stops(w) \/ Further(w) \in Good,
             Walk[w].result = "notexist", NEW t \in Seq(Names)
      PROVE  Walk[Onward(w, t)].result = "notexist"
  <2>1. Onward(w, t) \in Walkers
    BY OnwardSteps
  <2>2. CASE Stops(w)
    <3>1. w.rest # <<>> /\ Kind(Ahead(w)) = "none"
      BY <1>1, <2>2, WalkStep
    <3>2. Onward(w, t).rest # <<>> /\ Kind(Ahead(Onward(w, t))) = "none"
      BY <3>1, OnwardSteps
    <3>3. QED
      BY <2>1, <3>2, WalkStep
  <2>3. CASE ~Stops(w)
    <3>1. Kind(Ahead(w)) # "file"
      BY <1>1, <2>3, FileEnds
    <3>2. ~Stops(Onward(w, t)) /\ Further(Onward(w, t)) = Onward(Further(w), t)
      BY <2>3, <3>1, OnwardSteps
    <3>3. Walk[Further(w)].result = "notexist"
      BY <1>1, <2>3, WalkStep
    <3>4. Walk[Onward(Further(w), t)].result = "notexist"
      BY <1>1, <2>3, <3>3
    <3>5. QED
      BY <2>1, <3>2, <3>4, WalkStep
  <2>4. QED
    BY <2>2, <2>3
<1>2. \A w \in Walkers : Stops(w) \/ Further(w) \in Good => w \in Good
  BY <1>1
<1>3. Good \in SUBSET Walkers
  OBVIOUS
<1>4. \A w \in Walkers : w \in Good
  <2> HIDE DEF Good
  <2>1. QED
    BY <1>2, <1>3, WalkInduction
<1>5. QED
  BY <1>4

\* A path through a directory goes on from there, with some links used up.
LEMMA ThroughDirectory ==
    ASSUME FsType
    PROVE  \A w \in Walkers :
              Walk[w].result = "found" /\ Kind(Walk[w].at) = "dir" =>
              \A t \in Seq(Names) : \E l \in 0 .. MaxLinks :
                  Walk[Onward(w, t)] = Walk[From(l, Walk[w].at, t)]
<1> DEFINE Good == {w \in Walkers :
              Walk[w].result = "found" /\ Kind(Walk[w].at) = "dir" =>
              \A t \in Seq(Names) : \E l \in 0 .. MaxLinks :
                  Walk[Onward(w, t)] = Walk[From(l, Walk[w].at, t)]}
<1>1. ASSUME NEW w \in Walkers, Stops(w) \/ Further(w) \in Good,
             Walk[w].result = "found", Kind(Walk[w].at) = "dir", NEW t \in Seq(Names)
      PROVE  \E l \in 0 .. MaxLinks : Walk[Onward(w, t)] = Walk[From(l, Walk[w].at, t)]
  <2>1. Onward(w, t) \in Walkers
    BY OnwardSteps
  <2>2. CASE Stops(w)
    <3>1. w.rest = <<>> /\ Walk[w].at = w.done
      BY <1>1, <2>2, WalkStep
    <3>2. <<>> \o t = t
      BY ConcatEmptySeq
    <3>3. Onward(w, t) = From(w.links, w.done, t)
      BY <3>1, <3>2 DEF Onward, From
    <3>4. w.links \in 0 .. MaxLinks
      BY DEF Walkers
    <3>5. QED
      BY <3>1, <3>3, <3>4
  <2>3. CASE ~Stops(w)
    <3>1. Kind(Ahead(w)) # "file"
      BY <1>1, <2>3, FileEnds
    <3>2. ~Stops(Onward(w, t)) /\ Further(Onward(w, t)) = Onward(Further(w), t)
      BY <2>3, <3>1, OnwardSteps
    <3>3. Walk[w] = Walk[Further(w)]
      BY <2>3, WalkStep
    <3>4. Walk[Onward(w, t)] = Walk[Onward(Further(w), t)]
      BY <2>1, <3>2, WalkStep
    <3>5. \E l \in 0 .. MaxLinks :
             Walk[Onward(Further(w), t)] = Walk[From(l, Walk[Further(w)].at, t)]
      BY <1>1, <2>3, <3>3
    <3>6. QED
      BY <3>3, <3>4, <3>5
  <2>4. QED
    BY <2>2, <2>3
<1>2. \A w \in Walkers : Stops(w) \/ Further(w) \in Good => w \in Good
  BY <1>1
<1>3. Good \in SUBSET Walkers
  OBVIOUS
<1>4. \A w \in Walkers : w \in Good
  <2> HIDE DEF Good
  <2>1. QED
    BY <1>2, <1>3, WalkInduction
<1>5. QED
  BY <1>4

\* A path through a file is an error other than "does not exist".
LEMMA ThroughFile ==
    ASSUME FsType
    PROVE  \A w \in Walkers :
              /\ Kind(w.done) = "dir"
              /\ Walk[w].result = "found" /\ Kind(Walk[w].at) = "file"
              => \A t \in Seq(Names) \ {<<>>} : Walk[Onward(w, t)].result = "error"
<1> DEFINE Good == {w \in Walkers :
              /\ Kind(w.done) = "dir"
              /\ Walk[w].result = "found" /\ Kind(Walk[w].at) = "file"
              => \A t \in Seq(Names) \ {<<>>} : Walk[Onward(w, t)].result = "error"}
<1>1. ASSUME NEW w \in Walkers, Stops(w) \/ Further(w) \in Good,
             Kind(w.done) = "dir", Walk[w].result = "found",
             Kind(Walk[w].at) = "file", NEW t \in Seq(Names) \ {<<>>}
      PROVE  Walk[Onward(w, t)].result = "error"
  <2>1. Onward(w, t) \in Walkers
    BY OnwardSteps
  <2>2. ~Stops(w)
    BY <1>1, WalkStep
  <2>3. w.rest # <<>>
    BY <2>2 DEF Stops
  <2>4. CASE Kind(Ahead(w)) = "file"
    <3>1. Tail(w.rest) = <<>> /\ <<>> \o t = t
      BY <2>2, <2>4, FileEnds, ConcatEmptySeq
    <3>2. /\ Onward(w, t).rest # <<>> /\ Kind(Ahead(Onward(w, t))) = "file"
          /\ Tail(Onward(w, t).rest) # <<>>
      BY <2>3, <2>4, <3>1, OnwardSteps
    <3>3. Stops(Onward(w, t)) /\ Outcome(Onward(w, t)).result = "error"
      BY <3>2 DEF Stops, Outcome
    <3>4. QED
      BY <2>1, <3>3, WalkStep
  <2>5. CASE Kind(Ahead(w)) # "file"
    <3>1. ~Stops(Onward(w, t)) /\ Further(Onward(w, t)) = Onward(Further(w), t)
      BY <2>2, <2>5, OnwardSteps
    <3>2. Kind(Further(w).done) = "dir"
      <4>1. Kind(Ahead(w)) \in {"dir", "link"}
        BY <2>2, <2>3, <2>5, Kinds DEF Stops
      <4>2. QED
        BY <4>1, Kinds DEF Further
    <3>3. Walk[w] = Walk[Further(w)]
      BY <2>2, WalkStep
    <3>4. Walk[Onward(Further(w), t)].result = "error"
      BY <1>1, <2>2, <3>2, <3>3
    <3>5. QED
      BY <2>1, <3>1, <3>4, WalkStep
  <2>6. QED
    BY <2>4, <2>5
<1>2. \A w \in Walkers : Stops(w) \/ Further(w) \in Good => w \in Good
  BY <1>1
<1>3. Good \in SUBSET Walkers
  OBVIOUS
<1>4. \A w \in Walkers : w \in Good
  <2> HIDE DEF Good
  <2>1. QED
    BY <1>2, <1>3, WalkInduction
<1>5. QED
  BY <1>4

\* More links than are needed change nothing.
LEMMA MoreLinks ==
    ASSUME FsType
    PROVE  \A w \in Walkers : Walk[w].result # "error" =>
              \A l \in w.links .. MaxLinks : Walk[From(l, w.done, w.rest)] = Walk[w]
<1> DEFINE Good == {w \in Walkers : Walk[w].result # "error" =>
              \A l \in w.links .. MaxLinks : Walk[From(l, w.done, w.rest)] = Walk[w]}
<1>1. ASSUME NEW w \in Walkers, Stops(w) \/ Further(w) \in Good,
             Walk[w].result # "error", NEW l \in w.links .. MaxLinks
      PROVE  Walk[From(l, w.done, w.rest)] = Walk[w]
  <2> DEFINE v == From(l, w.done, w.rest)
  <2>1. /\ w.links \in 0 .. MaxLinks /\ w.done \in Seq(Names) /\ w.rest \in Seq(Names)
        /\ l \in 0 .. MaxLinks
    BY LinksAssumption DEF Walkers
  <2>2. v \in Walkers /\ v.links = l /\ v.done = w.done /\ v.rest = w.rest
    BY <2>1, FromIsWalker
  <2> HIDE DEF v
  <2>3. Ahead(v) = Ahead(w)
    BY <2>2 DEF Ahead
  <2>4. CASE Stops(w)
    <3>1. w.rest = <<>> \/ Kind(Ahead(w)) = "none"
      BY <1>1, <2>4, WalkStep
    <3>2. Stops(v) /\ Outcome(v) = Outcome(w)
      BY <2>2, <2>3, <3>1 DEF Stops, Outcome
    <3>3. QED
      BY <2>2, <2>4, <3>2, WalkStep DEF v
  <2>5. CASE ~Stops(w)
    <3>1. ~Stops(v)
      BY <2>1, <2>2, <2>3, <2>5 DEF Stops
    <3> DEFINE u == Further(w)
    <3>2. u \in Walkers /\ Walk[w] = Walk[u] /\ Walk[v] = Walk[Further(v)]
      BY <2>2, <2>5, <3>1, WalkDescends, WalkStep
    <3>3. \E k \in u.links .. MaxLinks : Further(v) = From(k, u.done, u.rest)
      <4>1. CASE Kind(Ahead(w)) = "link"
        <5>1. u.links = w.links - 1 /\ w.links # 0
          BY <2>5, <4>1 DEF Further, Stops
        <5>2. Further(v) = From(l - 1, u.done, u.rest)
          BY <2>2, <2>3, <4>1 DEF Further, From
        <5>3. l - 1 \in u.links .. MaxLinks
          BY <2>1, <5>1, LinksAssumption
        <5>4. QED
          BY <5>2, <5>3
      <4>2. CASE Kind(Ahead(w)) # "link"
        <5>1. u.links = w.links
          BY <4>2 DEF Further
        <5>2. Further(v) = From(l, u.done, u.rest)
          BY <2>2, <2>3, <4>2 DEF Further, From
        <5>3. QED
          BY <5>1, <5>2
      <4>3. QED
        BY <4>1, <4>2
    <3>4. Walk[Further(v)] = Walk[u]
      BY <1>1, <2>5, <3>2, <3>3
    <3>5. QED
      BY <3>2, <3>4 DEF v
  <2>6. QED
    BY <2>4, <2>5
<1>2. \A w \in Walkers : Stops(w) \/ Further(w) \in Good => w \in Good
  BY <1>1
<1>3. Good \in SUBSET Walkers
  OBVIOUS
<1>4. \A w \in Walkers : w \in Good
  <2> HIDE DEF Good
  <2>1. QED
    BY <1>2, <1>3, WalkInduction
<1>5. QED
  BY <1>4

\* What a walk finds exists and is not a link.
LEMMA FoundExists ==
    ASSUME FsType
    PROVE  \A w \in Walkers :
              Kind(w.done) \in {"dir", "file"} /\ Walk[w].result = "found" =>
              Kind(Walk[w].at) \in {"dir", "file"}
<1> DEFINE Good == {w \in Walkers :
              Kind(w.done) \in {"dir", "file"} /\ Walk[w].result = "found" =>
              Kind(Walk[w].at) \in {"dir", "file"}}
<1>1. ASSUME NEW w \in Walkers, Stops(w) \/ Further(w) \in Good,
             Kind(w.done) \in {"dir", "file"}, Walk[w].result = "found"
      PROVE  Kind(Walk[w].at) \in {"dir", "file"}
  <2>1. CASE Stops(w)
    BY <1>1, <2>1, WalkStep
  <2>2. CASE ~Stops(w)
    <3>1. Kind(Further(w).done) \in {"dir", "file"}
      <4>1. Kind(Ahead(w)) # "none"
        BY <2>2 DEF Stops
      <4>2. QED
        BY <4>1, Kinds DEF Further
    <3>2. QED
      BY <1>1, <2>2, <3>1, WalkStep
  <2>3. QED
    BY <2>1, <2>2
<1>2. \A w \in Walkers : Stops(w) \/ Further(w) \in Good => w \in Good
  BY <1>1
<1>3. Good \in SUBSET Walkers
  OBVIOUS
<1>4. \A w \in Walkers : w \in Good
  <2> HIDE DEF Good
  <2>1. QED
    BY <1>2, <1>3, WalkInduction
<1>5. QED
  BY <1>4

-----------------------------------------------------------------------------
(***************************************************************************)
(* The tree: what exists is in a directory.                                *)
(***************************************************************************)

Tree == \A loc \in Locations : fs[loc] # Nothing => Kind(Front(loc)) = "dir"

\* A name and the location above it.
LEMMA FrontOfAppend ==
    ASSUME NEW S, NEW loc \in Seq(S), NEW n \in S
    PROVE  Front(Append(loc, n)) = loc /\ Last(Append(loc, n)) = n
<1> DEFINE s == Append(loc, n)
<1>1. /\ s \in Seq(S) /\ Len(s) = Len(loc) + 1 /\ Len(loc) \in Nat
      /\ s[Len(loc) + 1] = n /\ \A i \in 1 .. Len(loc) : s[i] = loc[i]
  BY AppendProperties, LenProperties
<1> HIDE DEF s
<1>2. Last(s) = n
  BY <1>1 DEF Last
<1>3. \A i \in 1 .. Len(loc) : s[i] \in S
  BY <1>1, ElementOfSeq
<1>4. /\ SubSeq(s, 1, Len(loc)) \in Seq(S)
      /\ Len(SubSeq(s, 1, Len(loc))) = Len(loc)
      /\ \A i \in 1 .. Len(loc) : SubSeq(s, 1, Len(loc))[i] = s[i]
  BY <1>1, <1>3, SubSeqProperties
<1>5. SubSeq(s, 1, Len(loc)) = loc
  BY <1>1, <1>4, SeqEqual
<1>6. Front(s) = loc
  BY <1>1, <1>5 DEF Front
<1>7. QED
  BY <1>2, <1>6 DEF s

\* Above what exists there is a directory.
LEMMA ParentIsDirectory ==
    ASSUME FsType, Tree, NEW loc \in Seq(Names), NEW n \in Names,
           Kind(Append(loc, n)) # "none"
    PROVE  Kind(loc) = "dir"
<1>1. Append(loc, n) # <<>>
  BY AppendProperties
<1>2. Append(loc, n) \in Locations /\ fs[Append(loc, n)] # Nothing
  BY <1>1, Kinds
<1>3. QED
  BY <1>2, FrontOfAppend DEF Tree

\* The prefixes of a location that exists, exist, and are no links.
LEMMA PrefixesExist ==
    ASSUME FsType, Tree
    PROVE  \A loc \in Seq(Names) : Kind(loc) \in {"dir", "file"} =>
              \A i \in 0 .. Len(loc) : Kind(SubSeq(loc, 1, i)) \in {"dir", "file"}
<1> DEFINE Good == {loc \in Seq(Names) : Kind(loc) \in {"dir", "file"} =>
              \A i \in 0 .. Len(loc) : Kind(SubSeq(loc, 1, i)) \in {"dir", "file"}}
<1>1. <<>> \in Good
  <2>1. <<>> \in Seq(Names) /\ Len(<<>>) = 0
    BY EmptySeq
  <2>2. \A i \in 0 .. 0 : i = 0
    OBVIOUS
  <2>3. SubSeq(<<>>, 1, 0) = <<>>
    BY SubSeqEmpty
  <2>4. QED
    BY <2>1, <2>2, <2>3, Kinds
<1>2. ASSUME NEW loc \in Good, NEW n \in Names PROVE Append(loc, n) \in Good
  <2> DEFINE s == Append(loc, n)
  <2>1. loc \in Seq(Names)
    OBVIOUS
  <2>2. s \in Seq(Names) /\ Len(s) = Len(loc) + 1 /\ Len(loc) \in Nat
    BY <2>1, AppendProperties, LenProperties
  <2>3. ASSUME Kind(s) \in {"dir", "file"}, NEW i \in 0 .. Len(s)
        PROVE  Kind(SubSeq(s, 1, i)) \in {"dir", "file"}
    <3>1. Kind(loc) = "dir"
      BY <2>1, <2>3, ParentIsDirectory
    <3>2. CASE i = Len(s)
      BY <2>2, <2>3, <3>2, SubSeqFull
    <3>3. CASE i # Len(s)
      <4>1. i \in 0 .. Len(loc)
        BY <2>2, <3>3
      <4>2. SubSeq(s, 1, i) = SubSeq(loc, 1, i)
        <5>1. \A j \in 1 .. i : s[j] = loc[j] /\ s[j] \in Names /\ loc[j] \in Names
          BY <2>1, <2>2, <4>1, AppendProperties, ElementOfSeq
        <5>2. /\ SubSeq(s, 1, i) \in Seq(Names) /\ SubSeq(loc, 1, i) \in Seq(Names)
              /\ Len(SubSeq(s, 1, i)) = i /\ Len(SubSeq(loc, 1, i)) = i
              /\ \A j \in 1 .. i : SubSeq(s, 1, i)[j] = s[j]
              /\ \A j \in 1 .. i : SubSeq(loc, 1, i)[j] = loc[j]
          BY <2>2, <4>1, <5>1, SubSeqProperties
        <5>3. QED
          BY <5>1, <5>2, SeqEqual
      <4>3. QED
        BY <3>1, <4>1, <4>2
    <3>4. QED
      BY <3>2, <3>3
  <2>4. QED
    BY <2>2, <2>3
<1>3. Good \in SUBSET Seq(Names)
  OBVIOUS
<1>4. \A loc \in Seq(Names) : loc \in Good
  <2> HIDE DEF Good
  <2>1. QED
    BY <1>1, <1>2, <1>3, SeqInduction
<1>5. QED
  BY <1>4

\* A path that starts with a directory, named by its own location, is a path
\* from there.
LEMMA FromDirectory ==
    ASSUME FsType, Tree
    PROVE  \A loc \in Seq(Names) : Kind(loc) = "dir" =>
              \A l \in 0 .. MaxLinks, t \in Seq(Names) :
                  Walk[From(l, <<>>, loc \o t)] = Walk[From(l, loc, t)]
<1> DEFINE Good == {loc \in Seq(Names) : Kind(loc) = "dir" =>
              \A l \in 0 .. MaxLinks, t \in Seq(Names) :
                  Walk[From(l, <<>>, loc \o t)] = Walk[From(l, loc, t)]}
<1>1. <<>> \in Good
  <2>1. <<>> \in Seq(Names) /\ \A t \in Seq(Names) : <<>> \o t = t
    BY EmptySeq, ConcatEmptySeq
  <2>2. QED
    BY <2>1
<1>2. ASSUME NEW loc \in Good, NEW n \in Names PROVE Append(loc, n) \in Good
  <2> DEFINE s == Append(loc, n)
  <2>1. loc \in Seq(Names) /\ s \in Seq(Names) /\ s = loc \o <<n>>
    BY AppendProperties, AppendIsConcat
  <2>2. ASSUME Kind(s) = "dir", NEW l \in 0 .. MaxLinks, NEW t \in Seq(Names)
        PROVE  Walk[From(l, <<>>, s \o t)] = Walk[From(l, s, t)]
    <3>1. Kind(loc) = "dir"
      BY <2>1, <2>2, ParentIsDirectory
    <3> DEFINE r == <<n>> \o t
    <3>2. <<n>> \in Seq(Names)
      OBVIOUS
    <3>3. r \in Seq(Names) /\ r # <<>> /\ Head(r) = n /\ Tail(r) = t
      BY <3>2
    <3>4. s \o t = loc \o r
      BY <2>1, <3>2, ConcatAssociative
    <3> HIDE DEF r
    <3>5. Walk[From(l, <<>>, s \o t)] = Walk[From(l, loc, r)]
      BY <3>1, <3>3, <3>4
    <3> DEFINE w == From(l, loc, r)
    <3>6. w \in Walkers /\ w.links = l /\ w.done = loc /\ w.rest = r
      BY <2>1, <3>3, FromIsWalker
    <3> HIDE DEF w
    <3>7. Ahead(w) = s
      BY <3>3, <3>6 DEF Ahead
    <3>8. ~Stops(w) /\ Further(w) = From(l, s, t)
      BY <2>2, <3>3, <3>6, <3>7 DEF Stops, Further, From
    <3>9. QED
      BY <3>5, <3>6, <3>8, WalkStep DEF w
  <2>3. QED
    BY <2>1, <2>2
<1>3. Good \in SUBSET Seq(Names)
  OBVIOUS
<1>4. \A loc \in Seq(Names) : loc \in Good
  <2> HIDE DEF Good
  <2>1. QED
    BY <1>1, <1>2, <1>3, SeqInduction
<1>5. QED
  BY <1>4

\* The result of EvalSymlinks for a path.
LEMMA EvalIsWalk ==
    ASSUME FsType, NEW path \in Seq(Names)
    PROVE  /\ From(MaxLinks, <<>>, path) \in Walkers
           /\ EvalSymlinks(path) = Walk[From(MaxLinks, <<>>, path)]
           /\ EvalSymlinks(path).result \in {"found", "notexist", "error"}
           /\ EvalSymlinks(path).at \in Seq(Names)
           /\ EvalSymlinks(path) = [result |-> EvalSymlinks(path).result,
                                    at |-> EvalSymlinks(path).at]
<1>1. <<>> \in Seq(Names) /\ MaxLinks \in 0 .. MaxLinks
  BY LinksAssumption, EmptySeq
<1>2. From(MaxLinks, <<>>, path) \in Walkers
  BY <1>1, FromIsWalker
<1>3. EvalSymlinks(path) = Walk[From(MaxLinks, <<>>, path)]
  BY DEF EvalSymlinks, From
<1>4. EvalSymlinks(path) \in Results
  BY <1>2, <1>3, WalkEquation
<1>5. QED
  BY <1>2, <1>3, <1>4 DEF Results

\* A location that exists and is no link is found where it is.
LEMMA FoundWhereItIs ==
    ASSUME FsType, Tree, NEW loc \in Seq(Names), Kind(loc) \in {"dir", "file"}
    PROVE  EvalSymlinks(loc) = [result |-> "found", at |-> loc]
<1>1. <<>> \in Seq(Names) /\ MaxLinks \in 0 .. MaxLinks
  BY LinksAssumption, EmptySeq
<1>2. CASE Kind(loc) = "dir"
  <2>1. loc \o <<>> = loc
    BY ConcatEmptySeq
  <2>2. Walk[From(MaxLinks, <<>>, loc)] = Walk[From(MaxLinks, loc, <<>>)]
    BY <1>1, <1>2, <2>1, FromDirectory
  <2> DEFINE w == From(MaxLinks, loc, <<>>)
  <2>3. w \in Walkers /\ w.done = loc /\ w.rest = <<>>
    <3>1. \A t \in Seq(Names) : /\ From(MaxLinks, loc, t) \in Walkers
                               /\ From(MaxLinks, loc, t).done = loc
                               /\ From(MaxLinks, loc, t).rest = t
      BY <1>1, FromIsWalker
    <3>2. QED
      BY <1>1, <3>1
  <2> HIDE DEF w
  <2>4. Walk[w].result = "found" /\ Walk[w].at = loc
    BY <2>3, WalkStep
  <2>5. QED
    BY <2>2, <2>4, EvalIsWalk DEF w
<1>3. CASE Kind(loc) = "file"
  <2>1. loc # <<>>
    BY <1>3, Kinds
  <2>2. PICK q \in Seq(Names), n \in Names : loc = Append(q, n)
    BY <2>1, SequenceEmptyOrAppend
  <2>3. Kind(q) = "dir"
    BY <1>3, <2>2, ParentIsDirectory
  <2> DEFINE r == <<n>>
  <2>4. r \in Seq(Names) /\ r # <<>> /\ Head(r) = n /\ Tail(r) = <<>>
    OBVIOUS
  <2>5. loc = q \o r
    BY <2>2, AppendIsConcat
  <2> HIDE DEF r
  <2>6. Walk[From(MaxLinks, <<>>, loc)] = Walk[From(MaxLinks, q, r)]
    BY <1>1, <2>3, <2>4, <2>5, FromDirectory
  <2> DEFINE w == From(MaxLinks, q, r)
  <2>7. w \in Walkers /\ w.done = q /\ w.rest = r
    BY <1>1, <2>4, FromIsWalker
  <2> HIDE DEF w
  <2>8. Ahead(w) = loc /\ ~Stops(w)
    <3>1. Ahead(w) = loc
      BY <2>2, <2>4, <2>7 DEF Ahead
    <3>2. QED
      BY <1>3, <2>4, <2>7, <3>1 DEF Stops
  <2>9. Walk[w].result = "found" /\ Walk[w].at = loc
    BY <1>3, <2>7, <2>8, FileEnds
  <2>10. QED
    BY <2>6, <2>9, EvalIsWalk DEF w
<1>4. QED
  BY <1>2, <1>3

-----------------------------------------------------------------------------
(***************************************************************************)
(* filepath.Clean.                                                         *)
(***************************************************************************)

Elements == Names \cup {DotDot}

\* All elements but the last.
LEMMA FrontIsShorter ==
    ASSUME NEW S, NEW s \in Seq(S), s # <<>>
    PROVE  /\ Front(s) \in Seq(S) /\ Len(Front(s)) < Len(s) /\ Last(s) \in S
           /\ Len(Front(s)) \in Nat /\ Len(s) \in Nat
<1>1. PICK r \in Seq(S), e \in S : s = Append(r, e)
  BY SequenceEmptyOrAppend
<1>2. Front(s) = r /\ Last(s) = e
  BY <1>1, FrontOfAppend
<1>3. Len(s) = Len(r) + 1 /\ Len(r) \in Nat
  BY <1>1, AppendProperties, LenProperties
<1>4. QED
  BY <1>2, <1>3

\* One round of Clean: what an element makes of the path before it.
Cleaned(above, n) ==
    IF n # DotDot THEN Append(above, n)
    ELSE IF above = <<>> THEN <<>> ELSE Front(above)

\* It makes a path of a path.
LEMMA CleanedIsPath ==
    ASSUME NEW above \in Seq(Names), NEW n \in Elements
    PROVE  Cleaned(above, n) \in Seq(Names)
<1>1. n # DotDot => n \in Names
  BY DEF Elements
<1>2. QED
  BY <1>1, AppendProperties, FrontIsShorter, EmptySeq DEF Cleaned

\* The equation of Clean.
LEMMA CleanEquation ==
    \A parts \in Seq(Elements) :
        Clean[parts] = IF parts = <<>> THEN <<>>
                       ELSE Cleaned(Clean[Front(parts)], Last(parts))
<1> DEFINE D == Seq(Elements)
           V == Seq(Names)
           stop == {<<>>}
           base == [d \in D |-> <<>>]
           down == [d \in D |-> Front(d)]
           up == [z \in D \X V |-> Cleaned(z[2], Last(z[1]))]
           m1 == [d \in D |-> 0]
           m2 == [d \in D |-> Len(d)]
<1>1. m1 \in [D -> Nat] /\ m2 \in [D -> Nat]
  BY LenProperties
<1>2. ASSUME NEW d \in D
      PROVE  /\ d \in stop <=> d = <<>>
             /\ base[d] = <<>> /\ down[d] = Front(d) /\ m1[d] = 0 /\ m2[d] = Len(d)
             /\ \A v \in V : up[<<d, v>>] = Cleaned(v, Last(d))
  OBVIOUS
<1> HIDE DEF stop, base, down, up, m1, m2
<1>3. Descends(D, V, stop, base, down, up, m1, m2)
  <2>1. ASSUME NEW d \in D, d # <<>>
        PROVE  /\ Front(d) \in D /\ m1[Front(d)] = m1[d]
               /\ m2[Front(d)] < m2[d] /\ Last(d) \in Elements
    BY <1>2, <2>1, FrontIsShorter
  <2>2. <<>> \in V
    BY EmptySeq
  <2>3. QED
    BY <1>2, <2>1, <2>2, CleanedIsPath DEF Descends, Less
<1>4. PICK f \in [D -> V] : Recursive(D, stop, base, down, up, f)
  BY <1>1, <1>3, RecursionExists
<1>5. ASSUME NEW d \in D
      PROVE  f[d] = IF d = <<>> THEN <<>> ELSE Cleaned(f[Front(d)], Last(d))
  <2>1. f[d] = IF d = <<>> THEN <<>> ELSE up[<<d, f[Front(d)]>>]
    BY <1>2, <1>4 DEF Recursive
  <2>2. d # <<>> => f[Front(d)] \in V
    BY FrontIsShorter
  <2>3. QED
    BY <1>2, <2>1, <2>2
<1>6. f = [parts \in Seq(Names \cup {DotDot}) |->
              IF parts = <<>> THEN <<>>
              ELSE IF Last(parts) # DotDot THEN Append(f[Front(parts)], Last(parts))
              ELSE IF f[Front(parts)] = <<>> THEN <<>> ELSE Front(f[Front(parts)])]
  BY <1>5 DEF Cleaned, Elements
<1>7. Clean = [parts \in Seq(Names \cup {DotDot}) |->
              IF parts = <<>> THEN <<>>
              ELSE IF Last(parts) # DotDot THEN Append(Clean[Front(parts)], Last(parts))
              ELSE IF Clean[Front(parts)] = <<>> THEN <<>> ELSE Front(Clean[Front(parts)])]
  BY <1>6, Zenon DEF Clean
<1>8. QED
  BY <1>7 DEF Cleaned, Elements

\* Clean returns a path without "..", and leaves such a path alone.
LEMMA CleanFacts ==
    \A parts \in Seq(Elements) :
        /\ Clean[parts] \in Seq(Names)
        /\ parts \in Seq(Names) => Clean[parts] = parts
<1> DEFINE Good == {parts \in Seq(Elements) :
                      /\ Clean[parts] \in Seq(Names)
                      /\ parts \in Seq(Names) => Clean[parts] = parts}
<1>1. <<>> \in Good
  <2>1. <<>> \in Seq(Elements) /\ <<>> \in Seq(Names)
    BY EmptySeq
  <2>2. QED
    BY <2>1, CleanEquation
<1>2. ASSUME NEW s \in Good, NEW n \in Elements PROVE Append(s, n) \in Good
  <2> DEFINE t == Append(s, n)
  <2>1. t \in Seq(Elements) /\ t # <<>> /\ Front(t) = s /\ Last(t) = n
    BY AppendProperties, FrontOfAppend
  <2>2. Clean[t] = Cleaned(Clean[s], n)
    BY <2>1, CleanEquation
  <2>3. Clean[t] \in Seq(Names)
    BY <2>2, CleanedIsPath
  <2>4. ASSUME t \in Seq(Names) PROVE Clean[t] = t
    <3>1. s \in Seq(Names) /\ n \in Names
      BY <2>1, <2>4, FrontIsShorter
    <3>2. QED
      BY <2>2, <3>1, NamesAssumption DEF Cleaned
  <2>5. QED
    BY <2>1, <2>3, <2>4
<1>3. Good \in SUBSET Seq(Elements)
  OBVIOUS
<1>4. \A s \in Seq(Elements) : s \in Good
  <2> HIDE DEF Good
  <2>1. QED
    BY <1>1, <1>2, <1>3, SeqInduction
<1>5. QED
  BY <1>4

-----------------------------------------------------------------------------
(***************************************************************************)
(* resolveExisting.                                                        *)
(***************************************************************************)

\* The greatest of some numbers up to n.
LEMMA MaxFacts ==
    ASSUME NEW n \in Nat, NEW I \in SUBSET (0 .. n), I # {}
    PROVE  Max(I) \in I /\ \A i \in I : i <= Max(I)
<1> DEFINE N == {n - i : i \in I}
<1>1. N \subseteq Nat /\ N # {}
  <2>1. \A i \in I : i \in 0 .. n
    OBVIOUS
  <2>2. \A i \in I : n - i \in Nat
    BY <2>1
  <2>3. QED
    BY <2>2
<1>2. PICK k \in N : \A j \in N : k <= j
  <2> HIDE DEF N
  <2>1. QED
    BY <1>1, Least
<1>3. PICK m \in I : k = n - m
  BY <1>2
<1>4. \A i \in I : m >= i
  <2> TAKE i \in I
  <2>1. k <= n - i /\ i \in Nat /\ m \in Nat
    BY <1>2
  <2>2. QED
    BY <1>3, <2>1
<1>5. Max(I) \in I /\ \A i \in I : Max(I) >= i
  BY <1>3, <1>4 DEF Max
<1>6. QED
  BY <1>5

\* Two parts of a path.
LEMMA Split ==
    ASSUME NEW path \in Seq(Names), NEW k \in 0 .. Len(path)
    PROVE  /\ SubSeq(path, 1, k) \in Seq(Names)
           /\ SubSeq(path, k + 1, Len(path)) \in Seq(Names)
           /\ Len(SubSeq(path, 1, k)) = k
           /\ Len(SubSeq(path, k + 1, Len(path))) = Len(path) - k
           /\ path = SubSeq(path, 1, k) \o SubSeq(path, k + 1, Len(path))
           /\ k < Len(path) => /\ path[k + 1] \in Names
                               /\ SubSeq(path, 1, k + 1) = Append(SubSeq(path, 1, k), path[k + 1])
<1>1. Len(path) \in Nat /\ \A i \in 1 .. Len(path) : path[i] \in Names
  BY LenProperties, ElementOfSeq
<1>2. SubSeq(path, 1, k) \in Seq(Names) /\ Len(SubSeq(path, 1, k)) = k
  <2>1. \A i \in 1 .. k : path[i] \in Names
    BY <1>1
  <2>2. QED
    BY <1>1, <2>1, SubSeqProperties
<1>3. /\ SubSeq(path, k + 1, Len(path)) \in Seq(Names)
      /\ Len(SubSeq(path, k + 1, Len(path))) = Len(path) - k
  <2>1. \A i \in k + 1 .. Len(path) : path[i] \in Names
    BY <1>1
  <2>2. QED
    BY <1>1, <2>1, SubSeqProperties
<1>4. path = SubSeq(path, 1, k) \o SubSeq(path, k + 1, Len(path))
  <2>1. /\ 1 \in 1 .. Len(path) + 1 /\ k \in 1 - 1 .. Len(path)
        /\ Len(path) \in k .. Len(path)
    BY <1>1
  <2>2. SubSeq(path, 1, k) \o SubSeq(path, k + 1, Len(path)) = SubSeq(path, 1, Len(path))
    BY <2>1, ConcatAdjacentSubSeq
  <2>3. QED
    BY <2>2, SubSeqFull
<1>5. ASSUME k < Len(path)
      PROVE  /\ path[k + 1] \in Names
             /\ SubSeq(path, 1, k + 1) = Append(SubSeq(path, 1, k), path[k + 1])
  <2>1. 1 \in 1 .. Len(path) /\ k + 1 \in 1 .. Len(path) /\ k + 1 - 1 = k
    BY <1>1, <1>5
  <2>2. SubSeq(path, 1, k + 1) = SubSeq(path, 1, k) \o <<path[k + 1]>>
    BY <2>1, SubSeqRecursiveSecond
  <2>3. QED
    BY <1>1, <1>2, <2>1, <2>2, AppendIsConcat
<1>6. QED
  BY <1>1, <1>2, <1>3, <1>4, <1>5

\* Where the loop of resolveExisting ends for a path.
EndsAt(path, k) ==
    /\ k \in 0 .. Len(path)
    /\ EvalSymlinks(SubSeq(path, 1, k)).result # "notexist"
    /\ \A i \in k + 1 .. Len(path) :
          EvalSymlinks(SubSeq(path, 1, i)).result = "notexist"

\* It ends, at "/" if nowhere else, and its result is that of EvalSymlinks
\* there, with the rest of the path.
LEMMA ResolveEnds ==
    ASSUME FsType, NEW path \in Seq(Names)
    PROVE  /\ \E k \in 0 .. Len(path) : EndsAt(path, k)
           /\ \A k : EndsAt(path, k) => resolveExisting(path) =
                [result |-> EvalSymlinks(SubSeq(path, 1, k)).result,
                 at |-> EvalSymlinks(SubSeq(path, 1, k)).at
                          \o SubSeq(path, k + 1, Len(path))]
<1> DEFINE Res(i) == EvalSymlinks(SubSeq(path, 1, i)).result
           I == {i \in 0 .. Len(path) : Res(i) # "notexist"}
           k == Max(I)
<1>1. Len(path) \in Nat
  BY LenProperties
<1>2. Res(0) # "notexist"
  <2>1. <<>> \in Seq(Names) /\ SubSeq(path, 1, 0) = <<>>
    BY EmptySeq, SubSeqEmpty
  <2>2. From(MaxLinks, <<>>, <<>>).rest = <<>>
    BY DEF From
  <2>3. EvalSymlinks(<<>>).result = "found"
    BY <2>1, <2>2, EvalIsWalk, WalkStep
  <2>4. QED
    BY <2>1, <2>3
<1>3. I \in SUBSET (0 .. Len(path)) /\ I # {}
  BY <1>1, <1>2
<1>4. k \in I /\ \A i \in I : i <= k
  <2> HIDE DEF I
  <2>1. QED
    BY <1>1, <1>3, MaxFacts
<1>5. EndsAt(path, k)
  <2> HIDE DEF k
  <2>1. ASSUME NEW i \in k + 1 .. Len(path) PROVE Res(i) = "notexist"
    <3>1. k \in Nat /\ i \in 0 .. Len(path) /\ ~(i <= k)
      BY <1>1, <1>4
    <3>2. QED
      BY <1>4, <3>1
  <2>2. QED
    BY <1>4, <2>1 DEF EndsAt
<1>6. resolveExisting(path) =
        [result |-> EvalSymlinks(SubSeq(path, 1, k)).result,
         at |-> EvalSymlinks(SubSeq(path, 1, k)).at \o SubSeq(path, k + 1, Len(path))]
  <2>1. SubSeq(path, 1, k) \in Seq(Names)
    <3> HIDE DEF k
    <3>1. QED
      BY <1>4, Split
  <2> DEFINE e == EvalSymlinks(SubSeq(path, 1, k))
  <2>2. e = [result |-> e.result, at |-> e.at]
    BY <2>1, EvalIsWalk
  <2>3. resolveExisting(path) = [e EXCEPT !.at = @ \o SubSeq(path, k + 1, Len(path))]
    BY DEF resolveExisting
  <2> HIDE DEF e, k
  <2>4. resolveExisting(path) = [result |-> e.result,
                                 at |-> e.at \o SubSeq(path, k + 1, Len(path))]
    BY <2>2, <2>3
  <2>5. QED
    BY <2>4 DEF e
<1>7. ASSUME NEW j, EndsAt(path, j) PROVE j = k
  <2> HIDE DEF k
  <2>1. j \in 0 .. Len(path) /\ k \in 0 .. Len(path)
    BY <1>4, <1>7 DEF EndsAt
  <2>2. ~(j < k)
    BY <1>1, <1>4, <1>7, <2>1 DEF EndsAt
  <2>3. ~(k < j)
    BY <1>1, <1>5, <1>7, <2>1 DEF EndsAt
  <2>4. QED
    BY <1>1, <2>1, <2>2, <2>3
<1>8. QED
  <2> HIDE DEF k
  <2>1. k \in 0 .. Len(path)
    BY <1>4
  <2>2. QED
    BY <1>5, <1>6, <1>7, <2>1

\* A path in two parts: a place that exists and is no link, and names below it
\* of which the first does not exist.
Canonical(loc, below) ==
    /\ loc \in Seq(Names) /\ below \in Seq(Names)
    /\ Kind(loc) \in {"dir", "file"}
    /\ \A j \in 1 .. Len(below) :
          EvalSymlinks(loc \o SubSeq(below, 1, j)).result = "notexist"

\* When the first name below a directory does not exist, none of them does.
LEMMA CanonicalByFirst ==
    ASSUME FsType, Tree, NEW loc \in Seq(Names), NEW below \in Seq(Names),
           Kind(loc) \in {"dir", "file"},
           below # <<>> =>
             /\ Kind(loc) = "dir"
             /\ Walk[From(MaxLinks, loc, <<below[1]>>)].result = "notexist"
    PROVE  Canonical(loc, below)
<1>1. ASSUME NEW j \in 1 .. Len(below)
      PROVE  EvalSymlinks(loc \o SubSeq(below, 1, j)).result = "notexist"
  <2>1. Len(below) \in Nat /\ below # <<>>
    BY LenProperties, EmptySeq
  <2>2. MaxLinks \in 0 .. MaxLinks /\ below[1] \in Names
    BY <2>1, LinksAssumption, ElementOfSeq
  <2> DEFINE x == <<below[1]>>
             t == SubSeq(below, 2, j)
             s == SubSeq(below, 1, j)
  <2>3. x \in Seq(Names)
    BY <2>2
  <2>4. t \in Seq(Names)
    <3>1. \A i \in 2 .. j : below[i] \in Names
      BY <2>1, ElementOfSeq
    <3>2. QED
      BY <2>1, <3>1, SubSeqProperties
  <2>5. s \in Seq(Names) /\ s = x \o t
    <3>1. 1 \in 1 .. Len(below) /\ j \in 1 .. Len(below)
      BY <2>1
    <3>2. s = x \o t
      BY <3>1, SubSeqRecursiveFirst
    <3>3. QED
      BY <2>3, <2>4, <3>2, ConcatProperties
  <2> HIDE DEF x, t, s
  <2>6. From(MaxLinks, loc, x) \in Walkers
    BY <2>2, <2>3, FromIsWalker
  <2>7. Walk[From(MaxLinks, loc, x)].result = "notexist"
    BY <2>1 DEF x
  <2>8. Onward(From(MaxLinks, loc, x), t) = From(MaxLinks, loc, s)
    BY <2>5 DEF Onward, From
  <2>9. Walk[From(MaxLinks, loc, s)].result = "notexist"
    BY <2>4, <2>6, <2>7, <2>8, NothingBelowNothing
  <2>10. Walk[From(MaxLinks, <<>>, loc \o s)] = Walk[From(MaxLinks, loc, s)]
    BY <2>1, <2>2, <2>5, FromDirectory
  <2>11. loc \o s \in Seq(Names)
    BY <2>5, ConcatProperties
  <2>12. QED
    BY <2>9, <2>10, <2>11, EvalIsWalk DEF s
<1>2. QED
  BY <1>1 DEF Canonical

\* What resolveExisting finds is canonical: the longest prefix that exists is
\* replaced by the place it leads to, and the name behind it leads nowhere
\* from there, whatever links were followed.
LEMMA ResolvedIsCanonical ==
    ASSUME FsType, Tree, NEW path \in Seq(Names),
           resolveExisting(path).result = "found"
    PROVE  \E loc \in Seq(Names), below \in Seq(Names) :
              Canonical(loc, below) /\ resolveExisting(path).at = loc \o below
<1>1. PICK k \in 0 .. Len(path) : EndsAt(path, k)
  BY ResolveEnds
<1> DEFINE q == SubSeq(path, 1, k)
           below == SubSeq(path, k + 1, Len(path))
           loc == EvalSymlinks(q).at
           w == From(MaxLinks, <<>>, q)
<1>2. /\ q \in Seq(Names) /\ below \in Seq(Names) /\ Len(below) = Len(path) - k
      /\ Len(path) \in Nat
  BY Split, LenProperties
<1>3. EvalSymlinks(q).result = "found" /\ resolveExisting(path).at = loc \o below
  <2>1. resolveExisting(path) = [result |-> EvalSymlinks(q).result, at |-> loc \o below]
    BY <1>1, ResolveEnds
  <2> HIDE DEF q, below, loc
  <2>2. resolveExisting(path).result = EvalSymlinks(q).result
    BY <2>1
  <2>3. resolveExisting(path).at = loc \o below
    BY <2>1
  <2>4. QED
    BY <2>2, <2>3
<1> HIDE DEF q, below
<1>4. /\ w \in Walkers /\ Walk[w].result = "found" /\ Walk[w].at = loc
      /\ w.done = <<>> /\ w.rest = q /\ loc \in Seq(Names)
  BY <1>2, <1>3, EvalIsWalk DEF From
<1> HIDE DEF w, loc
<1>5. Kind(w.done) = "dir"
  BY <1>4, Kinds
<1>6. Kind(loc) \in {"dir", "file"}
  BY <1>4, <1>5, FoundExists
<1>7. ASSUME below # <<>>
      PROVE  /\ Kind(loc) = "dir"
             /\ Walk[From(MaxLinks, loc, <<below[1]>>)].result = "notexist"
  <2>1. k < Len(path)
    BY <1>2, <1>7, EmptySeq
  <2>2. path[k + 1] \in Names /\ SubSeq(path, 1, k + 1) = Append(q, path[k + 1])
    BY <2>1, Split DEF q
  <2>3. below[1] = path[k + 1]
    <3>1. k + 1 \in 1 .. Len(path) /\ Len(path) \in k + 1 .. Len(path)
      BY <1>2, <2>1
    <3>2. Head(below) = path[k + 1]
      BY <3>1, HeadTailOfSubSeq DEF below
    <3>3. QED
      BY <1>2, <1>7, <3>2
  <2> DEFINE x == <<below[1]>>
  <2>4. x \in Seq(Names) /\ x # <<>>
    BY <2>2, <2>3
  <2>5. SubSeq(path, 1, k + 1) = q \o x
    BY <1>2, <2>2, <2>3, AppendIsConcat
  <2> HIDE DEF x
  <2>6. EvalSymlinks(q \o x).result = "notexist"
    <3>1. k + 1 \in k + 1 .. Len(path)
      BY <1>2, <2>1
    <3>2. QED
      BY <1>1, <2>5, <3>1 DEF EndsAt
  <2>7. q \o x \in Seq(Names) /\ Onward(w, x) = From(MaxLinks, <<>>, q \o x)
    <3>1. q \o x \in Seq(Names)
      BY <1>2, <2>4, ConcatProperties
    <3>2. QED
      BY <3>1 DEF Onward, From, w
  <2>8. Walk[Onward(w, x)].result = "notexist"
    BY <2>6, <2>7, EvalIsWalk
  <2>9. Kind(loc) = "dir"
    BY <1>4, <1>5, <1>6, <2>4, <2>8, ThroughFile
  <2>10. PICK l \in 0 .. MaxLinks : Walk[Onward(w, x)] = Walk[From(l, loc, x)]
    BY <1>4, <2>4, <2>9, ThroughDirectory
  <2> DEFINE v == From(l, loc, x)
  <2>11. v \in Walkers /\ v.links = l /\ v.done = loc /\ v.rest = x
    BY <1>4, <2>4, FromIsWalker
  <2>12. Walk[v].result = "notexist"
    BY <2>8, <2>10
  <2> HIDE DEF v
  <2>13. MaxLinks \in v.links .. MaxLinks
    BY <2>11, LinksAssumption
  <2>14. Walk[From(MaxLinks, loc, x)] = Walk[v]
    BY <2>11, <2>12, <2>13, MoreLinks
  <2>15. QED
    BY <2>9, <2>12, <2>14 DEF x
<1>8. Canonical(loc, below)
  BY <1>2, <1>4, <1>6, <1>7, CanonicalByFirst
<1>9. QED
  BY <1>2, <1>3, <1>4, <1>8

\* The parts of a concatenation.
LEMMA PartsOfConcat ==
    ASSUME NEW S, NEW s \in Seq(S), NEW t \in Seq(S), NEW u, u = s \o t
    PROVE  /\ u \in Seq(S) /\ Len(u) = Len(s) + Len(t)
           /\ Len(s) \in Nat /\ Len(t) \in Nat
           /\ \A i \in 0 .. Len(s) : SubSeq(u, 1, i) = SubSeq(s, 1, i)
           /\ SubSeq(u, Len(s) + 1, Len(u)) = t
           /\ \A j \in 0 .. Len(t) : SubSeq(u, 1, Len(s) + j) = s \o SubSeq(t, 1, j)
<1>1. /\ u \in Seq(S) /\ Len(u) = Len(s) + Len(t)
      /\ Len(s) \in Nat /\ Len(t) \in Nat
      /\ \A i \in 1 .. Len(s) + Len(t) : u[i] =
            IF i <= Len(s) THEN s[i] ELSE t[i - Len(s)]
  BY ConcatProperties, LenProperties
<1>2. /\ \A i \in 1 .. Len(u) : u[i] \in S
      /\ \A i \in 1 .. Len(s) : s[i] \in S
      /\ \A i \in 1 .. Len(t) : t[i] \in S
  BY <1>1, ElementOfSeq
<1>3. ASSUME NEW i \in 0 .. Len(s) PROVE SubSeq(u, 1, i) = SubSeq(s, 1, i)
  <2>1. \A j \in 1 .. i : u[j] = s[j] /\ u[j] \in S /\ s[j] \in S
    BY <1>1, <1>2
  <2>2. /\ SubSeq(u, 1, i) \in Seq(S) /\ SubSeq(s, 1, i) \in Seq(S)
        /\ Len(SubSeq(u, 1, i)) = i /\ Len(SubSeq(s, 1, i)) = i
        /\ \A j \in 1 .. i : SubSeq(u, 1, i)[j] = u[j]
        /\ \A j \in 1 .. i : SubSeq(s, 1, i)[j] = s[j]
    BY <1>1, <2>1, SubSeqProperties
  <2>3. QED
    BY <2>1, <2>2, SeqEqual
<1>4. SubSeq(u, Len(s) + 1, Len(u)) = t
  <2> DEFINE v == SubSeq(u, Len(s) + 1, Len(u))
  <2>1. \A j \in Len(s) + 1 .. Len(u) : u[j] \in S
    BY <1>1, <1>2
  <2>2. /\ v \in Seq(S) /\ Len(v) = Len(t)
        /\ \A j \in 1 .. Len(t) : v[j] = u[Len(s) + 1 + j - 1]
    BY <1>1, <2>1, SubSeqProperties
  <2> HIDE DEF v
  <2>3. \A j \in 1 .. Len(t) : v[j] = t[j]
    <3> TAKE j \in 1 .. Len(t)
    <3>1. /\ Len(s) + 1 + j - 1 = Len(s) + j /\ Len(s) + j \in 1 .. Len(s) + Len(t)
          /\ ~(Len(s) + j <= Len(s)) /\ Len(s) + j - Len(s) = j
      BY <1>1
    <3>2. v[j] = u[Len(s) + j]
      BY <2>2, <3>1
    <3>3. u[Len(s) + j] = t[j]
      BY <1>1, <3>1
    <3>4. QED
      BY <3>2, <3>3
  <2>4. QED
    BY <2>2, <2>3, SeqEqual DEF v
<1>5. ASSUME NEW j \in 0 .. Len(t)
      PROVE  SubSeq(u, 1, Len(s) + j) = s \o SubSeq(t, 1, j)
  <2> DEFINE v == SubSeq(u, 1, Len(s) + j)
             r == SubSeq(t, 1, j)
             x == s \o r
  <2>1. \A i \in 1 .. Len(s) + j : u[i] \in S
    BY <1>1, <1>2
  <2>2. /\ v \in Seq(S) /\ Len(v) = Len(s) + j
        /\ \A i \in 1 .. Len(s) + j : v[i] = u[i]
    BY <1>1, <2>1, SubSeqProperties
  <2>3. /\ r \in Seq(S) /\ Len(r) = j /\ \A i \in 1 .. j : r[i] = t[i]
    BY <1>1, <1>2, SubSeqProperties
  <2> HIDE DEF v, r
  <2>4. /\ x \in Seq(S) /\ Len(x) = Len(s) + j
        /\ \A i \in 1 .. Len(s) + j : x[i] = IF i <= Len(s) THEN s[i] ELSE r[i - Len(s)]
    BY <2>3, ConcatProperties
  <2> HIDE DEF x
  <2>5. \A i \in 1 .. Len(s) + j : v[i] = x[i]
    <3> TAKE i \in 1 .. Len(s) + j
    <3>1. i \in 1 .. Len(s) + Len(t)
      BY <1>1
    <3>2. CASE i <= Len(s)
      BY <1>1, <2>2, <2>4, <3>1, <3>2
    <3>3. CASE ~(i <= Len(s))
      <4>1. i - Len(s) \in 1 .. j
        BY <1>1, <3>3
      <4>2. v[i] = t[i - Len(s)]
        BY <1>1, <2>2, <3>1, <3>3
      <4>3. QED
        BY <2>3, <2>4, <3>3, <4>1, <4>2
    <3>4. QED
      BY <3>2, <3>3
  <2>6. v = x
    BY <2>2, <2>4, <2>5, SeqEqual
  <2>7. QED
    BY <2>6 DEF v, x, r
<1>6. QED
  BY <1>1, <1>3, <1>4, <1>5

\* A place that exists and is no link, or from which nothing is reached.
Settled(part) ==
    \/ /\ Kind(part) \in {"dir", "file"}
       /\ EvalSymlinks(part) = [result |-> "found", at |-> part]
    \/ /\ Kind(part) \in {"none", "link"}
       /\ EvalSymlinks(part).result = "notexist"

\* A canonical path is found where it is as far as it exists, a link on it
\* dangles, and resolveExisting returns it as it is.
LEMMA CanonicalFacts ==
    ASSUME FsType, Tree, NEW loc, NEW below, Canonical(loc, below)
    PROVE  /\ \A i \in 0 .. Len(loc \o below) : Settled(SubSeq(loc \o below, 1, i))
           /\ resolveExisting(loc \o below) = [result |-> "found", at |-> loc \o below]
<1> DEFINE path == loc \o below
<1>1. loc \in Seq(Names) /\ below \in Seq(Names) /\ Kind(loc) \in {"dir", "file"}
  BY DEF Canonical
<1>2. /\ path \in Seq(Names) /\ Len(path) = Len(loc) + Len(below)
      /\ Len(loc) \in Nat /\ Len(below) \in Nat
      /\ \A i \in 0 .. Len(loc) : SubSeq(path, 1, i) = SubSeq(loc, 1, i)
      /\ SubSeq(path, Len(loc) + 1, Len(path)) = below
      /\ \A j \in 0 .. Len(below) :
            SubSeq(path, 1, Len(loc) + j) = loc \o SubSeq(below, 1, j)
  <2>1. path = loc \o below
    OBVIOUS
  <2> HIDE DEF path
  <2>2. QED
    BY ONLY <1>1, <2>1, PartsOfConcat
<1> HIDE DEF path
<1>3. ASSUME NEW i \in 0 .. Len(loc)
      PROVE  /\ EvalSymlinks(SubSeq(path, 1, i)).result = "found"
             /\ EvalSymlinks(SubSeq(path, 1, i)).at = SubSeq(path, 1, i)
             /\ Settled(SubSeq(path, 1, i))
  <2> DEFINE s == SubSeq(loc, 1, i)
  <2>1. s \in Seq(Names) /\ s = SubSeq(path, 1, i)
    BY <1>1, <1>2, Split
  <2>2. Kind(s) \in {"dir", "file"}
    BY <1>1, PrefixesExist
  <2> HIDE DEF s
  <2>3. EvalSymlinks(s) = [result |-> "found", at |-> s]
    BY <2>1, <2>2, FoundWhereItIs
  <2>4. EvalSymlinks(s).result = "found" /\ EvalSymlinks(s).at = s
    BY <2>3
  <2>5. Settled(s)
    BY <2>2, <2>3 DEF Settled
  <2>6. QED
    BY <2>1, <2>4, <2>5
<1>4. ASSUME NEW i \in Len(loc) + 1 .. Len(path)
      PROVE  EvalSymlinks(SubSeq(path, 1, i)).result = "notexist"
  <2> DEFINE j == i - Len(loc)
  <2>1. j \in 1 .. Len(below) /\ i = Len(loc) + j
    BY <1>2
  <2>2. SubSeq(path, 1, i) = loc \o SubSeq(below, 1, j)
    <3> HIDE DEF j
    <3>1. QED
      BY <1>2, <2>1
  <2>3. QED
    BY <2>1, <2>2 DEF Canonical
<1>5. ASSUME NEW i \in 0 .. Len(path) PROVE Settled(SubSeq(path, 1, i))
  <2>1. CASE i \in 0 .. Len(loc)
    BY <1>3, <2>1
  <2>2. CASE i \notin 0 .. Len(loc)
    <3> DEFINE part == SubSeq(path, 1, i)
    <3>1. i \in Len(loc) + 1 .. Len(path)
      BY <1>2, <2>2
    <3>2. EvalSymlinks(part).result = "notexist" /\ part \in Seq(Names)
      BY <1>2, <1>4, <3>1, Split
    <3> HIDE DEF part
    <3>3. Kind(part) \notin {"dir", "file"}
      <4>1. SUFFICES ASSUME Kind(part) \in {"dir", "file"} PROVE FALSE
        OBVIOUS
      <4>2. EvalSymlinks(part) = [result |-> "found", at |-> part]
        BY <3>2, <4>1, FoundWhereItIs
      <4>3. EvalSymlinks(part).result = "found"
        BY <4>2
      <4>4. QED
        BY <3>2, <4>3
    <3>4. Kind(part) \in {"none", "link"}
      BY <3>3, Kinds
    <3>5. QED
      BY <3>2, <3>4 DEF Settled, part
  <2>3. QED
    BY <2>1, <2>2
<1>6. resolveExisting(path) = [result |-> "found", at |-> path]
  <2>1. Len(loc) \in 0 .. Len(loc) /\ Len(loc) \in 0 .. Len(path)
    BY <1>2
  <2>2. SubSeq(path, 1, Len(loc)) = loc
    BY <1>1, <1>2, <2>1, SubSeqFull
  <2>3. /\ EvalSymlinks(SubSeq(path, 1, Len(loc))).result = "found"
        /\ EvalSymlinks(SubSeq(path, 1, Len(loc))).at = loc
    BY <1>3, <2>1, <2>2
  <2>4. EndsAt(path, Len(loc))
    BY <1>4, <2>1, <2>3 DEF EndsAt
  <2>5. resolveExisting(path) = [result |-> "found", at |-> loc \o below]
    <3>1. resolveExisting(path) =
            [result |-> EvalSymlinks(SubSeq(path, 1, Len(loc))).result,
             at |-> EvalSymlinks(SubSeq(path, 1, Len(loc))).at
                      \o SubSeq(path, Len(loc) + 1, Len(path))]
      BY <1>2, <2>4, ResolveEnds
    <3>2. QED
      BY <1>2, <2>3, <3>1, Zenon
  <2>6. QED
    BY <2>5 DEF path
<1>7. QED
  BY <1>5, <1>6 DEF path

-----------------------------------------------------------------------------
(***************************************************************************)
(* Store.Resolve.                                                          *)
(***************************************************************************)

RootsType == roots \in Seq(Seq(Names)) /\ roots # <<>>

\* The path of a request before it is cleaned.
Wanted(p) == IF p.abs THEN p.parts ELSE roots[1] \o p.parts

\* It is a path.
LEMMA WantedIsPath ==
    ASSUME RootsType, NEW p \in Paths
    PROVE  Wanted(p) \in Seq(Elements) /\ Clean[Wanted(p)] \in Seq(Names)
<1>1. p.parts \in Seq(Elements) /\ p.abs \in BOOLEAN
  BY PathsAssumption DEF Elements
<1>2. roots[1] \in Seq(Elements)
  <2>1. roots[1] \in Seq(Names)
    <3>1. Len(roots) \in Nat \ {0}
      BY EmptySeq DEF RootsType
    <3>2. 1 \in 1 .. Len(roots)
      BY <3>1
    <3>3. QED
      BY <3>2, ElementOfSeq DEF RootsType
  <2>2. QED
    BY <2>1, SeqMonotonic DEF Elements
<1>3. Wanted(p) \in Seq(Elements)
  BY <1>1, <1>2, ConcatProperties DEF Wanted
<1>4. QED
  BY <1>3, CleanFacts

\* What Resolve makes of the result of resolveExisting.
Judged(real) ==
    IF real.result # "found" THEN [result |-> "500", at |-> <<>>]
    ELSE IF Inside(real.at) THEN [result |-> "ok", at |-> real.at]
    ELSE [result |-> "403", at |-> <<>>]

\* Resolve judges the cleaned path.
LEMMA ResolveIsJudged ==
    ASSUME NEW p
    PROVE  Resolve(p) = Judged(resolveExisting(Clean[Wanted(p)]))
BY DEF Resolve, Judged, Wanted

\* The type of what Resolve returns.
LEMMA ResolveType ==
    ASSUME FsType, RootsType, NEW p \in Paths
    PROVE  Resolve(p).result \in {"ok", "403", "500"} /\ Resolve(p).at \in Seq(Names)
<1> DEFINE path == Clean[Wanted(p)]
<1>1. path \in Seq(Names) /\ <<>> \in Seq(Names)
  BY WantedIsPath, EmptySeq
<1> HIDE DEF path
<1>2. PICK k \in 0 .. Len(path) : EndsAt(path, k)
  BY <1>1, ResolveEnds
<1>3. resolveExisting(path) =
        [result |-> EvalSymlinks(SubSeq(path, 1, k)).result,
         at |-> EvalSymlinks(SubSeq(path, 1, k)).at \o SubSeq(path, k + 1, Len(path))]
  BY <1>1, <1>2, ResolveEnds
<1>4. /\ EvalSymlinks(SubSeq(path, 1, k)).at \in Seq(Names)
      /\ SubSeq(path, k + 1, Len(path)) \in Seq(Names)
  BY <1>1, Split, EvalIsWalk
<1> DEFINE at == EvalSymlinks(SubSeq(path, 1, k)).at \o SubSeq(path, k + 1, Len(path))
<1>5. at \in Seq(Names)
  BY <1>4, ConcatProperties
<1>6. resolveExisting(path).at = at
  <2>1. resolveExisting(path) = [result |-> EvalSymlinks(SubSeq(path, 1, k)).result,
                                 at |-> at]
    BY <1>3
  <2> HIDE DEF at
  <2>2. QED
    BY <2>1
<1> HIDE DEF at
<1>7. Judged(resolveExisting(path)).at \in Seq(Names)
      /\ Judged(resolveExisting(path)).result \in {"ok", "403", "500"}
  BY <1>1, <1>5, <1>6 DEF Judged
<1>8. QED
  BY <1>7, ResolveIsJudged DEF path

\* The path that Resolve returns.
LEMMA ResolveOk ==
    ASSUME FsType, Tree, RootsType, NEW p \in Paths, Resolve(p).result = "ok"
    PROVE  \E loc \in Seq(Names), below \in Seq(Names) :
              /\ Canonical(loc, below) /\ Inside(loc \o below)
              /\ Resolve(p) = [result |-> "ok", at |-> loc \o below]
<1> DEFINE real == resolveExisting(Clean[Wanted(p)])
<1>1. Resolve(p) = Judged(real)
  BY ResolveIsJudged
<1>2. Clean[Wanted(p)] \in Seq(Names)
  BY WantedIsPath
<1>3. real.result = "found" => \E loc \in Seq(Names), below \in Seq(Names) :
                                  Canonical(loc, below) /\ real.at = loc \o below
  BY <1>2, ResolvedIsCanonical
<1> HIDE DEF real
<1>4. real.result = "found" /\ Inside(real.at) /\ Resolve(p) = [result |-> "ok", at |-> real.at]
  BY <1>1 DEF Judged
<1>5. QED
  BY <1>3, <1>4

\* A canonical path inside a root is resolved to itself.
LEMMA CanonicalIsResolved ==
    ASSUME FsType, Tree, NEW loc, NEW below, Canonical(loc, below),
           Inside(loc \o below)
    PROVE  Judged(resolveExisting(loc \o below)) = [result |-> "ok", at |-> loc \o below]
<1> DEFINE path == loc \o below
<1>1. resolveExisting(path) = [result |-> "found", at |-> path]
  BY CanonicalFacts
<1>2. Inside(path)
  OBVIOUS
<1> HIDE DEF path
<1>3. Judged(resolveExisting(path)) = [result |-> "ok", at |-> path]
  BY <1>1, <1>2 DEF Judged
<1>4. QED
  BY <1>3 DEF path

\* What is inside a root is in a root.
LEMMA InsideIsInRoot ==
    ASSUME NEW path \in Seq(Names), Inside(path)
    PROVE  InRoot(path)
<1>1. IsPrefix(path, path)
  BY LenProperties DEF IsPrefix
<1>2. QED
  BY <1>1 DEF Inside, InRoot

\* The only links that Resolve leaves dangle, in every state.
LEMMA Canonicality == FsType /\ Tree /\ RootsType => OnlyDanglingLinksRemain
<1> SUFFICES ASSUME FsType, Tree, RootsType, NEW p \in Paths, Resolve(p).result = "ok"
             PROVE  /\ InRoot(Resolve(p).at)
                    /\ \A i \in 1 .. Len(Resolve(p).at) :
                          Settled(SubSeq(Resolve(p).at, 1, i))
                    /\ Resolve([abs |-> TRUE, parts |-> Resolve(p).at]) = Resolve(p)
  BY DEF OnlyDanglingLinksRemain, Settled
<1>1. PICK loc \in Seq(Names), below \in Seq(Names) :
         /\ Canonical(loc, below) /\ Inside(loc \o below)
         /\ Resolve(p) = [result |-> "ok", at |-> loc \o below]
  BY ResolveOk
<1> DEFINE path == loc \o below
<1>2. path \in Seq(Names) /\ Len(path) \in Nat
  BY ConcatProperties, LenProperties
<1>3. Judged(resolveExisting(path)) = [result |-> "ok", at |-> path]
  BY <1>1, CanonicalIsResolved
<1>4. \A i \in 0 .. Len(path) : Settled(SubSeq(path, 1, i))
  BY <1>1, CanonicalFacts
<1>5. Resolve(p) = [result |-> "ok", at |-> path] /\ Inside(path)
  BY <1>1
<1> HIDE DEF path
<1>6. Resolve(p).at = path
  BY <1>5
<1>7. InRoot(path)
  BY <1>2, <1>5, InsideIsInRoot
<1>8. \A i \in 1 .. Len(path) : i \in 0 .. Len(path)
  BY <1>2
<1>9. Resolve([abs |-> TRUE, parts |-> path]) = Resolve(p)
  <2> DEFINE again == [abs |-> TRUE, parts |-> path]
  <2>1. Wanted(again) = path
    BY DEF Wanted
  <2>2. Clean[path] = path
    <3>1. path \in Seq(Elements)
      BY <1>2, SeqMonotonic DEF Elements
    <3>2. QED
      BY <1>2, <3>1, CleanFacts
  <2> HIDE DEF again
  <2>3. Resolve(again) = Judged(resolveExisting(path))
    BY <2>1, <2>2, ResolveIsJudged
  <2>4. QED
    BY <1>3, <1>5, <2>3 DEF again
<1>10. QED
  BY <1>4, <1>6, <1>7, <1>8, <1>9

\* A path without links is canonical.
LEMMA PlainIsCanonical ==
    ASSUME FsType, Tree, NEW path \in Seq(Names), Plain(path)
    PROVE  \E loc \in Seq(Names), below \in Seq(Names) :
              Canonical(loc, below) /\ path = loc \o below
<1> DEFINE I == {i \in 0 .. Len(path) : Kind(SubSeq(path, 1, i)) \in {"dir", "file"}}
           k == Max(I)
<1>1. Len(path) \in Nat
  BY LenProperties
<1>2. SubSeq(path, 1, 0) = <<>> /\ Kind(<<>>) = "dir"
  BY SubSeqEmpty, Kinds
<1>3. I \in SUBSET (0 .. Len(path)) /\ 0 \in I
  <2>1. 0 \in 0 .. Len(path)
    BY <1>1
  <2>2. Kind(SubSeq(path, 1, 0)) \in {"dir", "file"}
    BY <1>2
  <2>3. QED
    BY <2>1, <2>2
<1>4. k \in I /\ \A i \in I : i <= k
  <2> HIDE DEF I
  <2>1. QED
    BY <1>1, <1>3, MaxFacts
<1> HIDE DEF k
<1>5. k \in 0 .. Len(path)
  BY <1>4
<1> DEFINE loc == SubSeq(path, 1, k)
           below == SubSeq(path, k + 1, Len(path))
<1>6. /\ loc \in Seq(Names) /\ below \in Seq(Names)
      /\ Len(below) = Len(path) - k /\ path = loc \o below
  BY <1>5, Split
<1>7. Kind(loc) \in {"dir", "file"}
  BY <1>4
<1>8. ASSUME below # <<>>
      PROVE  /\ Kind(loc) = "dir"
             /\ Walk[From(MaxLinks, loc, <<below[1]>>)].result = "notexist"
  <2>1. k < Len(path)
    <3> HIDE DEF loc, below
    <3>1. Len(below) \in Nat \ {0}
      BY <1>6, <1>8, EmptySeq
    <3>2. QED
      BY <1>1, <1>5, <1>6, <3>1
  <2>2. Kind(loc) = "dir"
    <3>1. CASE k = 0
      BY <1>2, <3>1
    <3>2. CASE k # 0
      <4>1. k \in 1 .. Len(path)
        BY <1>5, <3>2
      <4>2. Kind(loc) \in {"none", "dir"}
        BY <2>1, <4>1 DEF Plain
      <4>3. QED
        BY <1>7, <4>2
    <3>3. QED
      BY <3>1, <3>2
  <2> DEFINE x == path[k + 1]
  <2>3. x \in Names /\ SubSeq(path, 1, k + 1) = Append(loc, x)
    BY <1>5, <2>1, Split
  <2>4. Kind(Append(loc, x)) = "none"
    <3>1. k + 1 \in 0 .. Len(path) /\ k + 1 \in 1 .. Len(path) /\ ~(k + 1 <= k)
      BY <1>1, <1>5, <2>1
    <3>2. k + 1 \notin I
      BY <1>4, <3>1
    <3>3. Kind(SubSeq(path, 1, k + 1)) \in {"none", "dir", "file"}
      BY <3>1 DEF Plain
    <3>4. QED
      BY <2>3, <3>1, <3>2, <3>3
  <2>5. below[1] = x
    <3>1. k + 1 \in 1 .. Len(path) /\ Len(path) \in k + 1 .. Len(path)
      BY <1>1, <1>5, <2>1
    <3>2. Head(below) = x
      BY <3>1, HeadTailOfSubSeq
    <3> HIDE DEF loc, below, x
    <3>3. QED
      BY <1>6, <1>8, <3>2
  <2> HIDE DEF loc, below, x
  <2> DEFINE r == <<x>>
             w == From(MaxLinks, loc, r)
  <2>6. r \in Seq(Names) /\ r # <<>> /\ Head(r) = x
    BY <2>3
  <2>7. MaxLinks \in 0 .. MaxLinks
    BY LinksAssumption
  <2> HIDE DEF r
  <2>8. w \in Walkers /\ w.done = loc /\ w.rest = r
    BY <1>6, <2>6, <2>7, FromIsWalker
  <2> HIDE DEF w
  <2>9. Walk[w].result = "notexist"
    <3>1. Ahead(w) = Append(loc, x)
      BY <2>6, <2>8 DEF Ahead
    <3>2. QED
      BY <2>4, <2>6, <2>8, <3>1, WalkStep
  <2>10. QED
    BY <2>2, <2>5, <2>9 DEF w, r
<1> HIDE DEF loc, below
<1>9. Canonical(loc, below)
  BY <1>6, <1>7, <1>8, CanonicalByFirst
<1>10. QED
  BY <1>6, <1>9

\* Paths without links are served in every state.
LEMMA PlainsAreServed == FsType /\ Tree /\ RootsType => PlainPathsAreServed
<1> SUFFICES ASSUME FsType, Tree, RootsType, NEW p \in Paths, Plain(Clean[Wanted(p)]),
                    NEW i \in DOMAIN roots, roots[i] # <<>>,
                    IsPrefix(roots[i], Clean[Wanted(p)])
             PROVE  Resolve(p) = [result |-> "ok", at |-> Clean[Wanted(p)]]
  BY DEF PlainPathsAreServed, Wanted
<1> DEFINE path == Clean[Wanted(p)]
<1>1. path \in Seq(Names)
  BY WantedIsPath
<1>2. Inside(path)
  BY DEF Inside
<1>3. Resolve(p) = Judged(resolveExisting(path))
  BY ResolveIsJudged
<1>4. Plain(path)
  OBVIOUS
<1> HIDE DEF path
<1>5. PICK loc \in Seq(Names), below \in Seq(Names) :
         Canonical(loc, below) /\ path = loc \o below
  BY <1>1, <1>4, PlainIsCanonical
<1>6. Resolve(p) = [result |-> "ok", at |-> path]
  BY <1>2, <1>3, <1>5, CanonicalIsResolved
<1>7. QED
  BY <1>6 DEF path

-----------------------------------------------------------------------------
(***************************************************************************)
(* The invariant.                                                          *)
(***************************************************************************)

\* A listing under way has all that stayed, in its answer or still to come,
\* and what stayed is in the directory that Resolve returned.
Listing ==
    op = "list" =>
        /\ phase \in {"resolved", "infos"} => kept \subseteq Children(abs)
        /\ phase = "infos" => kept \subseteq pending \cup out
        /\ phase = "200" => kept \subseteq out

\* The path of a DELETE that nothing has disturbed.
Steady(path) == InRoot(path) /\ LinkFree(path)

\* A DELETE that was not disturbed is at work on a path without links in a
\* root, and once Stat has seen it, on a file.
Deleting ==
    op = "delete" /\ phase \in {"resolved", "stated"} /\ disturbed = FALSE =>
        Steady(abs) /\ (phase = "stated" => Kind(abs) = "file")

Inv ==
    /\ TypeOK
    /\ roots # <<>>
    /\ Tree
    /\ Listing
    /\ Deleting

\* The parts of it that the lemmas use.
LEMMA InvParts ==
    Inv => FsType /\ RootsType /\ Tree /\ abs \in Seq(Names)
BY DEF Inv, TypeOK, FsType, RootsType

\* Nothing exists at first.
LEMMA InitInv == Init => Inv
<1> SUFFICES ASSUME Init PROVE Inv
  OBVIOUS
<1>1. <<>> \in Seq(Names)
  BY EmptySeq
<1>2. TypeOK /\ roots # <<>>
  BY <1>1, RootsAssumption DEF Init, TypeOK, Ops
<1>3. Tree /\ Listing /\ Deleting
  BY DEF Init, Tree, Listing, Deleting
<1>4. QED
  BY <1>2, <1>3 DEF Inv

\* The roots after a start of the daemon.
LEMMA NewStoreType ==
    ASSUME FsType
    PROVE  NewStore \in Seq(Seq(Names)) /\ NewStore # <<>>
<1> DEFINE n == Len(ConfiguredRoots)
           Root(i) == IF EvalSymlinks(ConfiguredRoots[i]).result = "found"
                      THEN EvalSymlinks(ConfiguredRoots[i]).at ELSE ConfiguredRoots[i]
<1>1. n \in Nat \ {0} /\ DOMAIN ConfiguredRoots = 1 .. n
  BY RootsAssumption, EmptySeq, LenProperties
<1>2. \A i \in 1 .. n : ConfiguredRoots[i] \in Seq(Names)
  BY RootsAssumption, ElementOfSeq
<1>3. \A i \in 1 .. n : Root(i) \in Seq(Names)
  BY <1>2, EvalIsWalk
<1>4. NewStore = [i \in 1 .. n |-> Root(i)]
  BY <1>1 DEF NewStore
<1> HIDE DEF n, Root
<1>5. NewStore \in [1 .. n -> Seq(Names)]
  BY <1>3, <1>4
<1>6. NewStore \in Seq(Seq(Names))
  BY <1>1, <1>5, SeqDef
<1>7. NewStore # <<>>
  <2>1. DOMAIN NewStore = 1 .. n /\ 1 \in 1 .. n
    BY <1>1, <1>5
  <2>2. DOMAIN <<>> = {}
    OBVIOUS
  <2>3. QED
    BY <2>1, <2>2
<1>8. QED
  BY <1>6, <1>7

\* What exists in a directory stays there while other locations change.
LEMMA KindsStay ==
    ASSUME FsType, NEW loc \in Locations, NEW node \in Nodes \cup {Nothing},
           fs' = [fs EXCEPT ![loc] = node]
    PROVE  /\ FsType'
           /\ \A l : l # loc => Kind(l)' = Kind(l)
           /\ Kind(loc)' = node.kind
<1>1. loc # <<>>
  BY LocationsAssumption
<1>2. QED
  BY <1>1 DEF FsType, Kind

\* Something new in a directory keeps the tree.
LEMMA MakeKeepsTree ==
    ASSUME FsType, Tree, NEW loc \in Locations, NEW node \in Nodes,
           fs[loc] = Nothing, Kind(Front(loc)) = "dir",
           fs' = [fs EXCEPT ![loc] = node]
    PROVE  Tree'
<1>1. \A l : l # loc => Kind(l)' = Kind(l)
  BY KindsStay
<1>2. Kind(loc) = "none"
  BY LocationsAssumption DEF Kind, Nothing
<1>3. ASSUME NEW l \in Locations, fs'[l] # Nothing PROVE Kind(Front(l))' = "dir"
  <2>1. Kind(Front(l)) = "dir"
    BY <1>3 DEF Tree, FsType
  <2>2. Front(l) # loc
    BY <1>2, <2>1
  <2>3. QED
    BY <1>1, <2>1, <2>2
<1>4. QED
  BY <1>3 DEF Tree

\* A location with nothing below it is not above what exists.
LEMMA NothingBelow ==
    ASSUME FsType, NEW loc \in Locations, Children(loc) = {},
           NEW l \in Locations, fs[l] # Nothing
    PROVE  Front(l) # loc
<1> SUFFICES ASSUME Front(l) = loc PROVE FALSE
  OBVIOUS
<1>1. l \in Seq(Names) /\ l # <<>>
  BY LocationsAssumption
<1>2. PICK q \in Seq(Names), n \in Names : l = Append(q, n)
  BY <1>1, SequenceEmptyOrAppend
<1>3. q = loc
  BY <1>2, FrontOfAppend
<1>4. Kind(l) # "none"
  BY <1>1 DEF FsType, Kind, Nodes, Nothing, Directory, File, Link
<1>5. n \in Children(loc)
  BY <1>2, <1>3, <1>4 DEF Children
<1>6. QED
  BY <1>5

\* Taking a leaf away keeps the tree.
LEMMA RemoveKeepsTree ==
    ASSUME FsType, Tree, NEW loc \in Locations, Children(loc) = {},
           fs' = [fs EXCEPT ![loc] = Nothing]
    PROVE  Tree'
<1>1. \A l : l # loc => Kind(l)' = Kind(l)
  BY KindsStay
<1>2. ASSUME NEW l \in Locations, fs'[l] # Nothing PROVE Kind(Front(l))' = "dir"
  <2>1. fs[l] # Nothing
    BY <1>2 DEF FsType
  <2>2. Front(l) # loc /\ Kind(Front(l)) = "dir"
    BY <2>1, NothingBelow DEF Tree
  <2>3. QED
    BY <1>1, <2>2
<1>3. QED
  BY <1>2 DEF Tree

\* A directory with something in it is found where it is, and so is what is
\* in it.
LEMMA EntryIsFound ==
    ASSUME FsType, Tree, abs \in Seq(Names), NEW n \in Children(abs)
    PROVE  EvalSymlinks(abs).at = abs /\ Exists(Append(abs, n))
<1>1. n \in Names /\ Kind(Append(abs, n)) # "none"
  BY DEF Children
<1>2. Kind(abs) = "dir"
  BY <1>1, ParentIsDirectory
<1>3. EvalSymlinks(abs) = [result |-> "found", at |-> abs]
  BY <1>2, FoundWhereItIs
<1>4. EvalSymlinks(abs).result = "found" /\ EvalSymlinks(abs).at = abs
  BY <1>3
<1> DEFINE l == Append(abs, n)
<1>5. Front(l) = abs /\ Last(l) = n /\ l # <<>>
  BY <1>1, FrontOfAppend, AppendProperties
<1>6. l \in Locations
  BY <1>1, <1>5, Kinds
<1>7. Append(abs, n) = l /\ Kind(l) # "none"
  BY <1>1
<1> HIDE DEF l
<1>8. EntryAt(l) = l
  BY <1>4, <1>5, <1>7 DEF EntryAt
<1>9. Exists(l)
  BY <1>6, <1>7, <1>8 DEF Exists
<1>10. QED
  BY <1>4, <1>7, <1>9

\* A path without links leads to where it is, if anywhere.
LEMMA LinkFreeWalk ==
    ASSUME FsType
    PROVE  \A w \in Walkers :
              /\ \A a, b \in Seq(Names) : w.done \o w.rest = a \o b => Kind(a) # "link"
              /\ Walk[w].result = "found"
              => Walk[w].at = w.done \o w.rest
<1> DEFINE Good == {w \in Walkers :
              /\ \A a, b \in Seq(Names) : w.done \o w.rest = a \o b => Kind(a) # "link"
              /\ Walk[w].result = "found"
              => Walk[w].at = w.done \o w.rest}
<1>1. ASSUME NEW w \in Walkers, Stops(w) \/ Further(w) \in Good,
             \A a, b \in Seq(Names) : w.done \o w.rest = a \o b => Kind(a) # "link",
             Walk[w].result = "found"
      PROVE  Walk[w].at = w.done \o w.rest
  <2>1. w.done \in Seq(Names) /\ w.rest \in Seq(Names)
    BY DEF Walkers
  <2>2. CASE Stops(w)
    <3>1. w.rest = <<>> /\ Walk[w].at = w.done
      BY <1>1, <2>2, WalkStep
    <3>2. w.done \o <<>> = w.done
      BY <2>1, ConcatEmptySeq
    <3>3. QED
      BY <3>1, <3>2
  <2>3. CASE ~Stops(w)
    <3>1. w.rest # <<>>
      BY <2>3 DEF Stops
    <3> DEFINE x == Head(w.rest)
               t == Tail(w.rest)
    <3>2. x \in Names /\ t \in Seq(Names) /\ w.rest = <<x>> \o t
      BY <2>1, <3>1, HeadTailProperties
    <3>3. Ahead(w) = Append(w.done, x)
      BY DEF Ahead
    <3> HIDE DEF x, t
    <3>4. /\ Append(w.done, x) = w.done \o <<x>>
          /\ Append(w.done, x) \in Seq(Names) /\ <<x>> \in Seq(Names)
      BY <2>1, <3>2, AppendIsConcat, AppendProperties
    <3>5. Ahead(w) \o t = w.done \o w.rest
      <4> DEFINE y == <<x>>
      <4>1. y \in Seq(Names) /\ Ahead(w) = w.done \o y /\ w.rest = y \o t
        BY <3>2, <3>3, <3>4
      <4> HIDE DEF y
      <4> DEFINE d == w.done
      <4>2. d \in Seq(Names)
        BY <2>1
      <4> HIDE DEF d
      <4>3. (d \o y) \o t = d \o (y \o t)
        BY ONLY <3>2, <4>1, <4>2, ConcatAssociative
      <4>4. QED
        BY <4>1, <4>3 DEF d
    <3>6. Kind(Ahead(w)) # "link"
      BY <1>1, <3>2, <3>3, <3>4, <3>5
    <3>7. Further(w).done = Ahead(w) /\ Further(w).rest = t
      BY <3>6 DEF Further, t
    <3>8. Walk[w] = Walk[Further(w)]
      BY <2>3, WalkStep
    <3>9. QED
      BY <1>1, <2>3, <3>5, <3>7, <3>8
  <2>4. QED
    BY <2>2, <2>3
<1>2. \A w \in Walkers : Stops(w) \/ Further(w) \in Good => w \in Good
  BY <1>1
<1>3. Good \in SUBSET Walkers
  OBVIOUS
<1>4. \A w \in Walkers : w \in Good
  <2> HIDE DEF Good
  <2>1. QED
    BY <1>2, <1>3, WalkInduction
<1>5. QED
  BY <1>4

\* What Stat sees as a file on a path without links is a file.
LEMMA LinkFreeStat ==
    ASSUME FsType, NEW path \in Seq(Names), LinkFree(path), Stat(path) = "file"
    PROVE  Kind(path) = "file"
<1> DEFINE w == From(MaxLinks, <<>>, path)
<1>1. <<>> \in Seq(Names) /\ MaxLinks \in 0 .. MaxLinks /\ <<>> \o path = path
  BY LinksAssumption, EmptySeq, ConcatEmptySeq
<1>2. w \in Walkers /\ w.done = <<>> /\ w.rest = path /\ EvalSymlinks(path) = Walk[w]
  <2>1. EvalSymlinks(path) = Walk[w] /\ w \in Walkers
    BY EvalIsWalk
  <2>2. w.done = <<>> /\ w.rest = path
    BY DEF From
  <2>3. QED
    BY <2>1, <2>2
<1> HIDE DEF w
<1>3. ASSUME NEW a \in Seq(Names), NEW b \in Seq(Names), path = a \o b
      PROVE  Kind(a) # "link"
  <2>1. CASE a = <<>>
    BY <2>1, Kinds
  <2>2. CASE a # <<>>
    <3>1. /\ Len(path) = Len(a) + Len(b) /\ Len(a) \in Nat /\ Len(b) \in Nat
          /\ \A i \in 0 .. Len(a) : SubSeq(path, 1, i) = SubSeq(a, 1, i)
      BY <1>3, PartsOfConcat
    <3>2. Len(a) # 0
      BY <2>2, EmptySeq
    <3>3. Len(a) \in 0 .. Len(a) /\ Len(a) \in 1 .. Len(path)
      BY <3>1, <3>2
    <3>4. SubSeq(path, 1, Len(a)) = a
      BY <3>1, <3>3, SubSeqFull
    <3>5. QED
      BY <3>3, <3>4 DEF LinkFree
  <2>3. QED
    BY <2>1, <2>2
<1>4. Walk[w].result = "found" /\ Kind(Walk[w].at) = "file"
  BY <1>2 DEF Stat
<1>5. \A a, b \in Seq(Names) : w.done \o w.rest = a \o b => Kind(a) # "link"
  BY <1>1, <1>2, <1>3
<1>6. Walk[w].at = w.done \o w.rest
  BY <1>2, <1>4, <1>5, LinkFreeWalk
<1>7. QED
  BY <1>1, <1>2, <1>4, <1>6

\* A file is removed where it is.
LEMMA FileEntry ==
    ASSUME FsType, Tree, NEW path \in Seq(Names), Kind(path) = "file"
    PROVE  /\ path \in Locations /\ fs[path] = File /\ EntryAt(path) = path
<1>1. path # <<>>
  BY Kinds
<1>2. path \in Locations /\ fs[path].kind = "file" /\ fs[path] \in Nodes \cup {Nothing}
  BY <1>1 DEF Kind, FsType
<1>3. fs[path] = File
  BY <1>2 DEF Nodes, Nothing, Directory, File, Link
<1>4. PICK q \in Seq(Names), n \in Names : path = Append(q, n)
  BY <1>1, SequenceEmptyOrAppend
<1>5. Kind(q) = "dir"
  BY <1>4, ParentIsDirectory
<1>6. EvalSymlinks(q) = [result |-> "found", at |-> q]
  BY <1>5, FoundWhereItIs
<1>7. EvalSymlinks(q).result = "found" /\ EvalSymlinks(q).at = q
  BY <1>6
<1>8. Front(path) = q /\ Last(path) = n
  BY <1>4, FrontOfAppend
<1>9. EntryAt(path) = path
  BY <1>1, <1>4, <1>7, <1>8 DEF EntryAt
<1>10. QED
  BY <1>2, <1>3, <1>9

\* A change that is not on the path leaves the kinds on it.
LEMMA SteadyStays ==
    ASSUME NEW path \in Seq(Names), NEW loc \in Locations, ~IsPrefix(loc, path),
           \A l : l # loc => Kind(l)' = Kind(l), roots' = roots, path' = path,
           Steady(path)
    PROVE  Steady(path)' /\ Kind(path)' = Kind(path)
<1>1. Len(path) \in Nat /\ SubSeq(path, 1, Len(path)) = path
  BY LenProperties, SubSeqFull
<1>2. ASSUME NEW i \in 0 .. Len(path) PROVE SubSeq(path, 1, i) # loc
  <2> SUFFICES ASSUME SubSeq(path, 1, i) = loc PROVE FALSE
    OBVIOUS
  <2>1. loc \in Seq(Names) /\ Len(loc) = i
    BY <1>1, Split, LenProperties
  <2>2. SubSeq(loc, 1, Len(loc)) = loc
    BY <2>1, SubSeqFull
  <2>3. IsPrefix(loc, path)
    BY <1>1, <2>1, <2>2 DEF IsPrefix
  <2>4. QED
    BY <2>3
<1>3. \A i \in 1 .. Len(path) : Kind(SubSeq(path, 1, i))' = Kind(SubSeq(path, 1, i))
  <2>1. ASSUME NEW i \in 1 .. Len(path)
        PROVE  Kind(SubSeq(path, 1, i))' = Kind(SubSeq(path, 1, i))
    <3>1. i \in 0 .. Len(path)
      BY <1>1
    <3>2. QED
      BY <1>2, <3>1
  <2>2. QED
    BY <2>1
<1>4. path # loc
  <2>1. Len(path) \in 0 .. Len(path)
    BY <1>1
  <2>2. QED
    BY <1>1, <1>2, <2>1
<1>5. QED
  BY <1>3, <1>4 DEF Steady, InRoot, LinkFree

\* Every step of a request, of a process or of the daemon preserves it.
LEMMA NextInv == Inv /\ [Next]_vars => Inv'
<1> SUFFICES ASSUME Inv, [Next]_vars PROVE Inv'
  OBVIOUS
<1>1. FsType /\ RootsType /\ Tree /\ abs \in Seq(Names) /\ TypeOK /\ Listing
      /\ Deleting
  BY InvParts DEF Inv
<1>2. ASSUME fs' = fs PROVE FsType' /\ Tree' /\ \A l : Kind(l)' = Kind(l)
  BY <1>1, <1>2 DEF FsType, Tree, Kind
<1>3. ASSUME NEW o \in Ops, NEW p \in Paths, Request(o, p) PROVE Inv'
  <2>1. Resolve(p).result \in {"ok", "403", "500"} /\ Resolve(p).at \in Seq(Names)
    BY <1>1, ResolveType
  <2>2. /\ op' = o /\ abs' = Resolve(p).at /\ fs' = fs /\ roots' = roots
        /\ phase' \in {"resolved", "403", "500"} /\ pending' = {} /\ out' = {}
        /\ kept' = IF o = "list" /\ phase' = "resolved" THEN Children(abs') ELSE {}
        /\ disturbed' = (o = "delete" /\ ~LinkFree(abs'))
        /\ phase' = "resolved" => Resolve(p).result = "ok"
    BY <1>3, <2>1 DEF Request
  <2>3. Children(abs)' = Children(abs')
    BY <1>2, <2>2 DEF Children
  <2>4. kept' \in SUBSET Names
    BY <2>2 DEF Children
  <2>5. TypeOK'
    BY <1>1, <2>1, <2>2, <2>4 DEF TypeOK, Answered
  <2>6. Listing'
    BY <2>2, <2>3 DEF Listing
  <2>7. Deleting'
    <3>1. SUFFICES ASSUME o = "delete", phase' = "resolved", disturbed' = FALSE
                   PROVE  Steady(abs)'
      BY <2>2 DEF Deleting
    <3>2. LinkFree(Resolve(p).at)
      BY <2>2, <3>1, Zenon
    <3>3. InRoot(Resolve(p).at)
      <4>1. PICK loc \in Seq(Names), below \in Seq(Names) :
               /\ Canonical(loc, below) /\ Inside(loc \o below)
               /\ Resolve(p) = [result |-> "ok", at |-> loc \o below]
        BY <1>1, <2>2, <3>1, ResolveOk
      <4>2. loc \o below \in Seq(Names)
        BY ConcatProperties
      <4> DEFINE path == loc \o below
      <4>3. path \in Seq(Names) /\ Inside(path) /\ Resolve(p).at = path
        BY <4>1, <4>2
      <4> HIDE DEF path
      <4>4. QED
        BY <4>3, InsideIsInRoot
    <3>4. QED
      BY <1>2, <2>2, <3>2, <3>3 DEF Steady, LinkFree, InRoot
  <2>8. QED
    BY <1>1, <1>2, <2>2, <2>5, <2>6, <2>7 DEF Inv, RootsType
<1>4. ASSUME fs' = fs, roots' = roots, op' = op, abs' = abs, kept' = kept
      PROVE  /\ Children(abs)' = Children(abs) /\ Tree' /\ roots' # <<>>
             /\ Steady(abs)' = Steady(abs) /\ Kind(abs)' = Kind(abs)
  BY <1>1, <1>2, <1>4 DEF Children, RootsType, Steady, InRoot, LinkFree
<1>5. CASE ReadDir
  <2>1. /\ op = "list" /\ phase = "resolved"
        /\ fs' = fs /\ roots' = roots /\ op' = op /\ abs' = abs /\ kept' = kept
        /\ out' = out /\ disturbed' = disturbed
    BY <1>5 DEF ReadDir
  <2>2. \/ phase' = "500" /\ pending' = pending
        \/ phase' = "infos" /\ pending' = Children(EvalSymlinks(abs).at)
    BY <1>5 DEF ReadDir
  <2>3. TypeOK'
    BY <1>1, <2>1, <2>2 DEF TypeOK, Answered, Children
  <2>4. ASSUME phase' = "infos" PROVE kept \subseteq pending'
    <3>1. kept \subseteq Children(abs)
      BY <1>1, <2>1 DEF Listing
    <3>2. ASSUME NEW n \in kept PROVE n \in pending'
      <4>1. EvalSymlinks(abs).at = abs
        BY <1>1, <3>1, EntryIsFound
      <4>2. QED
        BY <2>2, <2>4, <3>1, <4>1
    <3>3. QED
      BY <3>2
  <2>5. Listing'
    BY <1>1, <1>4, <2>1, <2>2, <2>4 DEF Listing
  <2>6. Deleting'
    BY <2>1 DEF Deleting
  <2>7. QED
    BY <1>4, <2>1, <2>3, <2>5, <2>6 DEF Inv
<1>6. ASSUME NEW n \in Names, Info(n) PROVE Inv'
  <2>1. /\ phase = "infos" /\ phase' = phase /\ pending' = pending \ {n}
        /\ fs' = fs /\ roots' = roots /\ op' = op /\ abs' = abs /\ kept' = kept
        /\ out' = IF Exists(Append(abs, n)) THEN out \cup {n} ELSE out
        /\ disturbed' = disturbed
    BY <1>6 DEF Info
  <2>2. TypeOK'
    BY <1>1, <2>1 DEF TypeOK
  <2>3. ASSUME op = "list" PROVE kept \subseteq pending' \cup out'
    <3>1. kept \subseteq Children(abs) /\ kept \subseteq pending \cup out
      BY <1>1, <2>1, <2>3 DEF Listing
    <3>2. n \in kept => Exists(Append(abs, n))
      BY <1>1, <3>1, EntryIsFound
    <3>3. QED
      BY <2>1, <3>1, <3>2
  <2>4. Listing'
    BY <1>1, <1>4, <2>1, <2>3 DEF Listing
  <2>5. Deleting'
    BY <2>1 DEF Deleting
  <2>6. QED
    BY <1>4, <2>1, <2>2, <2>4, <2>5 DEF Inv
<1>7. CASE Listed
  <2>1. /\ phase = "infos" /\ pending = {} /\ phase' = "200"
        /\ fs' = fs /\ roots' = roots /\ op' = op /\ abs' = abs /\ kept' = kept
        /\ out' = out /\ pending' = pending /\ disturbed' = disturbed
    BY <1>7 DEF Listed
  <2>2. TypeOK' /\ Listing' /\ Deleting'
    BY <1>1, <2>1 DEF TypeOK, Answered, Listing, Deleting
  <2>3. QED
    BY <1>4, <2>1, <2>2 DEF Inv
<1>8. CASE StatTarget \/ HashTarget \/ OpenTarget
  <2>1. /\ op \in {"download", "delete"}
        /\ phase' \in {"stated", "hashed", "200", "500"}
        /\ fs' = fs /\ roots' = roots /\ op' = op /\ abs' = abs /\ kept' = kept
        /\ out' = out /\ pending' = pending /\ disturbed' = disturbed
    BY <1>8 DEF StatTarget, HashTarget, OpenTarget
  <2>2. TypeOK' /\ Listing'
    BY <1>1, <2>1 DEF TypeOK, Answered, Listing
  <2>3. Deleting'
    <3>1. SUFFICES ASSUME op = "delete", phase' \in {"resolved", "stated"},
                          disturbed = FALSE
                   PROVE  Steady(abs)' /\ Kind(abs)' = "file"
      BY <2>1 DEF Deleting
    <3>2. phase = "resolved" /\ Stat(abs) = "file"
      BY <1>8, <2>1, <3>1 DEF StatTarget, HashTarget, OpenTarget
    <3>3. Steady(abs)
      BY <1>1, <3>1, <3>2 DEF Deleting
    <3>4. Kind(abs) = "file"
      BY <1>1, <3>2, <3>3, LinkFreeStat DEF Steady
    <3>5. QED
      BY <1>4, <2>1, <3>3, <3>4
  <2>4. QED
    BY <1>4, <2>1, <2>2, <2>3 DEF Inv
<1>9. CASE RemoveTarget
  <2>1. /\ op = "delete" /\ phase' \in {"204", "500"}
        /\ roots' = roots /\ op' = op /\ abs' = abs /\ kept' = kept
        /\ out' = out /\ pending' = pending /\ disturbed' = disturbed
    BY <1>9 DEF RemoveTarget
  <2>2. \/ fs' = fs
        \/ /\ EntryAt(abs) \in Locations /\ Children(EntryAt(abs)) = {}
           /\ fs' = [fs EXCEPT ![EntryAt(abs)] = Nothing]
    BY <1>9 DEF RemoveTarget, Exists
  <2>3. FsType' /\ Tree'
    BY <1>1, <1>2, <2>2, KindsStay, RemoveKeepsTree
  <2>4. TypeOK' /\ Listing' /\ Deleting'
    BY <1>1, <2>1, <2>3 DEF TypeOK, FsType, Answered, Listing, Deleting
  <2>5. QED
    BY <1>1, <2>1, <2>3, <2>4 DEF Inv, RootsType
<1>10. ASSUME NEW loc \in Locations, NEW node \in Nodes, Make(loc, node) PROVE Inv'
  <2>1. /\ fs[loc] = Nothing /\ Kind(Front(loc)) = "dir"
        /\ fs' = [fs EXCEPT ![loc] = node]
        /\ disturbed' = (disturbed \/ Disturbs(loc))
        /\ UNCHANGED <<roots, op, phase, abs, pending, out, kept>>
    BY <1>10 DEF Make
  <2>2. FsType' /\ \A l : l # loc => Kind(l)' = Kind(l)
    BY <1>1, <2>1, KindsStay
  <2>3. Tree'
    BY <1>1, <2>1, MakeKeepsTree
  <2>4. Kind(loc) = "none"
    BY <2>1, LocationsAssumption DEF Kind, Nothing
  <2>5. Children(abs) \subseteq Children(abs)'
    BY <2>1, <2>2, <2>4 DEF Children
  <2>6. TypeOK'
    BY <1>1, <2>1, <2>2 DEF TypeOK, FsType
  <2>7. Listing'
    BY <1>1, <2>1, <2>5 DEF Listing
  <2>8. Deleting'
    <3>1. SUFFICES ASSUME op = "delete", phase \in {"resolved", "stated"},
                          disturbed' = FALSE
                   PROVE  Steady(abs)' /\ Kind(abs)' = Kind(abs) /\ disturbed = FALSE
      BY <1>1, <2>1 DEF Deleting
    <3>2. ~disturbed /\ ~Disturbs(loc)
      BY <2>1, <3>1, Zenon
    <3>3. disturbed = FALSE
      BY <1>1, <3>2 DEF TypeOK
    <3>4. ~IsPrefix(loc, abs)
      BY <3>1, <3>2 DEF Disturbs
    <3>5. Steady(abs)
      BY <1>1, <3>1, <3>3 DEF Deleting
    <3>6. roots' = roots /\ abs' = abs
      BY <2>1
    <3>7. QED
      BY <1>1, <2>2, <3>3, <3>4, <3>5, <3>6, SteadyStays
  <2>9. QED
    BY <1>1, <2>1, <2>3, <2>6, <2>7, <2>8 DEF Inv, RootsType
<1>11. ASSUME NEW loc \in Locations, Unlink(loc) PROVE Inv'
  <2>1. /\ Children(loc) = {} /\ fs' = [fs EXCEPT ![loc] = Nothing]
        /\ kept' = IF Front(loc) = abs THEN kept \ {Last(loc)} ELSE kept
        /\ disturbed' = (disturbed \/ Disturbs(loc))
        /\ UNCHANGED <<roots, op, phase, abs, pending, out>>
    BY <1>11 DEF Unlink
  <2>2. FsType' /\ \A l : l # loc => Kind(l)' = Kind(l)
    BY <1>1, <2>1, KindsStay
  <2>3. Tree'
    BY <1>1, <2>1, RemoveKeepsTree
  <2>4. kept' \subseteq kept
    BY <2>1
  <2>5. ASSUME kept \subseteq Children(abs) PROVE kept' \subseteq Children(abs)'
    <3>1. ASSUME NEW n \in kept' PROVE n \in Children(abs)'
      <4>1. n \in Names /\ Kind(Append(abs, n)) # "none"
        BY <2>4, <2>5 DEF Children
      <4>2. Append(abs, n) # loc
        <5>1. Front(Append(abs, n)) = abs /\ Last(Append(abs, n)) = n
          BY <1>1, <4>1, FrontOfAppend
        <5>2. QED
          BY <2>1, <3>1, <5>1
      <4>3. Kind(Append(abs, n))' # "none"
        BY <2>1, <2>2, <4>1, <4>2
      <4>4. QED
        BY <4>1, <4>3 DEF Children
    <3>2. QED
      BY <3>1
  <2>6. TypeOK'
    BY <1>1, <2>1, <2>2, <2>4 DEF TypeOK, FsType
  <2>7. Listing'
    BY <1>1, <2>1, <2>4, <2>5 DEF Listing
  <2>8. Deleting'
    <3>1. SUFFICES ASSUME op = "delete", phase \in {"resolved", "stated"},
                          disturbed' = FALSE
                   PROVE  Steady(abs)' /\ Kind(abs)' = Kind(abs) /\ disturbed = FALSE
      BY <1>1, <2>1 DEF Deleting
    <3>2. ~disturbed /\ ~Disturbs(loc)
      BY <2>1, <3>1, Zenon
    <3>3. disturbed = FALSE
      BY <1>1, <3>2 DEF TypeOK
    <3>4. ~IsPrefix(loc, abs)
      BY <3>1, <3>2 DEF Disturbs
    <3>5. Steady(abs)
      BY <1>1, <3>1, <3>3 DEF Deleting
    <3>6. roots' = roots /\ abs' = abs
      BY <2>1
    <3>7. QED
      BY <1>1, <2>2, <3>3, <3>4, <3>5, <3>6, SteadyStays
  <2>9. QED
    BY <1>1, <2>1, <2>3, <2>6, <2>7, <2>8 DEF Inv, RootsType
<1>12. CASE DaemonRestart
  <2>1. NewStore \in Seq(Seq(Names)) /\ NewStore # <<>> /\ <<>> \in Seq(Names)
    BY <1>1, NewStoreType, EmptySeq
  <2>2. TypeOK' /\ roots' # <<>> /\ Listing' /\ Deleting'
    BY <1>1, <1>12, <2>1 DEF DaemonRestart, TypeOK, Listing, Deleting, Ops
  <2>3. QED
    BY <1>2, <1>12, <2>2 DEF Inv, DaemonRestart
<1>13. CASE UNCHANGED vars
  <2>1. UNCHANGED <<fs, roots, op, phase, abs, pending, out, kept, disturbed>>
    BY <1>13 DEF vars, requestVars
  <2>2. TypeOK' /\ Listing' /\ Deleting'
    BY <1>1, <1>4, <2>1 DEF TypeOK, Listing, Deleting
  <2>3. QED
    BY <1>4, <2>1, <2>2 DEF Inv
<1>14. QED
  BY <1>3, <1>5, <1>6, <1>7, <1>8, <1>9, <1>10, <1>11, <1>12, <1>13 DEF Next

\* The invariant holds throughout.
LEMMA InvHolds == Spec => []Inv
BY InitInv, NextInv, PTL DEF Spec

\* Types are right in every behaviour.
THEOREM TypeCorrect == Spec => []TypeOK
<1>1. Inv => TypeOK
  BY DEF Inv
<1>2. QED
  BY <1>1, InvHolds, PTL

\* What Store.Resolve returns is in a root; as far as it leads anywhere it
\* leads to itself; a link that is left on it dangles; and Resolve returns it
\* again when it is asked for it, whatever tree of files and links there is.
THEOREM LinksAreFollowedOrDangle == Spec => []OnlyDanglingLinksRemain
<1>1. Inv => OnlyDanglingLinksRemain
  BY InvParts, Canonicality
<1>2. QED
  BY <1>1, InvHolds, PTL

\* A path without links to a place in a root resolves to that place, whether
\* it exists or not (resolveExisting).
THEOREM NothingIsOutOfReach == Spec => []PlainPathsAreServed
<1>1. Inv => PlainPathsAreServed
  BY InvParts, PlainsAreServed
<1>2. QED
  BY <1>1, InvHolds, PTL

\* An entry that was in the directory from Resolve to the answer is in the
\* answer of List.
THEOREM ListingsAreComplete == Spec => []ListIsComplete
<1>1. Inv => ListIsComplete
  BY DEF Inv, Listing, ListIsComplete
<1>2. QED
  BY <1>1, InvHolds, PTL

\* A DELETE that answers 204 has taken the regular file at the place in a root
\* that Resolve gave, unless a link on its path dangled then or a process has
\* changed an entry on it since (Store.Delete).
THEOREM DeletesTakeTheFile == Spec => DeleteTakesTheFile
<1> DEFINE Taken == op = "delete" /\ phase = "stated" /\ phase' = "204" /\ ~disturbed =>
                      /\ InRoot(abs)
                      /\ abs \in Locations /\ fs[abs] = File
                      /\ fs' = [fs EXCEPT ![abs] = Nothing]
<1>1. ASSUME Inv, [Next]_vars, op = "delete", phase = "stated", phase' = "204",
             ~disturbed
      PROVE  /\ InRoot(abs)
             /\ abs \in Locations /\ fs[abs] = File
             /\ fs' = [fs EXCEPT ![abs] = Nothing]
  <2>1. FsType /\ RootsType /\ Tree /\ abs \in Seq(Names)
    BY <1>1, InvParts
  <2>2. disturbed = FALSE
    BY <1>1 DEF Inv, TypeOK
  <2>3. InRoot(abs) /\ Kind(abs) = "file"
    BY <1>1, <2>2 DEF Inv, Deleting, Steady
  <2>4. abs \in Locations /\ fs[abs] = File /\ EntryAt(abs) = abs
    BY <2>1, <2>3, FileEntry
  <2>5. RemoveTarget
    BY <1>1 DEF Next, Request, ReadDir, Info, Listed, StatTarget, HashTarget,
                OpenTarget, Make, Unlink, DaemonRestart, vars, requestVars, Answered
  <2>6. fs' = [fs EXCEPT ![abs] = Nothing]
    BY <1>1, <2>4, <2>5 DEF RemoveTarget
  <2>7. QED
    BY <2>3, <2>4, <2>6
<1>2. Inv /\ [Next]_vars => [Taken]_vars
  BY <1>1
<1>3. QED
  BY <1>2, InvHolds, PTL DEF Spec, DeleteTakesTheFile

=============================================================================
