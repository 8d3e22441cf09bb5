-------------------------- MODULE ScpSessionProofs --------------------------
(***************************************************************************)
(* Proofs about a session of the scp protocol, for every walk, every set   *)
(* of names, every kind of transfer and every fault.                       *)
(*                                                                         *)
(* The invariant has one part for each thing that the two sides have to    *)
(* agree about.  TypeInv: types, what the streams hold, which program      *)
(* points go together.  UpStream: what an upload has under way is a piece  *)
(* of its walk.  UpInv: the server has stored what comes before the item   *)
(* it is at.  AnswerInv counts the answers that the server gives, and      *)
(* RefusedInv puts an error among them ahead of the client.  DownInv       *)
(* describes client and server while a download is at one item.  Walks     *)
(* come first: their stacks of directories, their paths, and counting.     *)
(* Two results of every walk follow: client and server never wait for each *)
(* other, and each of their steps brings the session nearer to its end.    *)
(***************************************************************************)
EXTENDS ScpSession, SequenceTheorems, FiniteSetTheorems, TLAPS

-----------------------------------------------------------------------------
(* Walks                                                                    *)

\* The least element of a set of numbers, for induction along a walk.
LEMMA LeastElement ==
    ASSUME NEW T, T \subseteq Nat, T # {}
    PROVE  \E n \in T : \A m \in T : n <= m
<1>1. IsWellFoundedOn(OpToRel(<, Nat), Nat)
  BY NatLessThanWellFounded
<1>2. PICK n \in T : \A m \in T : <<m, n>> \notin OpToRel(<, Nat)
  BY <1>1, WFMin
<1>3. \A m \in T : ~(m < n)
  BY <1>2 DEF OpToRel
<1>. QED
  BY <1>3

\* One step of a walk.
Step(dirsOpen, item) ==
    CASE item.type = "D" -> Append(dirsOpen, item.name)
      [] item.type = "E" -> Front(dirsOpen)
      [] OTHER -> dirsOpen

IsDirsOf(f, p, n) == f = [i \in 0 .. n |-> IF i = 0 THEN <<>> ELSE Step(f[i - 1], p[i])]

\* The stacks of a walk exist: its recursion is well defined.
LEMMA DirsExist ==
    ASSUME NEW p, NEW len \in Nat
    PROVE  \E f : IsDirsOf(f, p, len)
<1>. DEFINE T == {n \in Nat : ~ \E f : IsDirsOf(f, p, n)}
<1>1. 0 \notin T
  <2>. DEFINE f == [i \in 0 .. 0 |-> <<>>]
  <2>1. f = [i \in 0 .. 0 |-> IF i = 0 THEN <<>> ELSE Step(f[i - 1], p[i])]
    OBVIOUS
  <2>. QED
    BY <2>1 DEF IsDirsOf
<1>2. ASSUME NEW n \in Nat, n \notin T
      PROVE  n + 1 \notin T
  <2>1. PICK f : f = [i \in 0 .. n |-> IF i = 0 THEN <<>> ELSE Step(f[i - 1], p[i])]
    BY <1>2 DEF IsDirsOf
  <2>. DEFINE h == [i \in 0 .. n + 1 |-> IF i = n + 1 THEN Step(f[n], p[n + 1]) ELSE f[i]]
  <2>2. ASSUME NEW i \in 0 .. n + 1
        PROVE  h[i] = IF i = 0 THEN <<>> ELSE Step(h[i - 1], p[i])
    <3>1. CASE i = n + 1
      <4>1. h[i - 1] = f[n]
        BY <3>1
      <4>. QED
        BY <3>1, <4>1
    <3>2. CASE i # n + 1
      <4>1. i \in 0 .. n
        BY <3>2
      <4>2. h[i] = f[i] /\ (i # 0 => h[i - 1] = f[i - 1])
        BY <4>1
      <4>3. f[i] = IF i = 0 THEN <<>> ELSE Step(f[i - 1], p[i])
        BY <2>1, <4>1
      <4>. QED
        BY <4>2, <4>3
    <3>. QED
      BY <3>1, <3>2
  <2>3. h = [i \in 0 .. n + 1 |-> IF i = 0 THEN <<>> ELSE Step(h[i - 1], p[i])]
    BY <2>2
  <2>. HIDE DEF h
  <2>. QED
    BY <2>3 DEF IsDirsOf
<1>. HIDE DEF T
<1>3. ASSUME T # {} PROVE FALSE
  <2>1. PICK n \in T : \A m \in T : n <= m
    BY <1>3, LeastElement DEF T
  <2>2. n \in Nat \ {0} /\ n - 1 \notin T
    BY <1>1, <2>1 DEF T
  <2>. QED
    BY <1>2, <2>1, <2>2
<1>. QED
  BY <1>3 DEF T

\* DirsOf satisfies its equation.
LEMMA DirsUnfold ==
    ASSUME NEW p \in Seq(Item)
    PROVE  /\ DirsOf(p)[0] = <<>>
           /\ \A i \in 1 .. Len(p) : DirsOf(p)[i] = Step(DirsOf(p)[i - 1], p[i])
<1>1. Len(p) \in Nat
  OBVIOUS
<1>2. \E f : f = [i \in 0 .. Len(p) |-> IF i = 0 THEN <<>> ELSE Step(f[i - 1], p[i])]
  BY <1>1, DirsExist DEF IsDirsOf
<1>3. DirsOf(p) = [i \in 0 .. Len(p) |->
                      IF i = 0 THEN <<>> ELSE Step(DirsOf(p)[i - 1], p[i])]
  BY <1>2 DEF DirsOf, Step
<1>. QED
  BY <1>1, <1>3

\* Leaving a directory.
LEMMA FrontType ==
    ASSUME NEW S, NEW s \in Seq(S)
    PROVE  /\ Front(s) \in Seq(S)
           /\ s # <<>> => /\ Len(Front(s)) = Len(s) - 1
                          /\ \A n \in 1 .. Len(s) - 1 : Front(s)[n] = s[n]
<1>1. Len(s) \in Nat /\ \A n \in 1 .. Len(s) - 1 : s[n] \in S
  OBVIOUS
<1>2. /\ Front(s) \in Seq(S)
      /\ Len(Front(s)) = IF 1 <= Len(s) - 1 THEN Len(s) - 1 - 1 + 1 ELSE 0
      /\ \A n \in 1 .. Len(s) - 1 - 1 + 1 : Front(s)[n] = s[1 + n - 1]
  BY <1>1, SubSeqProperties DEF Front
<1>3. ASSUME s # <<>>
      PROVE  /\ Len(Front(s)) = Len(s) - 1
             /\ \A n \in 1 .. Len(s) - 1 : Front(s)[n] = s[n]
  <2>1. Len(s) \in Nat \ {0}
    BY <1>1, <1>3, EmptySeq
  <2>2. Len(Front(s)) = Len(s) - 1
    <3>1. \A l \in Nat \ {0} : (IF 1 <= l - 1 THEN l - 1 - 1 + 1 ELSE 0) = l - 1
      OBVIOUS
    <3>. QED
      BY <1>2, <2>1, <3>1
  <2>3. ASSUME NEW n \in 1 .. Len(s) - 1 PROVE Front(s)[n] = s[n]
    <3>1. n \in 1 .. Len(s) - 1 - 1 + 1 /\ 1 + n - 1 = n
      BY <2>1
    <3>. QED
      BY <1>2, <3>1
  <2>. QED
    BY <2>2, <2>3
<1>. QED
  BY <1>2, <1>3

\* A stack is a sequence of names.
LEMMA DirsType ==
    ASSUME NEW p \in Seq(Item)
    PROVE  \A i \in 0 .. Len(p) : DirsOf(p)[i] \in Seq(Names)
<1>. DEFINE T == {i \in 0 .. Len(p) : DirsOf(p)[i] \notin Seq(Names)}
<1>1. Len(p) \in Nat /\ \A i \in 1 .. Len(p) : p[i] \in Item
  OBVIOUS
<1>2. T \subseteq Nat /\ 0 \notin T
  <2>1. DirsOf(p)[0] = <<>> /\ <<>> \in Seq(Names)
    BY DirsUnfold, EmptySeq
  <2>2. T \subseteq Nat
    OBVIOUS
  <2>3. 0 \notin T
    BY <2>1
  <2>. QED
    BY <2>2, <2>3
<1>3. ASSUME T # {} PROVE FALSE
  <2>. HIDE DEF T
  <2>1. PICK i \in T : \A m \in T : i <= m
    BY <1>2, <1>3, LeastElement
  <2>2. i # 0
    BY <1>2
  <2>3. i \in 1 .. Len(p) /\ i - 1 \in 0 .. Len(p) /\ i - 1 \notin T
    BY <1>1, <1>2, <2>1, <2>2 DEF T
  <2>4. DirsOf(p)[i - 1] \in Seq(Names) /\ p[i].name \in Names
    BY <1>1, <2>3 DEF Item, T
  <2>5. Step(DirsOf(p)[i - 1], p[i]) \in Seq(Names)
    BY <2>4, FrontType, AppendProperties DEF Step
  <2>. QED
    BY <2>1, <2>3, <2>5, DirsUnfold DEF T
<1>. QED
  BY <1>3

\* What one item does to the stack of directories.
LEMMA WalkStep ==
    ASSUME NEW p \in Seq(Item), IsWalk(p), NEW i \in 1 .. Len(p)
    PROVE  /\ p[i] \in Item /\ p[i].name \in Names /\ p[i].type \in {"C", "D", "E"}
           /\ DirsOf(p)[i - 1] \in Seq(Names) /\ DirsOf(p)[i] \in Seq(Names)
           /\ p[i].type = "D" => DirsOf(p)[i] = Append(DirsOf(p)[i - 1], p[i].name)
           /\ p[i].type = "E" => /\ DirsOf(p)[i - 1] # <<>>
                                 /\ DirsOf(p)[i] = Front(DirsOf(p)[i - 1])
           /\ p[i].type = "C" => DirsOf(p)[i] = DirsOf(p)[i - 1]
<1>1. p[i] \in Item /\ p[i].name \in Names /\ p[i].type \in {"C", "D", "E"}
  <2>1. p[i] \in Item
    OBVIOUS
  <2>. QED
    BY <2>1 DEF Item
<1>2. i \in 0 .. Len(p) /\ i - 1 \in 0 .. Len(p)
  OBVIOUS
<1>3. DirsOf(p)[i - 1] \in Seq(Names) /\ DirsOf(p)[i] \in Seq(Names)
  BY <1>2, DirsType
<1>4. DirsOf(p)[i] = Step(DirsOf(p)[i - 1], p[i])
  BY DirsUnfold
<1>5. p[i].type = "E" => DirsOf(p)[i - 1] # <<>>
  BY DEF IsWalk
<1>. QED
  BY <1>1, <1>3, <1>4, <1>5 DEF Step

\* A step of a walk changes a stack only at its end.
LEMMA WalkPrefix ==
    ASSUME NEW p \in Seq(Item), IsWalk(p), NEW i \in 1 .. Len(p)
    PROVE  /\ p[i].type = "D" =>
                  /\ Len(DirsOf(p)[i]) = Len(DirsOf(p)[i - 1]) + 1
                  /\ \A n \in 1 .. Len(DirsOf(p)[i - 1]) : DirsOf(p)[i][n] = DirsOf(p)[i - 1][n]
           /\ p[i].type = "E" =>
                  /\ Len(DirsOf(p)[i]) = Len(DirsOf(p)[i - 1]) - 1
                  /\ \A n \in 1 .. Len(DirsOf(p)[i - 1]) - 1 : DirsOf(p)[i][n] = DirsOf(p)[i - 1][n]
           /\ p[i].type = "C" => DirsOf(p)[i] = DirsOf(p)[i - 1]
<1>1. CASE p[i].type = "D"
  <2>1. /\ p[i].name \in Names /\ DirsOf(p)[i - 1] \in Seq(Names)
        /\ DirsOf(p)[i] = Append(DirsOf(p)[i - 1], p[i].name)
    BY <1>1, WalkStep
  <2>. DEFINE before == DirsOf(p)[i - 1]
  <2>. HIDE DEF before
  <2>2. before \in Seq(Names) /\ DirsOf(p)[i] = Append(before, p[i].name)
    BY <2>1 DEF before
  <2>3. /\ Len(DirsOf(p)[i]) = Len(before) + 1
        /\ \A n \in 1 .. Len(before) : DirsOf(p)[i][n] = before[n]
    BY <2>1, <2>2, AppendProperties
  <2>. QED
    BY <1>1, <2>3 DEF before
<1>2. CASE p[i].type = "E"
  <2>1. /\ DirsOf(p)[i - 1] \in Seq(Names) /\ DirsOf(p)[i - 1] # <<>>
        /\ DirsOf(p)[i] = Front(DirsOf(p)[i - 1])
    BY <1>2, WalkStep
  <2>. DEFINE before == DirsOf(p)[i - 1]
  <2>. HIDE DEF before
  <2>2. before \in Seq(Names) /\ before # <<>> /\ DirsOf(p)[i] = Front(before)
    BY <2>1 DEF before
  <2>3. /\ Len(DirsOf(p)[i]) = Len(before) - 1
        /\ \A n \in 1 .. Len(before) - 1 : DirsOf(p)[i][n] = before[n]
    BY <2>2, FrontType
  <2>. QED
    BY <1>2, <2>3 DEF before
<1>3. CASE p[i].type = "C"
  BY <1>3, WalkStep
<1>. QED
  BY <1>1, <1>2, <1>3

\* After a directory the walk comes back to where it was, and the item that
\* follows its end is the one After means.
LEMMA WalkReturns ==
    ASSUME NEW p \in Seq(Item), IsWalk(p),
           NEW i \in 1 .. Len(p), p[i].type = "D"
    PROVE  \E m \in i + 1 .. Len(p) :
               /\ DirsOf(p)[m] = DirsOf(p)[i - 1]
               /\ \A k \in i .. m - 1 : DirsOf(p)[k] # DirsOf(p)[i - 1]
<1>. DEFINE OD == DirsOf(p)
            d == Len(OD[i - 1])
            T == {m \in i + 1 .. Len(p) : Len(OD[m]) <= d}
<1>1. /\ Len(p) \in Nat /\ i \in Nat \ {0} /\ i <= Len(p) /\ i - 1 \in 0 .. Len(p)
      /\ \A k \in 1 .. Len(p) : p[k] \in Item
  OBVIOUS
<1>2. \A k \in 0 .. Len(p) : OD[k] \in Seq(Names) /\ Len(OD[k]) \in Nat
  BY DirsType, LenProperties
<1>3. ASSUME NEW k \in 1 .. Len(p)
      PROVE  /\ p[k].type \in {"C", "D", "E"}
             /\ p[k].type = "D" => /\ Len(OD[k]) = Len(OD[k - 1]) + 1
                                   /\ \A n \in 1 .. Len(OD[k - 1]) : OD[k][n] = OD[k - 1][n]
             /\ p[k].type = "E" => /\ Len(OD[k]) = Len(OD[k - 1]) - 1
                                   /\ \A n \in 1 .. Len(OD[k - 1]) - 1 : OD[k][n] = OD[k - 1][n]
             /\ p[k].type = "C" => OD[k] = OD[k - 1]
  BY WalkPrefix, WalkStep
<1>5. OD[Len(p)] = <<>>
  BY DEF IsWalk
<1>. HIDE DEF OD
<1>6. d \in Nat
  BY <1>1, <1>2
<1>7. Len(OD[i]) = d + 1 /\ \A x \in 1 .. d : OD[i][x] = OD[i - 1][x]
  BY <1>1, <1>3
<1>. HIDE DEF d
<1>8. Len(p) \in T
  <2>1. i # Len(p)
    BY <1>1, <1>5, <1>6, <1>7, EmptySeq
  <2>2. Len(OD[Len(p)]) = 0
    BY <1>5, EmptySeq
  <2>. QED
    BY <1>1, <1>6, <2>1, <2>2
<1>9. PICK m \in T : \A n \in T : m <= n
  <2>1. T \subseteq Nat
    BY <1>1
  <2>. HIDE DEF T
  <2>. QED
    BY <1>8, <2>1, LeastElement
<1>10. m \in i + 1 .. Len(p) /\ m \in Nat /\ Len(OD[m]) <= d
  BY <1>1
<1>11. ASSUME NEW k \in i .. m - 1
       PROVE  Len(OD[k]) > d
  <2>1. k \in Nat /\ k \in 0 .. Len(p) /\ k \notin T
    BY <1>1, <1>9, <1>10
  <2>2. CASE k = i
    BY <2>2, <1>6, <1>7
  <2>3. CASE k # i
    <3>1. k \in i + 1 .. Len(p)
      BY <1>1, <1>10, <2>3
    <3>2. ~(Len(OD[k]) <= d)
      BY <2>1, <3>1
    <3>. QED
      BY <1>2, <1>6, <2>1, <3>2
  <2>. QED
    BY <2>2, <2>3
<1>. DEFINE B == {k \in i .. m - 1 : \E x \in 1 .. d : OD[k][x] # OD[i - 1][x]}
<1>12. B = {}
  <2>1. B \subseteq Nat
    BY <1>1
  <2>2. ASSUME B # {} PROVE FALSE
    <3>. HIDE DEF B
    <3>1. PICK k \in B : \A n \in B : k <= n
      BY <2>1, <2>2, LeastElement
    <3>2. k \in i .. m - 1 /\ k # i
      BY <1>7 DEF B
    <3>3. k - 1 \in i .. m - 1 /\ k \in 1 .. Len(p) /\ k - 1 \in 0 .. Len(p)
      BY <1>1, <1>10, <3>2
    <3>4. k - 1 \notin B
      BY <1>1, <3>1, <3>2
    <3>5. \A x \in 1 .. d : OD[k - 1][x] = OD[i - 1][x]
      BY <3>3, <3>4 DEF B
    <3>6. Len(OD[k - 1]) \in Nat /\ Len(OD[k - 1]) > d
      BY <1>2, <1>11, <3>3
    <3>7. \A x \in 1 .. d : x \in 1 .. Len(OD[k - 1]) /\ x \in 1 .. Len(OD[k - 1]) - 1
      BY <1>6, <3>6
    <3>8. \A x \in 1 .. d : OD[k][x] = OD[k - 1][x]
      BY <1>3, <3>3, <3>7
    <3>. QED
      BY <3>1, <3>5, <3>8 DEF B
  <2>. QED
    BY <2>2
<1>13. OD[m] = OD[i - 1]
  <2>1. m - 1 \in i .. m - 1 /\ m \in 1 .. Len(p) /\ m - 1 \in 0 .. Len(p) /\ m \in 0 .. Len(p)
    BY <1>1, <1>10
  <2>2. \A x \in 1 .. d : OD[m - 1][x] = OD[i - 1][x]
    BY <1>12, <2>1
  <2>3. /\ Len(OD[m - 1]) \in Nat /\ Len(OD[m - 1]) > d
        /\ OD[m] \in Seq(Names) /\ Len(OD[m]) \in Nat
    BY <1>2, <1>11, <2>1
  <2>5. p[m].type = "E"
    BY <1>3, <1>6, <1>10, <2>1, <2>3, SMTT(30)
  <2>6. Len(OD[m]) = Len(OD[m - 1]) - 1 /\ \A x \in 1 .. Len(OD[m - 1]) - 1 : OD[m][x] = OD[m - 1][x]
    BY <1>3, <2>1, <2>5
  <2>7. Len(OD[m]) = d
    BY <1>6, <1>10, <2>3, <2>6
  <2>8. \A x \in 1 .. d : OD[m][x] = OD[i - 1][x]
    BY <2>2, <2>6, <2>7
  <2>9. OD[i - 1] \in Seq(Names) /\ Len(OD[i - 1]) = d
    BY <1>1, <1>2 DEF d
  <2>. QED
    BY <2>3, <2>7, <2>8, <2>9, SeqEqual
<1>14. \A k \in i .. m - 1 : OD[k] # OD[i - 1]
  BY <1>6, <1>11 DEF d
<1>. QED
  BY <1>10, <1>13, <1>14 DEF OD

\* The plan of a session is a walk.
LEMMA PlanIsWalk ==
    ASSUME plan \in Plans
    PROVE  plan \in Seq(Item) /\ IsWalk(plan) /\ Len(plan) \in Nat
BY ScpAssumption, LenProperties

\* The walk goes on behind a directory that is left out.
LEMMA AfterType ==
    ASSUME plan \in Plans, NEW i \in 1 .. Len(plan)
    PROVE  After(i) \in i + 1 .. Len(plan) + 1
<1>1. plan \in Seq(Item) /\ IsWalk(plan) /\ Len(plan) \in Nat
  BY PlanIsWalk
<1>2. CASE plan[i].type = "D"
  <2>1. PICK m \in i + 1 .. Len(plan) :
            /\ DirsOf(plan)[m] = DirsOf(plan)[i - 1]
            /\ \A k \in i .. m - 1 : DirsOf(plan)[k] # DirsOf(plan)[i - 1]
    BY <1>1, <1>2, WalkReturns
  <2>2. m + 1 \in i + 2 .. Len(plan) + 1 /\ (m + 1) - 1 = m /\ (m + 1) - 2 = m - 1
    BY <1>1
  <2>. DEFINE Q(j) == /\ OpenDirs[j - 1] = OpenDirs[i - 1]
                      /\ \A k \in i .. j - 2 : OpenDirs[k] # OpenDirs[i - 1]
  <2>3. Q(m + 1)
    BY <2>1, <2>2 DEF OpenDirs
  <2>4. After(i) = CHOOSE j \in i + 2 .. Len(plan) + 1 : Q(j)
    BY <1>2 DEF After
  <2>. HIDE DEF Q
  <2>5. After(i) \in i + 2 .. Len(plan) + 1
    BY <2>2, <2>3, <2>4
  <2>. QED
    BY <1>1, <2>5
<1>3. CASE plan[i].type # "D"
  BY <1>1, <1>3 DEF After
<1>. QED
  BY <1>2, <1>3

\* Two paths are equal when their directories and their names are.
LEMMA AppendEqual ==
    ASSUME NEW S, NEW s \in Seq(S), NEW t \in Seq(S), NEW d \in S, NEW e \in S,
           Append(s, d) = Append(t, e)
    PROVE  s = t /\ d = e
<1>. DEFINE u == Append(s, d)
            v == Append(t, e)
<1>1. /\ Len(u) = Len(s) + 1 /\ u[Len(s) + 1] = d /\ Len(s) \in Nat
      /\ \A n \in 1 .. Len(s) : u[n] = s[n]
  BY AppendProperties, LenProperties
<1>2. /\ Len(v) = Len(t) + 1 /\ v[Len(t) + 1] = e /\ Len(t) \in Nat
      /\ \A n \in 1 .. Len(t) : v[n] = t[n]
  BY AppendProperties, LenProperties
<1>3. u = v
  OBVIOUS
<1>. HIDE DEF u, v
<1>4. Len(s) = Len(t) /\ d = e /\ \A n \in 1 .. Len(s) : s[n] = t[n]
  BY <1>1, <1>2, <1>3
<1>. QED
  BY <1>4, SeqEqual

\* No two files have the same path, and paths are sequences of names.
LEMMA PathsDiffer ==
    ASSUME plan \in Plans, NEW i \in FilesOf
    PROVE  /\ PathOf(i) \in Seq(Names)
           /\ \A j \in FilesOf : PathOf(i) = PathOf(j) => i = j
<1>1. plan \in Seq(Item) /\ IsWalk(plan) /\ Len(plan) \in Nat
  BY PlanIsWalk
<1>2. \A j \in FilesOf : /\ j \in 1 .. Len(plan) /\ plan[j].type = "C"
                         /\ DirsOf(plan)[j] \in Seq(Names) /\ plan[j].name \in Names
  BY <1>1, WalkStep DEF FilesOf
<1>3. PathOf(i) \in Seq(Names)
  BY <1>2, AppendProperties DEF PathOf, OpenDirs
<1>4. ASSUME NEW j \in FilesOf, PathOf(i) = PathOf(j)
      PROVE  i = j
  <2>1. /\ DirsOf(plan)[i] \in Seq(Names) /\ plan[i].name \in Names
        /\ DirsOf(plan)[j] \in Seq(Names) /\ plan[j].name \in Names
    BY <1>2
  <2>2. Append(DirsOf(plan)[i], plan[i].name) = Append(DirsOf(plan)[j], plan[j].name)
    BY <1>4 DEF PathOf, OpenDirs
  <2>3. DirsOf(plan)[i] = DirsOf(plan)[j] /\ plan[i].name = plan[j].name
    BY <2>1, <2>2, AppendEqual
  <2>. QED
    BY <1>1, <1>2, <2>3 DEF IsWalk
<1>. QED
  BY <1>3, <1>4

\* The files that come before item p in the walk, stored.
Stored(p) == {[path |-> PathOf(i), from |-> i] : i \in {j \in FilesOf : j < p}}

\* Nothing comes before the first item.
LEMMA StoredFirst == Stored(1) = {}
BY DEF Stored, FilesOf

\* At the end of the walk every file is stored.
LEMMA StoredAll ==
    ASSUME plan \in Plans
    PROVE  Stored(Len(plan) + 1) = Asked
<1>1. {j \in FilesOf : j < Len(plan) + 1} = FilesOf
  BY PlanIsWalk DEF FilesOf
<1>. QED
  BY <1>1 DEF Stored, Asked

\* An item that is no file adds nothing.
LEMMA StoredOther ==
    ASSUME plan \in Plans, NEW p \in 1 .. Len(plan), plan[p].type # "C"
    PROVE  Stored(p + 1) = Stored(p)
<1>1. {j \in FilesOf : j < p + 1} = {j \in FilesOf : j < p}
  BY PlanIsWalk DEF FilesOf
<1>. QED
  BY <1>1 DEF Stored

\* Writing a file adds it to what is stored: it replaces none.
LEMMA StoredFile ==
    ASSUME plan \in Plans, NEW p \in 1 .. Len(plan), plan[p].type = "C"
    PROVE  Stored(p + 1) = {s \in Stored(p) : s.path # PathOf(p)}
                               \cup {[path |-> PathOf(p), from |-> p]}
<1>1. p \in FilesOf
  BY DEF FilesOf
<1>2. {j \in FilesOf : j < p + 1} = {j \in FilesOf : j < p} \cup {p}
  BY <1>1, PlanIsWalk DEF FilesOf
<1>3. \A j \in FilesOf : j < p => PathOf(j) # PathOf(p)
  BY <1>1, PathsDiffer DEF FilesOf
<1>4. {s \in Stored(p) : s.path # PathOf(p)} = Stored(p)
  BY <1>3 DEF Stored
<1>5. Stored(p + 1) = Stored(p) \cup {[path |-> PathOf(p), from |-> p]}
  BY <1>2 DEF Stored
<1>. QED
  BY <1>4, <1>5

\* What lies before item p on the node: of the files that come to one path the
\* last one.
StoredHere(p) ==
    {[path |-> TargetPath(i), from |-> i] :
        i \in {j \in FilesOf : /\ j < p
                              /\ \A k \in FilesOf :
                                    j < k /\ k < p => TargetPath(k) # TargetPath(j)}}

\* What an upload that returns no error has stored.
Expected == IF target = "dir" THEN Asked ELSE Merged

LEMMA HereFirst == StoredHere(1) = {}
BY DEF StoredHere, FilesOf

\* Below a directory every file has a path of its own.
LEMMA HereAll ==
    ASSUME plan \in Plans
    PROVE  StoredHere(Len(plan) + 1) = Expected
<1>1. \A k \in FilesOf : k < Len(plan) + 1 /\ k \in Nat
  BY PlanIsWalk DEF FilesOf
<1>. DEFINE Lasts == {j \in FilesOf : /\ j < Len(plan) + 1
                                     /\ \A k \in FilesOf : j < k /\ k < Len(plan) + 1 =>
                                           TargetPath(k) # TargetPath(j)}
<1>2. Lasts = LastOnes
  BY <1>1 DEF LastOnes
<1>3. StoredHere(Len(plan) + 1) = Merged
  BY <1>2 DEF StoredHere, Merged
<1>4. ASSUME target = "dir"
      PROVE  Merged = Asked
  <2>1. \A i \in FilesOf : TargetPath(i) = PathOf(i)
    BY <1>4 DEF TargetPath, OnNode
  <2>2. \A i, j \in FilesOf : i < j => TargetPath(j) # TargetPath(i)
    BY <1>1, <2>1, PathsDiffer
  <2>3. LastOnes = FilesOf
    BY <2>2 DEF LastOnes
  <2>. QED
    BY <2>1, <2>3 DEF Merged, Asked
<1>. QED
  BY <1>3, <1>4 DEF Expected

\* An item that is no file adds nothing.
LEMMA HereOther ==
    ASSUME plan \in Plans, NEW p \in 1 .. Len(plan), plan[p].type # "C"
    PROVE  StoredHere(p + 1) = StoredHere(p)
<1>1. \A j \in FilesOf : (j < p + 1) <=> (j < p)
  BY PlanIsWalk DEF FilesOf
<1>. QED
  BY <1>1 DEF StoredHere

\* Writing a file replaces what came to the same path before.
LEMMA HereFile ==
    ASSUME plan \in Plans, NEW p \in 1 .. Len(plan), plan[p].type = "C"
    PROVE  StoredHere(p + 1) = {s \in StoredHere(p) : s.path # TargetPath(p)}
                                   \cup {[path |-> TargetPath(p), from |-> p]}
<1>. DEFINE IsLast(j, q) == /\ j < q
                            /\ \A k \in FilesOf : j < k /\ k < q => TargetPath(k) # TargetPath(j)
            Here(j) == [path |-> TargetPath(j), from |-> j]
<1>1. p \in FilesOf /\ p \in Nat /\ \A j \in FilesOf : j \in Nat
  BY PlanIsWalk DEF FilesOf
<1>2. \A j \in FilesOf : IsLast(j, p + 1) <=> j = p \/ (IsLast(j, p) /\ TargetPath(j) # TargetPath(p))
  <2>1. \A j \in FilesOf : (j < p + 1) <=> (j < p \/ j = p)
    BY <1>1
  <2>2. IsLast(p, p + 1)
    BY <1>1
  <2>. QED
    BY <1>1, <2>1, <2>2
<1>3. /\ StoredHere(p) = {Here(j) : j \in {i \in FilesOf : IsLast(i, p)}}
      /\ StoredHere(p + 1) = {Here(j) : j \in {i \in FilesOf : IsLast(i, p + 1)}}
  BY DEF StoredHere
<1>4. \A j : Here(j).path = TargetPath(j)
  OBVIOUS
<1>. HIDE DEF IsLast, Here
<1>5. {s \in StoredHere(p) : s.path # TargetPath(p)} \cup {Here(p)} = StoredHere(p + 1)
  BY <1>1, <1>2, <1>3, <1>4
<1>. QED
  BY <1>5 DEF Here

\* How many items of a type there are from item i to before item j.
Count(t, i, j) == Cardinality({k \in i .. j - 1 : plan[k].type = t})

\* What is counted is finite.
LEMMA CountFinite ==
    ASSUME NEW t, NEW i \in Int, NEW j \in Int
    PROVE  IsFiniteSet({k \in i .. j - 1 : plan[k].type = t})
<1>1. IsFiniteSet(i .. j - 1)
  BY FS_Interval
<1>. QED
  BY <1>1, FS_Subset

LEMMA CountType ==
    ASSUME NEW t, NEW i \in Int, NEW j \in Int
    PROVE  Count(t, i, j) \in Nat
BY CountFinite, FS_CardinalityType DEF Count

LEMMA CountNone ==
    ASSUME NEW t, NEW i \in Int, NEW j \in Int, j <= i
    PROVE  Count(t, i, j) = 0
<1>1. {k \in i .. j - 1 : plan[k].type = t} = {}
  OBVIOUS
<1>. QED
  BY <1>1, FS_EmptySet DEF Count

\* A count splits at any item in between.
LEMMA CountSplit ==
    ASSUME NEW t, NEW i \in Int, NEW m \in Int, NEW j \in Int, i <= m, m <= j
    PROVE  Count(t, i, j) = Count(t, i, m) + Count(t, m, j)
<1>. DEFINE A == {k \in i .. m - 1 : plan[k].type = t}
            B == {k \in m .. j - 1 : plan[k].type = t}
            C == {k \in i .. j - 1 : plan[k].type = t}
<1>1. IsFiniteSet(A) /\ IsFiniteSet(B)
  BY CountFinite
<1>2. C = A \cup B /\ A \cap B = {}
  OBVIOUS
<1>. HIDE DEF A, B, C
<1>3. Cardinality(A \cup B) = Cardinality(A) + Cardinality(B) - Cardinality(A \cap B)
  BY <1>1, FS_Union
<1>4. Cardinality(A) \in Nat /\ Cardinality(B) \in Nat /\ Cardinality(A \cap B) = 0
  BY <1>1, <1>2, FS_CardinalityType, FS_EmptySet
<1>5. Cardinality(C) = Cardinality(A) + Cardinality(B)
  BY <1>2, <1>3, <1>4
<1>. QED
  BY <1>5 DEF Count, A, B, C

\* One more item is counted, or not.
LEMMA CountStep ==
    ASSUME NEW t, NEW i \in Int, NEW p \in Int, i <= p
    PROVE  Count(t, i, p + 1) = Count(t, i, p) + (IF plan[p].type = t THEN 1 ELSE 0)
<1>1. Count(t, i, p + 1) = Count(t, i, p) + Count(t, p, p + 1)
  BY CountSplit
<1>2. Count(t, p, p + 1) = IF plan[p].type = t THEN 1 ELSE 0
  <2>. DEFINE S == {k \in p .. (p + 1) - 1 : plan[k].type = t}
  <2>1. S = IF plan[p].type = t THEN {p} ELSE {}
    OBVIOUS
  <2>. HIDE DEF S
  <2>2. Cardinality(S) = IF plan[p].type = t THEN 1 ELSE 0
    BY <2>1, FS_Singleton, FS_EmptySet
  <2>. QED
    BY <2>2 DEF Count, S
<1>. QED
  BY <1>1, <1>2

-----------------------------------------------------------------------------
(* Types and stages                                                         *)

Header == {"C", "D", "E"}

\* What the two streams hold: messages about the items that they fit.
InMsgs ==
    IF kind = "upload"
    THEN {m \in Messages : /\ m.item # 0
                           /\ \/ m.type \in Header /\ plan[m.item].type = m.type
                              \/ m.type \in {"data", "part", "ok"} /\ plan[m.item].type = "C"}
    ELSE {Ok}

OutMsgs ==
    IF kind = "upload"
    THEN {Ok, Err}
    ELSE {m \in Messages : m.type \in Header => m.item # 0 /\ plan[m.item].type = m.type}

StreamTypes == stdin \in Seq(InMsgs) /\ stdout \in Seq(OutMsgs)

SinkTypes ==
    /\ file \in 0 .. Len(plan) /\ dirs \in Seq(Names)
    /\ \A s \in store : s.path \in Seq(Names) /\ s.from \in 0 .. Len(plan)
    /\ made \subseteq Seq(Names)

ControlTypes ==
    /\ pos \in 1 .. Len(plan) + 1
    /\ open \in BOOLEAN /\ bad \in BOOLEAN /\ errs \in BOOLEAN
    /\ client \in Reading \cup {"begin", "next", "ask", "close", "wait", "done"}
    /\ server \in {"start", "line", "data", "end", "next", "fileAck", "ack", "exited"}
    /\ exit \in {"none", "zero", "nonzero", "missing"} /\ (exit = "none" <=> server # "exited")
    /\ result \in {"none", "ok", "error"} /\ refused \subseteq 1 .. Len(plan)

\* Which program points go together, and the item each is about.
StageInv ==
    /\ client = "dirAck" => pos <= Len(plan) /\ plan[pos].type = "D"
    /\ client \in {"fileAck", "dataAck"} => pos <= Len(plan) /\ plan[pos].type = "C"
    /\ client \in {"begin", "next", "ask"} \cup Reading => open
    /\ client \in {"next", "dirAck", "fileAck", "dataAck"} => kind = "upload"
    /\ client \in {"ask", "line", "content", "status"} => kind # "upload"
    /\ client = "content" => file # 0
    /\ server \in {"line", "data", "end"} => kind = "upload"
    /\ server \in {"next", "fileAck", "ack"} => kind # "upload"
    /\ server \in {"data", "end"} => file # 0 /\ plan[file].type = "C"
    /\ server \in {"fileAck", "ack"} => pos <= Len(plan)
    /\ client = "done" <=> result # "none"
    /\ result = "ok" => exit = "zero"
    /\ client = "begin" => /\ server \in {"start", "line", "exited"}
                           /\ pos = 1 /\ store = {} /\ dirs = <<>> /\ stdin = <<>>
    /\ server = "start" => /\ stdout = <<>> /\ ~errs /\ refused = {}
                           /\ store = {} /\ dirs = <<>>
    /\ kind # "upload" => refused = {}

TypeInv ==
    /\ kind \in Kinds /\ plan \in Plans /\ target \in {"dir", "file", "none"}
    /\ kind # "upload" => target = "dir"
    /\ StreamTypes /\ SinkTypes /\ ControlTypes /\ StageInv

LEMMA TypeInvInit == Init => TypeInv
<1>. SUFFICES ASSUME Init PROVE TypeInv
  OBVIOUS
<1>. USE DEF Init
<1>1. plan \in Seq(Item) /\ Len(plan) \in Nat
  BY PlanIsWalk
<1>2. StreamTypes
  BY EmptySeq DEF StreamTypes
<1>3. SinkTypes
  <2>1. dirs \in Seq(Names)
    BY EmptySeq
  <2>. QED
    BY <1>1, <2>1 DEF SinkTypes
<1>4. ControlTypes
  <2>1. pos \in 1 .. Len(plan) + 1 /\ refused \subseteq 1 .. Len(plan)
    BY <1>1
  <2>. QED
    BY <2>1 DEF ControlTypes
<1>5. StageInv
  BY DEF StageInv, Reading
<1>. QED
  BY <1>2, <1>3, <1>4, <1>5 DEF TypeInv

\* The session is fixed when it begins.
LEMMA SessionFixed ==
    ASSUME [Next]_vars
    PROVE  /\ kind' = kind /\ plan' = plan /\ target' = target
           /\ OpenDirs' = OpenDirs /\ FilesOf' = FilesOf /\ Messages' = Messages
           /\ InMsgs' = InMsgs /\ OutMsgs' = OutMsgs
           /\ \A i : PathOf(i)' = PathOf(i)
           /\ \A i : Stored(i)' = Stored(i) /\ StoredHere(i)' = StoredHere(i)
           /\ Asked' = Asked /\ Expected' = Expected
<1>1. kind' = kind /\ plan' = plan /\ target' = target
  BY DEF Next, vars, fixed, Client, Server, Ended, Begin, ReadEOF, ReadErr, CallbackDone,
     SessionWait, UploadHeader, UploadOpenFails, DirAcked, FileAcked, DataAcked,
     UploadDone, Ask, HeaderC, HeaderD, HeaderE, Content, StatusOk, ServerDies,
     SinkStarts, SinkHeader, SinkDirEnd, SinkStray, SinkData, SinkDataEnd, SinkEOF,
     SourceStarts, SourceHeader, SourceData, SourceAcked, SourceEnds
<1>. QED
  BY <1>1 DEF OpenDirs, FilesOf, Messages, InMsgs, OutMsgs, PathOf, Stored, Asked,
     OnNode, TargetPath, StoredHere, Expected, LastOnes, Merged

\* Whatever is sent fits the item it is about.
LEMMA StreamStep ==
    ASSUME TypeInv, [Next]_vars
    PROVE  StreamTypes'
<1>1. /\ kind' = kind /\ plan' = plan /\ InMsgs' = InMsgs /\ OutMsgs' = OutMsgs
  BY SessionFixed
<1>2. /\ stdin \in Seq(InMsgs) /\ stdout \in Seq(OutMsgs)
      /\ stdin # <<>> => Head(stdin) \in InMsgs /\ Tail(stdin) \in Seq(InMsgs)
      /\ stdout # <<>> => Head(stdout) \in OutMsgs /\ Tail(stdout) \in Seq(OutMsgs)
  BY HeadTailProperties DEF TypeInv, StreamTypes
<1>3. /\ \A m \in InMsgs : Append(stdin, m) \in Seq(InMsgs)
      /\ \A m \in OutMsgs : Append(stdout, m) \in Seq(OutMsgs)
  BY <1>2, AppendProperties
<1>4. /\ plan \in Seq(Item) /\ Len(plan) \in Nat
      /\ \A i \in 1 .. Len(plan) : plan[i].type \in Header
  BY PlanIsWalk, WalkStep DEF TypeInv, Header
<1>5. /\ kind # "upload" => Ok \in InMsgs
      /\ Ok \in OutMsgs /\ Err \in OutMsgs
      /\ \A i \in 1 .. Len(plan) :
             /\ kind = "upload" => Msg(plan[i].type, i) \in InMsgs
             /\ kind = "upload" /\ plan[i].type = "C" =>
                    Msg("data", i) \in InMsgs /\ Msg("part", i) \in InMsgs /\ EndOf(i) \in InMsgs
             /\ kind # "upload" => /\ Msg(plan[i].type, i) \in OutMsgs
                                   /\ Msg("data", i) \in OutMsgs /\ Msg("part", i) \in OutMsgs
  BY <1>4 DEF InMsgs, OutMsgs, Messages, Msg, Ok, Err, EndOf, Header
<1>6. StageInv /\ ControlTypes
  BY DEF TypeInv
<1>7. CASE UNCHANGED <<stdin, stdout>>
  BY <1>1, <1>2, <1>7 DEF StreamTypes
<1>8. ASSUME stdin' = stdin, \/ stdout # <<>> /\ stdout' = Tail(stdout)
                             \/ stdout' = Append(stdout, Ok)
                             \/ stdout' = Append(stdout, Err)
      PROVE  StreamTypes'
  BY <1>1, <1>2, <1>3, <1>5, <1>8 DEF StreamTypes
<1>9. ASSUME stdout' = stdout \/ (stdout # <<>> /\ stdout' = Tail(stdout)),
             kind # "upload", stdin' = Append(stdin, Ok) \/ stdin' = stdin
      PROVE  StreamTypes'
  BY <1>1, <1>2, <1>3, <1>5, <1>9 DEF StreamTypes
<1>10. ASSUME stdin # <<>>, stdin' = Tail(stdin), \/ stdout' = stdout
                                                 \/ stdout' = Append(stdout, Ok)
                                                 \/ stdout' = Append(stdout, Err)
       PROVE  StreamTypes'
  BY <1>1, <1>2, <1>3, <1>5, <1>10 DEF StreamTypes
<1>11. CASE UploadHeader
  BY <1>1, <1>2, <1>3, <1>5, <1>6, <1>11
     DEF StreamTypes, UploadHeader, AtItem, ToServer, StageInv, ControlTypes
<1>12. CASE FileAcked
  <2>1. pos \in 1 .. Len(plan) /\ plan[pos].type = "C" /\ kind = "upload"
    BY <1>4, <1>6, <1>12 DEF FileAcked, StageInv, ControlTypes
  <2>2. <<Msg("data", pos), EndOf(pos)>> \in Seq(InMsgs) /\ Msg("part", pos) \in InMsgs
    BY <1>5, <2>1
  <2>3. \/ stdin' = stdin \o <<Msg("data", pos), EndOf(pos)>>
        \/ stdin' = Append(stdin, Msg("part", pos))
    BY <1>12 DEF FileAcked, ToServer
  <2>4. stdin' \in Seq(InMsgs)
    BY <1>2, <1>3, <2>2, <2>3, ConcatProperties
  <2>. QED
    BY <1>1, <1>2, <1>12, <2>4 DEF FileAcked, Gets, StreamTypes
<1>13. CASE SinkEOF
  BY <1>1, <1>2, <1>13, EmptySeq DEF SinkEOF, StreamTypes
<1>14. CASE SourceHeader
  <2>1. pos \in 1 .. Len(plan) /\ kind # "upload" /\ stdin' = stdin
    BY <1>4, <1>6, <1>14 DEF SourceHeader, Sink, ControlTypes
  <2>2. stdout' = Append(stdout, Msg(plan[pos].type, pos)) \/ stdout' = Append(stdout, Err)
    BY <1>14 DEF SourceHeader, ToClient
  <2>. QED
    BY <1>1, <1>2, <1>3, <1>5, <2>1, <2>2 DEF StreamTypes
<1>15. CASE SourceData
  <2>1. pos \in 1 .. Len(plan) /\ kind # "upload"
    BY <1>4, <1>6, <1>15 DEF SourceData, StageInv, ControlTypes
  <2>2. <<Msg("data", pos), Ok>> \in Seq(OutMsgs) /\ <<Msg("part", pos), Err>> \in Seq(OutMsgs)
    BY <1>5, <2>1
  <2>3. \/ stdout' = stdout \o <<Msg("data", pos), Ok>>
        \/ stdout' = stdout \o <<Msg("part", pos), Err>>
    BY <1>15 DEF SourceData
  <2>4. stdout' \in Seq(OutMsgs)
    BY <1>2, <2>2, <2>3, ConcatProperties
  <2>. QED
    BY <1>1, <1>2, <1>15, <2>4 DEF SourceData, Takes, StreamTypes
<1>16. CASE ServerDies
  <2>1. PICK n \in 0 .. Len(stdout) : stdout' = SubSeq(stdout, 1, n)
    BY <1>16 DEF ServerDies
  <2>2. stdout' \in Seq(OutMsgs)
    <3>1. \A i \in 1 .. n : stdout[i] \in OutMsgs
      BY <1>2, ElementOfSeq
    <3>. QED
      BY <2>1, <3>1, SubSeqProperties
  <2>. QED
    BY <1>1, <1>2, <1>16, <2>2 DEF ServerDies, StreamTypes
<1>17. CASE ReadErr \/ DirAcked \/ DataAcked \/ HeaderD \/ HeaderE \/ StatusOk \/ SinkStarts
  BY <1>8, <1>17 DEF ReadErr, DirAcked, DataAcked, HeaderD, HeaderE, StatusOk, SinkStarts,
     Gets, HeaderIs, ToClient
<1>18. CASE Ask \/ HeaderC \/ Content
  <2>1. client \in {"ask", "line", "content"} /\ kind # "upload"
    BY <1>6, <1>18 DEF Ask, HeaderC, Content, HeaderIs, StageInv
  <2>2. stdout' = stdout \/ (stdout # <<>> /\ stdout' = Tail(stdout))
    BY <1>18 DEF Ask, HeaderC, Content, HeaderIs
  <2>3. stdin' = Append(stdin, Ok) \/ stdin' = stdin
    BY <1>18 DEF Ask, HeaderC, Content, ToServer
  <2>. QED
    BY <1>9, <2>1, <2>2, <2>3
<1>19. CASE \/ SinkHeader \/ SinkDirEnd \/ SinkStray \/ SinkData \/ SinkDataEnd
            \/ SourceStarts \/ SourceAcked
  BY <1>10, <1>19 DEF SinkHeader, SinkDirEnd, SinkStray, SinkData, SinkDataEnd,
     SourceStarts, SourceAcked, Takes, TakesType, ToClient
<1>20. CASE \/ Begin \/ ReadEOF \/ CallbackDone \/ SessionWait \/ UploadOpenFails
            \/ UploadDone \/ SourceEnds \/ Ended \/ UNCHANGED vars
  BY <1>7, <1>20 DEF Begin, ReadEOF, CallbackDone, SessionWait, UploadOpenFails,
     UploadDone, SourceEnds, Ended, vars
<1>. QED
  BY <1>11, <1>12, <1>13, <1>14, <1>15, <1>16, <1>17, <1>18, <1>19, <1>20
     DEF Next, Client, Server

\* A path below the target is a path.
LEMMA OnNodeType ==
    ASSUME NEW path \in Seq(Names), path # <<>>
    PROVE  OnNode(path) \in Seq(Names)
BY HeadTailProperties DEF OnNode

\* The paths written to are paths.
LEMMA PathTypes ==
    ASSUME TypeInv
    PROVE  /\ client = "content" => LocalPath \in Seq(Names)
           /\ server = "data" => NodePath \in Seq(Names)
<1>1. /\ plan \in Seq(Item) /\ dirs \in Seq(Names) /\ file \in 0 .. Len(plan) /\ Len(plan) \in Nat
      /\ client = "content" \/ server = "data" => file # 0
  BY PlanIsWalk DEF TypeInv, SinkTypes, StageInv
<1>2. \A i \in 1 .. Len(plan) : plan[i].name \in Names
  BY PlanIsWalk, WalkStep DEF TypeInv
<1>3. \A n \in Names : FirstWord[n] \in Names
  BY ScpAssumption
<1>4. ASSUME NEW n \in Names
      PROVE  <<n>> \in Seq(Names) /\ Append(dirs, n) \in Seq(Names) /\ Append(dirs, n) # <<>>
  BY <1>1, AppendProperties
<1>5. \A n \in Names : OnNode(Append(dirs, n)) \in Seq(Names)
  BY <1>4, OnNodeType
<1>. QED
  BY <1>1, <1>2, <1>3, <1>4, <1>5 DEF LocalPath, NodePath, Scanned

\* What the sink keeps is of its types.
LEMMA SinkStep ==
    ASSUME TypeInv, [Next]_vars
    PROVE  SinkTypes'
<1>1. /\ plan' = plan /\ plan \in Seq(Item) /\ Len(plan) \in Nat
  BY SessionFixed, PlanIsWalk DEF TypeInv
<1>2. /\ file \in 0 .. Len(plan) /\ dirs \in Seq(Names)
      /\ \A s \in store : s.path \in Seq(Names) /\ s.from \in 0 .. Len(plan)
      /\ made \subseteq Seq(Names)
  BY DEF TypeInv, SinkTypes
<1>3. /\ \A n \in Names : Append(dirs, n) \in Seq(Names) /\ Append(dirs, n) # <<>>
      /\ Front(dirs) \in Seq(Names)
  BY <1>2, AppendProperties, FrontType
<1>4. /\ \A i \in 1 .. Len(plan) : plan[i].name \in Names
      /\ \A n \in Names : FirstWord[n] \in Names
  BY ScpAssumption, PlanIsWalk, WalkStep DEF TypeInv
<1>5. ASSUME NEW path \in Seq(Names), NEW item \in 0 .. Len(plan), Put(path, item)
      PROVE  \A s \in store' : s.path \in Seq(Names) /\ s.from \in 0 .. Len(plan)
  BY <1>2, <1>5 DEF Put
<1>6. /\ stdin # <<>> => Head(stdin) \in InMsgs
      /\ stdout # <<>> => Head(stdout) \in OutMsgs
  BY HeadTailProperties DEF TypeInv, StreamTypes
<1>7. \A m \in InMsgs : /\ m.item \in 0 .. Len(plan)
                        /\ kind = "upload" => m.item \in 1 .. Len(plan)
  BY <1>1 DEF InMsgs, Messages, Ok, Msg
<1>8. \A m \in OutMsgs : /\ m.item \in 0 .. Len(plan)
                         /\ m.type \in Header => m.item \in 1 .. Len(plan)
  BY <1>1 DEF OutMsgs, Messages, Ok, Err, Msg, Header
<1>9. CASE UNCHANGED sinkVars
  BY <1>1, <1>2, <1>9 DEF SinkTypes, sinkVars
<1>10. CASE HeaderC
  BY <1>1, <1>2, <1>6, <1>8, <1>10 DEF SinkTypes, HeaderC, HeaderIs
<1>11. CASE HeaderD
  <2>1. Head(stdout).item \in 1 .. Len(plan)
    BY <1>6, <1>8, <1>11 DEF HeaderD, HeaderIs, Header
  <2>2. dirs' \in Seq(Names)
    BY <1>2, <1>3, <1>4, <1>11, <2>1 DEF HeaderD, Scanned
  <2>. QED
    BY <1>1, <1>2, <1>11, <2>2 DEF SinkTypes, HeaderD
<1>12. CASE HeaderE
  BY <1>1, <1>2, <1>3, <1>12 DEF SinkTypes, HeaderE, Leave
<1>13. CASE Content
  <2>1. \/ Put(LocalPath, file) \/ Put(LocalPath, 0)
    BY <1>13 DEF Content
  <2>2. LocalPath \in Seq(Names)
    BY <1>13, PathTypes DEF Content
  <2>3. \A s \in store' : s.path \in Seq(Names) /\ s.from \in 0 .. Len(plan)
    BY <1>1, <1>2, <1>5, <2>1, <2>2
  <2>. QED
    BY <1>1, <1>2, <1>13, <2>3 DEF SinkTypes, Content
<1>14. CASE ReadEOF
  <2>1. (Put(LocalPath, 0) /\ client = "content") \/ UNCHANGED store
    BY <1>14 DEF ReadEOF
  <2>2. \A s \in store' : s.path \in Seq(Names) /\ s.from \in 0 .. Len(plan)
    BY <1>1, <1>2, <1>5, <2>1, PathTypes
  <2>. QED
    BY <1>1, <1>2, <1>14, <2>2 DEF SinkTypes, ReadEOF
<1>15. CASE SinkHeader
  <2>1. Head(stdin).item \in 1 .. Len(plan)
    BY <1>6, <1>7, <1>15 DEF SinkHeader, Sink
  <2>2. /\ dirs' = dirs \/ dirs' = Append(dirs, plan[Head(stdin).item].name)
        /\ file' = file \/ file' = Head(stdin).item
        /\ store' = store
        /\ \/ made' = made
           \/ made' = made \cup {OnNode(Append(dirs, plan[Head(stdin).item].name))}
    BY <1>15 DEF SinkHeader
  <2>3. dirs' \in Seq(Names) /\ made' \subseteq Seq(Names)
    <3>1. /\ Append(dirs, plan[Head(stdin).item].name) \in Seq(Names)
          /\ Append(dirs, plan[Head(stdin).item].name) # <<>>
      BY <1>3, <1>4, <2>1
    <3>2. OnNode(Append(dirs, plan[Head(stdin).item].name)) \in Seq(Names)
      BY <3>1, OnNodeType
    <3>. QED
      BY <1>2, <2>2, <3>1, <3>2
  <2>4. file' \in 0 .. Len(plan)
    BY <1>1, <1>2, <2>1, <2>2
  <2>. QED
    BY <1>1, <1>2, <2>2, <2>3, <2>4 DEF SinkTypes
<1>16. CASE SinkDirEnd
  BY <1>1, <1>2, <1>3, <1>16 DEF SinkTypes, SinkDirEnd
<1>17. CASE SinkData \/ SinkEOF
  <2>1. \/ UNCHANGED store
        \/ server = "data" /\ (Put(NodePath, file) \/ Put(NodePath, 0))
    BY <1>17 DEF SinkData, SinkEOF
  <2>2. \A s \in store' : s.path \in Seq(Names) /\ s.from \in 0 .. Len(plan)
    BY <1>1, <1>2, <1>5, <2>1, PathTypes
  <2>. QED
    BY <1>1, <1>2, <1>17, <2>2 DEF SinkTypes, SinkData, SinkEOF
<1>. QED
  BY <1>9, <1>10, <1>11, <1>12, <1>13, <1>14, <1>15, <1>16, <1>17
     DEF Next, Client, Server, Ended, vars, Begin, ReadErr, CallbackDone, SessionWait,
         UploadHeader, UploadOpenFails, DirAcked, FileAcked, DataAcked, UploadDone, Ask,
         StatusOk, ServerDies, SinkStarts, SinkStray, SinkDataEnd, SourceStarts,
         SourceHeader, SourceData, SourceAcked, SourceEnds

\* What a message at the head of a stream is about.
LEMMA HeadItem ==
    ASSUME TypeInv
    PROVE  /\ stdin # <<>> =>
                  /\ Head(stdin) \in InMsgs /\ Head(stdin).item \in 0 .. Len(plan)
                  /\ kind = "upload" => Head(stdin).item \in 1 .. Len(plan)
           /\ stdout # <<>> =>
                  /\ Head(stdout) \in OutMsgs /\ Head(stdout).item \in 0 .. Len(plan)
                  /\ Head(stdout).type \in Header => Head(stdout).item \in 1 .. Len(plan)
<1>1. /\ stdin # <<>> => Head(stdin) \in InMsgs
      /\ stdout # <<>> => Head(stdout) \in OutMsgs
      /\ Len(plan) \in Nat
  BY HeadTailProperties, PlanIsWalk DEF TypeInv, StreamTypes
<1>2. \A m \in InMsgs : /\ m.item \in 0 .. Len(plan)
                        /\ kind = "upload" => m.item \in 1 .. Len(plan)
  BY <1>1 DEF InMsgs, Messages, Ok, Msg
<1>3. \A m \in OutMsgs : /\ m.item \in 0 .. Len(plan)
                         /\ m.type \in Header => m.item \in 1 .. Len(plan)
  BY <1>1 DEF OutMsgs, Messages, Ok, Err, Msg, Header
<1>. QED
  BY <1>1, <1>2, <1>3

\* Counters, flags and program points are of their types.
LEMMA ControlStep ==
    ASSUME TypeInv, [Next]_vars
    PROVE  ControlTypes'
<1>1. plan' = plan /\ plan \in Plans /\ Len(plan) \in Nat
  BY SessionFixed, PlanIsWalk DEF TypeInv
<1>2. ControlTypes
  BY DEF TypeInv
<1>3. /\ client \in {"dirAck", "dataAck"} => pos <= Len(plan)
      /\ server = "ack" => pos <= Len(plan)
  BY DEF TypeInv, StageInv
<1>4. CASE Begin
  BY <1>1, <1>2, <1>4 DEF ControlTypes, serverVars, Reading, Begin, Fail
<1>5. CASE ReadEOF
  BY <1>1, <1>2, <1>5 DEF ControlTypes, serverVars, Reading, ReadEOF, AfterEOF
<1>6. CASE ReadErr
  BY <1>1, <1>2, <1>6 DEF ControlTypes, serverVars, Reading, ReadErr, Fail, Reading
<1>7. CASE CallbackDone
  BY <1>1, <1>2, <1>7 DEF ControlTypes, serverVars, Reading, CallbackDone, CloseStdin
<1>8. CASE SessionWait
  BY <1>1, <1>2, <1>8 DEF ControlTypes, serverVars, Reading, SessionWait, SessionResult
<1>9. CASE UploadHeader
  <2>1. pos \in 1 .. Len(plan) /\ plan[pos].type \in {"C", "D", "E"}
    BY <1>1, <1>2, <1>9 DEF ControlTypes, UploadHeader, AtItem
  <2>2. \/ client' = "dirAck" /\ pos' = pos
        \/ client' = "fileAck" /\ pos' = pos
        \/ client' = "next" /\ pos' = pos + 1
    BY <1>9, <2>1 DEF UploadHeader
  <2>3. pos' \in 1 .. Len(plan) + 1
    BY <1>1, <2>1, <2>2
  <2>. QED
    BY <1>1, <1>2, <1>9, <2>2, <2>3 DEF ControlTypes, serverVars, Reading, UploadHeader
<1>10. CASE UploadOpenFails
  BY <1>1, <1>2, <1>10 DEF ControlTypes, serverVars, Reading, UploadOpenFails, Fail
<1>11. CASE DirAcked
  <2>1. pos' \in 1 .. Len(plan) + 1
    BY <1>1, <1>2, <1>3, <1>11 DEF ControlTypes, DirAcked
  <2>. QED
    BY <1>1, <1>2, <1>11, <2>1 DEF ControlTypes, serverVars, Reading, DirAcked, Fail
<1>12. CASE FileAcked
  BY <1>1, <1>2, <1>12 DEF ControlTypes, serverVars, Reading, FileAcked, Fail, AfterData, AfterEOF
<1>13. CASE DataAcked
  <2>1. pos' \in 1 .. Len(plan) + 1
    BY <1>1, <1>2, <1>3, <1>13 DEF ControlTypes, DataAcked
  <2>. QED
    BY <1>1, <1>2, <1>13, <2>1 DEF ControlTypes, serverVars, Reading, DataAcked
<1>14. CASE UploadDone
  BY <1>1, <1>2, <1>14 DEF ControlTypes, serverVars, Reading, UploadDone
<1>15. CASE Ask
  BY <1>1, <1>2, <1>15 DEF ControlTypes, serverVars, Reading, Ask
<1>16. CASE HeaderC
  BY <1>1, <1>2, <1>16 DEF ControlTypes, serverVars, Reading, HeaderC, HeaderIs, Fail
<1>17. CASE HeaderD
  BY <1>1, <1>2, <1>17 DEF ControlTypes, serverVars, Reading, HeaderD, HeaderIs, Fail
<1>18. CASE HeaderE
  BY <1>1, <1>2, <1>18 DEF ControlTypes, serverVars, Reading, HeaderE, HeaderIs
<1>19. CASE Content
  BY <1>1, <1>2, <1>19 DEF ControlTypes, serverVars, Reading, Content, Fail
<1>20. CASE StatusOk
  BY <1>1, <1>2, <1>20 DEF ControlTypes, serverVars, Reading, StatusOk
<1>21. CASE SinkStarts
  BY <1>1, <1>2, <1>21 DEF ControlTypes, serverVars, Reading, SinkStarts
<1>22. CASE SinkHeader
  <2>1. Head(stdin).item \in 1 .. Len(plan)
    BY <1>22, HeadItem DEF SinkHeader, Sink
  <2>. QED
    BY <1>1, <1>2, <1>22, <2>1 DEF ControlTypes, serverVars, Reading, SinkHeader
<1>23. CASE SinkDirEnd
  BY <1>1, <1>2, <1>23 DEF ControlTypes, serverVars, Reading, SinkDirEnd, Exits
<1>24. CASE SinkStray
  BY <1>1, <1>2, <1>24 DEF ControlTypes, serverVars, Reading, SinkStray, Exits
<1>25. CASE SinkData
  BY <1>1, <1>2, <1>25 DEF ControlTypes, serverVars, Reading, SinkData
<1>26. CASE SinkDataEnd
  BY <1>1, <1>2, <1>26 DEF ControlTypes, serverVars, Reading, SinkDataEnd
<1>27. CASE SinkEOF
  BY <1>1, <1>2, <1>27 DEF ControlTypes, serverVars, Reading, SinkEOF, Exits
<1>28. CASE SourceStarts
  BY <1>1, <1>2, <1>28 DEF ControlTypes, serverVars, Reading, SourceStarts
<1>29. CASE SourceHeader
  <2>1. pos \in 1 .. Len(plan)
    BY <1>1, <1>2, <1>29 DEF ControlTypes, SourceHeader
  <2>2. pos' \in 1 .. Len(plan) + 1
    BY <1>1, <1>2, <1>29, <2>1, AfterType DEF ControlTypes, SourceHeader
  <2>. QED
    BY <1>1, <1>2, <1>29, <2>2 DEF ControlTypes, serverVars, Reading, SourceHeader
<1>30. CASE SourceData
  BY <1>1, <1>2, <1>30 DEF ControlTypes, serverVars, Reading, SourceData
<1>31. CASE SourceAcked
  <2>1. pos' \in 1 .. Len(plan) + 1
    BY <1>1, <1>2, <1>3, <1>31 DEF ControlTypes, SourceAcked
  <2>. QED
    BY <1>1, <1>2, <1>31, <2>1 DEF ControlTypes, serverVars, Reading, SourceAcked
<1>32. CASE SourceEnds
  BY <1>1, <1>2, <1>32 DEF ControlTypes, serverVars, Reading, SourceEnds, Exits
<1>33. CASE ServerDies
  BY <1>1, <1>2, <1>33 DEF ControlTypes, serverVars, Reading, ServerDies
<1>34. CASE UNCHANGED vars
  BY <1>1, <1>2, <1>34 DEF ControlTypes, vars, serverVars
<1>. QED
  BY <1>4, <1>5, <1>6, <1>7, <1>8, <1>9, <1>10, <1>11, <1>12, <1>13, <1>14,
     <1>15, <1>16, <1>17, <1>18, <1>19, <1>20, <1>21, <1>22, <1>23, <1>24,
     <1>25, <1>26, <1>27, <1>28, <1>29, <1>30, <1>31, <1>32, <1>33, <1>34
     DEF Next, Client, Server, Ended

\* The program points keep to what they say about the rest of the state.
LEMMA StageStep ==
    ASSUME TypeInv, [Next]_vars
    PROVE  StageInv'
<1>1. /\ kind' = kind /\ plan' = plan /\ Len(plan) \in Nat
      /\ kind \in {"upload", "download", "downloadDir"}
  BY SessionFixed, PlanIsWalk, ScpAssumption DEF TypeInv
<1>2. ControlTypes /\ StageInv
  BY DEF TypeInv
<1>3. /\ stdin # <<>> /\ kind = "upload" =>
             /\ Head(stdin).item \in 1 .. Len(plan)
             /\ Head(stdin).type \in Header => plan[Head(stdin).item].type = Head(stdin).type
      /\ stdout # <<>> /\ Head(stdout).type \in Header => Head(stdout).item \in 1 .. Len(plan)
  BY HeadItem DEF InMsgs, Header
<1>4. CASE Begin
  BY <1>1, <1>2, <1>3, <1>4 DEF StageInv, ControlTypes, serverVars, sinkVars,
     Reading, Begin, Fail
<1>5. CASE ReadEOF
  BY <1>1, <1>2, <1>3, <1>5 DEF StageInv, ControlTypes, serverVars, sinkVars,
     Reading, ReadEOF, AfterEOF
<1>6. CASE ReadErr
  BY <1>1, <1>2, <1>3, <1>6 DEF StageInv, ControlTypes, serverVars, sinkVars,
     Reading, ReadErr, Fail
<1>7. CASE CallbackDone
  BY <1>1, <1>2, <1>3, <1>7 DEF StageInv, ControlTypes, serverVars, sinkVars,
     Reading, CallbackDone, CloseStdin
<1>8. CASE SessionWait
  BY <1>1, <1>2, <1>3, <1>8 DEF StageInv, ControlTypes, serverVars, sinkVars,
     Reading, SessionWait, SessionResult
<1>9. CASE UploadHeader
  BY <1>1, <1>2, <1>3, <1>9 DEF StageInv, ControlTypes, serverVars, sinkVars,
     Reading, UploadHeader, AtItem, ToServer
<1>10. CASE UploadOpenFails
  BY <1>1, <1>2, <1>3, <1>10 DEF StageInv, ControlTypes, serverVars, sinkVars,
     Reading, UploadOpenFails, Fail
<1>11. CASE DirAcked
  <2>1. CASE client' = "done" /\ result' = "error" /\ open' = FALSE
    BY <1>1, <1>2, <1>3, <1>11, <2>1 DEF StageInv, ControlTypes, serverVars,
       sinkVars, Reading, DirAcked, Fail, Gets
  <2>2. CASE client' # "done" /\ UNCHANGED <<open, result>>
    BY <1>1, <1>2, <1>3, <1>11, <2>2 DEF StageInv, ControlTypes, serverVars,
       sinkVars, Reading, DirAcked, Fail, Gets
  <2>. QED
    BY <1>11, <2>1, <2>2 DEF DirAcked, Fail
<1>12. CASE FileAcked
  <2>1. CASE client' = "done" /\ result' = "error" /\ open' = FALSE
    BY <1>1, <1>2, <1>3, <1>12, <2>1 DEF StageInv, ControlTypes, serverVars,
       sinkVars, Reading, FileAcked, Fail, AfterData, AfterEOF, Gets
  <2>2. CASE client' # "done" /\ UNCHANGED <<open, result>>
    BY <1>1, <1>2, <1>3, <1>12, <2>2 DEF StageInv, ControlTypes, serverVars,
       sinkVars, Reading, FileAcked, Fail, AfterData, AfterEOF, Gets
  <2>. QED
    BY <1>12, <2>1, <2>2 DEF FileAcked, Fail, AfterData, AfterEOF
<1>13. CASE DataAcked
  BY <1>1, <1>2, <1>3, <1>13 DEF StageInv, ControlTypes, serverVars, sinkVars,
     Reading, DataAcked, Gets
<1>14. CASE UploadDone
  BY <1>1, <1>2, <1>3, <1>14 DEF StageInv, ControlTypes, serverVars, sinkVars,
     Reading, UploadDone
<1>15. CASE Ask
  BY <1>1, <1>2, <1>3, <1>15 DEF StageInv, ControlTypes, serverVars, sinkVars,
     Reading, Ask
<1>16. CASE HeaderC
  <2>1. CASE client' = "done" /\ result' = "error" /\ open' = FALSE
    BY <1>1, <1>2, <1>3, <1>16, <2>1 DEF StageInv, ControlTypes, serverVars,
       sinkVars, Reading, HeaderC, HeaderIs, Fail, Header
  <2>2. CASE client' # "done" /\ UNCHANGED <<open, result>>
    BY <1>1, <1>2, <1>3, <1>16, <2>2 DEF StageInv, ControlTypes, serverVars,
       sinkVars, Reading, HeaderC, HeaderIs, Fail, Header
  <2>. QED
    BY <1>16, <2>1, <2>2 DEF HeaderC, Fail
<1>17. CASE HeaderD
  <2>1. CASE client' = "done" /\ result' = "error" /\ open' = FALSE
    BY <1>1, <1>2, <1>3, <1>17, <2>1 DEF StageInv, ControlTypes, serverVars,
       sinkVars, Reading, HeaderD, HeaderIs, Fail, Header
  <2>2. CASE client' # "done" /\ UNCHANGED <<open, result>>
    BY <1>1, <1>2, <1>3, <1>17, <2>2 DEF StageInv, ControlTypes, serverVars,
       sinkVars, Reading, HeaderD, HeaderIs, Fail, Header
  <2>. QED
    BY <1>17, <2>1, <2>2 DEF HeaderD, Fail
<1>18. CASE HeaderE
  BY <1>1, <1>2, <1>3, <1>18 DEF StageInv, ControlTypes, serverVars, sinkVars,
     Reading, HeaderE, HeaderIs
<1>19. CASE Content
  <2>1. CASE client' = "done" /\ result' = "error" /\ open' = FALSE
    BY <1>1, <1>2, <1>3, <1>19, <2>1 DEF StageInv, ControlTypes, serverVars,
       sinkVars, Reading, Content, Fail
  <2>2. CASE client' # "done" /\ UNCHANGED <<open, result>>
    BY <1>1, <1>2, <1>3, <1>19, <2>2 DEF StageInv, ControlTypes, serverVars,
       sinkVars, Reading, Content, Fail
  <2>. QED
    BY <1>19, <2>1, <2>2 DEF Content, Fail
<1>20. CASE StatusOk
  BY <1>1, <1>2, <1>3, <1>20 DEF StageInv, ControlTypes, serverVars, sinkVars,
     Reading, StatusOk, Gets
<1>21. CASE SinkStarts
  BY <1>1, <1>2, <1>3, <1>21 DEF StageInv, ControlTypes, serverVars, sinkVars,
     Reading, SinkStarts, Sink
<1>22. CASE SinkHeader
  BY <1>1, <1>2, <1>3, <1>22 DEF StageInv, ControlTypes, serverVars, sinkVars,
     Reading, SinkHeader, Sink, Header
<1>23. CASE SinkDirEnd
  BY <1>1, <1>2, <1>3, <1>23 DEF StageInv, ControlTypes, serverVars, sinkVars,
     Reading, SinkDirEnd, Exits, TakesType, Sink
<1>24. CASE SinkStray
  BY <1>1, <1>2, <1>3, <1>24 DEF StageInv, ControlTypes, serverVars, sinkVars,
     Reading, SinkStray, Exits, Sink
<1>25. CASE SinkData
  BY <1>1, <1>2, <1>3, <1>25 DEF StageInv, ControlTypes, serverVars, sinkVars,
     Reading, SinkData, Sink, TakesType
<1>26. CASE SinkDataEnd
  BY <1>1, <1>2, <1>3, <1>26 DEF StageInv, ControlTypes, serverVars, sinkVars,
     Reading, SinkDataEnd, Sink, TakesType
<1>27. CASE SinkEOF
  BY <1>1, <1>2, <1>3, <1>27 DEF StageInv, ControlTypes, serverVars, sinkVars,
     Reading, SinkEOF, Exits, Sink, Closed
<1>28. CASE SourceStarts
  BY <1>1, <1>2, <1>3, <1>28 DEF StageInv, ControlTypes, serverVars, sinkVars,
     Reading, SourceStarts, Sink, Takes
<1>29. CASE SourceHeader
  BY <1>1, <1>2, <1>3, <1>29 DEF StageInv, ControlTypes, serverVars, sinkVars,
     Reading, SourceHeader, Sink
<1>30. CASE SourceData
  BY <1>1, <1>2, <1>3, <1>30 DEF StageInv, ControlTypes, serverVars, sinkVars,
     Reading, SourceData, Sink, Takes
<1>31. CASE SourceAcked
  BY <1>1, <1>2, <1>3, <1>31 DEF StageInv, ControlTypes, serverVars, sinkVars,
     Reading, SourceAcked, Sink, Takes
<1>32. CASE SourceEnds
  BY <1>1, <1>2, <1>3, <1>32 DEF StageInv, ControlTypes, serverVars, sinkVars,
     Reading, SourceEnds, Exits, Sink
<1>33. CASE ServerDies
  BY <1>1, <1>2, <1>3, <1>33 DEF StageInv, ControlTypes, serverVars, sinkVars,
     Reading, ServerDies
<1>34. CASE UNCHANGED vars
  BY <1>1, <1>2, <1>34 DEF StageInv, vars, serverVars, sinkVars
<1>. QED
  BY <1>4, <1>5, <1>6, <1>7, <1>8, <1>9, <1>10, <1>11, <1>12, <1>13, <1>14,
     <1>15, <1>16, <1>17, <1>18, <1>19, <1>20, <1>21, <1>22, <1>23, <1>24,
     <1>25, <1>26, <1>27, <1>28, <1>29, <1>30, <1>31, <1>32, <1>33, <1>34
     DEF Next, Client, Server, Ended

-----------------------------------------------------------------------------
(* The upload: what the client has sent                                     *)

\* Message n comes after message m in what the client sends.
Follows(m, n) ==
    \/ m.type \in {"D", "E", "ok"} /\ n.type \in Header /\ n.item = m.item + 1
    \/ m.type = "C" /\ n.type \in {"data", "part"} /\ n.item = m.item
    \/ m.type = "data" /\ n.type = "ok" /\ n.item = m.item

Linked(s) == \A n \in 1 .. Len(s) - 1 : Follows(s[n], s[n + 1])

\* The last message sent, seen from the client's program point.
SentLast(m) ==
    /\ client = "next"    => m.item = pos - 1 /\ m.type \in {"D", "E", "ok"}
    /\ client = "dirAck"  => m.item = pos /\ m.type = "D"
    /\ client = "fileAck" => m.item = pos /\ m.type = "C"
    /\ client = "dataAck" => m.item = pos /\ m.type = "ok"
    /\ client \in {"close", "wait"} =>
           m.type = "part" \/ (m.item = pos - 1 /\ m.type \in {"D", "E", "ok"})

\* The client stops sending at the end of the walk or in a file.
SentAll ==
    client \in {"close", "wait"} =>
        pos = Len(plan) + 1 \/ (stdin # <<>> /\ Last(stdin).type = "part")

UpStream ==
    kind = "upload" /\ server # "exited" =>
        /\ Linked(stdin)
        /\ stdin # <<>> => SentLast(Last(stdin))
        /\ SentAll

\* A sequence of messages stays linked when its first one is taken ...
LEMMA LinkedTail ==
    ASSUME NEW S, NEW s \in Seq(S), s # <<>>, Linked(s)
    PROVE  /\ Linked(Tail(s))
           /\ Tail(s) # <<>> => Follows(Head(s), Head(Tail(s))) /\ Last(Tail(s)) = Last(s)
           /\ Tail(s) = <<>> => Last(s) = Head(s)
<1>1. Len(s) \in Nat \ {0} /\ Head(s) = s[1]
  BY EmptySeq
<1>2. /\ Tail(s) \in Seq(S) /\ Len(Tail(s)) = Len(s) - 1
      /\ \A n \in 1 .. Len(s) - 1 : Tail(s)[n] = s[n + 1]
  BY HeadTailProperties
<1>3. Linked(Tail(s))
  <2>. SUFFICES ASSUME NEW n \in 1 .. Len(Tail(s)) - 1
                PROVE  Follows(Tail(s)[n], Tail(s)[n + 1])
    BY DEF Linked
  <2>1. /\ n \in 1 .. Len(s) - 1 /\ n + 1 \in 1 .. Len(s) - 1
    BY <1>1, <1>2
  <2>. QED
    BY <1>2, <2>1 DEF Linked
<1>4. ASSUME Tail(s) # <<>>
      PROVE  Follows(Head(s), Head(Tail(s))) /\ Last(Tail(s)) = Last(s)
  <2>1. Len(s) - 1 \in Nat \ {0} /\ Head(Tail(s)) = Tail(s)[1]
    BY <1>2, <1>4, EmptySeq
  <2>2. 1 \in 1 .. Len(s) - 1 /\ Len(s) - 1 \in 1 .. Len(s) - 1 /\ (Len(s) - 1) + 1 = Len(s)
    <3>1. \A l \in Nat : l - 1 \in Nat \ {0} =>
              1 \in 1 .. l - 1 /\ l - 1 \in 1 .. l - 1 /\ (l - 1) + 1 = l
      OBVIOUS
    <3>. QED
      BY <1>1, <2>1, <3>1
  <2>3. Tail(s)[1] = s[1 + 1] /\ Tail(s)[Len(s) - 1] = s[Len(s)]
    BY <1>2, <2>2
  <2>. QED
    BY <1>1, <1>2, <2>1, <2>2, <2>3 DEF Linked, Last
<1>5. ASSUME Tail(s) = <<>>
      PROVE  Last(s) = Head(s)
  <2>1. Len(s) = 1
    <3>1. Len(s) - 1 = 0
      BY <1>2, <1>5, EmptySeq
    <3>. QED
      BY <1>1, <3>1
  <2>. QED
    BY <1>1, <2>1 DEF Last
<1>. QED
  BY <1>3, <1>4, <1>5

\* ... and when the next one is sent.
LEMMA LinkedAppend ==
    ASSUME NEW S, NEW s \in Seq(S), NEW m \in S, Linked(s), s # <<>> => Follows(Last(s), m)
    PROVE  /\ Append(s, m) \in Seq(S) /\ Append(s, m) # <<>>
           /\ Linked(Append(s, m)) /\ Last(Append(s, m)) = m
           /\ Head(Append(s, m)) = IF s = <<>> THEN m ELSE Head(s)
<1>1. Len(s) \in Nat /\ (s = <<>> <=> Len(s) = 0)
  BY EmptySeq, LenProperties
<1>2. /\ Append(s, m) \in Seq(S) /\ Append(s, m) # <<>>
      /\ Len(Append(s, m)) = Len(s) + 1 /\ Append(s, m)[Len(s) + 1] = m
      /\ \A n \in 1 .. Len(s) : Append(s, m)[n] = s[n]
  BY AppendProperties
<1>3. Linked(Append(s, m))
  <2>. SUFFICES ASSUME NEW n \in 1 .. Len(s)
                PROVE  Follows(Append(s, m)[n], Append(s, m)[n + 1])
    BY <1>1, <1>2 DEF Linked
  <2>1. CASE n = Len(s)
    <3>1. Append(s, m)[n] = Last(s) /\ Append(s, m)[n + 1] = m /\ s # <<>>
      BY <1>1, <1>2, <2>1 DEF Last
    <3>. QED
      BY <3>1
  <2>2. CASE n # Len(s)
    <3>1. n \in 1 .. Len(s) - 1 /\ n + 1 \in 1 .. Len(s)
      BY <1>1, <2>2
    <3>2. Append(s, m)[n] = s[n] /\ Append(s, m)[n + 1] = s[n + 1]
      BY <1>2, <3>1
    <3>. QED
      BY <3>1, <3>2 DEF Linked
  <2>. QED
    BY <2>1, <2>2
<1>4. Head(Append(s, m)) = IF s = <<>> THEN m ELSE Head(s)
  BY HeadTailAppend
<1>. QED
  BY <1>2, <1>3, <1>4 DEF Last

\* Two messages sent at once are two sent one after the other.
LEMMA ConcatTwo ==
    ASSUME NEW S, NEW s \in Seq(S), NEW m \in S, NEW n \in S
    PROVE  s \o <<m, n>> = Append(Append(s, m), n)
<1>1. Append(s, m) = s \o <<m>> /\ Append(s, m) \in Seq(S)
  BY AppendIsConcat, AppendProperties
<1>2. Append(Append(s, m), n) = (s \o <<m>>) \o <<n>>
  BY <1>1, AppendIsConcat
<1>3. <<m>> \in Seq(S) /\ <<n>> \in Seq(S)
  OBVIOUS
<1>5. <<m>> \o <<n>> = <<m, n>>
  <2>1. /\ <<m>> \o <<n>> \in Seq(S) /\ Len(<<m>> \o <<n>>) = 2
        /\ \A i \in 1 .. 2 : (<<m>> \o <<n>>)[i] = IF i <= 1 THEN <<m>>[i] ELSE <<n>>[i - 1]
    BY <1>3, ConcatProperties
  <2>2. (<<m>> \o <<n>>)[1] = m /\ (<<m>> \o <<n>>)[2] = n
    BY <2>1
  <2>3. <<m, n>> \in Seq(S) /\ Len(<<m, n>>) = 2 /\ <<m, n>>[1] = m /\ <<m, n>>[2] = n
    OBVIOUS
  <2>4. \A i \in 1 .. Len(<<m, n>>) : i = 1 \/ i = 2
    OBVIOUS
  <2>. QED
    BY <2>1, <2>2, <2>3, <2>4, SeqEqual
<1>4. (s \o <<m>>) \o <<n>> = s \o (<<m>> \o <<n>>)
  BY <1>3, ConcatAssociative
<1>. QED
  BY <1>2, <1>4, <1>5

LEMMA UpStreamInit == Init => UpStream
<1>. SUFFICES ASSUME Init PROVE UpStream
  OBVIOUS
<1>1. stdin = <<>> /\ client = "begin"
  BY DEF Init
<1>2. Linked(stdin)
  BY <1>1, EmptySeq DEF Linked
<1>. QED
  BY <1>1, <1>2 DEF UpStream, SentAll

\* What is under way to the server is always a piece of the walk.
LEMMA UpStreamStep ==
    ASSUME TypeInv, UpStream, [Next]_vars
    PROVE  UpStream'
<1>. SUFFICES ASSUME kind' = "upload", server' # "exited"
              PROVE  /\ Linked(stdin)'
                     /\ stdin' # <<>> => SentLast(Last(stdin))'
                     /\ SentAll'
  BY DEF UpStream
<1>1. /\ kind = "upload" /\ plan' = plan /\ Len(plan) \in Nat
      /\ pos \in 1 .. Len(plan) + 1 /\ stdin \in Seq(InMsgs) /\ StageInv
  BY SessionFixed, PlanIsWalk DEF TypeInv, StreamTypes, ControlTypes
<1>2. ASSUME server # "exited"
      PROVE  /\ Linked(stdin)
             /\ stdin # <<>> => SentLast(Last(stdin))
             /\ SentAll
  BY <1>1, <1>2 DEF UpStream
<1>3. /\ plan \in Seq(Item)
      /\ \A i \in 1 .. Len(plan) :
             /\ plan[i].type \in {"C", "D", "E"}
             /\ Msg(plan[i].type, i) \in InMsgs
             /\ plan[i].type = "C" => /\ Msg("data", i) \in InMsgs /\ Msg("part", i) \in InMsgs
                                      /\ EndOf(i) \in InMsgs
  <2>1. plan \in Seq(Item) /\ \A i \in 1 .. Len(plan) : plan[i].type \in {"C", "D", "E"}
    BY PlanIsWalk, WalkStep DEF TypeInv
  <2>. QED
    BY <1>1, <2>1 DEF InMsgs, Messages, Msg, EndOf, Header
<1>4. CASE UNCHANGED <<stdin, client, pos>> /\ server # "exited"
  BY <1>1, <1>2, <1>4 DEF Linked, Last, SentLast, SentAll
<1>5. ASSUME stdin # <<>>, stdin' = Tail(stdin), Head(stdin).type # "part",
             UNCHANGED <<client, pos>>, server # "exited"
      PROVE  /\ Linked(stdin)'
             /\ stdin' # <<>> => SentLast(Last(stdin))'
             /\ SentAll'
  <2>1. /\ Linked(Tail(stdin))
        /\ Tail(stdin) # <<>> => Last(Tail(stdin)) = Last(stdin)
        /\ Tail(stdin) = <<>> => Last(stdin) = Head(stdin)
    BY <1>1, <1>2, <1>5, LinkedTail
  <2>2. Linked(stdin)'
    BY <1>5, <2>1 DEF Linked
  <2>3. Last(stdin)' = Last(Tail(stdin))
    BY <1>5 DEF Last
  <2>4. stdin' # <<>> => SentLast(Last(stdin))'
    BY <1>2, <1>5, <2>1, <2>3 DEF SentLast
  <2>5. SentAll'
    BY <1>1, <1>2, <1>5, <2>1, <2>3 DEF SentAll
  <2>. QED
    BY <2>2, <2>4, <2>5
<1>6. CASE UploadHeader
  <2>1. /\ client = "next" /\ pos \in 1 .. Len(plan) /\ server # "exited"
        /\ stdin' = Append(stdin, Msg(plan[pos].type, pos))
    BY <1>1, <1>6 DEF UploadHeader, AtItem, ToServer, serverVars
  <2>. DEFINE m == Msg(plan[pos].type, pos)
  <2>2. m \in InMsgs /\ m.type = plan[pos].type /\ m.item = pos /\ m.type \in {"C", "D", "E"}
    BY <1>3, <2>1 DEF Msg
  <2>3. stdin # <<>> => Follows(Last(stdin), m)
    BY <1>1, <1>2, <2>1, <2>2 DEF SentLast, Follows, Header
  <2>. HIDE DEF m
  <2>4. stdin' # <<>> /\ Linked(stdin') /\ Last(stdin') = m
    BY <1>1, <1>2, <2>1, <2>2, <2>3, LinkedAppend DEF m
  <2>5. \/ m.type = "D" /\ client' = "dirAck" /\ pos' = pos
        \/ m.type = "C" /\ client' = "fileAck" /\ pos' = pos
        \/ m.type = "E" /\ client' = "next" /\ pos' = pos + 1
    BY <1>6, <2>2 DEF UploadHeader
  <2>6. SentLast(Last(stdin))'
    BY <1>1, <2>2, <2>4, <2>5 DEF SentLast
  <2>7. SentAll'
    BY <2>5 DEF SentAll
  <2>. QED
    BY <2>4, <2>6, <2>7 DEF Linked
<1>7. CASE FileAcked
  <2>1. /\ client = "fileAck" /\ pos \in 1 .. Len(plan) /\ plan[pos].type = "C"
        /\ server # "exited" /\ pos' = pos
    BY <1>1, <1>7 DEF FileAcked, StageInv, serverVars, AfterData
  <2>2. stdin # <<>> => /\ Last(stdin).item = pos /\ Last(stdin).type = "C"
    BY <1>2, <2>1 DEF SentLast
  <2>3. ASSUME stdin' = stdin \o <<Msg("data", pos), EndOf(pos)>>, client' = "dataAck"
        PROVE  /\ Linked(stdin)'
               /\ stdin' # <<>> => SentLast(Last(stdin))'
               /\ SentAll'
    <3>1. Msg("data", pos) \in InMsgs /\ EndOf(pos) \in InMsgs
      BY <1>3, <2>1
    <3>2. stdin # <<>> => Follows(Last(stdin), Msg("data", pos))
      BY <2>2 DEF Follows, Msg
    <3>. DEFINE one == Append(stdin, Msg("data", pos))
    <3>3. one \in Seq(InMsgs) /\ Linked(one) /\ Last(one) = Msg("data", pos)
      BY <1>1, <1>2, <2>1, <3>1, <3>2, LinkedAppend
    <3>4. Follows(Last(one), EndOf(pos))
      BY <3>3 DEF Follows, Msg, EndOf
    <3>5. stdin' = Append(one, EndOf(pos))
      BY <1>1, <2>3, <3>1, ConcatTwo
    <3>. HIDE DEF one
    <3>6. stdin' # <<>> /\ Linked(stdin') /\ Last(stdin') = EndOf(pos)
      BY <3>1, <3>3, <3>4, <3>5, LinkedAppend
    <3>7. SentLast(Last(stdin))' /\ SentAll'
      BY <2>1, <2>3, <3>6 DEF SentLast, SentAll, EndOf, Msg
    <3>. QED
      BY <3>6, <3>7 DEF Linked
  <2>4. ASSUME stdin' = Append(stdin, Msg("part", pos)), client' \in {"close", "done"}
        PROVE  /\ Linked(stdin)'
               /\ stdin' # <<>> => SentLast(Last(stdin))'
               /\ SentAll'
    <3>1. Msg("part", pos) \in InMsgs
      BY <1>3, <2>1
    <3>2. stdin # <<>> => Follows(Last(stdin), Msg("part", pos))
      BY <2>2 DEF Follows, Msg
    <3>3. stdin' # <<>> /\ Linked(stdin') /\ Last(stdin') = Msg("part", pos)
      BY <1>1, <1>2, <2>1, <2>4, <3>1, <3>2, LinkedAppend
    <3>4. SentLast(Last(stdin))' /\ SentAll'
      BY <2>1, <2>4, <3>3 DEF SentLast, SentAll, Msg
    <3>. QED
      BY <3>3, <3>4 DEF Linked
  <2>. QED
    BY <1>7, <2>3, <2>4 DEF FileAcked, ToServer, AfterData, AfterEOF, Fail
<1>8. CASE DirAcked \/ DataAcked
  <2>1. /\ server # "exited" /\ stdin' = stdin
        /\ client = "dirAck" \/ client = "dataAck"
        /\ (client' = "next" /\ pos' = pos + 1) \/ client' = "done"
    BY <1>8 DEF DirAcked, DataAcked, Fail, serverVars
  <2>2. stdin # <<>> => Last(stdin).item = pos /\ Last(stdin).type \in {"D", "ok"}
    BY <1>2, <2>1 DEF SentLast
  <2>3. Linked(stdin)' /\ Last(stdin)' = Last(stdin)
    BY <1>2, <2>1 DEF Linked, Last
  <2>. QED
    BY <1>1, <2>1, <2>2, <2>3 DEF SentLast, SentAll
<1>9. CASE UploadDone \/ CallbackDone
  <2>1. /\ server # "exited" /\ stdin' = stdin /\ pos' = pos
        /\ \/ client = "next" /\ client' = "close" /\ pos > Len(plan)
           \/ client = "close" /\ client' = "wait"
    BY <1>9 DEF UploadDone, CallbackDone, serverVars
  <2>2. Linked(stdin)' /\ Last(stdin)' = Last(stdin)
    BY <1>2, <2>1 DEF Linked, Last
  <2>3. stdin' # <<>> => SentLast(Last(stdin))'
    BY <1>1, <1>2, <2>1, <2>2 DEF SentLast
  <2>4. SentAll'
    BY <1>1, <1>2, <2>1, <2>2 DEF SentAll
  <2>. QED
    BY <2>2, <2>3, <2>4
<1>10. CASE Begin \/ ReadErr \/ UploadOpenFails
  <2>1. /\ server # "exited" /\ stdin' = stdin /\ pos' = pos
        /\ client' = "done" \/ (client = "begin" /\ client' = "next" /\ stdin = <<>>)
    BY <1>1, <1>10 DEF Begin, ReadErr, UploadOpenFails, Fail, StageInv, serverVars
  <2>2. Linked(stdin)' /\ Last(stdin)' = Last(stdin)
    BY <1>2, <2>1 DEF Linked, Last
  <2>. QED
    BY <1>1, <2>1, <2>2 DEF SentLast, SentAll
<1>11. CASE SinkHeader \/ SinkDirEnd \/ SinkData \/ SinkDataEnd
  <2>1. /\ stdin # <<>> /\ stdin' = Tail(stdin) /\ Head(stdin).type # "part"
        /\ UNCHANGED <<client, pos>> /\ server # "exited"
    BY <1>11 DEF SinkHeader, SinkDirEnd, SinkData, SinkDataEnd, TakesType
  <2>. QED
    BY <1>5, <2>1
<1>12. CASE SinkStarts \/ UNCHANGED vars
  BY <1>4, <1>12 DEF SinkStarts, vars, serverVars
<1>13. CASE \/ Ask \/ HeaderC \/ HeaderD \/ HeaderE \/ Content \/ StatusOk
            \/ SourceStarts \/ SourceHeader \/ SourceData \/ SourceAcked \/ SourceEnds
  BY <1>1, <1>13 DEF StageInv, Ask, HeaderC, HeaderD, HeaderE, Content, StatusOk, HeaderIs,
     SourceStarts, SourceHeader, SourceData, SourceAcked, SourceEnds, Sink
<1>14. CASE \/ ReadEOF \/ SessionWait \/ ServerDies \/ SinkStray \/ SinkEOF \/ Ended
  BY <1>4, <1>14 DEF ReadEOF, SessionWait, ServerDies, SinkStray, SinkEOF, Exits, Ended,
     serverVars, vars
<1>. QED
  BY <1>6, <1>7, <1>8, <1>9, <1>10, <1>11, <1>12, <1>13, <1>14 DEF Next, Client, Server

-----------------------------------------------------------------------------
(* The upload: what the server has stored                                   *)

\* The item whose header the server gets next.
NextHeader(p) ==
    /\ stdin # <<>> => Head(stdin).type \in Header /\ Head(stdin).item = p
    /\ stdin = <<>> =>
           \/ client \in {"begin", "next", "close", "wait"} /\ p = pos
           \/ client \in {"dirAck", "dataAck"} /\ p = pos + 1

\* The server has stored what comes before item p, and is about to deal with it.
SinkAt(p) ==
    /\ dirs = OpenDirs[p - 1]
    /\ server \in {"start", "line"} => NextHeader(p) /\ store = StoredHere(p)
    /\ server \in {"data", "end"} => file = p
    /\ server = "data" =>
           /\ store = StoredHere(p) /\ ~bad
           /\ stdin # <<>> => Head(stdin).type \in {"data", "part"} /\ Head(stdin).item = p
           /\ stdin = <<>> => client = "fileAck" /\ pos = p
    /\ server = "end" =>
           /\ stdin # <<>> /\ Head(stdin) = EndOf(p)
           /\ bad \/ store = StoredHere(p + 1)

UpInv ==
    kind = "upload" /\ result # "error" =>
        /\ server # "exited" /\ ~errs => \E p \in 1 .. Len(plan) + 1 : SinkAt(p)
        /\ exit = "zero" => store = Expected

LEMMA UpInvInit == Init => UpInv
<1>. SUFFICES ASSUME Init PROVE UpInv
  OBVIOUS
<1>1. plan \in Seq(Item) /\ Len(plan) \in Nat
  BY PlanIsWalk DEF Init
<1>2. OpenDirs[1 - 1] = <<>> /\ StoredHere(1) = {}
  BY <1>1, DirsUnfold, HereFirst DEF OpenDirs
<1>3. SinkAt(1)
  BY <1>2 DEF Init, SinkAt, NextHeader
<1>. QED
  BY <1>1, <1>3 DEF UpInv, Init

\* What follows the message that the server takes.
LEMMA UpNext ==
    ASSUME TypeInv, UpStream, kind = "upload", server # "exited", stdin # <<>>
    PROVE  /\ Tail(stdin) # <<>> => Follows(Head(stdin), Head(Tail(stdin)))
           /\ Tail(stdin) = <<>> => SentLast(Head(stdin))
           /\ result # "error" =>
                  client \in {"next", "dirAck", "fileAck", "dataAck", "close", "wait"}
<1>1. stdin \in Seq(InMsgs) /\ Linked(stdin) /\ SentLast(Last(stdin))
  BY DEF TypeInv, StreamTypes, UpStream
<1>2. result # "error" =>
          client \in {"next", "dirAck", "fileAck", "dataAck", "close", "wait"}
  BY DEF TypeInv, ControlTypes, StageInv, Reading
<1>. QED
  BY <1>1, <1>2, LinkedTail

\* Every item of the walk leads from one stack of directories to the next.
LEMMA PlanStep ==
    ASSUME plan \in Plans, NEW p \in 1 .. Len(plan)
    PROVE  /\ plan[p].type \in {"C", "D", "E"} /\ OpenDirs[p - 1] \in Seq(Names)
           /\ plan[p].type = "D" => OpenDirs[p] = Append(OpenDirs[p - 1], plan[p].name)
           /\ plan[p].type = "E" => OpenDirs[p - 1] # <<>> /\ OpenDirs[p] = Front(OpenDirs[p - 1])
           /\ plan[p].type = "C" => /\ OpenDirs[p] = OpenDirs[p - 1]
                                    /\ PathOf(p) = Append(OpenDirs[p - 1], plan[p].name)
BY PlanIsWalk, WalkStep DEF OpenDirs, PathOf

\* One step of the server, which has met no error yet.
LEMMA UpServerStep ==
    ASSUME TypeInv, UpStream, [Next]_vars, kind = "upload", result # "error",
           Server, NEW p \in 1 .. Len(plan) + 1, SinkAt(p), ~errs
    PROVE  /\ server' # "exited" /\ ~errs' => \E q \in 1 .. Len(plan) + 1 : SinkAt(q)'
           /\ exit' = "zero" => store' = Expected
<1>1. /\ plan' = plan /\ plan \in Plans /\ Len(plan) \in Nat
      /\ OpenDirs' = OpenDirs /\ \A i : StoredHere(i)' = StoredHere(i)
      /\ StageInv /\ ControlTypes
  BY SessionFixed, PlanIsWalk DEF TypeInv
<1>2. /\ client \in {"begin", "next", "dirAck", "fileAck", "dataAck", "close", "wait", "done"}
      /\ client = "done" => server = "exited"
      /\ result' = result
  BY <1>1 DEF StageInv, ControlTypes, Reading, Server, SinkStarts, SinkHeader, SinkDirEnd,
     SinkStray, SinkData, SinkDataEnd, SinkEOF, Sink, SourceStarts, SourceHeader, SourceData,
     SourceAcked, SourceEnds
<1>3. CASE SinkStarts
  <2>1. SinkAt(p)'
    BY <1>1, <1>3 DEF SinkStarts, SinkAt, NextHeader, sinkVars
  <2>. QED
    BY <1>1, <1>3, <2>1 DEF SinkStarts, StageInv, ControlTypes
<1>4. CASE SinkHeader
  <2>1. /\ server = "line" /\ stdin # <<>> /\ stdin' = Tail(stdin)
        /\ Head(stdin).type \in {"C", "D"} /\ NextHeader(p) /\ store' = StoredHere(p)
        /\ dirs = OpenDirs[p - 1] /\ UNCHANGED <<client, pos, exit>>
    BY <1>4 DEF SinkHeader, SinkAt
  <2>2. p = Head(stdin).item /\ p \in 1 .. Len(plan) /\ plan[p].type = Head(stdin).type
    BY <2>1, HeadItem DEF NextHeader, InMsgs, Header
  <2>3. /\ Tail(stdin) # <<>> => Follows(Head(stdin), Head(Tail(stdin)))
        /\ Tail(stdin) = <<>> => SentLast(Head(stdin))
        /\ client \in {"next", "dirAck", "fileAck", "dataAck", "close", "wait"}
    BY <2>1, UpNext
  <2>4. ASSUME errs' = errs, plan[p].type = "C", file' = p, bad' = FALSE, server' = "data",
               dirs' = dirs
        PROVE  SinkAt(p)'
    <3>1. stdin' # <<>> => Head(stdin').type \in {"data", "part"} /\ Head(stdin').item = p
      BY <2>1, <2>2, <2>3, <2>4 DEF Follows
    <3>2. stdin' = <<>> => client' = "fileAck" /\ pos' = p
      BY <2>1, <2>2, <2>3, <2>4 DEF SentLast
    <3>. QED
      BY <1>1, <2>1, <2>4, <3>1, <3>2 DEF SinkAt
  <2>5. ASSUME errs' = errs, plan[p].type = "D", dirs' = Append(dirs, plan[p].name),
               server' = server
        PROVE  SinkAt(p + 1)'
    <3>1. NextHeader(p + 1)'
      <4>1. stdin' # <<>> => Head(stdin').type \in Header /\ Head(stdin').item = p + 1
        BY <2>1, <2>2, <2>3, <2>5 DEF Follows
      <4>2. stdin' = <<>> => \/ client' \in {"next", "close", "wait"} /\ p + 1 = pos'
                             \/ client' = "dirAck" /\ p + 1 = pos' + 1
        BY <1>1, <2>1, <2>2, <2>3, <2>5, SMTT(30) DEF SentLast, ControlTypes
      <4>. QED
        BY <4>1, <4>2 DEF NextHeader
    <3>2. dirs' = OpenDirs[(p + 1) - 1]
      <4>1. (p + 1) - 1 = p
        OBVIOUS
      <4>. QED
        BY <1>1, <2>1, <2>2, <2>5, <4>1, PlanStep
    <3>3. store' = StoredHere(p + 1)
      BY <1>1, <2>1, <2>2, <2>5, HereOther
    <3>. QED
      BY <1>1, <2>1, <2>5, <3>1, <3>2, <3>3 DEF SinkAt
  <2>6. p + 1 \in 1 .. Len(plan) + 1
    BY <1>1, <2>2
  <2>7. exit' # "zero"
    BY <1>1, <2>1 DEF ControlTypes
  <2>. QED
    BY <1>4, <2>2, <2>4, <2>5, <2>6, <2>7 DEF SinkHeader
<1>5. CASE SinkDirEnd
  <2>1. /\ server = "line" /\ stdin # <<>> /\ stdin' = Tail(stdin)
        /\ Head(stdin).type = "E" /\ NextHeader(p) /\ store' = StoredHere(p)
        /\ dirs = OpenDirs[p - 1] /\ UNCHANGED <<client, pos>>
    BY <1>5 DEF SinkDirEnd, TakesType, SinkAt
  <2>2. p = Head(stdin).item /\ p \in 1 .. Len(plan) /\ plan[p].type = "E"
    BY <2>1, HeadItem DEF NextHeader, InMsgs, Header
  <2>3. /\ Tail(stdin) # <<>> => Follows(Head(stdin), Head(Tail(stdin)))
        /\ Tail(stdin) = <<>> => SentLast(Head(stdin))
        /\ client \in {"next", "dirAck", "fileAck", "dataAck", "close", "wait"}
    BY <2>1, UpNext
  <2>4. dirs # <<>> /\ Front(dirs) = OpenDirs[p]
    BY <1>1, <2>1, <2>2, PlanStep
  <2>5. dirs' = Front(dirs) /\ server' = "line" /\ exit' = exit
    BY <1>5, <2>1, <2>4 DEF SinkDirEnd
  <2>6. NextHeader(p + 1)'
    <3>1. stdin' # <<>> => Head(stdin').type \in Header /\ Head(stdin').item = p + 1
      BY <2>1, <2>2, <2>3 DEF Follows
    <3>2. stdin' = <<>> => client' \in {"next", "close", "wait"} /\ p + 1 = pos'
      BY <1>1, <2>1, <2>2, <2>3 DEF SentLast, ControlTypes
    <3>. QED
      BY <3>1, <3>2 DEF NextHeader
  <2>7. (p + 1) - 1 = p /\ p + 1 \in 1 .. Len(plan) + 1
    BY <1>1, <2>2
  <2>8. store' = StoredHere(p + 1)
    BY <1>1, <2>1, <2>2, HereOther
  <2>9. SinkAt(p + 1)'
    BY <1>1, <2>4, <2>5, <2>6, <2>7, <2>8 DEF SinkAt
  <2>. QED
    BY <1>1, <2>1, <2>5, <2>7, <2>9 DEF ControlTypes
<1>6. CASE SinkData
  <2>1. /\ server = "data" /\ server' = "end" /\ stdin # <<>> /\ stdin' = Tail(stdin)
        /\ Head(stdin).type = "data" /\ Head(stdin).item = p /\ store = StoredHere(p)
        /\ dirs = OpenDirs[p - 1] /\ file = p /\ UNCHANGED <<client, pos, dirs, file, exit>>
    BY <1>6 DEF SinkData, TakesType, SinkAt
  <2>2. p \in 1 .. Len(plan) /\ plan[p].type = "C"
    BY <1>1, <2>1 DEF StageInv, TypeInv, SinkTypes
  <2>3. /\ Tail(stdin) # <<>> => Follows(Head(stdin), Head(Tail(stdin)))
        /\ Tail(stdin) = <<>> => SentLast(Head(stdin))
        /\ client \in {"next", "dirAck", "fileAck", "dataAck", "close", "wait"}
    BY <2>1, UpNext
  <2>4. stdin' # <<>>
    BY <2>1, <2>3 DEF SentLast
  <2>5. Head(stdin') = EndOf(p)
    <3>1. Head(stdin') \in InMsgs
      <4>1. stdin \in Seq(InMsgs) /\ stdin' \in Seq(InMsgs)
        BY <2>1, HeadTailProperties DEF TypeInv, StreamTypes
      <4>. QED
        BY <2>4, <4>1, HeadTailProperties
    <3>2. Head(stdin').type = "ok" /\ Head(stdin').item = p
      BY <2>1, <2>3, <2>4 DEF Follows
    <3>3. Head(stdin') \in Messages
      BY <3>1 DEF InMsgs
    <3>. QED
      BY <3>2, <3>3 DEF Messages, EndOf, Msg
  <2>6. bad' \/ store' = StoredHere(p + 1)
    <3>1. NodePath = TargetPath(p)
      BY <1>1, <2>1, <2>2, PlanStep DEF NodePath, TargetPath
    <3>2. Put(NodePath, file) \/ bad'
      BY <1>6 DEF SinkData
    <3>3. Put(NodePath, file) => store' = StoredHere(p + 1)
      BY <1>1, <2>1, <2>2, <3>1, HereFile DEF Put
    <3>. QED
      BY <3>2, <3>3
  <2>7. SinkAt(p)'
    BY <1>1, <2>1, <2>4, <2>5, <2>6 DEF SinkAt, EndOf, Msg
  <2>. QED
    BY <1>1, <2>1, <2>7 DEF ControlTypes
<1>7. CASE SinkDataEnd
  <2>1. /\ server = "end" /\ server' = "line" /\ stdin # <<>> /\ stdin' = Tail(stdin)
        /\ Head(stdin) = EndOf(p) /\ (bad \/ store = StoredHere(p + 1))
        /\ dirs = OpenDirs[p - 1] /\ file = p /\ UNCHANGED <<client, pos, dirs, file, exit, store>>
    BY <1>7 DEF SinkDataEnd, TakesType, SinkAt, sinkVars
  <2>2. p \in 1 .. Len(plan) /\ plan[p].type = "C"
    BY <1>1, <2>1 DEF StageInv, TypeInv, SinkTypes
  <2>3. /\ Tail(stdin) # <<>> => Follows(Head(stdin), Head(Tail(stdin)))
        /\ Tail(stdin) = <<>> => SentLast(Head(stdin))
        /\ client \in {"next", "dirAck", "fileAck", "dataAck", "close", "wait"}
    BY <2>1, UpNext
  <2>9. Head(stdin).type = "ok" /\ Head(stdin).item = p
    BY <2>1 DEF EndOf, Msg
  <2>4. NextHeader(p + 1)'
    <3>1. stdin' # <<>> => Head(stdin').type \in Header /\ Head(stdin').item = p + 1
      BY <2>1, <2>3, <2>9 DEF Follows
    <3>2. stdin' = <<>> => \/ client' \in {"next", "close", "wait"} /\ p + 1 = pos'
                           \/ client' = "dataAck" /\ p + 1 = pos' + 1
      BY <1>1, <2>1, <2>3, <2>9 DEF SentLast, ControlTypes
    <3>. QED
      BY <3>1, <3>2 DEF NextHeader
  <2>5. (p + 1) - 1 = p /\ p + 1 \in 1 .. Len(plan) + 1
    BY <1>1, <2>2
  <2>6. dirs' = OpenDirs[(p + 1) - 1]
    BY <1>1, <2>1, <2>2, <2>5, PlanStep
  <2>7. ~errs' => store' = StoredHere(p + 1)
    BY <1>7, <2>1 DEF SinkDataEnd
  <2>8. ~errs' => SinkAt(p + 1)'
    BY <1>1, <2>1, <2>4, <2>6, <2>7 DEF SinkAt
  <2>. QED
    BY <1>1, <2>1, <2>5, <2>8 DEF ControlTypes
<1>8. CASE SinkEOF
  <2>1. CASE server = "data"
    BY <1>8, <2>1 DEF SinkEOF, Exits
  <2>2. CASE server = "line"
    <3>1. stdin = <<>> /\ ~open /\ store' = store /\ NextHeader(p) /\ store = StoredHere(p)
      BY <1>8, <2>2 DEF SinkEOF, Closed, SinkAt
    <3>2. client \in {"close", "wait"}
      BY <1>1, <1>2, <2>2, <3>1 DEF StageInv, Reading
    <3>3. p = Len(plan) + 1
      BY <2>2, <3>1, <3>2 DEF NextHeader, UpStream, SentAll
    <3>4. store' = Expected
      BY <1>1, <3>1, <3>3, HereAll
    <3>. QED
      BY <1>8, <3>4 DEF SinkEOF, Exits
  <2>. QED
    BY <1>8, <2>1, <2>2 DEF SinkEOF
<1>9. CASE SinkStray
  BY <1>9 DEF SinkStray, Exits
<1>10. CASE SourceStarts \/ SourceHeader \/ SourceData \/ SourceAcked \/ SourceEnds
  BY <1>10 DEF SourceStarts, SourceHeader, SourceData, SourceAcked, SourceEnds, Sink
<1>. QED
  BY <1>3, <1>4, <1>5, <1>6, <1>7, <1>8, <1>9, <1>10 DEF Server

\* The message that follows the header of a file.
LEMMA FileHead ==
    ASSUME stdin \in Seq(InMsgs), kind = "upload",
           pos \in 1 .. Len(plan), plan[pos].type = "C",
           \/ stdin' = stdin \o <<Msg("data", pos), EndOf(pos)>>
           \/ stdin' = Append(stdin, Msg("part", pos))
    PROVE  \E m \in {Msg("data", pos), Msg("part", pos)} :
               stdin' # <<>> /\ Head(stdin') = IF stdin = <<>> THEN m ELSE Head(stdin)
<1>1. Msg("data", pos) \in InMsgs /\ EndOf(pos) \in InMsgs /\ Msg("part", pos) \in InMsgs
  BY DEF InMsgs, Messages, Msg, EndOf
<1>2. CASE stdin' = Append(stdin, Msg("part", pos))
  <2>1. stdin' # <<>> /\ Head(stdin') = IF stdin = <<>> THEN Msg("part", pos) ELSE Head(stdin)
    BY <1>1, <1>2, HeadTailAppend
  <2>. QED
    BY <2>1
<1>3. CASE stdin' = stdin \o <<Msg("data", pos), EndOf(pos)>>
  <2>. DEFINE one == Append(stdin, Msg("data", pos))
  <2>1. /\ one \in Seq(InMsgs) /\ one # <<>>
        /\ Head(one) = IF stdin = <<>> THEN Msg("data", pos) ELSE Head(stdin)
    BY <1>1, HeadTailAppend, AppendProperties
  <2>2. stdin' = Append(one, EndOf(pos))
    BY <1>1, <1>3, ConcatTwo
  <2>. HIDE DEF one
  <2>3. stdin' # <<>> /\ Head(stdin') = Head(one)
    BY <1>1, <2>1, <2>2, HeadTailAppend, AppendProperties
  <2>. QED
    BY <2>1, <2>3
<1>. QED
  BY <1>2, <1>3

\* The server stores the files in the order of the walk.
LEMMA UpInvStep ==
    ASSUME TypeInv, UpStream, UpInv, [Next]_vars
    PROVE  UpInv'
<1>. SUFFICES ASSUME kind' = "upload", result' # "error"
              PROVE  /\ server' # "exited" /\ ~errs' => \E p \in 1 .. Len(plan) + 1 : SinkAt(p)'
                     /\ exit' = "zero" => store' = Expected
  <2>1. plan' = plan /\ Expected' = Expected
    BY SessionFixed
  <2>. QED
    BY <2>1 DEF UpInv
<1>1. /\ kind = "upload" /\ plan' = plan /\ plan \in Plans /\ Len(plan) \in Nat
      /\ OpenDirs' = OpenDirs /\ \A i : StoredHere(i)' = StoredHere(i)
      /\ StageInv /\ ControlTypes /\ stdin \in Seq(InMsgs)
  BY SessionFixed, PlanIsWalk DEF TypeInv, StreamTypes
<1>2. ASSUME result # "error"
      PROVE  /\ server # "exited" /\ ~errs => \E p \in 1 .. Len(plan) + 1 : SinkAt(p)
             /\ exit = "zero" => store = Expected
  BY <1>1, <1>2 DEF UpInv
<1>3. CASE Server
  <2>1. result # "error"
    BY <1>3 DEF Server, SinkStarts, SinkHeader, SinkDirEnd, SinkStray, SinkData, SinkDataEnd,
       SinkEOF, SourceStarts, SourceHeader, SourceData, SourceAcked, SourceEnds
  <2>2. CASE errs
    <3>1. errs' /\ (exit' = exit \/ exit' \in {"nonzero", "missing"})
      BY <1>1, <1>3, <2>2 DEF Server, SinkStarts, SinkHeader, SinkDirEnd, SinkStray, SinkData,
         SinkDataEnd, SinkEOF, SourceStarts, SourceHeader, SourceData, SourceAcked, SourceEnds,
         Exits, Sink
    <3>2. server # "exited"
      BY <1>3 DEF Server, SinkStarts, SinkHeader, SinkDirEnd, SinkStray, SinkData, SinkDataEnd,
         SinkEOF, SourceStarts, SourceHeader, SourceData, SourceAcked, SourceEnds
    <3>. QED
      BY <1>1, <3>1, <3>2 DEF ControlTypes
  <2>3. CASE ~errs
    <3>1. server # "exited"
      BY <1>3 DEF Server, SinkStarts, SinkHeader, SinkDirEnd, SinkStray, SinkData, SinkDataEnd,
         SinkEOF, SourceStarts, SourceHeader, SourceData, SourceAcked, SourceEnds
    <3>2. PICK p \in 1 .. Len(plan) + 1 : SinkAt(p)
      BY <1>2, <2>1, <2>3, <3>1
    <3>. QED
      BY <1>1, <1>3, <2>1, <2>3, <3>2, UpServerStep
  <2>. QED
    BY <2>2, <2>3
<1>4. CASE ServerDies
  BY <1>4 DEF ServerDies
<1>5. ASSUME UNCHANGED <<sinkVars, serverVars>>, result # "error",
             \A p \in 1 .. Len(plan) + 1 : server # "exited" /\ SinkAt(p) => SinkAt(p)'
      PROVE  /\ server' # "exited" /\ ~errs' => \E p \in 1 .. Len(plan) + 1 : SinkAt(p)'
             /\ exit' = "zero" => store' = Expected
  BY <1>2, <1>5 DEF sinkVars, serverVars
<1>6. CASE Begin
  <2>1. /\ UNCHANGED <<sinkVars, serverVars, stdin, pos>> /\ result # "error"
        /\ client = "begin" /\ client' = "next"
    BY <1>1, <1>6 DEF Begin, Fail
  <2>. QED
    BY <1>1, <1>5, <2>1 DEF SinkAt, NextHeader, sinkVars, serverVars
<1>7. CASE UploadHeader
  <2>1. /\ UNCHANGED <<sinkVars, serverVars>> /\ result # "error"
        /\ client = "next" /\ pos \in 1 .. Len(plan)
        /\ stdin' = Append(stdin, Msg(plan[pos].type, pos))
    BY <1>1, <1>7 DEF UploadHeader, AtItem, ToServer, ControlTypes
  <2>2. Msg(plan[pos].type, pos).type \in Header /\ Msg(plan[pos].type, pos).item = pos
    BY <1>1, <2>1, PlanStep DEF Msg, Header
  <2>3. stdin' # <<>> /\ Head(stdin') = IF stdin = <<>> THEN Msg(plan[pos].type, pos) ELSE Head(stdin)
    BY <1>1, <2>1, HeadTailAppend
  <2>4. ASSUME NEW p \in 1 .. Len(plan) + 1, server # "exited", SinkAt(p)
        PROVE  SinkAt(p)'
    <3>1. CASE stdin = <<>>
      <4>1. server \in {"start", "line"} => NextHeader(p)'
        BY <2>1, <2>2, <2>3, <2>4, <3>1 DEF SinkAt, NextHeader
      <4>. QED
        BY <1>1, <2>1, <2>3, <2>4, <3>1, <4>1 DEF SinkAt, sinkVars, serverVars
    <3>2. CASE stdin # <<>>
      BY <1>1, <2>1, <2>3, <2>4, <3>2 DEF SinkAt, NextHeader, sinkVars, serverVars
    <3>. QED
      BY <3>1, <3>2
  <2>. QED
    BY <1>5, <2>1, <2>4
<1>8. CASE FileAcked
  <2>1. /\ UNCHANGED <<sinkVars, serverVars>> /\ result # "error" /\ pos' = pos
        /\ client = "fileAck" /\ pos \in 1 .. Len(plan) /\ plan[pos].type = "C"
        /\ \/ stdin' = stdin \o <<Msg("data", pos), EndOf(pos)>>
           \/ stdin' = Append(stdin, Msg("part", pos))
    <3>1. client = "fileAck" /\ pos \in 1 .. Len(plan) /\ plan[pos].type = "C"
      BY <1>1, <1>8 DEF FileAcked, StageInv, ControlTypes
    <3>. QED
      BY <1>8, <3>1 DEF FileAcked, AfterData, AfterEOF, Fail, ToServer
  <2>3. PICK m \in {Msg("data", pos), Msg("part", pos)} :
            stdin' # <<>> /\ Head(stdin') = IF stdin = <<>> THEN m ELSE Head(stdin)
    BY <1>1, <2>1, FileHead
  <2>4. m.type \in {"data", "part"} /\ m.item = pos
    BY DEF Msg
  <2>5. ASSUME NEW p \in 1 .. Len(plan) + 1, server # "exited", SinkAt(p)
        PROVE  SinkAt(p)'
    <3>1. CASE stdin = <<>>
      <4>1. server = "data" /\ p = pos
        BY <1>1, <2>1, <2>5, <3>1 DEF SinkAt, NextHeader, ControlTypes, StageInv
      <4>. QED
        BY <1>1, <2>1, <2>3, <2>4, <2>5, <3>1, <4>1 DEF SinkAt, sinkVars, serverVars
    <3>2. CASE stdin # <<>>
      BY <1>1, <2>1, <2>3, <2>5, <3>2 DEF SinkAt, NextHeader, sinkVars, serverVars
    <3>. QED
      BY <3>1, <3>2
  <2>. QED
    BY <1>5, <2>1, <2>5
<1>9. CASE DirAcked \/ DataAcked
  <2>1. /\ UNCHANGED <<sinkVars, serverVars, stdin>> /\ result # "error"
        /\ client \in {"dirAck", "dataAck"} /\ client' = "next" /\ pos' = pos + 1
    BY <1>1, <1>9 DEF DirAcked, DataAcked, Fail
  <2>. QED
    BY <1>1, <1>5, <2>1 DEF SinkAt, NextHeader, sinkVars, serverVars
<1>10. CASE UploadDone \/ CallbackDone
  <2>1. /\ UNCHANGED <<sinkVars, serverVars, stdin, pos>> /\ result # "error"
        /\ \/ client = "next" /\ client' = "close"
           \/ client = "close" /\ client' = "wait"
    BY <1>1, <1>10 DEF UploadDone, CallbackDone
  <2>. QED
    BY <1>1, <1>5, <2>1 DEF SinkAt, NextHeader, sinkVars, serverVars
<1>11. CASE ReadErr \/ UploadOpenFails
  BY <1>11 DEF ReadErr, UploadOpenFails, Fail
<1>12. CASE ReadEOF \/ SessionWait
  <2>1. server' = "exited" /\ store' = store /\ exit' = exit /\ result # "error"
    BY <1>1, <1>12 DEF ReadEOF, AfterEOF, SessionWait, StageInv, serverVars, sinkVars
  <2>. QED
    BY <1>2, <2>1
<1>13. CASE Ask \/ HeaderC \/ HeaderD \/ HeaderE \/ Content \/ StatusOk
  BY <1>1, <1>13 DEF StageInv, Ask, HeaderC, HeaderD, HeaderE, Content, StatusOk, HeaderIs
<1>14. CASE UNCHANGED vars
  BY <1>1, <1>5, <1>14 DEF SinkAt, NextHeader, vars, sinkVars, serverVars
<1>. QED
  BY <1>3, <1>4, <1>6, <1>7, <1>8, <1>9, <1>10, <1>11, <1>12, <1>13, <1>14
     DEF Next, Client, Ended

-----------------------------------------------------------------------------
(* The answers                                                              *)

\* The answers that the client reads before it sends item j.
Answers(j) == 2 * Count("C", 1, j) + Count("D", 1, j)

\* The answers the server gives before the one to the header of item i.
Before(i) == 1 + Answers(i) + Count("E", 1, i)

\* The answers the server has given when it is about to take message m.
Due(m) == Before(m.item) + (IF m.type \in Header THEN 0 ELSE 1)

AnswersRead == Answers(pos) + (IF client = "dataAck" THEN 1 ELSE 0)
Promised == AnswersRead + Len(stdout) + (IF server = "start" THEN 1 ELSE 0)

\* The client has not stopped sending.
Sending == {"begin", "next", "dirAck", "fileAck", "dataAck"}

\* While the client goes on, the answers given and read are exactly those that
\* are due; when it has stopped it may have read an error that is not counted.
AnswerInv ==
    kind = "upload" /\ server # "exited" =>
        /\ stdin # <<>> => /\ Promised <= Due(Head(stdin))
                           /\ client \in Sending => Promised = Due(Head(stdin))
        /\ stdin = <<>> =>
               /\ client \in {"begin", "next"} => Promised = Before(pos)
               /\ client \in {"dirAck", "dataAck"} => Promised = Before(pos + 1)
               /\ client = "fileAck" => Promised = Before(pos) + 1

LEMMA AnswersType ==
    ASSUME NEW i \in Int
    PROVE  Answers(i) \in Nat /\ Before(i) \in Nat
<1>1. Count("C", 1, i) \in Nat /\ Count("D", 1, i) \in Nat /\ Count("E", 1, i) \in Nat
  BY CountType
<1>. QED
  BY <1>1 DEF Answers, Before

\* The answers that an item gets.
LEMMA AnswersStep ==
    ASSUME plan \in Plans, NEW i \in 1 .. Len(plan)
    PROVE  /\ plan[i].type = "C" => Answers(i + 1) = Answers(i) + 2 /\ Before(i + 1) = Before(i) + 2
           /\ plan[i].type = "D" => Answers(i + 1) = Answers(i) + 1 /\ Before(i + 1) = Before(i) + 1
           /\ plan[i].type = "E" => Answers(i + 1) = Answers(i) /\ Before(i + 1) = Before(i) + 1
<1>1. i \in Int /\ 1 <= i
  OBVIOUS
<1>2. ASSUME NEW t
      PROVE  /\ Count(t, 1, i) \in Nat
             /\ Count(t, 1, i + 1) = Count(t, 1, i) + (IF plan[i].type = t THEN 1 ELSE 0)
  <2>1. i \in Int /\ 1 \in Int /\ 1 <= i
    BY <1>1
  <2>2. Count(t, 1, i) \in Nat
    BY <2>1, CountType
  <2>3. Count(t, 1, i + 1) = Count(t, 1, i) + (IF plan[i].type = t THEN 1 ELSE 0)
    BY <2>1, CountStep
  <2>. QED
    BY <2>2, <2>3
<1>. DEFINE c == Count("C", 1, i)
            d == Count("D", 1, i)
            e == Count("E", 1, i)
<1>3. /\ c \in Nat /\ Count("C", 1, i + 1) = c + (IF plan[i].type = "C" THEN 1 ELSE 0)
      /\ d \in Nat /\ Count("D", 1, i + 1) = d + (IF plan[i].type = "D" THEN 1 ELSE 0)
      /\ e \in Nat /\ Count("E", 1, i + 1) = e + (IF plan[i].type = "E" THEN 1 ELSE 0)
  BY <1>2
<1>4. Answers(i) = 2 * c + d /\ Before(i) = 1 + (2 * c + d) + e
  BY DEF Answers, Before
<1>5. /\ Answers(i + 1) = 2 * Count("C", 1, i + 1) + Count("D", 1, i + 1)
      /\ Before(i + 1) = 1 + (2 * Count("C", 1, i + 1) + Count("D", 1, i + 1)) + Count("E", 1, i + 1)
  BY DEF Answers, Before
<1>. DEFINE c1 == Count("C", 1, i + 1)
            d1 == Count("D", 1, i + 1)
            e1 == Count("E", 1, i + 1)
            a1 == Answers(i + 1)
            b1 == Before(i + 1)
<1>6. a1 = 2 * c1 + d1 /\ b1 = 1 + (2 * c1 + d1) + e1
  BY <1>5
<1>7. /\ c1 = c + (IF plan[i].type = "C" THEN 1 ELSE 0)
      /\ d1 = d + (IF plan[i].type = "D" THEN 1 ELSE 0)
      /\ e1 = e + (IF plan[i].type = "E" THEN 1 ELSE 0)
  BY <1>3
<1>8. c \in Nat /\ d \in Nat /\ e \in Nat
  BY <1>3
<1>. HIDE DEF c, d, e, c1, d1, e1, a1, b1
<1>9. CASE plan[i].type = "C"
  <2>1. c1 = c + 1 /\ d1 = d /\ e1 = e
    BY <1>7, <1>8, <1>9
  <2>2. a1 = Answers(i) + 2 /\ b1 = Before(i) + 2
    BY <1>4, <1>6, <1>8, <2>1
  <2>. QED
    BY <1>9, <2>2 DEF a1, b1
<1>10. CASE plan[i].type = "D"
  <2>1. c1 = c /\ d1 = d + 1 /\ e1 = e
    BY <1>7, <1>8, <1>10
  <2>2. a1 = Answers(i) + 1 /\ b1 = Before(i) + 1
    BY <1>4, <1>6, <1>8, <2>1
  <2>. QED
    BY <1>10, <2>2 DEF a1, b1
<1>11. CASE plan[i].type = "E"
  <2>1. c1 = c /\ d1 = d /\ e1 = e + 1
    BY <1>7, <1>8, <1>11
  <2>2. a1 = Answers(i) /\ b1 = Before(i) + 1
    BY <1>4, <1>6, <1>8, <2>1
  <2>. QED
    BY <1>11, <2>2 DEF a1, b1
<1>. QED
  BY <1>9, <1>10, <1>11

LEMMA AnswerInvInit == Init => AnswerInv
<1>. SUFFICES ASSUME Init PROVE AnswerInv
  OBVIOUS
<1>1. stdin = <<>> /\ client = "begin" /\ pos = 1 /\ stdout = <<>> /\ server = "start"
  BY DEF Init
<1>2. Answers(1) = 0 /\ Before(1) = 1
  BY CountNone DEF Answers, Before
<1>3. Promised = 1
  BY <1>1, <1>2, EmptySeq DEF Promised, AnswersRead
<1>. QED
  BY <1>1, <1>2, <1>3 DEF AnswerInv

\* What the server takes is due before what follows it, by its own answer.
LEMMA DueNext ==
    ASSUME TypeInv, UpStream, kind = "upload", server # "exited",
           stdin # <<>>, Head(stdin).type # "part",
           NEW n \in Nat,
           n = Due(Head(stdin)) + (IF Head(stdin).type = "data" THEN 0 ELSE 1)
    PROVE  /\ Tail(stdin) # <<>> => n = Due(Head(Tail(stdin)))
           /\ Tail(stdin) = <<>> =>
                  /\ client = "next" => n = Before(pos)
                  /\ client \in {"dirAck", "dataAck"} => n = Before(pos + 1)
                  /\ client = "fileAck" => n = Before(pos) + 1
<1>1. /\ Tail(stdin) # <<>> => Follows(Head(stdin), Head(Tail(stdin)))
      /\ Tail(stdin) = <<>> => SentLast(Head(stdin))
  BY UpNext
<1>. DEFINE m == Head(stdin)
            i == m.item
<1>2. /\ plan \in Plans /\ Len(plan) \in Nat /\ i \in 1 .. Len(plan) /\ pos \in Int
      /\ m.type \in {"C", "D", "E", "data", "ok"}
      /\ m.type \in Header => plan[i].type = m.type
      /\ m.type \in {"data", "ok"} => plan[i].type = "C"
  BY HeadItem, PlanIsWalk DEF TypeInv, ControlTypes, InMsgs, Messages, Header
<1>8. \A j \in Int : Before(j) \in Nat
  BY AnswersType
<1>9. i \in Int /\ Before(i) \in Nat /\ Before(i + 1) \in Nat
  <2>1. i \in Int /\ i + 1 \in Int
    BY <1>2
  <2>. QED
    BY <1>8, <2>1
<1>3. /\ m.type \in Header => n = Before(i) + 1
      /\ m.type = "data" => n = Before(i) + 1
      /\ m.type = "ok" => n = Before(i) + 2
  BY <1>9 DEF Due, Header
<1>4. /\ plan[i].type \in {"D", "E"} => Before(i + 1) = Before(i) + 1
      /\ plan[i].type = "C" => Before(i + 1) = Before(i) + 2
  BY <1>2, AnswersStep
<1>. HIDE DEF m
<1>5. /\ m.type \in {"D", "E", "ok"} => n = Before(i + 1)
      /\ m.type \in {"C", "data"} => n = Before(i) + 1
  BY <1>2, <1>3, <1>4 DEF Header
<1>6. ASSUME Tail(stdin) # <<>>
      PROVE  n = Due(Head(Tail(stdin)))
  <2>. DEFINE k == Head(Tail(stdin))
  <2>1. Follows(m, k)
    BY <1>1, <1>6 DEF m
  <2>. HIDE DEF k
  <2>2. CASE k.type \in Header
    <3>1. m.type \in {"D", "E", "ok"} /\ k.item = i + 1
      BY <1>2, <2>1, <2>2 DEF Follows, Header
    <3>2. Due(k) = Before(i + 1)
      BY <1>9, <2>2, <3>1 DEF Due
    <3>. QED
      BY <1>5, <1>9, <3>1, <3>2 DEF k
  <2>3. CASE k.type \notin Header
    <3>1. m.type \in {"C", "data"} /\ k.item = i
      BY <1>2, <2>1, <2>3 DEF Follows
    <3>2. Due(k) = Before(i) + 1
      BY <2>3, <3>1 DEF Due
    <3>. QED
      BY <1>5, <1>9, <3>1, <3>2 DEF k
  <2>. QED
    BY <2>2, <2>3
<1>7. ASSUME Tail(stdin) = <<>>
      PROVE  /\ client = "next" => n = Before(pos)
             /\ client \in {"dirAck", "dataAck"} => n = Before(pos + 1)
             /\ client = "fileAck" => n = Before(pos) + 1
  <2>1. SentLast(m)
    BY <1>1, <1>7 DEF m
  <2>2. client = "next" => pos = i + 1 /\ m.type \in {"D", "E", "ok"}
    BY <1>2, <2>1 DEF SentLast
  <2>3. client \in {"dirAck", "dataAck"} => pos = i /\ m.type \in {"D", "E", "ok"}
    BY <2>1 DEF SentLast
  <2>4. client = "fileAck" => pos = i /\ m.type = "C"
    BY <2>1 DEF SentLast
  <2>. HIDE DEF i
  <2>. QED
    BY <1>5, <2>2, <2>3, <2>4
<1>. QED
  BY <1>6, <1>7

\* No step makes the server promise an answer too many.
LEMMA AnswerInvStep ==
    ASSUME TypeInv, UpStream, AnswerInv, [Next]_vars
    PROVE  AnswerInv'
<1>. DEFINE Read1 == Answers(pos') + (IF client' = "dataAck" THEN 1 ELSE 0)
            n == Read1 + Len(stdout') + (IF server' = "start" THEN 1 ELSE 0)
<1>. SUFFICES ASSUME kind' = "upload", server' # "exited"
              PROVE  /\ stdin' # <<>> => /\ n <= Due(Head(stdin'))
                                         /\ client' \in Sending => n = Due(Head(stdin'))
                     /\ stdin' = <<>> =>
                            /\ client' \in {"begin", "next"} => n = Before(pos')
                            /\ client' \in {"dirAck", "dataAck"} => n = Before(pos' + 1)
                            /\ client' = "fileAck" => n = Before(pos') + 1
  <2>1. plan' = plan
    BY SessionFixed
  <2>2. Promised' = n
    BY <2>1 DEF Promised, AnswersRead, Answers, Count
  <2>3. Before(pos)' = Before(pos') /\ Before(pos + 1)' = Before(pos' + 1)
    BY <2>1 DEF Before, Answers, Count
  <2>4. Due(Head(stdin))' = Due(Head(stdin'))
    BY <2>1 DEF Due, Before, Answers, Count
  <2>. QED
    BY <2>2, <2>3, <2>4 DEF AnswerInv, Sending
<1>1. /\ kind = "upload" /\ plan' = plan /\ plan \in Plans /\ Len(plan) \in Nat
      /\ pos \in 1 .. Len(plan) + 1 /\ stdin \in Seq(InMsgs)
      /\ StageInv /\ ControlTypes
  BY SessionFixed, PlanIsWalk DEF TypeInv, StreamTypes, ControlTypes
<1>2. /\ stdout \in Seq(OutMsgs) /\ Len(stdout) \in Nat
      /\ stdout # <<>> => Len(stdout) > 0 /\ Len(Tail(stdout)) = Len(stdout) - 1
      /\ \A m \in {Ok, Err} : Len(Append(stdout, m)) = Len(stdout) + 1
  <2>1. stdout \in Seq(OutMsgs) /\ Ok \in OutMsgs /\ Err \in OutMsgs
    BY <1>1 DEF TypeInv, StreamTypes, OutMsgs
  <2>. QED
    BY <2>1, LenProperties, EmptySeq, HeadTailProperties, AppendProperties
<1>3. ASSUME server # "exited"
      PROVE  /\ stdin # <<>> => /\ Promised <= Due(Head(stdin))
                                /\ client \in Sending => Promised = Due(Head(stdin))
             /\ stdin = <<>> =>
                    /\ client \in {"begin", "next"} => Promised = Before(pos)
                    /\ client \in {"dirAck", "dataAck"} => Promised = Before(pos + 1)
                    /\ client = "fileAck" => Promised = Before(pos) + 1
  BY <1>1, <1>3 DEF AnswerInv
<1>4. \A i \in Int : Answers(i) \in Nat /\ Before(i) \in Nat
  BY AnswersType
<1>5. /\ Answers(pos) \in Nat /\ Before(pos) \in Nat /\ Before(pos + 1) \in Nat
      /\ stdin # <<>> => Due(Head(stdin)) \in Nat
      /\ Promised \in Nat /\ AnswersRead \in Nat
  <2>1. stdin # <<>> => Due(Head(stdin)) \in Nat
    <3>1. stdin # <<>> => Before(Head(stdin).item) \in Nat
      <4>1. stdin # <<>> => Head(stdin).item \in 0 .. Len(plan)
        BY HeadItem
      <4>2. 0 .. Len(plan) \subseteq Int
        OBVIOUS
      <4>. QED
        BY <1>4, <4>1, <4>2
    <3>. QED
      BY <3>1 DEF Due
  <2>2. pos \in Int /\ pos + 1 \in Int
    BY <1>1
  <2>3. Answers(pos) \in Nat /\ Before(pos) \in Nat /\ Before(pos + 1) \in Nat
    BY <1>4, <2>2
  <2>4. AnswersRead \in Nat
    BY <2>3 DEF AnswersRead
  <2>5. Promised \in Nat
    BY <1>2, <2>4 DEF Promised
  <2>. QED
    BY <2>1, <2>3, <2>4, <2>5
<1>6. CASE Begin \/ CallbackDone \/ UploadDone
  <2>1. /\ UNCHANGED <<stdin, stdout, pos, server>>
        /\ client' \in {"next", "close", "wait", "done"} /\ client \in {"begin", "close", "next"}
        /\ client' = "next" => client = "begin"
    BY <1>1, <1>6 DEF Begin, CallbackDone, UploadDone, Fail, serverVars
  <2>2. n = Promised
    BY <2>1 DEF Promised, AnswersRead
  <2>. QED
    BY <1>3, <2>1, <2>2 DEF Sending
<1>7. CASE UploadOpenFails \/ ReadErr
  <2>1. /\ UNCHANGED <<stdin, pos, server>> /\ client' = "done"
        /\ stdout' = stdout \/ (stdout # <<>> /\ stdout' = Tail(stdout))
    BY <1>7 DEF UploadOpenFails, ReadErr, Fail, serverVars
  <2>2. n <= Promised
    BY <1>2, <1>5, <2>1, SMTT(30) DEF Promised, AnswersRead
  <2>3. n \in Nat
    BY <1>2, <1>5, <2>1
  <2>. HIDE DEF n
  <2>. QED
    BY <1>3, <1>5, <2>1, <2>2, <2>3 DEF Sending
<1>8. CASE UploadHeader
  <2>1. /\ client = "next" /\ pos \in 1 .. Len(plan) /\ UNCHANGED <<stdout, server>>
        /\ stdin' = Append(stdin, Msg(plan[pos].type, pos))
    BY <1>1, <1>8 DEF UploadHeader, AtItem, ToServer, serverVars
  <2>2. plan[pos].type \in {"C", "D", "E"} /\ Msg(plan[pos].type, pos).item = pos
        /\ Msg(plan[pos].type, pos).type \in Header
    BY <1>1, <2>1, PlanStep DEF Msg, Header
  <2>3. stdin' # <<>> /\ Head(stdin') = IF stdin = <<>> THEN Msg(plan[pos].type, pos) ELSE Head(stdin)
    BY <1>1, <2>1, HeadTailAppend
  <2>4. \/ plan[pos].type = "D" /\ client' = "dirAck" /\ pos' = pos
        \/ plan[pos].type = "C" /\ client' = "fileAck" /\ pos' = pos
        \/ plan[pos].type = "E" /\ client' = "next" /\ pos' = pos + 1
    BY <1>8, <2>2 DEF UploadHeader
  <2>5. Answers(pos') = Answers(pos)
    BY <1>1, <2>1, <2>4, AnswersStep
  <2>6. n = Promised
    BY <2>1, <2>4, <2>5 DEF Promised, AnswersRead
  <2>7. stdin = <<>> => Due(Head(stdin')) = Before(pos)
    BY <1>5, <2>2, <2>3 DEF Due
  <2>. QED
    BY <1>3, <1>5, <2>1, <2>3, <2>4, <2>6, <2>7 DEF Sending
<1>9. CASE DirAcked
  <2>1. /\ client = "dirAck" /\ pos \in 1 .. Len(plan) /\ plan[pos].type = "D"
        /\ UNCHANGED <<stdin, server>> /\ stdout # <<>> /\ stdout' = Tail(stdout)
        /\ (client' = "next" /\ pos' = pos + 1) \/ (client' = "done" /\ pos' = pos)
    BY <1>1, <1>9 DEF DirAcked, Gets, Fail, StageInv, serverVars
  <2>2. Answers(pos + 1) = Answers(pos) + 1
    BY <1>1, <2>1, AnswersStep
  <2>3. n <= Promised /\ n \in Nat /\ (client' = "next" => n = Promised)
    <3>1. CASE client' = "next"
      BY <1>2, <1>5, <2>1, <2>2, <3>1 DEF Promised, AnswersRead
    <3>2. CASE client' = "done"
      BY <1>2, <1>5, <2>1, <3>2 DEF Promised, AnswersRead
    <3>. QED
      BY <2>1, <3>1, <3>2
  <2>. HIDE DEF n
  <2>. QED
    BY <1>3, <1>5, <2>1, <2>3 DEF Sending
<1>10. CASE FileAcked
  <2>1. client = "fileAck" /\ pos \in 1 .. Len(plan) /\ plan[pos].type = "C"
    BY <1>1, <1>10 DEF FileAcked, StageInv
  <2>2. /\ \/ stdin' = stdin \o <<Msg("data", pos), EndOf(pos)>>
           \/ stdin' = Append(stdin, Msg("part", pos))
        /\ stdout # <<>> /\ stdout' = Tail(stdout)
    BY <1>10 DEF FileAcked, Gets, ToServer
  <2>3. UNCHANGED <<pos, server>> /\ client' \in {"dataAck", "close", "done"}
    BY <1>10 DEF FileAcked, Fail, AfterData, AfterEOF, serverVars
  <2>4. Len(stdout') = Len(stdout) - 1 /\ Len(stdout) > 0
    BY <1>2, <2>2
  <2>5. n <= Promised /\ n \in Nat /\ (client' = "dataAck" => n = Promised)
    BY <1>2, <1>5, <2>1, <2>3, <2>4, SMTT(30) DEF Promised, AnswersRead
  <2>6. PICK m \in {Msg("data", pos), Msg("part", pos)} :
            stdin' # <<>> /\ Head(stdin') = IF stdin = <<>> THEN m ELSE Head(stdin)
    BY <1>1, <2>1, <2>2, FileHead
  <2>7. stdin = <<>> => Due(Head(stdin')) = Before(pos) + 1
    BY <1>5, <2>6 DEF Due, Msg, Header
  <2>. HIDE DEF n
  <2>. QED
    BY <1>3, <1>5, <2>1, <2>3, <2>5, <2>6, <2>7 DEF Sending
<1>11. CASE DataAcked
  <2>1. /\ client = "dataAck" /\ pos \in 1 .. Len(plan) /\ plan[pos].type = "C"
        /\ UNCHANGED <<stdin, server>> /\ client' = "next" /\ pos' = pos + 1
    BY <1>1, <1>11 DEF DataAcked, StageInv, serverVars
  <2>2. Answers(pos + 1) = Answers(pos) + 2
    BY <1>1, <2>1, AnswersStep
  <2>3. Len(stdout') = Len(stdout) - 1 /\ Len(stdout) > 0
    BY <1>2, <1>11 DEF DataAcked, Gets
  <2>4. n = Promised
    BY <1>2, <1>5, <2>1, <2>2, <2>3, SMTT(30) DEF Promised, AnswersRead
  <2>. QED
    BY <1>3, <2>1, <2>4 DEF Sending
<1>12. CASE SinkStarts
  <2>1. /\ server = "start" /\ server' = "line"
        /\ UNCHANGED <<stdin, pos, client>>
    BY <1>12 DEF SinkStarts
  <2>2. Len(stdout') = Len(stdout) + 1
    BY <1>2, <1>12 DEF SinkStarts, ToClient
  <2>3. n = Promised
    BY <1>2, <1>5, <2>1, <2>2 DEF Promised, AnswersRead
  <2>. QED
    BY <1>3, <2>1, <2>3
<1>13. CASE SinkHeader \/ SinkDirEnd \/ SinkData \/ SinkDataEnd
  <2>1. /\ server \in {"line", "data", "end"} /\ server' # "start"
        /\ UNCHANGED <<client, pos>>
    BY <1>13 DEF SinkHeader, SinkDirEnd, SinkData, SinkDataEnd, Exits
  <2>2. stdin # <<>> /\ stdin' = Tail(stdin)
    BY <1>13 DEF SinkHeader, SinkDirEnd, SinkData, SinkDataEnd, TakesType
  <2>3. \/ Head(stdin).type \in {"C", "D", "E", "ok"} /\ stdout' = Append(stdout, Ok)
        \/ Head(stdin).type \in {"C", "D", "E", "ok"} /\ stdout' = Append(stdout, Err)
        \/ Head(stdin).type = "data" /\ stdout' = stdout
    BY <1>13 DEF SinkHeader, SinkDirEnd, SinkData, SinkDataEnd, TakesType, ToClient
  <2>4. \/ Head(stdin).type \in {"C", "D", "E", "ok"} /\ Len(stdout') = Len(stdout) + 1
        \/ Head(stdin).type = "data" /\ Len(stdout') = Len(stdout)
    BY <1>2, <2>3
  <2>5. n = Promised + (IF Head(stdin).type = "data" THEN 0 ELSE 1)
    <3>1. n = Promised + (Len(stdout') - Len(stdout))
      <4>1. Len(stdout') \in Nat
        BY <1>2, <2>4
      <4>. QED
        BY <1>2, <1>5, <2>1, <4>1 DEF Promised, AnswersRead
    <3>. HIDE DEF n
    <3>2. CASE Head(stdin).type = "data"
      BY <1>2, <1>5, <2>4, <3>1, <3>2
    <3>3. CASE Head(stdin).type # "data"
      BY <1>2, <1>5, <2>4, <3>1, <3>3
    <3>. QED
      BY <3>2, <3>3
  <2>. DEFINE due == Due(Head(stdin)) + (IF Head(stdin).type = "data" THEN 0 ELSE 1)
  <2>6. due \in Nat /\ n <= due /\ (client \in Sending => n = due)
    BY <1>3, <1>5, <2>1, <2>2, <2>5
  <2>7. client # "begin"
    BY <1>1, <2>2 DEF StageInv
  <2>8. Head(stdin).type # "part"
    BY <2>4
  <2>. QED
    <3>1. /\ stdin' # <<>> => due = Due(Head(stdin'))
          /\ stdin' = <<>> => /\ client = "next" => due = Before(pos)
                              /\ client \in {"dirAck", "dataAck"} => due = Before(pos + 1)
                              /\ client = "fileAck" => due = Before(pos) + 1
      BY <1>1, <2>1, <2>2, <2>6, <2>8, DueNext
    <3>. HIDE DEF n, due
    <3>. QED
      BY <2>1, <2>6, <2>7, <3>1 DEF Sending
<1>14. CASE \/ Ask \/ HeaderC \/ HeaderD \/ HeaderE \/ Content \/ StatusOk
            \/ SourceStarts \/ SourceHeader \/ SourceData \/ SourceAcked \/ SourceEnds
  BY <1>1, <1>14 DEF StageInv, Ask, HeaderC, HeaderD, HeaderE, Content, StatusOk, HeaderIs,
     SourceStarts, SourceHeader, SourceData, SourceAcked, SourceEnds, Sink
<1>15. CASE ReadEOF \/ SessionWait \/ ServerDies \/ SinkStray \/ SinkEOF
  BY <1>1, <1>15 DEF ReadEOF, SessionWait, ServerDies, SinkStray, SinkEOF, Exits, serverVars
<1>16. CASE UNCHANGED vars
  <2>1. n = Promised /\ UNCHANGED <<stdin, client, pos, server>>
    BY <1>16 DEF vars, serverVars, Promised, AnswersRead
  <2>. QED
    BY <1>3, <2>1
<1>. QED
  BY <1>6, <1>7, <1>8, <1>9, <1>10, <1>11, <1>12, <1>13, <1>14, <1>15, <1>16
     DEF Next, Client, Server, Ended

\* The refusal of item i is the answer after the next n, and the client goes on
\* for no more answers than the server had given when it refused.
NoticedAfter(i, n) ==
    /\ n < Len(stdout) => stdout[n + 1] = Err
    /\ n = Len(stdout) => server = "exited"
    /\ AnswersRead + n <= Before(i)

RefusedInv ==
    \A i \in refused :
        /\ Answers(pos) <= Before(i)
        /\ client \in Sending => \E n \in 0 .. Len(stdout) : NoticedAfter(i, n)

LEMMA RefusedInvInit == Init => RefusedInv
BY DEF Init, RefusedInv

\* A refusal stays ahead of the client until it reads it.
LEMMA RefusedInvStep ==
    ASSUME TypeInv, UpStream, AnswerInv, RefusedInv, [Next]_vars
    PROVE  RefusedInv'
<1>. DEFINE answers == Answers(pos')
            read == answers + (IF client' = "dataAck" THEN 1 ELSE 0)
<1>1. /\ plan' = plan /\ kind' = kind /\ plan \in Plans /\ Len(plan) \in Nat
      /\ pos \in 1 .. Len(plan) + 1 /\ StageInv /\ ControlTypes
      /\ refused \subseteq 1 .. Len(plan)
  BY SessionFixed, PlanIsWalk DEF TypeInv, ControlTypes
<1>2. \A i \in Int : Answers(i) \in Nat /\ Before(i) \in Nat
  BY AnswersType
<1>3. /\ pos \in Int /\ pos + 1 \in Int /\ Answers(pos) \in Nat /\ AnswersRead \in Nat
      /\ \A i \in 1 .. Len(plan) : Before(i) \in Nat
  <2>1. pos \in Int /\ pos + 1 \in Int /\ 1 .. Len(plan) \subseteq Int
    BY <1>1
  <2>2. Answers(pos) \in Nat /\ \A i \in 1 .. Len(plan) : Before(i) \in Nat
    BY <1>2, <2>1
  <2>. QED
    BY <2>1, <2>2 DEF AnswersRead
<1>4. /\ stdout \in Seq(OutMsgs) /\ Len(stdout) \in Nat
      /\ stdout # <<>> => /\ Len(stdout) > 0 /\ Len(Tail(stdout)) = Len(stdout) - 1
                          /\ Head(stdout) = stdout[1]
                          /\ \A n \in 1 .. Len(stdout) - 1 : Tail(stdout)[n] = stdout[n + 1]
  <2>1. stdout \in Seq(OutMsgs)
    BY DEF TypeInv, StreamTypes
  <2>. QED
    BY <2>1, LenProperties, EmptySeq, HeadTailProperties
<1>5. ASSUME kind = "upload", NEW m \in {Ok, Err}
      PROVE  /\ Len(Append(stdout, m)) = Len(stdout) + 1 /\ Append(stdout, m)[Len(stdout) + 1] = m
             /\ \A n \in 1 .. Len(stdout) : Append(stdout, m)[n] = stdout[n]
  <2>1. m \in OutMsgs
    BY <1>5 DEF OutMsgs
  <2>. QED
    BY <1>4, <2>1, AppendProperties
<1>. SUFFICES ASSUME NEW i \in refused'
              PROVE  /\ answers <= Before(i)
                     /\ client' \in Sending =>
                            \E n \in 0 .. Len(stdout') :
                                /\ n < Len(stdout') => stdout'[n + 1] = Err
                                /\ n = Len(stdout') => server' = "exited"
                                /\ read + n <= Before(i)
  <2>1. Answers(pos)' = answers /\ AnswersRead' = read
    BY <1>1 DEF AnswersRead, Answers, Count
  <2>2. \A j : Before(j)' = Before(j)
    BY <1>1 DEF Before, Answers, Count
  <2>. HIDE DEF read, answers
  <2>. QED
    BY <2>1, <2>2 DEF RefusedInv, NoticedAfter
<1>6. kind = "upload"
  <2>1. refused = {} => kind = "upload"
    BY <1>1 DEF Next, vars, fixed, serverVars, Client, Server, Ended, Begin, ReadEOF, ReadErr,
       CallbackDone, SessionWait, UploadHeader, UploadOpenFails, DirAcked, FileAcked, DataAcked,
       UploadDone, Ask, HeaderC, HeaderD, HeaderE, Content, StatusOk, ServerDies,
       SinkStarts, SinkHeader, SinkDirEnd, SinkStray, SinkData, SinkDataEnd, SinkEOF, Sink,
       SourceStarts, SourceHeader, SourceData, SourceAcked, SourceEnds
  <2>. QED
    BY <1>1, <2>1 DEF StageInv
<1>7. ASSUME i \in refused
      PROVE  /\ i \in 1 .. Len(plan) /\ Before(i) \in Nat /\ Answers(pos) <= Before(i)
             /\ client \in Sending => \E n \in 0 .. Len(stdout) : NoticedAfter(i, n)
  BY <1>1, <1>3, <1>7 DEF RefusedInv
\* The streams and what the client has read stay as they are.
<1>8. ASSUME i \in refused, stdout' = stdout, answers = Answers(pos), read = AnswersRead,
             client' \in Sending => client \in Sending, server = "exited" => server' = "exited"
      PROVE  /\ answers <= Before(i)
             /\ client' \in Sending =>
                    \E n \in 0 .. Len(stdout') :
                        /\ n < Len(stdout') => stdout'[n + 1] = Err
                        /\ n = Len(stdout') => server' = "exited"
                        /\ read + n <= Before(i)
  <2>. HIDE DEF answers, read
  <2>. QED
    BY <1>7, <1>8 DEF NoticedAfter
\* The client sends no more.
<1>9. ASSUME i \in refused, pos' = pos, client' \notin Sending
      PROVE  answers <= Before(i)
  BY <1>7, <1>9
\* The client reads an answer that is no error.
<1>10. ASSUME i \in refused, client \in Sending, stdout # <<>>, stdout' = Tail(stdout),
              Head(stdout) = Ok, server' = server, read = AnswersRead + 1, answers <= read,
              answers \in Nat
       PROVE  /\ answers <= Before(i)
              /\ \E n \in 0 .. Len(stdout') :
                     /\ n < Len(stdout') => stdout'[n + 1] = Err
                     /\ n = Len(stdout') => server' = "exited"
                     /\ read + n <= Before(i)
  <2>1. PICK n \in 0 .. Len(stdout) : NoticedAfter(i, n)
    BY <1>7, <1>10
  <2>2. stdout[1] = Ok /\ Ok # Err
    BY <1>4, <1>10 DEF Ok, Err, Msg
  <2>3. n # 0
    BY <1>4, <1>10, <2>1, <2>2 DEF NoticedAfter
  <2>. DEFINE k == n - 1
  <2>4. k \in 0 .. Len(stdout') /\ Len(stdout') = Len(stdout) - 1 /\ k + 1 = n
    BY <1>4, <1>10, <2>1, <2>3
  <2>5. k < Len(stdout') => stdout'[k + 1] = Err
    <3>1. ASSUME k < Len(stdout') PROVE stdout'[k + 1] = Err
      <4>1. n < Len(stdout) /\ n \in 1 .. Len(stdout) - 1
        BY <1>4, <2>1, <2>3, <2>4, <3>1
      <4>2. stdout'[n] = stdout[n + 1]
        BY <1>4, <1>10, <4>1
      <4>. QED
        BY <2>1, <2>4, <4>1, <4>2 DEF NoticedAfter
    <3>. QED
      BY <3>1
  <2>6. k = Len(stdout') => server' = "exited"
    BY <1>4, <1>10, <2>1, <2>4 DEF NoticedAfter
  <2>. HIDE DEF read, answers
  <2>7. read + k <= Before(i) /\ answers <= Before(i)
    <3>1. AnswersRead + n <= Before(i) /\ Before(i) \in Nat /\ n \in Nat
      BY <1>4, <1>7, <1>10, <2>1 DEF NoticedAfter
    <3>. QED
      BY <1>3, <1>10, <2>3, <3>1
  <2>. QED
    BY <2>4, <2>5, <2>6, <2>7
<1>11. CASE UploadHeader
  <2>1. client = "next" /\ pos \in 1 .. Len(plan) /\ UNCHANGED <<stdout, server, refused>>
    BY <1>1, <1>11 DEF UploadHeader, AtItem, serverVars
  <2>2. plan[pos].type \in {"C", "D", "E"}
    BY <1>1, <2>1, PlanStep
  <2>3. \/ client' = "dirAck" /\ pos' = pos
        \/ client' = "fileAck" /\ pos' = pos
        \/ plan[pos].type = "E" /\ client' = "next" /\ pos' = pos + 1
    BY <1>11, <2>2 DEF UploadHeader
  <2>4. answers = Answers(pos)
    BY <1>1, <2>1, <2>3, AnswersStep
  <2>5. read = AnswersRead
    BY <2>1, <2>3, <2>4 DEF AnswersRead
  <2>. QED
    BY <1>8, <2>1, <2>4, <2>5 DEF Sending
<1>12. CASE DirAcked
  <2>1. /\ client = "dirAck" /\ pos \in 1 .. Len(plan) /\ plan[pos].type = "D"
        /\ UNCHANGED <<server, refused>>
        /\ (client' = "next" /\ pos' = pos + 1) \/ (client' = "done" /\ pos' = pos)
    BY <1>1, <1>12 DEF DirAcked, Fail, StageInv, serverVars
  <2>2. stdout # <<>> /\ stdout' = Tail(stdout) /\ Head(stdout) = Ok
    BY <1>12 DEF DirAcked, Gets
  <2>3. CASE client' = "next"
    <3>1. answers = Answers(pos) + 1
      BY <1>1, <2>1, <2>3, AnswersStep
    <3>2. read = AnswersRead + 1 /\ answers <= read /\ answers \in Nat
      BY <1>3, <2>1, <2>3, <3>1 DEF AnswersRead
    <3>. QED
      BY <1>10, <2>1, <2>2, <3>2 DEF Sending
  <2>4. CASE client' = "done"
    BY <1>9, <2>1, <2>4 DEF Sending
  <2>. QED
    BY <2>1, <2>3, <2>4
<1>13. CASE FileAcked
  <2>1. /\ client = "fileAck" /\ client' \in {"dataAck", "close", "done"}
        /\ UNCHANGED <<pos, server, refused>>
    BY <1>13 DEF FileAcked, Fail, AfterData, AfterEOF, serverVars
  <2>2. stdout # <<>> /\ stdout' = Tail(stdout) /\ Head(stdout) = Ok
    BY <1>13 DEF FileAcked, Gets
  <2>3. CASE client' = "dataAck"
    <3>1. read = AnswersRead + 1 /\ answers <= read /\ answers \in Nat
      BY <1>3, <2>1, <2>3 DEF AnswersRead
    <3>. QED
      BY <1>10, <2>1, <2>2, <3>1 DEF Sending
  <2>4. CASE client' # "dataAck"
    BY <1>9, <2>1, <2>4 DEF Sending
  <2>. QED
    BY <2>3, <2>4
<1>14. CASE DataAcked
  <2>1. /\ client = "dataAck" /\ pos \in 1 .. Len(plan) /\ plan[pos].type = "C"
        /\ UNCHANGED <<server, refused>> /\ client' = "next" /\ pos' = pos + 1
    BY <1>1, <1>14 DEF DataAcked, StageInv, serverVars
  <2>2. stdout # <<>> /\ stdout' = Tail(stdout) /\ Head(stdout) = Ok
    BY <1>14 DEF DataAcked, Gets
  <2>3. answers = Answers(pos) + 2
    BY <1>1, <2>1, AnswersStep
  <2>4. read = AnswersRead + 1 /\ answers <= read /\ answers \in Nat
    BY <1>3, <2>1, <2>3 DEF AnswersRead
  <2>. QED
    BY <1>10, <2>1, <2>2, <2>4 DEF Sending
<1>15. CASE ReadErr \/ UploadOpenFails \/ UploadDone \/ CallbackDone \/ SessionWait \/ ReadEOF
  <2>1. UNCHANGED <<pos, refused>> /\ client' \in {"close", "wait", "done"}
    BY <1>15 DEF ReadErr, UploadOpenFails, UploadDone, CallbackDone, SessionWait, ReadEOF,
       AfterEOF, Fail, serverVars
  <2>. QED
    BY <1>9, <2>1 DEF Sending
<1>16. CASE Begin
  <2>1. UNCHANGED <<pos, stdout, serverVars>> /\ client = "begin" /\ client' \in {"next", "done"}
    BY <1>6, <1>16 DEF Begin, Fail
  <2>2. answers = Answers(pos) /\ read = AnswersRead
    BY <2>1 DEF AnswersRead
  <2>. QED
    BY <1>8, <2>1, <2>2 DEF Sending, serverVars
<1>17. CASE SinkData \/ SinkEOF \/ UNCHANGED vars
  <2>1. UNCHANGED <<pos, stdout, refused, client>> /\ (server = "exited" => server' = "exited")
    BY <1>17 DEF SinkData, SinkEOF, vars, serverVars
  <2>2. answers = Answers(pos) /\ read = AnswersRead
    BY <2>1 DEF AnswersRead
  <2>. QED
    BY <1>8, <2>1, <2>2
<1>18. ASSUME UNCHANGED <<pos, client>>, server # "exited", i \in refused,
              stdout' = Append(stdout, Ok) \/ stdout' = Append(stdout, Err)
       PROVE  /\ answers <= Before(i)
              /\ client' \in Sending =>
                     \E n \in 0 .. Len(stdout') :
                         /\ n < Len(stdout') => stdout'[n + 1] = Err
                         /\ n = Len(stdout') => server' = "exited"
                         /\ read + n <= Before(i)
  <2>1. answers <= Before(i)
    BY <1>7, <1>18
  <2>2. ASSUME client' \in Sending
        PROVE  \E n \in 0 .. Len(stdout') :
                   /\ n < Len(stdout') => stdout'[n + 1] = Err
                   /\ n = Len(stdout') => server' = "exited"
                   /\ read + n <= Before(i)
    <3>1. PICK n \in 0 .. Len(stdout) : NoticedAfter(i, n)
      BY <1>7, <1>18, <2>2
    <3>2. Len(stdout') = Len(stdout) + 1 /\ \A j \in 1 .. Len(stdout) : stdout'[j] = stdout[j]
      BY <1>5, <1>6, <1>18
    <3>3. n < Len(stdout)
      BY <1>4, <1>18, <3>1 DEF NoticedAfter
    <3>4. n \in 0 .. Len(stdout') /\ n + 1 \in 1 .. Len(stdout) /\ n # Len(stdout')
      BY <1>4, <3>2, <3>3
    <3>5. stdout'[n + 1] = Err
      BY <3>1, <3>2, <3>3, <3>4 DEF NoticedAfter
    <3>6. read = AnswersRead
      BY <1>18 DEF AnswersRead
    <3>. HIDE DEF read
    <3>. QED
      BY <3>1, <3>4, <3>5, <3>6 DEF NoticedAfter
  <2>. QED
    BY <2>1, <2>2
<1>19. CASE SinkStarts \/ SinkDirEnd \/ SinkStray \/ SinkDataEnd
  <2>1. UNCHANGED <<pos, client, refused>> /\ server # "exited"
    BY <1>19 DEF SinkStarts, SinkDirEnd, SinkStray, SinkDataEnd
  <2>2. stdout' = Append(stdout, Ok) \/ stdout' = Append(stdout, Err)
    BY <1>19 DEF SinkStarts, SinkDirEnd, SinkStray, SinkDataEnd, ToClient
  <2>. QED
    BY <1>18, <2>1, <2>2
<1>20. CASE SinkHeader
  <2>1. UNCHANGED <<pos, client>> /\ server # "exited" /\ stdin # <<>> /\ Head(stdin).type \in Header
    BY <1>20 DEF SinkHeader, Header
  <2>2. \/ stdout' = Append(stdout, Ok) /\ refused' = refused
        \/ /\ stdout' = Append(stdout, Err) /\ refused' = refused \cup {Head(stdin).item}
           /\ server' = server
    BY <1>20 DEF SinkHeader, ToClient
  <2>3. CASE i \in refused
    BY <1>18, <2>1, <2>2, <2>3
  <2>4. CASE i \notin refused
    <3>1. i = Head(stdin).item /\ stdout' = Append(stdout, Err) /\ server = "line"
      BY <1>20, <2>2, <2>4 DEF SinkHeader
    <3>2. i \in 1 .. Len(plan) /\ Before(i) \in Nat
      BY <1>3, <1>6, <2>1, <3>1, HeadItem
    <3>3. AnswersRead + Len(stdout) <= Before(i)
      <4>1. Promised <= Due(Head(stdin))
        BY <1>6, <2>1 DEF AnswerInv
      <4>2. Due(Head(stdin)) = Before(i)
        BY <2>1, <3>1, <3>2 DEF Due
      <4>3. Promised = AnswersRead + Len(stdout)
        <5>1. server # "start"
          BY <3>1
        <5>. QED
          BY <1>3, <1>4, <5>1 DEF Promised
      <4>. QED
        BY <4>1, <4>2, <4>3
    <3>4. read = AnswersRead /\ answers = Answers(pos) /\ answers <= AnswersRead
      BY <1>3, <2>1 DEF AnswersRead
    <3>5. Len(stdout') = Len(stdout) + 1 /\ stdout'[Len(stdout) + 1] = Err
      BY <1>5, <1>6, <3>1
    <3>6. Len(stdout) \in 0 .. Len(stdout') /\ Len(stdout) # Len(stdout')
      BY <1>4, <3>5
    <3>. HIDE DEF read, answers
    <3>7. answers <= Before(i)
      BY <1>3, <1>4, <3>2, <3>3, <3>4
    <3>. QED
      BY <3>3, <3>4, <3>5, <3>6, <3>7
  <2>. QED
    BY <2>3, <2>4
<1>21. CASE ServerDies
  <2>1. PICK l \in 0 .. Len(stdout) : stdout' = SubSeq(stdout, 1, l)
    BY <1>21 DEF ServerDies
  <2>2. UNCHANGED <<pos, client, refused>> /\ server' = "exited"
    BY <1>21 DEF ServerDies
  <2>3. Len(stdout') = l /\ \A j \in 1 .. l : stdout'[j] = stdout[j]
    <3>1. \A j \in 1 .. l : stdout[j] \in OutMsgs
      BY <1>4, ElementOfSeq
    <3>2. l \in Int /\ l >= 0 /\ 1 \in Int
      BY <1>4
    <3>3. /\ Len(SubSeq(stdout, 1, l)) = IF 1 <= l THEN l - 1 + 1 ELSE 0
          /\ \A j \in 1 .. l - 1 + 1 : SubSeq(stdout, 1, l)[j] = stdout[1 + j - 1]
      BY <3>1, <3>2, SubSeqProperties
    <3>4. Len(SubSeq(stdout, 1, l)) = l
      BY <3>2, <3>3
    <3>5. \A j \in 1 .. l : j \in 1 .. l - 1 + 1 /\ 1 + j - 1 = j
      BY <3>2
    <3>. QED
      BY <2>1, <3>3, <3>4, <3>5
  <2>4. answers <= Before(i) /\ read = AnswersRead
    BY <1>7, <2>2 DEF AnswersRead
  <2>5. ASSUME client' \in Sending
        PROVE  \E n \in 0 .. Len(stdout') :
                   /\ n < Len(stdout') => stdout'[n + 1] = Err
                   /\ n = Len(stdout') => server' = "exited"
                   /\ read + n <= Before(i)
    <3>1. PICK n \in 0 .. Len(stdout) : NoticedAfter(i, n)
      BY <1>7, <2>2, <2>5
    <3>. HIDE DEF read
    <3>2. CASE n < l
      <4>1. n \in 0 .. Len(stdout') /\ n + 1 \in 1 .. l /\ n < Len(stdout)
        BY <1>4, <2>3, <3>2
      <4>2. stdout'[n + 1] = Err /\ read + n <= Before(i)
        BY <2>3, <2>4, <3>1, <4>1 DEF NoticedAfter
      <4>. QED
        BY <2>2, <4>1, <4>2
    <3>3. CASE l <= n
      <4>1. read + l <= Before(i)
        <5>1. AnswersRead + n <= Before(i) /\ n \in Nat /\ l \in Nat
          BY <1>4, <3>1 DEF NoticedAfter
        <5>2. Before(i) \in Nat
          BY <1>7, <2>2
        <5>. QED
          BY <1>3, <2>4, <3>3, <5>1, <5>2
      <4>2. l \in 0 .. Len(stdout') /\ ~(l < Len(stdout'))
        BY <1>4, <2>3
      <4>. QED
        BY <2>2, <2>3, <4>1, <4>2
    <3>. QED
      BY <1>4, <3>2, <3>3
  <2>. QED
    BY <2>4, <2>5
<1>22. CASE \/ Ask \/ HeaderC \/ HeaderD \/ HeaderE \/ Content \/ StatusOk
            \/ SourceStarts \/ SourceHeader \/ SourceData \/ SourceAcked \/ SourceEnds
  BY <1>1, <1>6, <1>22 DEF StageInv, Ask, HeaderC, HeaderD, HeaderE, Content, StatusOk, HeaderIs,
     SourceStarts, SourceHeader, SourceData, SourceAcked, SourceEnds, Sink
<1>. QED
  BY <1>11, <1>12, <1>13, <1>14, <1>15, <1>16, <1>17, <1>19, <1>20, <1>21, <1>22
     DEF Next, Client, Server, Ended

\* The client stops soon enough.
LEMMA RefusedCorrect ==
    ASSUME TypeInv, RefusedInv
    PROVE  RefusalNoticed
<1>. SUFFICES ASSUME NEW i \in refused
              PROVE  AnswersBetween(i, pos) <= 1 + Count("E", 1, i)
  BY DEF RefusalNoticed, Count
<1>1. i \in Int /\ 1 <= i /\ pos \in Int /\ Answers(pos) <= Before(i)
  BY PlanIsWalk DEF TypeInv, ControlTypes, RefusedInv
<1>2. AnswersBetween(i, pos) = 2 * Count("C", i, pos) + Count("D", i, pos)
  BY DEF AnswersBetween, Count
<1>3. \A t : Count(t, i, pos) \in Nat /\ Count(t, 1, i) \in Nat
  BY <1>1, CountType
<1>4. CASE i <= pos
  <2>1. \A t : Count(t, 1, pos) = Count(t, 1, i) + Count(t, i, pos)
    BY <1>1, <1>4, CountSplit
  <2>2. /\ Count("C", 1, pos) = Count("C", 1, i) + Count("C", i, pos)
        /\ Count("D", 1, pos) = Count("D", 1, i) + Count("D", i, pos)
    BY <2>1
  <2>3. /\ Count("C", 1, i) \in Nat /\ Count("C", i, pos) \in Nat
        /\ Count("D", 1, i) \in Nat /\ Count("D", i, pos) \in Nat /\ Count("E", 1, i) \in Nat
    BY <1>3
  <2>4. 2 * Count("C", 1, pos) + Count("D", 1, pos) <=
            1 + (2 * Count("C", 1, i) + Count("D", 1, i)) + Count("E", 1, i)
    BY <1>1 DEF Answers, Before
  <2>. QED
    BY <1>2, <2>2, <2>3, <2>4
<1>5. CASE pos < i
  <2>1. \A t : Count(t, i, pos) = 0
    BY <1>1, <1>5, CountNone
  <2>2. AnswersBetween(i, pos) = 0
    BY <1>2, <2>1
  <2>3. Count("E", 1, i) \in Nat
    BY <1>3
  <2>. QED
    BY <2>2, <2>3
<1>. QED
  BY <1>1, <1>4, <1>5

-----------------------------------------------------------------------------
(* The downloads                                                            *)

\* Streams of one and of two messages.
LEMMA ShortSequences ==
    ASSUME NEW a, NEW b
    PROVE  /\ <<a>> # <<>> /\ Head(<<a>>) = a /\ Tail(<<a>>) = <<>> /\ Append(<<>>, a) = <<a>>
           /\ <<a, b>> # <<>> /\ Head(<<a, b>>) = a /\ Tail(<<a, b>>) = <<b>>
           /\ <<>> \o <<a, b>> = <<a, b>>
OBVIOUS

\* What is left of a stream that breaks off.
LEMMA Truncated ==
    ASSUME NEW S, NEW s \in Seq(S), NEW n \in 0 .. Len(s)
    PROVE  /\ SubSeq(s, 1, n) \in Seq(S)
           /\ SubSeq(s, 1, n) # <<>> => Head(SubSeq(s, 1, n)) = Head(s)
           /\ Len(SubSeq(s, 1, n)) = n
           /\ \A i \in 1 .. n : SubSeq(s, 1, n)[i] = s[i]
<1>1. Len(s) \in Nat /\ \A i \in 1 .. n : s[i] \in S
  BY ElementOfSeq
<1>2. /\ SubSeq(s, 1, n) \in Seq(S)
      /\ Len(SubSeq(s, 1, n)) = IF 1 <= n THEN n - 1 + 1 ELSE 0
      /\ \A i \in 1 .. n - 1 + 1 : SubSeq(s, 1, n)[i] = s[1 + i - 1]
  BY <1>1, SubSeqProperties
<1>3. n \in Nat
  BY <1>1
<1>4. Len(SubSeq(s, 1, n)) = n /\ \A i \in 1 .. n : SubSeq(s, 1, n)[i] = s[i]
  <2>1. \A i \in 1 .. n : i \in 1 .. n - 1 + 1 /\ 1 + i - 1 = i
    BY <1>3
  <2>. QED
    BY <1>2, <1>3, <2>1
<1>5. ASSUME SubSeq(s, 1, n) # <<>> PROVE Head(SubSeq(s, 1, n)) = Head(s)
  <2>1. n # 0
    BY <1>2, <1>4, <1>5, EmptySeq
  <2>2. 1 \in 1 .. n /\ s # <<>>
    BY <1>3, <2>1, EmptySeq
  <2>. QED
    BY <1>2, <1>4, <1>5, <2>2
<1>. QED
  BY <1>2, <1>4, <1>5

LEMMA PrefixIs ==
    ASSUME NEW S, NEW s \in Seq(S), NEW t \in Seq(S), Len(t) <= Len(s),
           \A i \in 1 .. Len(t) : t[i] = s[i]
    PROVE  SubSeq(s, 1, Len(t)) = t
<1>1. Len(t) \in 0 .. Len(s)
  BY LenProperties
<1>2. /\ SubSeq(s, 1, Len(t)) \in Seq(S) /\ Len(SubSeq(s, 1, Len(t))) = Len(t)
      /\ \A i \in 1 .. Len(t) : SubSeq(s, 1, Len(t))[i] = s[i]
  BY <1>1, Truncated
<1>. QED
  BY <1>2, SeqEqual

LEMMA TruncatedShort ==
    ASSUME NEW a, NEW b
    PROVE  /\ \A n \in 0 .. Len(<<>>) : SubSeq(<<>>, 1, n) = <<>>
           /\ \A n \in 0 .. Len(<<a>>) : SubSeq(<<a>>, 1, n) \in {<<>>, <<a>>}
           /\ \A n \in 0 .. Len(<<a, b>>) : SubSeq(<<a, b>>, 1, n) \in {<<>>, <<a>>, <<a, b>>}
<1>1. /\ <<>> \in Seq({a, b}) /\ Len(<<>>) = 0
      /\ <<a>> \in Seq({a, b}) /\ Len(<<a>>) = 1 /\ <<a>>[1] = a
      /\ <<a, b>> \in Seq({a, b}) /\ Len(<<a, b>>) = 2 /\ <<a, b>>[1] = a /\ <<a, b>>[2] = b
  OBVIOUS
<1>2. \A s, t \in Seq({a, b}) :
          Len(t) <= Len(s) /\ (\A i \in 1 .. Len(t) : t[i] = s[i]) => SubSeq(s, 1, Len(t)) = t
  BY PrefixIs
<1>. DEFINE one == <<a>>
            two == <<a, b>>
<1>3. /\ one \in Seq({a, b}) /\ Len(one) = 1 /\ one[1] = a
      /\ two \in Seq({a, b}) /\ Len(two) = 2 /\ two[1] = a /\ two[2] = b
  BY <1>1
<1>. HIDE DEF one, two
<1>4. \A i \in 1 .. 1 : i = 1
  OBVIOUS
<1>5. SubSeq(one, 1, 1) = one /\ SubSeq(two, 1, 1) = one /\ SubSeq(two, 1, 2) = two
  <2>1. \A i \in 1 .. Len(one) : one[i] = one[i] /\ one[i] = two[i]
    BY <1>3, <1>4
  <2>2. Len(one) <= Len(one) /\ Len(one) <= Len(two) /\ Len(two) <= Len(two)
    BY <1>3
  <2>3. SubSeq(one, 1, Len(one)) = one /\ SubSeq(two, 1, Len(one)) = one
    BY <1>2, <1>3, <2>1, <2>2
  <2>4. SubSeq(two, 1, Len(two)) = two
    BY <1>2, <1>3, <2>2
  <2>. QED
    BY <1>3, <2>3, <2>4
<1>6. SubSeq(<<>>, 1, 0) = <<>> /\ SubSeq(one, 1, 0) = <<>> /\ SubSeq(two, 1, 0) = <<>>
  BY SubSeqEmpty
<1>7. (\A n \in 0 .. 1 : n = 0 \/ n = 1) /\ (\A n \in 0 .. 2 : n = 0 \/ n = 1 \/ n = 2)
  OBVIOUS
<1>8. \A n \in 0 .. Len(<<>>) : SubSeq(<<>>, 1, n) = <<>>
  BY <1>1, <1>6
<1>9. \A n \in 0 .. Len(one) : SubSeq(one, 1, n) \in {<<>>, one}
  BY <1>3, <1>5, <1>6, <1>7
<1>10. \A n \in 0 .. Len(two) : SubSeq(two, 1, n) \in {<<>>, one, two}
  BY <1>3, <1>5, <1>6, <1>7
<1>. QED
  BY <1>8, <1>9, <1>10 DEF one, two

\* The downloads whose files are stored under their own names.
Down == kind = "download" \/ DirDownload

\* The client is still to deal with an item.
AtWork ==
    \/ client \in {"begin", "ask", "line", "content"}
    \/ client = "status" /\ kind = "downloadDir"

\* The server has met no error and can end with status 0, or has.
Clean == exit = "zero" \/ (exit = "none" /\ ~errs)

HeaderOf(q) == Msg(plan[q].type, q)
Whole(q) == Msg("data", q)
Part(q) == Msg("part", q)
IsErr == stdout # <<>> /\ Head(stdout) = Err

\* What was stored whole lies where it belongs.
Kept(q) ==
    \A s \in store : s.from # 0 => s.from \in FilesOf /\ s.from < q /\ s.path = PathOf(s.from)

\* What the client has before it while it is to deal with item q.
ClientAt(q) ==
    /\ client \in {"begin", "ask"} => stdout = <<>>
    /\ client = "line" => \/ stdout = <<>>
                          \/ IsErr /\ errs
                          \/ q <= Len(plan) /\ stdout = <<HeaderOf(q)>>
    /\ client = "content" =>
           /\ q <= Len(plan) /\ plan[q].type = "C" /\ file = q
           /\ \/ stdout \in {<<>>, <<Whole(q)>>, <<Whole(q), Ok>>}
              \/ errs /\ stdout \in {<<Part(q)>>, <<Part(q), Err>>}
    /\ client = "status" => stdout \in {<<>>, <<Ok>>, <<Err>>}

\* Where the server is meanwhile.
SourceAt(q) ==
    /\ server = "start" =>
           /\ q = pos /\ stdout = <<>>
           /\ \/ client \in {"begin", "ask"} /\ stdin = <<>>
              \/ client = "line" /\ stdin = <<Ok>>
    /\ server = "next" =>
           /\ client = "line" /\ stdin = <<>>
           /\ IsErr \/ (stdout = <<>> /\ q = pos)
    /\ server = "fileAck" =>
           \/ client = "line" /\ stdin = <<>>
                  /\ (IsErr \/ (stdout # <<>> /\ q = pos /\ plan[q].type = "C"))
           \/ client = "content" /\ stdin = <<Ok>> /\ stdout = <<>> /\ q = pos
    /\ server = "ack" =>
           \/ client = "line" /\ stdin = <<>>
                  /\ (IsErr \/ (stdout # <<>> /\ q = pos /\ plan[q].type # "C"))
           \/ client = "content" /\ stdin = <<>> /\ q = pos
                  /\ stdout \in {<<Whole(q), Ok>>, <<Part(q), Err>>}
           \/ client = "status" /\ stdin = <<>> /\ stdout # <<>> /\ q = pos + 1
           \/ client = "ask" /\ stdin = <<>> /\ stdout = <<>> /\ q = pos + 1
           \/ client = "line" /\ stdin = <<Ok>> /\ stdout = <<>> /\ q = pos + 1
    /\ exit = "zero" => client = "line" /\ q = Len(plan) + 1 /\ stdout = <<>>

\* Client and server are at item q; a download of one file is at its first.
Talk(q) ==
    /\ kind = "download" => q = 1
    /\ ClientAt(q) /\ SourceAt(q)

DownAt(q) ==
    /\ Talk(q)
    /\ dirs = OpenDirs[q - 1] /\ Kept(q)
    /\ Clean => store = Stored(q)

\* A single file has been read, and the client ends the session.
OneFile ==
    /\ kind = "download" /\ plan # <<>> /\ plan[1].type = "C" /\ store = Stored(2)
    /\ \/ server = "ack" /\ pos = 1 /\ stdin = <<Ok>>
       \/ server \in {"next", "ack", "fileAck"} /\ pos = 2 /\ stdin = <<>>

DownInv ==
    Down =>
        /\ AtWork => \E q \in 1 .. Len(plan) + 1 : DownAt(q)
        /\ ~AtWork /\ Clean /\ result # "error" => (exit = "zero" /\ store = Asked) \/ OneFile
        /\ DirDownload => \E i \in 0 .. Len(plan) : dirs = OpenDirs[i]

LEMMA DownInvInit == Init => DownInv
<1>. SUFFICES ASSUME Init PROVE DownInv
  OBVIOUS
<1>1. plan \in Seq(Item) /\ Len(plan) \in Nat /\ 1 \in 1 .. Len(plan) + 1 /\ 0 \in 0 .. Len(plan)
  BY PlanIsWalk DEF Init
<1>2. OpenDirs[1 - 1] = <<>> /\ OpenDirs[0] = <<>> /\ Stored(1) = {}
  BY <1>1, DirsUnfold, StoredFirst DEF OpenDirs
<1>3. DownAt(1)
  BY <1>2 DEF Init, DownAt, Talk, Kept, ClientAt, SourceAt
<1>4. AtWork
  BY DEF Init, AtWork
<1>. QED
  BY <1>1, <1>2, <1>3, <1>4 DEF DownInv, Init

\* The server goes on while the client is at item q.
LEMMA TalkServerStep ==
    ASSUME TypeInv, [Next]_vars, kind # "upload", AtWork,
           Server \/ ServerDies, NEW q \in 1 .. Len(plan) + 1, Talk(q)
    PROVE  /\ AtWork' /\ Talk(q)' /\ (Clean' => Clean)
           /\ UNCHANGED <<client, dirs, file, store>>
<1>1. /\ kind' = kind /\ plan' = plan /\ plan \in Plans /\ Len(plan) \in Nat
      /\ StageInv /\ ControlTypes /\ stdout \in Seq(OutMsgs)
  BY SessionFixed, PlanIsWalk DEF TypeInv, StreamTypes
<1>2. /\ UNCHANGED <<client, dirs, file, store>> /\ server # "exited" /\ exit = "none"
      /\ client \in {"begin", "ask", "line", "content", "status"} /\ open
  <2>1. UNCHANGED <<client, dirs, file, store>> /\ server # "exited"
    BY DEF Server, ServerDies, SinkStarts, SinkHeader, SinkDirEnd, SinkStray, SinkData,
       SinkDataEnd, SinkEOF, SourceStarts, SourceHeader, SourceData, SourceAcked, SourceEnds,
       Sink, sinkVars
  <2>2. client \in {"begin", "ask", "line", "content", "status"}
    BY DEF AtWork
  <2>. QED
    BY <1>1, <2>1, <2>2 DEF StageInv, ControlTypes, Reading
<1>3. AtWork'
  BY <1>1, <1>2 DEF AtWork
<1>4. kind' = "download" => q = 1
  BY <1>1 DEF Talk
<1>5. /\ HeaderOf(q)' = HeaderOf(q) /\ Whole(q)' = Whole(q) /\ Part(q)' = Part(q)
      /\ Ok' = Ok /\ Err' = Err
  BY <1>1 DEF HeaderOf, Whole, Part, Ok, Err
<1>6. ClientAt(q) /\ SourceAt(q)
  BY DEF Talk
<1>7. SUFFICES ClientAt(q)' /\ SourceAt(q)' /\ (Clean' => Clean)
  BY <1>1, <1>2, <1>3, <1>4 DEF Talk
<1>8. CASE ServerDies
  <2>1. server' = "exited" /\ exit' # "zero" /\ exit' # "none" /\ errs' = errs
    BY <1>8 DEF ServerDies
  <2>2. PICK n \in 0 .. Len(stdout) : stdout' = SubSeq(stdout, 1, n)
    BY <1>8 DEF ServerDies
  <2>3. stdout' # <<>> => stdout # <<>> /\ Head(stdout') = Head(stdout)
    <3>1. stdout = <<>> => stdout' = <<>>
      BY <2>2, TruncatedShort
    <3>. QED
      BY <1>1, <2>2, <3>1, Truncated
  <2>4. /\ stdout = <<>> => stdout' = <<>>
        /\ \A a, b : stdout \in {<<a>>, <<a, b>>} => stdout' \in {<<>>, <<a>>, <<a, b>>}
        /\ \A a : stdout = <<a>> => stdout' \in {<<>>, <<a>>}
    BY <2>2, TruncatedShort
  <2>5. client' = "line" => \/ stdout' = <<>>
                            \/ IsErr' /\ errs'
                            \/ q <= Len(plan) /\ stdout' = <<HeaderOf(q)>>
    BY <1>2, <1>5, <1>6, <2>1, <2>3, <2>4 DEF ClientAt, IsErr
  <2>6. client = "content" =>
            \/ stdout' \in {<<>>, <<Whole(q)>>, <<Whole(q), Ok>>}
            \/ errs /\ stdout' \in {<<Part(q)>>, <<Part(q), Err>>}
    BY <1>6, <2>4 DEF ClientAt
  <2>7. client = "status" => stdout' \in {<<>>, <<Ok>>, <<Err>>}
    BY <1>6, <2>4 DEF ClientAt
  <2>8. ClientAt(q)'
    BY <1>1, <1>2, <1>5, <1>6, <2>1, <2>4, <2>5, <2>6, <2>7 DEF ClientAt
  <2>. QED
    BY <2>1, <2>8 DEF SourceAt, Clean
<1>9. CASE SourceStarts
  <2>1. /\ server = "start" /\ server' = "next" /\ stdin # <<>> /\ stdin' = Tail(stdin)
        /\ UNCHANGED <<stdout, pos, errs, exit>>
    BY <1>9 DEF SourceStarts, Takes
  <2>2. client = "line" /\ stdin' = <<>> /\ stdout = <<>> /\ q = pos
    BY <1>6, <2>1, ShortSequences DEF SourceAt
  <2>3. ClientAt(q)'
    BY <1>1, <1>2, <2>1, <2>2 DEF ClientAt
  <2>. QED
    BY <1>2, <2>1, <2>2, <2>3 DEF SourceAt, Clean
<1>10. CASE SourceHeader
  <2>1. /\ server = "next" /\ client = "line" /\ stdin = <<>> /\ pos \in 1 .. Len(plan)
        /\ IsErr \/ (stdout = <<>> /\ q = pos)
        /\ stdin' = stdin /\ exit' = exit
        /\ errs => errs'
    BY <1>1, <1>6, <1>10 DEF SourceHeader, SourceAt, ControlTypes
  <2>2. \A m : /\ Append(stdout, m) # <<>>
               /\ Head(Append(stdout, m)) = IF stdout = <<>> THEN m ELSE Head(stdout)
    <3>1. \A m : Head(Append(stdout, m)) = IF stdout = <<>> THEN m ELSE Head(stdout)
      BY <1>1, HeadTailAppend
    <3>2. \A m : Append(stdout, m) # <<>>
      BY <1>1
    <3>. QED
      BY <3>1, <3>2
  <2>3. CASE ToClient(HeaderOf(pos)) /\ server' = (IF plan[pos].type = "C" THEN "fileAck" ELSE "ack")
             /\ pos' = pos /\ errs' = errs
    <3>1. CASE IsErr
      <4>1. IsErr'
        BY <1>5, <2>2, <2>3, <3>1 DEF IsErr, ToClient
      <4>2. errs
        BY <1>6, <2>1, <3>1, <2>2, ShortSequences DEF ClientAt, IsErr, HeaderOf, Err, Msg, SourceAt
      <4>. QED
        BY <1>1, <1>2, <2>1, <2>3, <4>1, <4>2 DEF ClientAt, SourceAt, Clean, ControlTypes
    <3>2. CASE stdout = <<>> /\ q = pos
      <4>1. stdout' = <<HeaderOf(q)>> /\ stdout' # <<>>
        BY <2>3, <3>2, ShortSequences DEF ToClient
      <4>. QED
        BY <1>1, <1>2, <1>5, <2>1, <2>3, <3>2, <4>1 DEF ClientAt, SourceAt, Clean, ControlTypes
    <3>. QED
      BY <2>1, <3>1, <3>2
  <2>4. CASE ToClient(Err) /\ errs' = TRUE /\ server' = server
    <3>1. IsErr'
      <4>1. stdout' # <<>> /\ Head(stdout') = Err
        BY <2>1, <2>2, <2>4 DEF IsErr, ToClient
      <4>. QED
        BY <1>5, <4>1 DEF IsErr
    <3>. QED
      BY <1>1, <1>2, <2>1, <2>4, <3>1 DEF ClientAt, SourceAt, Clean, ControlTypes
  <2>. QED
    BY <1>10, <2>3, <2>4 DEF SourceHeader, HeaderOf
<1>11. CASE SourceData
  <2>1. /\ server = "fileAck" /\ server' = "ack" /\ stdin # <<>> /\ stdin' = Tail(stdin)
        /\ UNCHANGED <<pos, exit>>
    BY <1>11 DEF SourceData, Takes
  <2>2. client = "content" /\ stdin' = <<>> /\ stdout = <<>> /\ q = pos
    BY <1>6, <2>1, ShortSequences DEF SourceAt
  <2>3. \/ stdout' = <<Whole(q), Ok>> /\ errs' = errs
        \/ stdout' = <<Part(q), Err>> /\ errs'
    BY <1>11, <2>2, ShortSequences DEF SourceData, Whole, Part
  <2>4. ClientAt(q)'
    BY <1>1, <1>2, <1>5, <1>6, <2>2, <2>3 DEF ClientAt
  <2>. QED
    BY <1>1, <1>2, <1>5, <2>1, <2>2, <2>3, <2>4 DEF SourceAt, Clean, ControlTypes
<1>12. CASE SourceAcked
  <2>1. /\ server = "ack" /\ server' = "next" /\ stdin # <<>> /\ stdin' = Tail(stdin)
        /\ pos' = pos + 1 /\ UNCHANGED <<stdout, exit, errs>>
    BY <1>12 DEF SourceAcked, Takes
  <2>2. client = "line" /\ stdin' = <<>> /\ stdout = <<>> /\ q = pos + 1
    BY <1>6, <2>1, ShortSequences DEF SourceAt
  <2>3. ClientAt(q)'
    BY <1>1, <1>2, <2>1, <2>2 DEF ClientAt
  <2>. QED
    BY <1>1, <1>2, <2>1, <2>2, <2>3 DEF SourceAt, Clean, ControlTypes
<1>13. CASE SourceEnds
  <2>1. /\ server = "next" /\ pos > Len(plan) /\ Exits(IF errs THEN "nonzero" ELSE "zero")
        /\ UNCHANGED <<stdin, stdout, pos, errs>>
    BY <1>2, <1>13 DEF SourceEnds, Closed
  <2>2. ClientAt(q)'
    BY <1>1, <1>2, <1>5, <1>6, <2>1 DEF ClientAt, IsErr
  <2>3. exit' = "zero" => ~errs /\ client = "line" /\ q = Len(plan) + 1 /\ stdout = <<>>
    <3>1. client = "line" /\ (IsErr \/ (stdout = <<>> /\ q = pos))
      BY <1>6, <2>1 DEF SourceAt
    <3>2. exit' = "zero" => ~errs
      BY <2>1 DEF Exits
    <3>3. IsErr => errs
      BY <1>6, <3>1, ShortSequences DEF ClientAt, IsErr, HeaderOf, Err, Msg
    <3>4. q = pos => q = Len(plan) + 1
      BY <1>1, <2>1 DEF ControlTypes
    <3>. QED
      BY <3>1, <3>2, <3>3, <3>4
  <2>4. server' = "exited" /\ exit' # "none"
    BY <2>1 DEF Exits
  <2>. QED
    BY <1>1, <1>2, <2>1, <2>2, <2>3, <2>4 DEF SourceAt, Clean
<1>14. CASE SinkStarts \/ SinkHeader \/ SinkDirEnd \/ SinkStray \/ SinkData \/ SinkDataEnd \/ SinkEOF
  BY <1>14 DEF SinkStarts, SinkHeader, SinkDirEnd, SinkStray, SinkData, SinkDataEnd, SinkEOF, Sink
<1>. QED
  BY <1>8, <1>9, <1>10, <1>11, <1>12, <1>13, <1>14 DEF Server

\* The header that the client reads is the one of item q.
LEMMA HeaderRead ==
    ASSUME TypeInv, kind # "upload", NEW q \in 1 .. Len(plan) + 1, Talk(q),
           NEW t \in {"C", "D", "E"}, HeaderIs(t)
    PROVE  /\ client = "line" /\ q \in 1 .. Len(plan) /\ plan[q].type = t
           /\ Head(stdout).item = q /\ stdout' = <<>> /\ stdout # <<>> /\ ~IsErr
           /\ exit # "zero"
           /\ server # "exited" => stdin = <<>> /\ q = pos /\ server \in {"fileAck", "ack"}
           /\ server = "fileAck" => t = "C"
           /\ server = "ack" => t # "C"
<1>1. Len(plan) \in Nat /\ StageInv /\ ControlTypes /\ ClientAt(q) /\ SourceAt(q)
  BY PlanIsWalk DEF TypeInv, Talk
<1>2. client = "line" /\ stdout # <<>> /\ Head(stdout).type = t /\ stdout' = Tail(stdout)
  BY DEF HeaderIs
<1>3. ~IsErr
  BY <1>2 DEF IsErr, Err, Msg
<1>4. q \in 1 .. Len(plan) /\ stdout = <<HeaderOf(q)>>
  BY <1>1, <1>2, <1>3 DEF ClientAt
<1>5. plan[q].type = t /\ Head(stdout).item = q /\ stdout' = <<>>
  BY <1>2, <1>4, ShortSequences DEF HeaderOf, Msg
<1>6. exit # "zero" /\ (server # "exited" => stdin = <<>> /\ q = pos /\ server \in {"fileAck", "ack"})
  BY <1>1, <1>2, <1>3 DEF SourceAt, ControlTypes, StageInv
<1>7. /\ server = "fileAck" => t = "C"
      /\ server = "ack" => t # "C"
  <2>1. server = "fileAck" => plan[q].type = "C"
    BY <1>1, <1>2, <1>3 DEF SourceAt
  <2>2. server = "ack" => plan[q].type # "C"
    BY <1>1, <1>2, <1>3 DEF SourceAt
  <2>. QED
    BY <1>5, <2>1, <2>2
<1>. QED
  BY <1>2, <1>3, <1>4, <1>5, <1>6, <1>7

\* The content that the client reads is the one of item q.
LEMMA ContentRead ==
    ASSUME TypeInv, kind # "upload", NEW q \in 1 .. Len(plan) + 1, Talk(q),
           client = "content", stdout # <<>>
    PROVE  /\ q \in 1 .. Len(plan) /\ plan[q].type = "C" /\ file = q
           /\ ~errs => Head(stdout).type = "data"
           /\ Tail(stdout) \in {<<>>, <<Ok>>, <<Err>>}
           /\ exit # "zero"
           /\ server # "exited" => server = "ack" /\ stdin = <<>> /\ q = pos /\ Tail(stdout) # <<>>
<1>1. /\ Len(plan) \in Nat /\ StageInv /\ ControlTypes /\ ClientAt(q) /\ SourceAt(q)
  BY PlanIsWalk DEF TypeInv, Talk
<1>2. q \in 1 .. Len(plan) /\ plan[q].type = "C" /\ file = q
  BY <1>1 DEF ClientAt
<1>3. \/ stdout \in {<<Whole(q)>>, <<Whole(q), Ok>>}
      \/ errs /\ stdout \in {<<Part(q)>>, <<Part(q), Err>>}
  BY <1>1 DEF ClientAt
<1>4. /\ stdout = <<Whole(q)>> => Head(stdout) = Whole(q) /\ Tail(stdout) = <<>>
      /\ stdout = <<Whole(q), Ok>> => Head(stdout) = Whole(q) /\ Tail(stdout) = <<Ok>>
      /\ stdout = <<Part(q)>> => Head(stdout) = Part(q) /\ Tail(stdout) = <<>>
      /\ stdout = <<Part(q), Err>> => Head(stdout) = Part(q) /\ Tail(stdout) = <<Err>>
  <2>1. \A a : Head(<<a>>) = a /\ Tail(<<a>>) = <<>>
    BY ShortSequences
  <2>2. \A a, b : Head(<<a, b>>) = a /\ Tail(<<a, b>>) = <<b>>
    BY ShortSequences
  <2>. QED
    BY <2>1, <2>2
<1>5. Whole(q).type = "data" /\ <<Ok>> # <<>> /\ <<Err>> # <<>>
  BY ShortSequences DEF Whole, Msg
<1>6. exit # "zero" /\ (server # "exited" => server \in {"fileAck", "ack"})
  BY <1>1 DEF SourceAt, ControlTypes, StageInv
<1>7. /\ server # "fileAck"
      /\ server = "ack" => /\ stdin = <<>> /\ q = pos
                           /\ stdout \in {<<Whole(q), Ok>>, <<Part(q), Err>>}
  BY <1>1 DEF SourceAt
<1>. QED
  BY <1>2, <1>3, <1>4, <1>5, <1>6, <1>7

\* The one file has been read, and what the server says of it is next.
StatusRead ==
    client = "status" /\ kind = "download" =>
        /\ stdout # <<>> => Head(stdout) \in {Ok, Err}
        /\ stdout = <<>> => server = "exited"

\* The client takes one message, and stays at item q or comes to the next one.
LEMMA TalkClientStep ==
    ASSUME TypeInv, [Next]_vars, kind # "upload", AtWork, Client,
           NEW q \in 1 .. Len(plan) + 1, Talk(q)
    PROVE  /\ Begin \/ Ask \/ HeaderC \/ StatusOk => ~AtWork' \/ Talk(q)'
           /\ HeaderD \/ HeaderE \/ Content =>
                  ~AtWork' \/ (kind # "download" /\ q <= Len(plan) /\ Talk(q + 1)')
           /\ \/ ~AtWork'
              \/ Begin \/ Ask \/ HeaderC \/ StatusOk \/ HeaderD \/ HeaderE \/ Content
           /\ StatusRead'
<1>1. /\ kind' = kind /\ plan' = plan /\ plan \in Plans /\ Len(plan) \in Nat
      /\ StageInv /\ ControlTypes
  BY SessionFixed, PlanIsWalk DEF TypeInv
<1>2. /\ HeaderOf(q)' = HeaderOf(q) /\ Whole(q)' = Whole(q) /\ Part(q)' = Part(q)
      /\ Ok' = Ok /\ Err' = Err
  BY <1>1 DEF HeaderOf, Whole, Part, Ok, Err
<1>3. ClientAt(q) /\ SourceAt(q) /\ (kind = "download" => q = 1)
  BY DEF Talk
<1>4. client # "status" \/ kind # "download"
  BY DEF AtWork
<1>5. CASE Begin
  <2>1. CASE client' = "done"
    BY <1>5, <2>1 DEF AtWork, StatusRead, Begin, HeaderD, HeaderE, Content, HeaderIs
  <2>2. CASE client' # "done"
    <3>1. client = "begin" /\ client' = "ask" /\ UNCHANGED <<file, serverVars, stdin, stdout, pos>>
      BY <1>1, <1>5, <2>2 DEF Begin, Fail, sinkVars
    <3>2. Talk(q)'
      BY <1>1, <1>2, <1>3, <3>1 DEF Talk, ClientAt, SourceAt, serverVars
    <3>. QED
      BY <1>5, <3>1, <3>2 DEF StatusRead, HeaderD, HeaderE, Content, HeaderIs
  <2>. QED
    BY <2>1, <2>2
<1>6. CASE ReadEOF \/ ReadErr \/ CallbackDone \/ SessionWait
  <2>1. client' \in {"close", "wait", "done"}
    BY <1>6 DEF ReadEOF, AfterEOF, ReadErr, Fail, CallbackDone, SessionWait
  <2>. QED
    BY <2>1 DEF AtWork, StatusRead
<1>7. CASE Ask
  <2>1. /\ client = "ask" /\ client' = "line" /\ stdin' = Append(stdin, Ok)
        /\ UNCHANGED <<file, serverVars, stdout, pos>>
    BY <1>7 DEF Ask, ToServer, sinkVars
  <2>2. stdin = <<>> => stdin' = <<Ok>>
    BY <2>1, ShortSequences
  <2>3. Talk(q)'
    BY <1>1, <1>2, <1>3, <2>1, <2>2 DEF Talk, ClientAt, SourceAt, serverVars
  <2>. QED
    BY <1>7, <2>1, <2>3 DEF StatusRead, HeaderD, HeaderE, Content, HeaderIs
<1>8. CASE HeaderC
  <2>1. HeaderIs("C")
    BY <1>8 DEF HeaderC
  <2>2. /\ client = "line" /\ q \in 1 .. Len(plan) /\ plan[q].type = "C"
        /\ Head(stdout).item = q /\ stdout' = <<>> /\ exit # "zero"
        /\ server # "exited" => stdin = <<>> /\ q = pos /\ server = "fileAck"
    BY <2>1, HeaderRead
  <2>3. UNCHANGED <<serverVars, pos>> /\ file' = q /\ stdin' = Append(stdin, Ok)
    BY <1>8, <2>2 DEF HeaderC, ToServer
  <2>4. stdin = <<>> => stdin' = <<Ok>>
    BY <2>3, ShortSequences
  <2>5. client' \in {"content", "done"}
    BY <1>8 DEF HeaderC, Fail
  <2>6. client' = "content" => Talk(q)'
    BY <1>1, <1>2, <1>3, <2>2, <2>3, <2>4 DEF Talk, ClientAt, SourceAt, serverVars, ControlTypes
  <2>7. ~HeaderD /\ ~HeaderE /\ ~Content
    BY <2>1, <2>2 DEF HeaderD, HeaderE, HeaderIs, Content
  <2>. QED
    BY <1>8, <2>5, <2>6, <2>7 DEF StatusRead, AtWork
<1>9. CASE HeaderD \/ HeaderE
  <2>1. PICK t \in {"D", "E"} : HeaderIs(t) /\ (t = "E" => HeaderE) /\ (t = "D" => HeaderD)
    BY <1>9 DEF HeaderD, HeaderE
  <2>2. /\ client = "line" /\ q \in 1 .. Len(plan) /\ plan[q].type = t
        /\ stdout' = <<>> /\ exit # "zero"
        /\ server # "exited" => stdin = <<>> /\ q = pos /\ server = "ack"
    BY <2>1, HeaderRead
  <2>3. UNCHANGED <<serverVars, pos, stdin>>
    BY <1>9 DEF HeaderD, HeaderE
  <2>4. client' = "done" \/ (client' = "ask" /\ kind # "download")
    <3>1. CASE HeaderD
      BY <3>1 DEF HeaderD, Fail
    <3>2. CASE t = "E"
      <4>1. OpenDirs[q - 1] # <<>>
        BY <1>1, <2>2, <3>2, PlanStep
      <4>2. q - 1 = 0 => OpenDirs[q - 1] = <<>>
        BY <1>1, PlanIsWalk, DirsUnfold DEF OpenDirs
      <4>3. kind # "download"
        BY <1>3, <4>1, <4>2
      <4>. QED
        BY <2>1, <3>2, <4>3 DEF HeaderE
    <3>. QED
      BY <2>1, <3>1, <3>2
  <2>5. client' = "ask" /\ kind # "download" => Talk(q + 1)'
    BY <1>1, <1>2, <2>2, <2>3 DEF Talk, ClientAt, SourceAt, serverVars, ControlTypes
  <2>6. ~Begin /\ ~Ask /\ ~HeaderC /\ ~StatusOk
    BY <2>1, <2>2 DEF Begin, Ask, HeaderC, HeaderIs, StatusOk
  <2>7. q <= Len(plan)
    BY <1>1, <2>2
  <2>. QED
    BY <1>9, <2>4, <2>5, <2>6, <2>7 DEF StatusRead, AtWork
<1>10. CASE Content
  <2>1. /\ client = "content" /\ stdout # <<>> /\ stdout' = Tail(stdout)
        /\ UNCHANGED <<serverVars, file, pos>>
    BY <1>10 DEF Content
  <2>2. /\ q \in 1 .. Len(plan) /\ stdout' \in {<<>>, <<Ok>>, <<Err>>} /\ exit # "zero"
        /\ server # "exited" => server = "ack" /\ stdin = <<>> /\ q = pos /\ stdout' # <<>>
    BY <2>1, ContentRead
  <2>3. \/ client' = "done"
        \/ client' = "status" /\ (kind # "download" => stdin' = stdin)
    BY <1>10 DEF Content, Fail
  <2>4. client' = "status" /\ kind # "download" => Talk(q + 1)'
    <3>1. server = "ack" => q + 1 = pos' + 1
      BY <2>1, <2>2
    <3>. QED
      BY <1>1, <1>2, <2>1, <2>2, <2>3, <3>1 DEF Talk, ClientAt, SourceAt, serverVars, ControlTypes
  <2>5. StatusRead'
    <3>1. /\ stdout' # <<>> => Head(stdout') \in {Ok, Err}
          /\ stdout' = <<>> => server' = "exited"
      BY <2>1, <2>2, ShortSequences DEF serverVars
    <3>. QED
      BY <1>2, <3>1 DEF StatusRead
  <2>6. ~Begin /\ ~Ask /\ ~HeaderC /\ ~StatusOk
    BY <2>1 DEF Begin, Ask, HeaderC, HeaderIs, StatusOk
  <2>7. q <= Len(plan)
    BY <1>1, <2>2
  <2>. QED
    BY <1>1, <1>10, <2>3, <2>4, <2>5, <2>6, <2>7 DEF AtWork
<1>11. CASE StatusOk
  <2>1. /\ client = "status" /\ stdout # <<>> /\ Head(stdout) = Ok /\ stdout' = Tail(stdout)
        /\ UNCHANGED <<file, serverVars, stdin, pos>> /\ client' = "ask"
    BY <1>4, <1>11 DEF StatusOk, Gets, sinkVars
  <2>2. stdout' = <<>>
    BY <1>3, <2>1, ShortSequences DEF ClientAt
  <2>3. Talk(q)'
    BY <1>1, <1>2, <1>3, <2>1, <2>2 DEF Talk, ClientAt, SourceAt, serverVars
  <2>. QED
    BY <2>1, <2>3, <1>11 DEF StatusRead, HeaderD, HeaderE, Content, HeaderIs
<1>12. CASE UploadHeader \/ UploadOpenFails \/ DirAcked \/ FileAcked \/ DataAcked \/ UploadDone
  BY <1>1, <1>12 DEF UploadHeader, UploadOpenFails, DirAcked, FileAcked, DataAcked, UploadDone,
     AtItem, StageInv
<1>. QED
  BY <1>5, <1>6, <1>7, <1>8, <1>9, <1>10, <1>11, <1>12 DEF Client

\* What the client has stored meanwhile stays as it is.
LEMMA DownServerStep ==
    ASSUME TypeInv, [Next]_vars, kind # "upload", AtWork,
           Server \/ ServerDies, NEW q \in 1 .. Len(plan) + 1, DownAt(q)
    PROVE  AtWork' /\ DownAt(q)'
<1>1. OpenDirs' = OpenDirs /\ FilesOf' = FilesOf /\ Stored(q)' = Stored(q)
      /\ \A i : PathOf(i)' = PathOf(i)
  BY SessionFixed
<1>2. AtWork' /\ Talk(q)' /\ (Clean' => Clean) /\ UNCHANGED <<client, dirs, file, store>>
  BY TalkServerStep DEF DownAt
<1>3. Kept(q)' /\ dirs' = OpenDirs'[q - 1]
  BY <1>1, <1>2 DEF DownAt, Kept
<1>. QED
  BY <1>1, <1>2, <1>3 DEF DownAt

\* The client writes to the path that the file has in the walk.
LEMMA WritesOwnPath ==
    ASSUME plan \in Plans, Down, NEW q \in 1 .. Len(plan), DownAt(q),
           plan[q].type = "C", file = q
    PROVE  LocalPath = PathOf(q)
<1>1. PathOf(q) = Append(OpenDirs[q - 1], plan[q].name) /\ dirs = OpenDirs[q - 1]
  BY PlanStep DEF DownAt
<1>2. CASE kind = "download"
  <2>1. q = 1 /\ q - 1 = 0
    BY <1>2 DEF DownAt, Talk
  <2>2. OpenDirs[0] = <<>>
    BY PlanIsWalk, DirsUnfold DEF OpenDirs
  <2>. QED
    BY <1>1, <1>2, <2>1, <2>2, ShortSequences DEF LocalPath
<1>3. CASE DirDownload
  BY <1>1, <1>3 DEF LocalPath, DirDownload, OneWord, Scanned
<1>. QED
  BY <1>2, <1>3 DEF Down

\* A write replaces no file that was stored whole.
LEMMA WriteKeeps ==
    ASSUME plan \in Plans, NEW q \in 1 .. Len(plan), plan[q].type = "C", Kept(q),
           NEW item, Put(PathOf(q), item)
    PROVE  \A s \in store : s.from # 0 => s \in store'
<1>1. ASSUME NEW s \in store, s.from # 0
      PROVE  s.path # PathOf(q)
  BY <1>1, PathsDiffer DEF Kept, FilesOf
<1>. QED
  BY <1>1 DEF Put

\* After a write to the path of item q all that was stored whole comes before
\* item q + 1.
LEMMA KeptNext ==
    ASSUME plan \in Plans, NEW q \in 1 .. Len(plan), Kept(q),
           UNCHANGED <<FilesOf>>, \A i : PathOf(i)' = PathOf(i),
           \/ store' = store
           \/ /\ plan[q].type = "C"
              /\ Put(PathOf(q), q) \/ Put(PathOf(q), 0)
    PROVE  Kept(q + 1)'
<1>1. q \in Nat /\ FilesOf \subseteq Nat
  BY PlanIsWalk DEF FilesOf
<1>2. ASSUME NEW s \in store, s.from # 0
      PROVE  s.from \in FilesOf /\ s.from < q + 1 /\ s.path = PathOf(s.from)
  <2>1. s.from \in FilesOf /\ s.from < q /\ s.path = PathOf(s.from)
    BY <1>2 DEF Kept
  <2>2. s.from \in Nat
    BY <1>1, <2>1
  <2>. QED
    BY <1>1, <2>1, <2>2
<1>3. \A s \in store' : s \in store \/ s = [path |-> PathOf(q), from |-> 0]
                        \/ (plan[q].type = "C" /\ s = [path |-> PathOf(q), from |-> q])
  BY DEF Put
<1>4. plan[q].type = "C" => q \in FilesOf
  BY DEF FilesOf
<1>5. ASSUME NEW s \in store', s.from # 0
      PROVE  s.from \in FilesOf /\ s.from < q + 1 /\ s.path = PathOf(s.from)
  <2>1. CASE s \in store
    BY <1>2, <1>5, <2>1
  <2>2. CASE s \notin store
    <3>1. s = [path |-> PathOf(q), from |-> q] /\ plan[q].type = "C"
      BY <1>3, <1>5, <2>2
    <3>. QED
      BY <1>1, <1>4, <3>1
  <2>. QED
    BY <2>1, <2>2
<1>. QED
  BY <1>5 DEF Kept

\* What a step of the client leads to.
DownNext ==
    /\ AtWork' => \E r \in 1 .. Len(plan) + 1 : DownAt(r)'
    /\ ~AtWork' /\ Clean' /\ result' # "error" => (exit' = "zero" /\ store' = Asked) \/ OneFile'

\* The client takes one message; what was stored whole stays.
LEMMA DownClientStep ==
    ASSUME TypeInv, [Next]_vars, Down, AtWork, Client,
           NEW q \in 1 .. Len(plan) + 1, DownAt(q)
    PROVE  /\ DownNext
           /\ \A s \in store : s.from # 0 => s \in store'
<1>1. /\ kind' = kind /\ plan' = plan /\ plan \in Plans /\ Len(plan) \in Nat
      /\ OpenDirs' = OpenDirs /\ FilesOf' = FilesOf
      /\ \A i : PathOf(i)' = PathOf(i)
      /\ \A i : Stored(i)' = Stored(i)
      /\ StageInv /\ ControlTypes /\ kind # "upload"
  BY SessionFixed, PlanIsWalk DEF TypeInv, Down, DirDownload
<1>2. /\ Begin \/ Ask \/ HeaderC \/ StatusOk => ~AtWork' \/ Talk(q)'
      /\ HeaderD \/ HeaderE \/ Content =>
             ~AtWork' \/ (kind # "download" /\ q <= Len(plan) /\ Talk(q + 1)')
  BY <1>1, TalkClientStep DEF DownAt
<1>3. /\ Talk(q) /\ ClientAt(q) /\ SourceAt(q) /\ (Clean => store = Stored(q)) /\ Kept(q)
      /\ dirs = OpenDirs[q - 1] /\ (kind = "download" => q = 1)
  BY DEF DownAt, Talk
<1>4. ASSUME Fail PROVE DownNext
  BY <1>4 DEF Fail, AtWork, DownNext
<1>5. ASSUME UNCHANGED <<dirs, store, serverVars>>, AtWork', Talk(q)'
      PROVE  DownNext
  <2>1. DownAt(q)'
    BY <1>1, <1>3, <1>5 DEF DownAt, Clean, Kept, serverVars
  <2>. QED
    BY <1>5, <2>1 DEF DownNext
<1>6. ASSUME q <= Len(plan), AtWork', Talk(q + 1)', dirs' = OpenDirs[q], Kept(q + 1)',
             Clean' => store' = Stored(q + 1)
      PROVE  DownNext
  <2>1. q + 1 \in 1 .. Len(plan) + 1 /\ (q + 1) - 1 = q
    BY <1>1, <1>6
  <2>2. DownAt(q + 1)'
    BY <1>1, <1>6, <2>1 DEF DownAt
  <2>. QED
    BY <1>6, <2>1, <2>2 DEF DownNext
<1>7. CASE Begin
  <2>1. CASE Fail
    BY <1>4, <1>7, <2>1 DEF Begin, sinkVars
  <2>2. CASE ~Fail
    <3>1. client' = "ask" /\ UNCHANGED <<dirs, store, serverVars>>
      BY <1>1, <1>7, <2>2 DEF Begin, sinkVars
    <3>. QED
      BY <1>2, <1>5, <1>7, <3>1 DEF AtWork
  <2>. QED
    BY <2>1, <2>2
<1>8. CASE ReadEOF
  <2>1. /\ server = "exited" /\ server' = "exited" /\ client' = "close" /\ stdout = <<>>
        /\ UNCHANGED serverVars
    BY <1>8 DEF ReadEOF, AfterEOF, serverVars
  <2>2. Clean' => exit' = "zero" /\ exit = "zero"
    BY <1>1, <2>1 DEF Clean, ControlTypes, serverVars
  <2>3. exit = "zero" => client = "line" /\ q = Len(plan) + 1 /\ store = Asked
    <3>1. exit = "zero" => client = "line" /\ q = Len(plan) + 1 /\ store = Stored(q)
      BY <1>3 DEF SourceAt, Clean
    <3>. QED
      BY <1>1, <3>1, StoredAll
  <2>4. client # "content" => store' = store
    BY <1>8 DEF ReadEOF
  <2>5. Asked' = Asked
    BY SessionFixed
  <2>6. DownNext
    BY <2>1, <2>2, <2>3, <2>4, <2>5 DEF DownNext, AtWork
  <2>7. \A s \in store : s.from # 0 => s \in store'
    <3>1. CASE client = "content"
      <4>1. q \in 1 .. Len(plan) /\ plan[q].type = "C" /\ file = q
        BY <1>1, <1>3, <3>1 DEF ClientAt
      <4>2. Put(PathOf(q), 0)
        BY <1>1, <1>8, <3>1, <4>1, WritesOwnPath DEF ReadEOF
      <4>. QED
        BY <1>1, <1>3, <4>1, <4>2, WriteKeeps
    <3>. QED
      BY <2>4, <3>1
  <2>. QED
    BY <2>6, <2>7
<1>9. CASE ReadErr
  BY <1>4, <1>9 DEF ReadErr, sinkVars
<1>10. CASE Ask
  <2>1. client' = "line" /\ UNCHANGED <<dirs, store, serverVars>>
    BY <1>10 DEF Ask, sinkVars
  <2>. QED
    BY <1>2, <1>5, <1>10, <2>1 DEF AtWork
<1>12. CASE HeaderC
  <2>1. UNCHANGED <<serverVars, store, dirs>>
    BY <1>12 DEF HeaderC
  <2>2. CASE Fail
    BY <1>4, <2>1, <2>2
  <2>3. CASE ~Fail
    <3>1. client' = "content"
      BY <1>12, <2>3 DEF HeaderC
    <3>. QED
      BY <1>2, <1>5, <1>12, <2>1, <3>1 DEF AtWork
  <2>. QED
    BY <2>1, <2>2, <2>3
<1>13. CASE HeaderD
  <2>1. q \in 1 .. Len(plan) /\ plan[q].type = "D" /\ Head(stdout).item = q
    BY <1>1, <1>3, <1>13, HeaderRead DEF HeaderD
  <2>2. UNCHANGED <<serverVars, store>>
    BY <1>13 DEF HeaderD
  <2>3. CASE Fail
    BY <1>4, <2>2, <2>3
  <2>4. CASE ~Fail
    <3>1. client' = "ask" /\ dirs' = Append(dirs, Scanned(plan[q].name)) /\ kind = "downloadDir"
      BY <1>13, <2>1, <2>4 DEF HeaderD
    <3>2. dirs' = OpenDirs[q]
      BY <1>1, <1>3, <2>1, <3>1, PlanStep DEF Down, DirDownload, OneWord, Scanned
    <3>3. AtWork' /\ Talk(q + 1)' /\ q <= Len(plan)
      BY <1>2, <1>13, <3>1 DEF AtWork
    <3>4. Kept(q + 1)'
      BY <1>1, <1>3, <2>1, <2>2, KeptNext
    <3>5. Clean' => store' = Stored(q + 1)
      BY <1>1, <1>3, <2>1, <2>2, StoredOther DEF Clean, serverVars
    <3>. QED
      BY <1>6, <2>2, <3>2, <3>3, <3>4, <3>5
  <2>. QED
    BY <2>2, <2>3, <2>4
<1>14. CASE HeaderE
  <2>1. q \in 1 .. Len(plan) /\ plan[q].type = "E"
    BY <1>1, <1>3, <1>14, HeaderRead DEF HeaderE
  <2>2. UNCHANGED <<serverVars, store>> /\ client' = "ask" /\ dirs' = Front(dirs)
    BY <1>14 DEF HeaderE, Leave
  <2>3. dirs' = OpenDirs[q]
    BY <1>1, <1>3, <2>1, <2>2, PlanStep
  <2>4. AtWork' /\ Talk(q + 1)' /\ q <= Len(plan)
    BY <1>2, <1>14, <2>2 DEF AtWork
  <2>5. Kept(q + 1)'
    BY <1>1, <1>3, <2>1, <2>2, KeptNext
  <2>6. Clean' => store' = Stored(q + 1)
    BY <1>1, <1>3, <2>1, <2>2, StoredOther DEF Clean, serverVars
  <2>. QED
    BY <1>6, <2>2, <2>3, <2>4, <2>5, <2>6
<1>15. CASE Content
  <2>1. client = "content" /\ stdout # <<>> /\ UNCHANGED <<serverVars, dirs, file, pos>>
    BY <1>15 DEF Content
  <2>2. /\ q \in 1 .. Len(plan) /\ plan[q].type = "C" /\ file = q
        /\ ~errs => Head(stdout).type = "data"
        /\ exit # "zero"
        /\ server # "exited" => server = "ack" /\ stdin = <<>> /\ q = pos
    BY <1>1, <1>3, <2>1, ContentRead
  <2>3. LocalPath = PathOf(q)
    BY <1>1, <2>2, WritesOwnPath
  <2>4. Put(PathOf(q), q) \/ Put(PathOf(q), 0)
    BY <1>15, <2>2, <2>3 DEF Content
  <2>5. \A s \in store : s.from # 0 => s \in store'
    BY <1>1, <1>3, <2>2, <2>4, WriteKeeps
  <2>6. CASE Fail
    BY <1>4, <2>5, <2>6
  <2>7. CASE ~Fail
    <3>1. client' = "status" /\ Put(PathOf(q), IF Head(stdout).type = "data" THEN q ELSE 0)
          /\ IF kind = "download" THEN stdin' = Append(stdin, Ok) ELSE stdin' = stdin
      BY <1>15, <2>2, <2>3, <2>7 DEF Content, ToServer
    <3>2. Clean' => store' = Stored(q + 1) /\ ~errs /\ server = "ack"
      <4>1. Clean' => ~errs /\ exit = "none"
        BY <2>1, <2>2 DEF Clean, serverVars
      <4>2. Clean' => store = Stored(q) /\ Put(PathOf(q), q)
        BY <1>3, <2>2, <3>1, <4>1 DEF Clean
      <4>3. store = Stored(q) /\ Put(PathOf(q), q) => store' = Stored(q + 1)
        BY <1>1, <2>2, StoredFile DEF Put
      <4>. QED
        BY <1>1, <2>2, <4>1, <4>2, <4>3 DEF ControlTypes
    <3>3. CASE kind = "download"
      <4>1. q = 1 /\ q + 1 = 2 /\ plan # <<>> /\ ~AtWork'
        BY <1>1, <1>3, <2>2, <3>1, <3>3, EmptySeq DEF AtWork
      <4>2. Clean' => OneFile'
        <5>1. stdin = <<>> => stdin' = <<Ok>>
          BY <3>1, <3>3, ShortSequences
        <5>. QED
          BY <1>1, <2>1, <2>2, <3>2, <3>3, <4>1, <5>1 DEF OneFile, Ok, serverVars
      <4>. QED
        BY <2>5, <4>1, <4>2 DEF DownNext
    <3>4. CASE kind # "download"
      <4>1. AtWork'
        BY <1>1, <3>1, <3>4 DEF AtWork, Down, DirDownload
      <4>2. Talk(q + 1)' /\ q <= Len(plan)
        BY <1>2, <1>15, <4>1
      <4>3. dirs' = OpenDirs[q]
        BY <1>1, <1>3, <2>1, <2>2, PlanStep
      <4>4. Kept(q + 1)'
        BY <1>1, <1>3, <2>2, <2>4, KeptNext
      <4>. QED
        BY <1>6, <2>5, <3>2, <4>1, <4>2, <4>3, <4>4
    <3>. QED
      BY <3>3, <3>4
  <2>. QED
    BY <2>6, <2>7
<1>16. CASE StatusOk
  <2>1. UNCHANGED <<dirs, store, serverVars>> /\ client' = "ask"
    BY <1>16 DEF StatusOk, AtWork, sinkVars
  <2>. QED
    BY <1>2, <1>5, <1>16, <2>1 DEF AtWork
<1>17. CASE CallbackDone \/ SessionWait
  BY <1>17 DEF CallbackDone, SessionWait, AtWork
<1>18. CASE UploadHeader \/ UploadOpenFails \/ DirAcked \/ FileAcked \/ DataAcked \/ UploadDone
  BY <1>1, <1>18 DEF UploadHeader, UploadOpenFails, DirAcked, FileAcked, DataAcked, UploadDone,
     AtItem, StageInv
<1>. QED
  BY <1>7, <1>8, <1>9, <1>10, <1>12, <1>13, <1>14, <1>15, <1>16, <1>17, <1>18 DEF Client

\* The session after the client's last item.
LEMMA DownEnding ==
    ASSUME TypeInv, [Next]_vars, Down, ~AtWork,
           Clean /\ result # "error" => (exit = "zero" /\ store = Asked) \/ OneFile
    PROVE  /\ ~AtWork' /\ store' = store /\ dirs' = dirs
           /\ Clean' /\ result' # "error" => (exit' = "zero" /\ store' = Asked) \/ OneFile'
<1>1. /\ kind' = kind /\ plan' = plan /\ plan \in Plans /\ Len(plan) \in Nat
      /\ \A i : Stored(i)' = Stored(i)
      /\ StageInv /\ ControlTypes /\ kind # "upload"
  BY SessionFixed, PlanIsWalk DEF TypeInv, Down, DirDownload
<1>2. client \in {"status", "close", "wait", "done"}
  BY <1>1 DEF AtWork, StageInv, ControlTypes, Reading
<1>3. CASE Client
  <2>1. /\ UNCHANGED <<store, dirs, serverVars>>
        /\ client' \in {"close", "wait", "done"}
        /\ result' # "error" => UNCHANGED <<stdin, pos>>
    <3>1. ReadEOF \/ ReadErr \/ CallbackDone \/ SessionWait \/ StatusOk
      BY <1>1, <1>2, <1>3 DEF Client, Begin, UploadHeader, UploadOpenFails, AtItem, DirAcked,
         FileAcked, DataAcked, UploadDone, Ask, HeaderC, HeaderD, HeaderE, HeaderIs, Content
    <3>2. CASE ReadEOF
      BY <1>2, <3>2 DEF ReadEOF, AfterEOF, serverVars
    <3>3. CASE ReadErr
      BY <3>3 DEF ReadErr, Fail, sinkVars, serverVars
    <3>4. CASE CallbackDone \/ SessionWait
      BY <3>4 DEF CallbackDone, SessionWait, sinkVars, serverVars
    <3>5. CASE StatusOk
      <4>1. client = "status" /\ kind = "download"
        BY <3>5 DEF StatusOk, AtWork, Down, DirDownload
      <4>. QED
        BY <3>5, <4>1 DEF StatusOk, sinkVars, serverVars
    <3>. QED
      BY <3>1, <3>2, <3>3, <3>4, <3>5
  <2>2. ~AtWork'
    BY <2>1 DEF AtWork
  <2>3. result' # "error" => result # "error"
    <3>1. result = "error" => client = "done"
      BY <1>1 DEF StageInv
    <3>2. client # "done"
      BY <1>3 DEF Client, Begin, ReadEOF, ReadErr, CallbackDone, Reading,
         SessionWait, UploadHeader, UploadOpenFails, AtItem, DirAcked, FileAcked, DataAcked,
         UploadDone, Ask, HeaderC, HeaderD, HeaderE, HeaderIs, Content, StatusOk
    <3>. QED
      BY <3>1, <3>2
  <2>. QED
    BY <1>1, <2>1, <2>2, <2>3 DEF Clean, OneFile, serverVars, Ok
<1>4. CASE ServerDies
  BY <1>1, <1>4 DEF ServerDies, AtWork, Clean, sinkVars
<1>5. CASE Server
  <2>1. UNCHANGED <<client, dirs, store, result>> /\ server # "exited" /\ ~AtWork'
    BY <1>1, <1>5 DEF AtWork, Server, SinkStarts, SinkHeader, SinkDirEnd, SinkStray, SinkData,
       SinkDataEnd, SinkEOF, SourceStarts, SourceHeader, SourceData, SourceAcked, SourceEnds,
       Sink, sinkVars
  <2>2. SUFFICES ASSUME Clean', result # "error"
                 PROVE  (exit' = "zero" /\ store' = Asked) \/ OneFile'
    <3>1. Asked' = Asked
      BY SessionFixed
    <3>. QED
      BY <2>1, <3>1
  <2>3. exit = "none"
    BY <1>1, <2>1 DEF ControlTypes
  <2>4. CASE SourceStarts
    <3>1. exit' = exit /\ errs' = errs /\ server = "start"
      BY <2>4 DEF SourceStarts
    <3>. QED
      BY <2>2, <2>3, <3>1 DEF Clean, OneFile
  <2>5. CASE SourceHeader
    <3>1. /\ exit' = exit /\ errs' = errs /\ server = "next" /\ server' \in {"ack", "fileAck"}
          /\ pos' = pos /\ stdin' = stdin
      BY <2>2, <2>3, <2>5 DEF SourceHeader, Clean
    <3>2. OneFile
      BY <2>2, <2>3, <3>1 DEF Clean
    <3>. QED
      BY <1>1, <2>1, <3>1, <3>2 DEF OneFile
  <2>6. CASE SourceData
    <3>1. exit' = exit /\ server = "fileAck" /\ stdin # <<>> /\ (errs' = errs \/ errs' = TRUE)
      BY <2>6 DEF SourceData, Takes
    <3>. QED
      BY <2>2, <2>3, <3>1 DEF Clean, OneFile
  <2>7. CASE SourceAcked
    <3>1. /\ exit' = exit /\ errs' = errs /\ server = "ack" /\ server' = "next"
          /\ pos' = pos + 1 /\ stdin # <<>> /\ stdin' = Tail(stdin)
      BY <2>7 DEF SourceAcked, Takes
    <3>2. OneFile
      BY <2>2, <2>3, <3>1 DEF Clean
    <3>3. pos' = 2 /\ stdin' = <<>>
      BY <3>1, <3>2, ShortSequences DEF OneFile
    <3>. QED
      BY <1>1, <2>1, <3>1, <3>2, <3>3 DEF OneFile
  <2>8. CASE SourceEnds
    <3>1. exit' = "zero" /\ ~errs /\ server = "next" /\ pos > Len(plan)
      BY <2>2, <2>3, <2>8 DEF SourceEnds, Exits, Clean
    <3>2. OneFile
      BY <2>2, <2>3, <3>1 DEF Clean
    <3>3. Len(plan) + 1 = 2
      <4>1. plan # <<>> => Len(plan) # 0
        BY <1>1, PlanIsWalk, EmptySeq
      <4>. QED
        BY <1>1, <3>1, <3>2, <4>1 DEF OneFile
    <3>4. store = Asked
      BY <1>1, <3>2, <3>3, StoredAll DEF OneFile
    <3>. QED
      BY <2>1, <3>1, <3>4
  <2>. QED
    BY <1>1, <1>5, <2>4, <2>5, <2>6, <2>7, <2>8 DEF Server, SinkStarts, SinkHeader, SinkDirEnd,
       SinkStray, SinkData, SinkDataEnd, SinkEOF, Sink
<1>6. CASE UNCHANGED vars
  <2>1. Asked' = Asked
    BY SessionFixed
  <2>. QED
    BY <1>1, <1>6, <2>1 DEF vars, fixed, sinkVars, serverVars, AtWork, Clean, OneFile, Ok
<1>. QED
  BY <1>3, <1>4, <1>5, <1>6 DEF Next, Ended

\* Both together.
LEMMA DownInvStep ==
    ASSUME TypeInv, DownInv, [Next]_vars
    PROVE  /\ DownInv'
           /\ DirDownload => \A s \in store : s.from # 0 => s \in store'
<1>1. /\ kind' = kind /\ plan' = plan /\ plan \in Plans /\ Len(plan) \in Nat
      /\ OpenDirs' = OpenDirs /\ Asked' = Asked
  BY SessionFixed, PlanIsWalk DEF TypeInv
<1>2. Down' = Down /\ DirDownload' = DirDownload /\ (DirDownload => Down)
  BY <1>1 DEF Down, DirDownload, OneWord
<1>3. SUFFICES ASSUME Down
               PROVE  /\ AtWork' => \E q \in 1 .. Len(plan) + 1 : DownAt(q)'
                      /\ ~AtWork' /\ Clean' /\ result' # "error" =>
                             (exit' = "zero" /\ store' = Asked) \/ OneFile'
                      /\ DirDownload => \E i \in 0 .. Len(plan) : dirs' = OpenDirs[i]
                      /\ \A s \in store : s.from # 0 => s \in store'
  BY <1>1, <1>2 DEF DownInv
<1>4. /\ AtWork => \E q \in 1 .. Len(plan) + 1 : DownAt(q)
      /\ ~AtWork /\ Clean /\ result # "error" => (exit = "zero" /\ store = Asked) \/ OneFile
      /\ DirDownload => \E i \in 0 .. Len(plan) : dirs = OpenDirs[i]
  BY <1>3 DEF DownInv
<1>5. CASE ~AtWork
  BY <1>3, <1>4, <1>5, DownEnding
<1>6. CASE AtWork
  <2>1. PICK q \in 1 .. Len(plan) + 1 : DownAt(q)
    BY <1>4, <1>6
  <2>2. /\ DownNext
        /\ \A s \in store : s.from # 0 => s \in store'
    <3>1. CASE Client
      BY <1>3, <1>6, <2>1, <3>1, DownClientStep
    <3>2. CASE Server \/ ServerDies
      <4>1. AtWork' /\ DownAt(q)' /\ kind # "upload"
        BY <1>3, <1>6, <2>1, <3>2, DownServerStep DEF Down, DirDownload
      <4>2. store' = store
        BY <3>2, <4>1 DEF Server, ServerDies, SinkStarts, SinkHeader, SinkDirEnd, SinkStray,
           SinkData, SinkDataEnd, SinkEOF, SourceStarts, SourceHeader, SourceData, SourceAcked,
           SourceEnds, Sink, sinkVars
      <4>. QED
        BY <2>1, <4>1, <4>2 DEF DownNext
    <3>3. CASE UNCHANGED vars
      <4>1. AtWork' /\ DownAt(q)' /\ store' = store
        <5>1. /\ FilesOf' = FilesOf /\ \A i : PathOf(i)' = PathOf(i)
              /\ \A i : Stored(i)' = Stored(i)
          BY SessionFixed
        <5>. QED
          BY <1>1, <1>6, <2>1, <3>3, <5>1 DEF vars, fixed, sinkVars, serverVars, AtWork, DownAt,
             Talk, Kept, Clean, ClientAt, SourceAt, IsErr, Ok, Err, HeaderOf, Whole, Part
      <4>. QED
        BY <2>1, <4>1 DEF DownNext
    <3>. QED
      BY <3>1, <3>2, <3>3 DEF Next, Ended
  <2>3. ASSUME DirDownload PROVE \E i \in 0 .. Len(plan) : dirs' = OpenDirs[i]
    <3>1. CASE AtWork'
      <4>1. PICK r \in 1 .. Len(plan) + 1 : DownAt(r)'
        BY <2>2, <3>1 DEF DownNext
      <4>2. r - 1 \in 0 .. Len(plan) /\ dirs' = OpenDirs[r - 1]
        BY <1>1, <4>1 DEF DownAt
      <4>. QED
        BY <4>2
    <3>2. CASE ~AtWork'
      <4>1. dirs' = dirs
        BY <1>1, <2>3, <3>2 DEF DirDownload, AtWork, vars, fixed, sinkVars, Next, Ended, Client,
           Server, ServerDies, Begin, ReadEOF, ReadErr, Fail, CallbackDone, SessionWait,
           UploadHeader, UploadOpenFails, DirAcked, FileAcked, DataAcked, UploadDone, Ask, HeaderC,
           HeaderD, HeaderE, Content, StatusOk, SinkStarts, SinkHeader, SinkDirEnd, SinkStray,
           SinkData, SinkDataEnd, SinkEOF, SourceStarts, SourceHeader, SourceData, SourceAcked,
           SourceEnds, Sink
      <4>. QED
        BY <1>4, <2>3, <4>1
    <3>. QED
      BY <3>1, <3>2
  <2>. QED
    BY <2>2, <2>3 DEF DownNext
<1>. QED
  BY <1>5, <1>6

-----------------------------------------------------------------------------
(* The invariant and what it gives                                          *)

Inv == TypeInv /\ UpStream /\ UpInv /\ AnswerInv /\ RefusedInv /\ DownInv

LEMMA InvInit == Init => Inv
BY TypeInvInit, UpStreamInit, UpInvInit, AnswerInvInit, RefusedInvInit, DownInvInit DEF Inv

LEMMA InvStep == Inv /\ [Next]_vars => Inv'
<1>. SUFFICES ASSUME Inv, [Next]_vars PROVE Inv'
  OBVIOUS
<1>1. TypeInv'
  BY SessionFixed, StreamStep, SinkStep, ControlStep, StageStep DEF Inv, TypeInv
<1>2. UpStream'
  BY UpStreamStep DEF Inv
<1>3. UpInv'
  BY UpInvStep DEF Inv
<1>4. AnswerInv'
  BY AnswerInvStep DEF Inv
<1>5. RefusedInv'
  BY RefusedInvStep DEF Inv
<1>6. DownInv'
  BY DownInvStep DEF Inv
<1>. QED
  BY <1>1, <1>2, <1>3, <1>4, <1>5, <1>6 DEF Inv

\* The messages of both kinds of sessions are messages.
LEMMA TypesCorrect == Inv => TypeOK
<1>. SUFFICES ASSUME Inv PROVE TypeOK
  OBVIOUS
<1>1. TypeInv /\ Ok \in Messages /\ Err \in Messages
  BY PlanIsWalk DEF Inv, TypeInv, Messages, Ok, Err, Msg
<1>2. InMsgs \subseteq Messages /\ OutMsgs \subseteq Messages
  BY <1>1 DEF InMsgs, OutMsgs
<1>3. stdin \in Seq(Messages) /\ stdout \in Seq(Messages)
  BY <1>1, <1>2 DEF TypeInv, StreamTypes
<1>4. Types
  BY <1>1, <1>3 DEF Types, TypeInv, SinkTypes, ControlTypes
<1>5. DirDownload => \E i \in 0 .. Len(plan) : dirs = OpenDirs[i]
  BY DEF Inv, DownInv, Down
<1>. QED
  BY <1>4, <1>5 DEF TypeOK

\* The result is ok only after an exit with status 0.
LEMMA StoredCorrect == Inv => OkMeansStored
<1>. SUFFICES ASSUME Inv, result = "ok", kind = "downloadDir" => OneWord
              PROVE  store = Expected
  BY DEF OkMeansStored, Expected
<1>1. /\ kind \in {"upload", "download", "downloadDir"}
      /\ exit = "zero" /\ server = "exited" /\ client = "done"
  BY ScpAssumption DEF Inv, TypeInv, StageInv, ControlTypes
<1>2. CASE kind = "upload"
  BY <1>1, <1>2 DEF Inv, UpInv
<1>3. CASE kind # "upload"
  <2>1. target = "dir"
    BY <1>3 DEF Inv, TypeInv
  <2>2. store = Asked
    BY <1>1, <1>3 DEF Inv, DownInv, Down, DirDownload, AtWork, Clean, OneFile
  <2>. QED
    BY <2>1, <2>2 DEF Expected
<1>. QED
  BY <1>2, <1>3

LEMMA InvAlways == Spec => []Inv
BY InvInit, InvStep, PTL DEF Spec

\* The variables keep their types, and the stack of DownloadDir is one of
\* the directories of the walk (communicator.go:176-212).
THEOREM TypeCorrect == Spec => []TypeOK
BY InvAlways, TypesCorrect, PTL

\* A transfer that returns no error has stored, whole, every file it was asked
\* for under its own path below a target that is a directory, and nothing else;
\* below any other target, of the files that meet under its name the last one
\* (communicator.go:548-735).
THEOREM OkIsStored == Spec => []OkMeansStored
BY InvAlways, StoredCorrect, PTL

\* After a refused header an upload goes on for no more answers than the ones
\* it reads late, one and one for each end of a directory
\* (communicator.go:740-757, 833-852).
THEOREM RefusalsAreNoticed == Spec => []RefusalNoticed
<1>1. Inv => RefusalNoticed
  BY RefusedCorrect DEF Inv
<1>. QED
  BY InvAlways, <1>1, PTL

\* No step replaces a file that DownloadDir has stored (communicator.go:176-212,
\* 759-769).
THEOREM FilesAreKept == Spec => KeptOnceStored
<1>1. Inv /\ [Next]_vars => [DirDownload => \A s \in store : s.from # 0 => s \in store']_vars
  BY DownInvStep DEF Inv
<1>. QED
  BY InvAlways, <1>1, PTL DEF Spec, KeptOnceStored

-----------------------------------------------------------------------------
(* No one waits for the other                                               *)

\* What follows what the server reads: a file's content has an end, and content
\* is sent to a server that expects some.
SinkReads ==
    kind = "upload" /\ server # "exited" =>
        /\ stdin # <<>> => Last(stdin).type # "data"
        /\ server = "data" =>
               /\ stdin # <<>> => Head(stdin).type \in {"data", "part"}
               /\ stdin = <<>> => client \in {"fileAck", "done"}
        /\ server = "end" => stdin # <<>> /\ Head(stdin).type = "ok"

LEMMA SinkReadsInit == Init => SinkReads
BY DEF Init, SinkReads

LEMMA SinkReadsStep ==
    ASSUME TypeInv, UpStream, SinkReads, [Next]_vars
    PROVE  SinkReads'
<1>. SUFFICES ASSUME kind' = "upload", server' # "exited"
              PROVE  /\ stdin' # <<>> => Last(stdin').type # "data"
                     /\ server' = "data" =>
                            /\ stdin' # <<>> => Head(stdin').type \in {"data", "part"}
                            /\ stdin' = <<>> => client' \in {"fileAck", "done"}
                     /\ server' = "end" => stdin' # <<>> /\ Head(stdin').type = "ok"
  BY DEF SinkReads, Last
<1>1. /\ kind = "upload" /\ plan' = plan /\ plan \in Plans /\ Len(plan) \in Nat
      /\ pos \in 1 .. Len(plan) + 1 /\ stdin \in Seq(InMsgs) /\ StageInv /\ ControlTypes
  BY SessionFixed, PlanIsWalk DEF TypeInv, StreamTypes, ControlTypes
<1>2. ASSUME server # "exited"
      PROVE  /\ Linked(stdin)
             /\ stdin # <<>> => SentLast(Last(stdin)) /\ Last(stdin).type # "data"
             /\ server = "data" =>
                    /\ stdin # <<>> => Head(stdin).type \in {"data", "part"}
                    /\ stdin = <<>> => client \in {"fileAck", "done"}
             /\ server = "end" => stdin # <<>> /\ Head(stdin).type = "ok"
  BY <1>1, <1>2 DEF UpStream, SinkReads
<1>3. CASE /\ UNCHANGED <<stdin, server>> /\ server # "exited"
           /\ client' = client \/ client # "fileAck" \/ client' = "done"
           /\ client # "done"
  BY <1>2, <1>3
<1>4. CASE UNCHANGED <<stdin, server, client>> /\ server # "exited"
  BY <1>2, <1>4
<1>5. CASE UploadHeader
  <2>1. /\ client = "next" /\ pos \in 1 .. Len(plan) /\ UNCHANGED server
        /\ stdin' = Append(stdin, Msg(plan[pos].type, pos))
    BY <1>1, <1>5 DEF UploadHeader, AtItem, ToServer, serverVars
  <2>. DEFINE m == Msg(plan[pos].type, pos)
  <2>2. m \in InMsgs /\ m.type \in {"C", "D", "E"}
    BY <1>1, <2>1, PlanStep DEF Msg, InMsgs, Messages, Header
  <2>3. stdin # <<>> => Follows(Last(stdin), m)
    <3>1. m.item = pos /\ m.type \in Header
      BY <2>2 DEF Msg, Header
    <3>2. stdin # <<>> => SentLast(Last(stdin))
      BY <1>2, <2>1
    <3>3. stdin # <<>> => Last(stdin).item = pos - 1 /\ Last(stdin).type \in {"D", "E", "ok"}
      BY <2>1, <3>2 DEF SentLast
    <3>4. (pos - 1) + 1 = pos
      BY <1>1
    <3>. HIDE DEF m
    <3>. QED
      BY <3>1, <3>3, <3>4 DEF Follows
  <2>. HIDE DEF m
  <2>4. /\ stdin' # <<>> /\ Last(stdin') = m
        /\ Head(stdin') = IF stdin = <<>> THEN m ELSE Head(stdin)
    BY <1>1, <1>2, <2>1, <2>2, <2>3, LinkedAppend DEF m
  <2>. QED
    BY <1>2, <2>1, <2>2, <2>4
<1>6. CASE FileAcked
  <2>1. client = "fileAck" /\ pos \in 1 .. Len(plan) /\ plan[pos].type = "C" /\ server' = server
    BY <1>1, <1>6 DEF FileAcked, StageInv, serverVars
  <2>2. \/ stdin' = stdin \o <<Msg("data", pos), EndOf(pos)>>
        \/ stdin' = Append(stdin, Msg("part", pos))
    BY <1>6 DEF FileAcked, ToServer
  <2>3. PICK m \in {Msg("data", pos), Msg("part", pos)} :
            stdin' # <<>> /\ Head(stdin') = IF stdin = <<>> THEN m ELSE Head(stdin)
    BY <1>1, <2>1, <2>2, FileHead
  <2>4. Last(stdin') \in {EndOf(pos), Msg("part", pos)}
    <3>1. Msg("data", pos) \in InMsgs /\ EndOf(pos) \in InMsgs /\ Msg("part", pos) \in InMsgs
      BY <1>1, <2>1 DEF InMsgs, Messages, Msg, EndOf
    <3>. DEFINE one == Append(stdin, Msg("data", pos))
    <3>2. CASE stdin' = Append(stdin, Msg("part", pos))
      <4>1. Last(stdin') = Msg("part", pos)
        BY <1>1, <3>1, <3>2, AppendProperties DEF Last
      <4>. QED
        BY <4>1
    <3>3. CASE stdin' = stdin \o <<Msg("data", pos), EndOf(pos)>>
      <4>1. one \in Seq(InMsgs) /\ stdin' = Append(one, EndOf(pos))
        BY <1>1, <3>1, <3>3, ConcatTwo, AppendProperties
      <4>. HIDE DEF one
      <4>2. Last(stdin') = EndOf(pos)
        BY <3>1, <4>1, AppendProperties DEF Last
      <4>. QED
        BY <4>2
    <3>. QED
      BY <2>2, <3>2, <3>3
  <2>5. m.type \in {"data", "part"} /\ Last(stdin').type # "data"
    BY <2>3, <2>4 DEF Msg, EndOf
  <2>. QED
    BY <1>2, <2>1, <2>3, <2>5
<1>7. CASE SinkHeader \/ SinkDirEnd \/ SinkData \/ SinkDataEnd
  <2>1. /\ stdin # <<>> /\ stdin' = Tail(stdin) /\ server # "exited" /\ client' = client
        /\ \/ server' = "line"
           \/ server' = "data" /\ Head(stdin).type = "C"
           \/ server' = "end" /\ Head(stdin).type = "data"
    BY <1>7 DEF SinkHeader, SinkDirEnd, SinkData, SinkDataEnd, TakesType, Exits
  <2>2. /\ stdin' # <<>> => Follows(Head(stdin), Head(stdin')) /\ Last(stdin') = Last(stdin)
        /\ stdin' = <<>> => Last(stdin) = Head(stdin)
    BY <1>1, <1>2, <2>1, LinkedTail
  <2>3. stdin' # <<>> => Last(stdin').type # "data"
    BY <1>2, <2>1, <2>2
  <2>4. CASE server' = "data" /\ Head(stdin).type = "C"
    <3>1. stdin' # <<>> => Head(stdin').type \in {"data", "part"}
      BY <2>2, <2>4 DEF Follows
    <3>2. ASSUME stdin' = <<>> PROVE client \in {"fileAck", "done"}
      <4>1. SentLast(Head(stdin)) /\ client # "begin"
        BY <1>1, <1>2, <2>1, <2>2, <3>2 DEF StageInv
      <4>2. client \in {"next", "dirAck", "fileAck", "dataAck", "close", "wait", "done"}
        BY <1>1, <4>1 DEF StageInv, ControlTypes, Reading
      <4>. QED
        BY <2>4, <4>1, <4>2 DEF SentLast
    <3>. QED
      BY <2>1, <2>3, <2>4, <3>1, <3>2
  <2>5. CASE server' = "end" /\ Head(stdin).type = "data"
    <3>1. stdin' # <<>>
      BY <1>2, <2>1, <2>2, <2>5
    <3>2. Head(stdin').type = "ok"
      BY <2>2, <2>5, <3>1 DEF Follows, Header
    <3>. QED
      BY <2>3, <2>5, <3>1, <3>2
  <2>. QED
    BY <2>1, <2>3, <2>4, <2>5
<1>8. CASE SinkStarts
  BY <1>2, <1>8 DEF SinkStarts
<1>9. CASE UploadDone \/ CallbackDone \/ Begin \/ ReadErr \/ UploadOpenFails \/ DirAcked \/ DataAcked
  <2>1. /\ UNCHANGED <<stdin, server>> /\ client # "done"
        /\ client # "fileAck" \/ client' = "done"
    BY <1>9 DEF UploadDone, CallbackDone, Begin, ReadErr, UploadOpenFails, AtItem, DirAcked,
       DataAcked, Fail, Reading, serverVars
  <2>. QED
    BY <1>3, <2>1
<1>10. CASE \/ Ask \/ HeaderC \/ HeaderD \/ HeaderE \/ Content \/ StatusOk
            \/ SourceStarts \/ SourceHeader \/ SourceData \/ SourceAcked \/ SourceEnds
  BY <1>1, <1>10 DEF StageInv, Ask, HeaderC, HeaderD, HeaderE, Content, StatusOk, HeaderIs,
     SourceStarts, SourceHeader, SourceData, SourceAcked, SourceEnds, Sink
<1>11. CASE ReadEOF \/ SessionWait \/ ServerDies \/ SinkStray \/ SinkEOF
  BY <1>11 DEF ReadEOF, SessionWait, ServerDies, SinkStray, SinkEOF, Exits, serverVars
<1>12. CASE UNCHANGED vars
  BY <1>4, <1>12 DEF vars, serverVars
<1>. QED
  BY <1>5, <1>6, <1>7, <1>8, <1>9, <1>10, <1>11, <1>12 DEF Next, Client, Server, Ended

\* Client and server are at one item of a download, or the client reads what the
\* server says of its one file.
TalkInv ==
    kind # "upload" =>
        /\ AtWork => \E q \in 1 .. Len(plan) + 1 : Talk(q)
        /\ StatusRead

LEMMA TalkInvInit == Init => TalkInv
<1>. SUFFICES ASSUME Init PROVE TalkInv
  OBVIOUS
<1>1. 1 \in 1 .. Len(plan) + 1
  BY PlanIsWalk DEF Init
<1>2. Talk(1) /\ StatusRead
  BY DEF Init, Talk, ClientAt, SourceAt, StatusRead
<1>. QED
  BY <1>1, <1>2 DEF TalkInv

LEMMA TalkInvStep ==
    ASSUME TypeInv, TalkInv, [Next]_vars
    PROVE  TalkInv'
<1>. SUFFICES ASSUME kind # "upload"
              PROVE  /\ AtWork' => \E q \in 1 .. Len(plan) + 1 : Talk(q)'
                     /\ StatusRead'
  BY SessionFixed DEF TalkInv
<1>1. /\ kind' = kind /\ plan' = plan /\ Len(plan) \in Nat /\ StageInv /\ ControlTypes
      /\ stdout \in Seq(OutMsgs) /\ Ok' = Ok /\ Err' = Err
  BY SessionFixed, PlanIsWalk DEF TypeInv, StreamTypes, Ok, Err, Msg
<1>2. CASE AtWork
  <2>1. PICK q \in 1 .. Len(plan) + 1 : Talk(q)
    BY <1>2 DEF TalkInv
  <2>2. CASE Client
    <3>1. /\ StatusRead'
          /\ ~AtWork' \/ Talk(q)' \/ (q <= Len(plan) /\ Talk(q + 1)')
      BY <1>2, <2>1, <2>2, TalkClientStep
    <3>2. q <= Len(plan) => q + 1 \in 1 .. Len(plan) + 1
      BY <1>1
    <3>. QED
      BY <2>1, <3>1, <3>2
  <2>3. CASE Server \/ ServerDies
    <3>1. AtWork' /\ Talk(q)'
      BY <1>2, <2>1, <2>3, TalkServerStep
    <3>2. client' # "status" \/ kind' # "download"
      BY <3>1 DEF AtWork
    <3>. QED
      BY <2>1, <3>1, <3>2 DEF StatusRead
  <2>4. CASE UNCHANGED vars
    <3>1. Talk(q)' /\ StatusRead'
      BY <1>2, <2>1, <2>4 DEF vars, fixed, sinkVars, serverVars, AtWork, Talk, ClientAt, SourceAt,
         IsErr, HeaderOf, Whole, Part, Ok, Err, Msg, StatusRead
    <3>. QED
      BY <2>1, <3>1
  <2>. QED
    BY <2>2, <2>3, <2>4 DEF Next, Ended
<1>3. CASE ~AtWork
  <2>1. client \in {"status", "close", "wait", "done"}
    BY <1>1, <1>3 DEF AtWork, StageInv, ControlTypes, Reading
  <2>2. CASE Client
    <3>1. client' \in {"close", "wait", "done"}
      <4>1. client = "status" => kind = "download"
        BY <1>3, ScpAssumption DEF AtWork, TypeInv
      <4>2. ReadEOF \/ ReadErr \/ CallbackDone \/ SessionWait \/ (StatusOk /\ kind = "download")
        BY <1>1, <2>1, <2>2, <4>1 DEF AtWork, StageInv, ControlTypes, Reading, Client, Begin,
           UploadHeader, UploadOpenFails, AtItem, DirAcked, FileAcked, DataAcked, UploadDone,
           Ask, HeaderC, HeaderD, HeaderE, HeaderIs, Content, StatusOk
      <4>. QED
        BY <4>2 DEF ReadEOF, AfterEOF, ReadErr, Fail, CallbackDone, SessionWait, StatusOk
    <3>. QED
      BY <3>1 DEF AtWork, StatusRead
  <2>3. CASE Server \/ ServerDies
    <3>1. client' = client /\ server # "exited"
      BY <2>3 DEF Server, ServerDies, SinkStarts, SinkHeader, SinkDirEnd, SinkStray, SinkData,
         SinkDataEnd, SinkEOF, SourceStarts, SourceHeader, SourceData, SourceAcked, SourceEnds
    <3>2. ~AtWork'
      BY <1>1, <1>3, <3>1 DEF AtWork
    <3>3. ASSUME client = "status", kind = "download"
          PROVE  /\ stdout' # <<>> => Head(stdout') \in {Ok, Err}
                 /\ stdout' = <<>> => server' = "exited"
      <4>1. stdout # <<>> /\ Head(stdout) \in {Ok, Err}
        BY <3>1, <3>3 DEF TalkInv, StatusRead
      <4>2. CASE ServerDies
        <5>1. PICK n \in 0 .. Len(stdout) : stdout' = SubSeq(stdout, 1, n)
          BY <4>2 DEF ServerDies
        <5>2. stdout' # <<>> => Head(stdout') = Head(stdout)
          BY <1>1, <5>1, Truncated
        <5>. QED
          BY <4>1, <4>2, <5>2 DEF ServerDies
      <4>3. CASE Server
        <5>1. \/ stdout' = stdout
              \/ \E m : stdout' = Append(stdout, m)
              \/ \E m, n : stdout' = stdout \o <<m, n>>
          BY <1>1, <4>3 DEF Server, SinkStarts, SinkHeader, SinkDirEnd, SinkStray, SinkData,
             SinkDataEnd, SinkEOF, SourceStarts, SourceHeader, SourceData, SourceAcked,
             SourceEnds, Sink, ToClient
        <5>2. \A m : Append(stdout, m) # <<>> /\ Head(Append(stdout, m)) = Head(stdout)
          BY <1>1, <4>1, HeadTailAppend
        <5>3. \A m, n : stdout \o <<m, n>> # <<>> /\ Head(stdout \o <<m, n>>) = Head(stdout)
          BY <1>1, <4>1
        <5>. QED
          BY <4>1, <5>1, <5>2, <5>3
      <4>. QED
        BY <2>3, <4>2, <4>3
    <3>. QED
      BY <1>1, <3>1, <3>2, <3>3 DEF StatusRead
  <2>4. CASE UNCHANGED vars
    <3>1. ~AtWork'
      BY <1>3, <2>4 DEF vars, fixed, AtWork
    <3>2. StatusRead'
      BY <1>1, <2>4 DEF TalkInv, vars, fixed, serverVars, StatusRead
    <3>. QED
      BY <3>1, <3>2
  <2>. QED
    BY <2>2, <2>3, <2>4 DEF Next, Ended
<1>. QED
  BY <1>2, <1>3

\* The client waits for the end of the server only after it has closed its stream.
StreamClosed == client \in {"wait", "done"} => ~open

LEMMA StreamClosedStep == StreamClosed /\ [Next]_vars => StreamClosed'
<1>. SUFFICES ASSUME StreamClosed, [Next]_vars PROVE StreamClosed'
  OBVIOUS
<1>1. CASE Client
  BY <1>1 DEF Client, StreamClosed, Begin, ReadEOF, AfterEOF, ReadErr, Fail, CallbackDone, CloseStdin,
     SessionWait, UploadHeader, UploadOpenFails, AtItem, DirAcked, FileAcked, AfterData, DataAcked,
     UploadDone, Ask, HeaderC, HeaderD, HeaderE, HeaderIs, Content, StatusOk
<1>2. CASE Server \/ ServerDies
  BY <1>2 DEF StreamClosed, Server, ServerDies, SinkStarts, SinkHeader, SinkDirEnd, SinkStray,
     SinkData, SinkDataEnd, SinkEOF, SourceStarts, SourceHeader, SourceData, SourceAcked, SourceEnds
<1>3. CASE UNCHANGED vars
  BY <1>3 DEF StreamClosed, vars
<1>. QED
  BY <1>1, <1>2, <1>3 DEF Next, Ended

TurnInv == Inv /\ SinkReads /\ TalkInv /\ StreamClosed

LEMMA TurnInvAlways == Spec => []TurnInv
<1>1. Init => TurnInv
  BY InvInit, SinkReadsInit, TalkInvInit DEF TurnInv, Init, StreamClosed
<1>2. TurnInv /\ [Next]_vars => TurnInv'
  BY InvStep, SinkReadsStep, TalkInvStep, StreamClosedStep DEF TurnInv, Inv
<1>. QED
  BY <1>1, <1>2, PTL DEF Spec

\* The client has a step: it is not waiting for the server, the server is gone,
\* or there is a message that it takes where it is.
ClientCan ==
    \/ client \in {"begin", "next", "ask", "close"}
    \/ client \in Reading /\ stdout = <<>> /\ server = "exited"
    \/ client = "wait" /\ server = "exited"
    \/ /\ client \in {"dirAck", "fileAck", "dataAck", "status"}
       /\ stdout # <<>> /\ Head(stdout) \in {Ok, Err}
    \/ client = "line" /\ stdout # <<>> /\ (Head(stdout) = Err \/ Head(stdout).type \in Header)
    \/ client = "content" /\ stdout # <<>> /\ Head(stdout).type \in {"data", "part"}

\* The server has a step.
ServerCan ==
    \/ Sink /\ server = "start"
    \/ server = "next"
    \/ server = "line" /\ (Closed \/ stdin # <<>>)
    \/ server = "data" /\ (Closed \/ (stdin # <<>> /\ Head(stdin).type \in {"data", "part"}))
    \/ server = "end" /\ stdin # <<>> /\ Head(stdin).type = "ok"
    \/ ~Sink /\ server \in {"start", "fileAck", "ack"} /\ (Closed \/ (stdin # <<>> /\ Head(stdin) = Ok))

OneCanGoOn == client # "done" \/ server # "exited" => ClientCan \/ ServerCan

\* What the client reads is something that it takes where it is.
LEMMA ReadsFit ==
    ASSUME TurnInv, client \in Reading, stdout # <<>>
    PROVE  ClientCan
<1>1. /\ Len(plan) \in Nat /\ stdout \in Seq(OutMsgs) /\ StageInv /\ ControlTypes
  BY PlanIsWalk DEF TurnInv, Inv, TypeInv, StreamTypes
<1>2. CASE kind = "upload"
  <2>1. client \in {"dirAck", "fileAck", "dataAck"}
    BY <1>1, <1>2 DEF StageInv, Reading
  <2>2. Head(stdout) \in {Ok, Err}
    BY <1>1, <1>2 DEF OutMsgs
  <2>. QED
    BY <1>2, <2>1, <2>2 DEF ClientCan
<1>3. CASE kind # "upload"
  <2>1. client \in {"line", "content", "status"}
    BY <1>1, <1>3 DEF StageInv, Reading
  <2>2. CASE client = "status" /\ kind = "download"
    BY <1>3, <2>2 DEF TurnInv, TalkInv, StatusRead, ClientCan
  <2>3. CASE ~(client = "status" /\ kind = "download")
    <3>1. AtWork
      BY <1>3, <2>1, <2>3, ScpAssumption DEF AtWork, TurnInv, Inv, TypeInv
    <3>2. PICK q \in 1 .. Len(plan) + 1 : Talk(q)
      BY <1>3, <3>1 DEF TurnInv, TalkInv
    <3>3. ClientAt(q)
      BY <3>2 DEF Talk
    <3>4. \A a, b : Head(<<a>>) = a /\ Head(<<a, b>>) = a
      BY ShortSequences
    <3>5. CASE client = "line"
      <4>1. Head(stdout) = Err \/ (q <= Len(plan) /\ stdout = <<HeaderOf(q)>>)
        BY <1>3, <3>3, <3>5 DEF ClientAt, IsErr
      <4>2. q <= Len(plan) => HeaderOf(q).type \in Header
        BY <1>1, PlanStep DEF HeaderOf, Msg, Header, TurnInv, Inv, TypeInv
      <4>. QED
        BY <1>3, <3>4, <3>5, <4>1, <4>2 DEF ClientCan
    <3>6. CASE client = "content"
      <4>1. stdout \in {<<Whole(q)>>, <<Whole(q), Ok>>, <<Part(q)>>, <<Part(q), Err>>}
        BY <1>3, <3>3, <3>6 DEF ClientAt
      <4>2. Head(stdout).type \in {"data", "part"}
        BY <4>1, ShortSequences DEF Whole, Part, Msg
      <4>. QED
        BY <1>3, <3>6, <4>2 DEF ClientCan
    <3>7. CASE client = "status"
      <4>1. Head(stdout) \in {Ok, Err}
        BY <1>3, <3>3, <3>4, <3>7 DEF ClientAt
      <4>. QED
        BY <1>3, <3>7, <4>1 DEF ClientCan
    <3>. QED
      BY <2>1, <3>5, <3>6, <3>7
  <2>. QED
    BY <2>2, <2>3
<1>. QED
  BY <1>2, <1>3

\* An upload waits for an answer only when one is due that the server has not
\* yet given, and then the server has something to read.
LEMMA UploadGoesOn ==
    ASSUME TurnInv, kind = "upload", server # "exited", ~ServerCan
    PROVE  ClientCan
<1>1. /\ plan \in Plans /\ Len(plan) \in Nat /\ pos \in 1 .. Len(plan) + 1
      /\ StageInv /\ ControlTypes
  BY PlanIsWalk DEF TurnInv, Inv, TypeInv, ControlTypes
<1>2. server \in {"line", "data"} /\ stdin = <<>> /\ open
  BY <1>1 DEF TurnInv, SinkReads, ServerCan, Sink, Closed, ControlTypes, StageInv
<1>3. client \in {"begin", "next", "close", "dirAck", "fileAck", "dataAck"}
  BY <1>1, <1>2 DEF TurnInv, StreamClosed, ControlTypes, StageInv, Reading
<1>4. CASE client \in {"dirAck", "fileAck", "dataAck"}
  <2>1. pos \in 1 .. Len(plan) /\ pos \in Int
    BY <1>1, <1>4 DEF StageInv
  <2>2. /\ client = "dirAck" => plan[pos].type = "D" /\ Promised = Before(pos + 1)
        /\ client = "dataAck" => plan[pos].type = "C" /\ Promised = Before(pos + 1)
        /\ client = "fileAck" => plan[pos].type = "C" /\ Promised = Before(pos) + 1
    BY <1>1, <1>2 DEF TurnInv, Inv, AnswerInv, StageInv
  <2>3. ASSUME stdout = <<>> PROVE FALSE
    <3>1. Len(stdout) = 0
      BY <2>3, EmptySeq
    <3>2. Promised = Answers(pos) + (IF client = "dataAck" THEN 1 ELSE 0)
      <4>1. Answers(pos) \in Nat
        BY <2>1, AnswersType
      <4>. QED
        BY <1>2, <3>1, <4>1 DEF Promised, AnswersRead
    <3>3. Before(pos) >= 1 + Answers(pos) /\ Answers(pos) \in Nat /\ Before(pos) \in Nat
      <4>1. Count("E", 1, pos) \in Nat
        BY <2>1, CountType
      <4>2. Answers(pos) \in Nat /\ Before(pos) \in Nat
        BY <2>1, AnswersType
      <4>. QED
        BY <4>1, <4>2 DEF Before
    <3>4. /\ plan[pos].type = "C" => Before(pos + 1) = Before(pos) + 2
          /\ plan[pos].type = "D" => Before(pos + 1) = Before(pos) + 1
      BY <1>1, <2>1, AnswersStep
    <3>. QED
      BY <1>4, <2>2, <3>2, <3>3, <3>4
  <2>. QED
    BY <1>4, <2>3, ReadsFit DEF Reading
<1>. QED
  BY <1>3, <1>4 DEF ClientCan

\* Where the server of a download waits, the client has something to read.
LEMMA DownloadGoesOn ==
    ASSUME TurnInv, kind # "upload", server # "exited", ~ServerCan
    PROVE  ClientCan
<1>1. stdin \in Seq({Ok}) /\ StageInv /\ ControlTypes
  BY DEF TurnInv, Inv, TypeInv, StreamTypes, InMsgs
<1>2. stdin # <<>> => Head(stdin) = Ok
  BY <1>1
<1>3. server \in {"start", "fileAck", "ack"} /\ stdin = <<>> /\ open
  BY <1>1, <1>2 DEF ServerCan, Sink, Closed, ControlTypes, StageInv
<1>4. client \in {"begin", "ask", "close", "line", "content", "status"}
  BY <1>1, <1>3 DEF TurnInv, StreamClosed, ControlTypes, StageInv, Reading
<1>5. ASSUME client \in {"line", "content", "status"} PROVE stdout # <<>>
  <2>1. CASE client = "status" /\ kind = "download"
    BY <1>3, <2>1 DEF TurnInv, TalkInv, StatusRead
  <2>2. CASE ~(client = "status" /\ kind = "download")
    <3>1. AtWork
      BY <1>5, <2>2, ScpAssumption DEF AtWork, TurnInv, Inv, TypeInv
    <3>2. PICK q \in 1 .. Len(plan) + 1 : SourceAt(q)
      BY <3>1 DEF TurnInv, TalkInv, Talk
    <3>3. IsErr => stdout # <<>>
      BY DEF IsErr
    <3>4. <<Ok>> # <<>> /\ <<Whole(q), Ok>> # <<>> /\ <<Part(q), Err>> # <<>>
      BY ShortSequences
    <3>. QED
      BY <1>3, <1>5, <3>2, <3>3, <3>4 DEF SourceAt
  <2>. QED
    BY <2>1, <2>2
<1>. QED
  BY <1>4, <1>5, ReadsFit DEF ClientCan, Reading

\* When the server is gone the client reads what is left and then the end.
LEMMA ClientEnds ==
    ASSUME TurnInv, client # "done", server = "exited"
    PROVE  ClientCan
BY ReadsFit DEF ClientCan, TurnInv, Inv, TypeInv, ControlTypes

\* Client and server never wait for each other: until both have ended, one of
\* them has a step to take, whatever the walk and whatever has failed, although
\* the answers are read late (communicator.go:155-226, 548-757, 771-915).
THEOREM SomeoneCanGoOn == Spec => []OneCanGoOn
<1>1. TurnInv => OneCanGoOn
  <2>. SUFFICES ASSUME TurnInv, client # "done" \/ server # "exited", ~ServerCan
                PROVE  ClientCan
    BY DEF OneCanGoOn
  <2>. QED
    BY UploadGoesOn, DownloadGoesOn, ClientEnds
<1>. QED
  BY TurnInvAlways, <1>1, PTL

-----------------------------------------------------------------------------
(* Each step brings the session nearer to its end                           *)

\* What is left: the items not yet dealt with, the messages under way, and the
\* way of either side to its end.  A message weighs more the more steps it may
\* cause on the side that takes it.
ItemsLeft == 10 * (Len(plan) + 1 - pos)

MessagesLeft ==
    IF Sink THEN 2 * Len(stdin) + Len(stdout) ELSE Len(stdin) + 3 * Len(stdout)

ClientLeft ==
    CASE client = "begin" -> 11
      [] client = "next" -> 10
      [] client \in {"dirAck", "fileAck"} -> 7
      [] client = "ask" -> 6
      [] client \in {"line", "content", "status"} -> 4
      [] client = "dataAck" -> 3
      [] client = "close" -> 2
      [] client = "wait" -> 1
      [] OTHER -> 0

ServerLeft ==
    CASE server \in {"start", "next"} -> 11
      [] server = "fileAck" -> 7
      [] server = "exited" -> 0
      [] OTHER -> 1

Remaining == ItemsLeft + MessagesLeft + ClientLeft + ServerLeft

LEMMA RemainingType ==
    ASSUME TypeInv
    PROVE  /\ ItemsLeft \in Nat /\ MessagesLeft \in Nat
           /\ ClientLeft \in Nat /\ ServerLeft \in Nat /\ Remaining \in Nat
<1>1. /\ pos \in 1 .. Len(plan) + 1 /\ Len(plan) \in Nat
      /\ stdin \in Seq(InMsgs) /\ stdout \in Seq(OutMsgs)
  BY PlanIsWalk DEF TypeInv, StreamTypes, ControlTypes
<1>2. ItemsLeft \in Nat
  BY <1>1 DEF ItemsLeft
<1>3. MessagesLeft \in Nat
  <2>1. Len(stdin) \in Nat /\ Len(stdout) \in Nat
    BY <1>1, LenProperties
  <2>. QED
    BY <2>1 DEF MessagesLeft
<1>4. ClientLeft \in Nat /\ ServerLeft \in Nat
  BY DEF ClientLeft, ServerLeft
<1>. QED
  BY <1>2, <1>3, <1>4 DEF Remaining

\* What a step does to the length of a stream.
LEMMA StreamLengths ==
    ASSUME NEW S, NEW s \in Seq(S), NEW t
    PROVE  /\ Len(s) \in Nat
           /\ t = s => Len(t) = Len(s)
           /\ s # <<>> /\ t = Tail(s) => Len(t) = Len(s) - 1
           /\ \A m : t = Append(s, m) => Len(t) = Len(s) + 1
           /\ \A m, n : t = s \o <<m, n>> => Len(t) = Len(s) + 2
           /\ t = <<>> => Len(t) = 0
           /\ \A n \in 0 .. Len(s) : t = SubSeq(s, 1, n) => Len(t) <= Len(s)
<1>1. Len(s) \in Nat /\ Len(<<>>) = 0
  OBVIOUS
<1>2. s # <<>> => Len(Tail(s)) = Len(s) - 1
  BY HeadTailProperties
<1>3. ASSUME NEW m PROVE Len(Append(s, m)) = Len(s) + 1
  OBVIOUS
<1>4. ASSUME NEW m, NEW n PROVE Len(s \o <<m, n>>) = Len(s) + 2
  OBVIOUS
<1>5. ASSUME NEW n \in 0 .. Len(s) PROVE Len(SubSeq(s, 1, n)) <= Len(s)
  BY Truncated, <1>1
<1>. QED
  BY <1>1, <1>2, <1>3, <1>4, <1>5

\* No action of either side leaves as much to do as there was.
LEMMA SessionAdvances ==
    ASSUME TypeInv, TypeInv', Client \/ Server \/ ServerDies
    PROVE  {Remaining, Remaining'} \subseteq Nat /\ Remaining' < Remaining
<1>1. /\ kind' = kind /\ plan' = plan /\ plan \in Plans /\ Len(plan) \in Nat
      /\ InMsgs' = InMsgs /\ OutMsgs' = OutMsgs /\ Sink' = Sink
      /\ StageInv /\ ControlTypes /\ pos \in 1 .. Len(plan) + 1
  BY SessionFixed, PlanIsWalk DEF Next, TypeInv, ControlTypes, Sink
<1>2. /\ Len(stdin) \in Nat /\ Len(stdout) \in Nat
      /\ Len(stdin') \in Nat /\ Len(stdout') \in Nat /\ pos' \in 1 .. Len(plan) + 1
  BY <1>1, LenProperties DEF TypeInv, StreamTypes, ControlTypes
<1>3. PICK up, dn, up1, dn1 \in Nat :
          up = Len(stdin) /\ dn = Len(stdout) /\ up1 = Len(stdin') /\ dn1 = Len(stdout')
  BY <1>2
<1>4. PICK i, m, c, s \in Nat :
          i = ItemsLeft /\ m = MessagesLeft /\ c = ClientLeft /\ s = ServerLeft
  BY RemainingType
<1>5. PICK i1, m1, c1, s1 \in Nat :
          i1 = ItemsLeft' /\ m1 = MessagesLeft' /\ c1 = ClientLeft' /\ s1 = ServerLeft'
  <2>1. ItemsLeft' \in Nat
    BY <1>1, <1>2 DEF ItemsLeft
  <2>2. MessagesLeft' \in Nat
    BY <1>2 DEF MessagesLeft
  <2>3. ClientLeft' \in Nat /\ ServerLeft' \in Nat
    BY DEF ClientLeft, ServerLeft
  <2>. QED
    BY <2>1, <2>2, <2>3
<1>. SUFFICES i1 + m1 + c1 + s1 < i + m + c + s
  <2>1. Remaining = i + m + c + s /\ Remaining' = i1 + m1 + c1 + s1
    BY <1>4, <1>5 DEF Remaining
  <2>. QED
    BY <2>1
<1>6. /\ m = IF Sink THEN 2 * up + dn ELSE up + 3 * dn
      /\ m1 = IF Sink THEN 2 * up1 + dn1 ELSE up1 + 3 * dn1
  BY <1>1, <1>3, <1>4, <1>5 DEF MessagesLeft
<1>7. /\ pos' = pos => i1 = i
      /\ pos' \in pos + 1 .. Len(plan) + 1 => i1 <= i - 10
  BY <1>1, <1>4, <1>5 DEF ItemsLeft
<1>8. /\ stdin' = stdin => up1 = up
      /\ stdin # <<>> /\ stdin' = Tail(stdin) => up1 = up - 1
      /\ \A x : ToServer(x) => up1 = up + 1
      /\ \A x, y : stdin' = stdin \o <<x, y>> => up1 = up + 2
      /\ stdin' = <<>> => up1 = 0
      /\ \A x : Takes(x) \/ TakesType(x) => up1 = up - 1
  BY <1>3, StreamLengths DEF TypeInv, StreamTypes, ToServer, Takes, TakesType
<1>9. /\ stdout' = stdout => dn1 = dn
      /\ stdout # <<>> /\ stdout' = Tail(stdout) => dn1 = dn - 1
      /\ \A x : ToClient(x) => dn1 = dn + 1
      /\ \A x, y : stdout' = stdout \o <<x, y>> => dn1 = dn + 2
      /\ \A n \in 0 .. Len(stdout) : stdout' = SubSeq(stdout, 1, n) => dn1 <= dn
      /\ \A x : Gets(x) => dn1 = dn - 1
  BY <1>3, StreamLengths DEF TypeInv, StreamTypes, ToClient, Gets
<1>10. /\ server' = server => s1 = s
       /\ client' = client => c1 = c
  BY <1>4, <1>5 DEF ServerLeft, ClientLeft
<1>11. ASSUME pos' = pos, c1 < c, server' = server, up1 = up, dn1 <= dn
       PROVE  i1 + m1 + c1 + s1 < i + m + c + s
  <2>1. m1 <= m
    BY <1>6, <1>11
  <2>. QED
    BY <1>7, <1>10, <1>11, <2>1
<1>12. CASE Begin
  <2>1. client = "begin" /\ client' \in {"next", "ask", "done"}
    BY <1>12 DEF Begin, Fail
  <2>2. c1 < c
    BY <1>4, <1>5, <2>1 DEF ClientLeft
  <2>. QED
    BY <1>8, <1>9, <1>11, <1>12, <2>2 DEF Begin, serverVars
<1>13. CASE ReadEOF \/ ReadErr
  <2>1. client \in Reading /\ client' \in {"close", "done"}
    BY <1>13 DEF ReadEOF, AfterEOF, ReadErr, Fail
  <2>2. c1 < c
    BY <1>4, <1>5, <2>1 DEF ClientLeft, Reading
  <2>. QED
    BY <1>8, <1>9, <1>11, <1>13, <2>2 DEF ReadEOF, ReadErr, serverVars
<1>14. CASE CallbackDone \/ SessionWait \/ UploadOpenFails \/ UploadDone
  <2>1. c1 < c
    BY <1>4, <1>5, <1>14 DEF ClientLeft, CallbackDone, SessionWait, UploadOpenFails, AtItem, Fail, UploadDone
  <2>. QED
    BY <1>8, <1>9, <1>11, <1>14, <2>1
       DEF CallbackDone, SessionWait, UploadOpenFails, UploadDone, serverVars
<1>15. CASE UploadHeader
  <2>1. /\ up1 = up + 1 /\ dn1 = dn /\ server' = server /\ Sink
        /\ client = "next"
        /\ \/ client' \in {"dirAck", "fileAck"} /\ pos' = pos
           \/ client' = "next" /\ pos' \in pos + 1 .. Len(plan) + 1
    <3>1. /\ client = "next" /\ pos \in 1 .. Len(plan) /\ Sink
          /\ UNCHANGED <<stdout, server>> /\ ToServer(Msg(plan[pos].type, pos))
      BY <1>1, <1>15 DEF UploadHeader, AtItem, StageInv, Sink, serverVars
    <3>2. \/ client' \in {"dirAck", "fileAck"} /\ pos' = pos
          \/ client' = "next" /\ pos' = pos + 1
      BY <1>15 DEF UploadHeader, AtItem
    <3>. QED
      BY <1>1, <1>2, <1>8, <1>9, <3>1, <3>2
  <2>2. c = 10 /\ (client' = "next" => c1 = 10) /\ (client' \in {"dirAck", "fileAck"} => c1 = 7)
    BY <1>4, <1>5, <2>1 DEF ClientLeft
  <2>3. m1 <= m + 2
    BY <1>6, <2>1
  <2>. QED
    BY <1>7, <1>10, <2>1, <2>2, <2>3
<1>16. CASE DirAcked
  <2>1. /\ up1 = up /\ dn1 = dn - 1 /\ server' = server /\ Sink
        /\ client = "dirAck" /\ pos \in 1 .. Len(plan)
        /\ \/ client' = "done" /\ pos' = pos
           \/ client' = "next" /\ pos' \in pos + 1 .. Len(plan) + 1
    BY <1>1, <1>2, <1>8, <1>9, <1>16 DEF DirAcked, Fail, StageInv, Sink, serverVars
  <2>2. c = 7 /\ (client' = "next" => c1 = 10) /\ (client' = "done" => c1 = 0)
    BY <1>4, <1>5, <2>1 DEF ClientLeft
  <2>3. m1 <= m - 1
    BY <1>6, <2>1
  <2>. QED
    BY <1>7, <1>10, <2>1, <2>2, <2>3
<1>17. CASE FileAcked
  <2>1. /\ dn1 = dn - 1 /\ server' = server /\ Sink /\ pos' = pos /\ client = "fileAck"
        /\ \/ client' = "dataAck" /\ up1 = up + 2
           \/ client' \in {"close", "done"} /\ up1 = up + 1
    BY <1>1, <1>8, <1>9, <1>17
       DEF FileAcked, AfterData, AfterEOF, Fail, StageInv, Sink, serverVars
  <2>2. c = 7 /\ (client' = "dataAck" => c1 = 3) /\ (client' \in {"close", "done"} => c1 <= 2)
    BY <1>4, <1>5, <2>1 DEF ClientLeft
  <2>3. /\ client' = "dataAck" => m1 <= m + 3
        /\ client' # "dataAck" => m1 <= m + 1
    BY <1>6, <2>1
  <2>. QED
    BY <1>7, <1>10, <2>1, <2>2, <2>3
<1>18. CASE DataAcked
  <2>1. /\ up1 = up /\ dn1 = dn - 1 /\ server' = server /\ Sink
        /\ client = "dataAck" /\ client' = "next" /\ pos' \in pos + 1 .. Len(plan) + 1
    BY <1>1, <1>2, <1>8, <1>9, <1>18 DEF DataAcked, StageInv, Sink, serverVars
  <2>2. c = 3 /\ c1 = 10
    BY <1>4, <1>5, <2>1 DEF ClientLeft
  <2>3. m1 <= m - 1
    BY <1>6, <2>1
  <2>. QED
    BY <1>7, <1>10, <2>1, <2>2, <2>3
<1>19. CASE Ask
  <2>1. /\ up1 = up + 1 /\ dn1 = dn /\ server' = server /\ ~Sink
        /\ client = "ask" /\ client' = "line" /\ pos' = pos
    BY <1>1, <1>8, <1>9, <1>19 DEF Ask, StageInv, Sink, serverVars
  <2>2. c = 6 /\ c1 = 4
    BY <1>4, <1>5, <2>1 DEF ClientLeft
  <2>3. m1 <= m + 1
    BY <1>6, <2>1
  <2>. QED
    BY <1>7, <1>10, <2>1, <2>2, <2>3
<1>20. CASE HeaderC \/ HeaderD \/ HeaderE \/ Content \/ StatusOk
  <2>1. /\ up1 \in {up, up + 1} /\ dn1 = dn - 1
        /\ server' = server /\ ~Sink /\ pos' = pos
        /\ client \in {"line", "content", "status"}
        /\ \/ client' \in {"content", "status", "close", "done"}
           \/ client' = "ask" /\ up1 = up
    <3>1. client \in {"line", "content", "status"} /\ ~Sink
      BY <1>1, <1>20 DEF HeaderC, HeaderD, HeaderE, HeaderIs, Content, StatusOk, StageInv, Sink
    <3>2. dn1 = dn - 1
      BY <1>9, <1>10, <1>20 DEF HeaderC, HeaderD, HeaderE, HeaderIs, Content, StatusOk
    <3>3. server' = server /\ pos' = pos
      BY <1>7, <1>10, <1>20 DEF HeaderC, HeaderD, HeaderE, Content, StatusOk, serverVars
    <3>4. /\ up1 \in {up, up + 1}
          /\ \/ client' \in {"content", "status", "close", "done"}
             \/ client' = "ask" /\ up1 = up
      BY <1>8, <1>20 DEF HeaderC, HeaderD, HeaderE, Content, StatusOk, Fail
    <3>. QED
      BY <3>1, <3>2, <3>3, <3>4
  <2>2. c = 4 /\ (client' = "ask" => c1 = 6) /\ (client' # "ask" => c1 <= 4)
    BY <1>4, <1>5, <2>1 DEF ClientLeft
  <2>3. m1 <= m - 2 /\ (client' = "ask" => m1 <= m - 3)
    BY <1>6, <2>1
  <2>. QED
    BY <1>7, <1>10, <2>1, <2>2, <2>3
<1>21. CASE SinkStarts
  <2>1. server = "start" /\ server' = "line" /\ Sink /\ dn1 = dn + 1
        /\ UNCHANGED <<pos, stdin, client>>
    BY <1>9, <1>21 DEF SinkStarts
  <2>2. s = 11 /\ s1 = 1
    BY <1>4, <1>5, <2>1 DEF ServerLeft
  <2>3. m1 <= m + 1
    BY <1>6, <1>8, <2>1
  <2>. QED
    BY <1>7, <1>10, <2>1, <2>2, <2>3
<1>22. CASE SinkHeader \/ SinkDirEnd \/ SinkStray \/ SinkData \/ SinkDataEnd
  <2>1. /\ Sink /\ server \in {"line", "data", "end"}
        /\ server' \in {"line", "data", "end", "exited"} /\ UNCHANGED <<pos, client>>
    BY <1>22 DEF SinkHeader, SinkDirEnd, SinkStray, SinkData, SinkDataEnd, Exits
  <2>2. up1 = up - 1
    BY <1>8, <1>22 DEF SinkHeader, SinkDirEnd, SinkStray, SinkData, SinkDataEnd
  <2>3. dn1 \in {dn, dn + 1}
    BY <1>9, <1>22 DEF SinkHeader, SinkDirEnd, SinkStray, SinkData, SinkDataEnd
  <2>4. s = 1 /\ s1 <= 1
    BY <1>4, <1>5, <2>1 DEF ServerLeft
  <2>5. m1 < m
    BY <1>6, <2>1, <2>2, <2>3
  <2>. QED
    BY <1>7, <1>10, <2>1, <2>4, <2>5
<1>23. CASE SinkEOF
  <2>1. /\ Sink /\ server \in {"line", "data"} /\ server' = "exited"
        /\ UNCHANGED <<pos, client, stdout>>
    BY <1>23 DEF SinkEOF, Exits
  <2>2. up1 <= up /\ dn1 = dn
    BY <1>8, <1>9, <1>23, <2>1 DEF SinkEOF
  <2>3. s = 1 /\ s1 = 0
    BY <1>4, <1>5, <2>1 DEF ServerLeft
  <2>4. m1 <= m
    BY <1>6, <2>1, <2>2
  <2>. QED
    BY <1>7, <1>10, <2>1, <2>3, <2>4
<1>24. CASE SourceStarts
  <2>1. /\ ~Sink /\ server = "start" /\ server' = "next" /\ up1 = up - 1
        /\ UNCHANGED <<pos, client, stdout>>
    BY <1>8, <1>24 DEF SourceStarts
  <2>2. s = 11 /\ s1 = 11
    BY <1>4, <1>5, <2>1 DEF ServerLeft
  <2>3. m1 < m
    BY <1>6, <1>9, <2>1
  <2>. QED
    BY <1>7, <1>10, <2>1, <2>2, <2>3
<1>25. CASE SourceHeader
  <2>1. /\ ~Sink /\ server = "next" /\ dn1 = dn + 1 /\ UNCHANGED <<client, stdin>>
        /\ \/ server' \in {"fileAck", "ack"} /\ pos' = pos
           \/ server' = "next" /\ pos' \in pos + 1 .. Len(plan) + 1
    BY <1>1, <1>9, <1>25, AfterType DEF SourceHeader
  <2>2. s = 11 /\ (server' = "next" => s1 = 11) /\ (server' # "next" => s1 <= 7)
    BY <1>4, <1>5, <2>1 DEF ServerLeft
  <2>3. m1 <= m + 3
    BY <1>6, <1>8, <2>1
  <2>. QED
    BY <1>7, <1>10, <2>1, <2>2, <2>3
<1>26. CASE SourceData
  <2>1. /\ ~Sink /\ server = "fileAck" /\ server' = "ack" /\ up1 = up - 1 /\ dn1 = dn + 2
        /\ UNCHANGED <<pos, client>>
    BY <1>8, <1>9, <1>26 DEF SourceData
  <2>2. s = 7 /\ s1 = 1
    BY <1>4, <1>5, <2>1 DEF ServerLeft
  <2>3. m1 <= m + 5
    BY <1>6, <2>1
  <2>. QED
    BY <1>7, <1>10, <2>1, <2>2, <2>3
<1>27. CASE SourceAcked
  <2>1. /\ ~Sink /\ server = "ack" /\ server' = "next" /\ up1 = up - 1
        /\ pos' \in pos + 1 .. Len(plan) + 1 /\ UNCHANGED <<client, stdout>>
    BY <1>1, <1>2, <1>8, <1>27 DEF SourceAcked
  <2>2. s = 1 /\ s1 = 11
    BY <1>4, <1>5, <2>1 DEF ServerLeft
  <2>3. m1 < m
    BY <1>6, <1>9, <2>1
  <2>. QED
    BY <1>7, <1>10, <2>1, <2>2, <2>3
<1>28. CASE SourceEnds \/ ServerDies
  <2>1. /\ server # "exited" /\ server' = "exited" /\ UNCHANGED <<pos, client, stdin>>
    BY <1>28 DEF SourceEnds, ServerDies, Exits
  <2>2. dn1 <= dn
    BY <1>9, <1>28 DEF SourceEnds, ServerDies
  <2>3. s >= 1 /\ s1 = 0
    BY <1>1, <1>4, <1>5, <2>1 DEF ServerLeft, ControlTypes
  <2>4. m1 <= m
    BY <1>6, <1>8, <2>1, <2>2
  <2>. QED
    BY <1>7, <1>10, <2>1, <2>3, <2>4
<1>. QED
  BY <1>12, <1>13, <1>14, <1>15, <1>16, <1>17, <1>18, <1>19, <1>20, <1>21, <1>22, <1>23,
     <1>24, <1>25, <1>26, <1>27, <1>28 DEF Client, Server

\* Each step of either side uses something up, one that fails included: a session
\* has at most as many steps as its walk and its two sides allow
\* (communicator.go:155-226, 548-757, 771-915).
THEOREM SessionsAdvance ==
    Spec => [][{Remaining, Remaining'} \subseteq Nat /\ Remaining' < Remaining]_vars
<1>1. TypeInv /\ TypeInv' /\ [Next]_vars =>
          [{Remaining, Remaining'} \subseteq Nat /\ Remaining' < Remaining]_vars
  BY SessionAdvances DEF Next, Ended
<1>2. Spec => []TypeInv
  BY InvAlways, PTL DEF Inv
<1>. QED
  BY <1>1, <1>2, PTL DEF Spec
=============================================================================
