-------------------------- MODULE TrustPathProofs --------------------------
(***************************************************************************)
(* Whatever the tree, the configured path and the bounds are: strict mode  *)
(* takes root's text only, and no user leads it to another file than the   *)
(* one the path led to at first.                                           *)
(*                                                                         *)
(* How the kernel walks along a path is a recursive function, so a fact    *)
(* about a walk is proved name by name: the numbers for which it holds are *)
(* a set that holds 0 and what follows each of its numbers, and such a set *)
(* holds all of them (Induct).                                             *)
(***************************************************************************)
EXTENDS TrustPath, SequenceTheorems, WellFoundedInduction, TLAPS

(* A set of numbers has a least one.                                       *)
LEMMA Least ==
    ASSUME NEW T \in SUBSET Nat, T # {}
    PROVE  \E n \in T : \A m \in T : n <= m
<1> DEFINE R == OpToRel(<, Nat)
<1>1. PICK n \in T : \A y \in T : ~(<<y, n>> \in R)
  <2>1. IsWellFoundedOn(R, Nat)
    BY NatLessThanWellFounded
  <2> HIDE DEF R
  <2> QED
    BY <2>1, WFMin
<1>2. \A y \in T : y < n => <<y, n>> \in R
  <2> SUFFICES ASSUME NEW y \in T, y < n PROVE <<y, n>> \in R
    OBVIOUS
  <2>1. <<y, n>> \in Nat \X Nat
    OBVIOUS
  <2> QED
    BY <2>1 DEF OpToRel
<1> HIDE DEF R
<1>3. \A y \in T : ~(y < n)
  BY <1>1, <1>2
<1> QED
  BY <1>3

(* A set that holds 0 and what follows each of its numbers holds them all. *)
LEMMA Induct ==
    ASSUME NEW S, 0 \in S, \A n \in Nat : n \in S => n + 1 \in S
    PROVE  Nat \subseteq S
<1> SUFFICES ASSUME Nat \ S # {} PROVE FALSE
  OBVIOUS
<1>1. PICK n \in Nat \ S : \A m \in Nat \ S : n <= m
  BY Least
<1>2. n - 1 \in Nat /\ n - 1 \in S
  BY <1>1
<1> QED
  BY <1>1, <1>2

(* w are the inodes a path leads to, of its first n names.                 *)
IsWalk(e, p, n, w) ==
    w = [i \in 0 .. n |-> IF i = 0 THEN RootDir ELSE Child(e, w[i - 1], p[i])]

(* There is a walk of every length.                                        *)
LEMMA WalkExists ==
    ASSUME NEW e, NEW p PROVE \A n \in Nat : \E w : IsWalk(e, p, n, w)
<1> DEFINE S == {n \in Nat : \E w : IsWalk(e, p, n, w)}
<1>1. 0 \in S
  <2> DEFINE w == [i \in 0 .. 0 |-> RootDir]
  <2>1. IsWalk(e, p, 0, w)
    BY DEF IsWalk
  <2> HIDE DEF w
  <2> QED
    BY <2>1
<1>2. ASSUME NEW n \in Nat, n \in S PROVE n + 1 \in S
  <2>1. PICK v : IsWalk(e, p, n, v)
    BY <1>2
  <2> DEFINE w == [i \in 0 .. n + 1 |->
                     IF i = n + 1 THEN Child(e, v[n], p[n + 1]) ELSE v[i]]
  <2>2. w[n + 1] = Child(e, v[n], p[n + 1]) /\ \A i \in 0 .. n : w[i] = v[i]
    OBVIOUS
  <2>3. \A i \in 0 .. n + 1 :
           w[i] = IF i = 0 THEN RootDir ELSE Child(e, w[i - 1], p[i])
    <3> SUFFICES ASSUME NEW i \in 0 .. n + 1
                 PROVE  w[i] = IF i = 0 THEN RootDir ELSE Child(e, w[i - 1], p[i])
      OBVIOUS
    <3> HIDE DEF w
    <3>1. CASE i = n + 1
      BY <3>1, <2>2
    <3>2. CASE i \in 0 .. n
      BY <3>2, <2>1, <2>2 DEF IsWalk
    <3> QED
      BY <3>1, <3>2
  <2>4. IsWalk(e, p, n + 1, w)
    BY <2>3 DEF IsWalk
  <2> HIDE DEF w
  <2> QED
    BY <2>4
<1> QED
  BY <1>1, <1>2, Induct

(* The inodes on a path are found one in the other.                        *)
LEMMA WalkIs ==
    ASSUME NEW e, NEW p \in Seq(STRING)
    PROVE  /\ Walk(e, p)[0] = RootDir
           /\ \A n \in 1 .. Len(p) :
                 Walk(e, p)[n] = Child(e, Walk(e, p)[n - 1], p[n])
<1> DEFINE m == Len(p)
<1>1. m \in Nat
  OBVIOUS
<1>2. Walk(e, p) = CHOOSE w : IsWalk(e, p, m, w)
  BY DEF Walk, IsWalk
<1> HIDE DEF m
<1>3. IsWalk(e, p, m, Walk(e, p))
  BY <1>1, <1>2, WalkExists
<1> QED
  BY <1>1, <1>3 DEF IsWalk, m

(* Walks that begin together and step together stay together.              *)
LEMMA Along ==
    ASSUME NEW k \in Nat, NEW v, NEW w, v[0] = w[0],
           \A j \in 1 .. k : v[j - 1] = w[j - 1] => v[j] = w[j]
    PROVE  v[k] = w[k]
<1> DEFINE S == {j \in Nat : j <= k => v[j] = w[j]}
<1>1. 0 \in S
  OBVIOUS
<1>2. \A j \in Nat : j \in S => j + 1 \in S
  <2> SUFFICES ASSUME NEW j \in Nat, j \in S, j + 1 <= k
               PROVE  v[j + 1] = w[j + 1]
    OBVIOUS
  <2>1. j + 1 \in 1 .. k /\ (j + 1) - 1 = j /\ v[j] = w[j]
    OBVIOUS
  <2> QED
    BY <2>1
<1> HIDE DEF S
<1>3. Nat \subseteq S
  BY <1>1, <1>2, Induct
<1> QED
  BY <1>3 DEF S

(* The first names of a path lead through the first inodes.                *)
LEMMA WalkPrefix ==
    ASSUME NEW e, NEW p \in Seq(STRING), NEW k \in 0 .. Len(p)
    PROVE  /\ SubSeq(p, 1, k) \in Seq(STRING)
           /\ Len(SubSeq(p, 1, k)) = k
           /\ \A j \in 0 .. k : Walk(e, SubSeq(p, 1, k))[j] = Walk(e, p)[j]
<1> DEFINE q == SubSeq(p, 1, k)
           v == Walk(e, q)
           w == Walk(e, p)
<1>1. q \in Seq(STRING) /\ Len(q) = k /\ \A j \in 1 .. k : q[j] = p[j]
  OBVIOUS
<1> HIDE DEF q
<1>2. /\ v[0] = RootDir /\ \A j \in 1 .. k : v[j] = Child(e, v[j - 1], q[j])
      /\ w[0] = RootDir /\ \A j \in 1 .. Len(p) : w[j] = Child(e, w[j - 1], p[j])
  BY <1>1, WalkIs
<1> HIDE DEF v, w
<1>3. \A j \in 1 .. k : v[j - 1] = w[j - 1] => v[j] = w[j]
  <2>1. \A j \in 1 .. k : w[j] = Child(e, w[j - 1], p[j])
    BY <1>2
  <2> QED
    BY <1>1, <1>2, <2>1
<1>4. \A j \in 0 .. k : v[j] = w[j]
  <2> TAKE j \in 0 .. k
  <2>1. \A i \in 1 .. j : v[i - 1] = w[i - 1] => v[i] = w[i]
    BY <1>3
  <2> QED
    BY <1>2, <2>1, Along
<1> QED
  BY <1>1, <1>4 DEF q, v, w

(* Where there are no links nothing is followed.                           *)
LEMMA NoLinks ==
    ASSUME NEW e, NEW p \in Seq(STRING), LinksOn(e, p) = {}, MaxLinks \in Nat
    PROVE  /\ \A n \in 0 .. MaxLinks : Followed(e, p)[n] = p
           /\ Stat(e, p) = IF Walk(e, p)[Len(p)] \in Dirs \cup Files
                             THEN Walk(e, p)[Len(p)] ELSE None
<1>1. FollowFirst(e, p) = p
  BY DEF FollowFirst
<1>2. Followed(e, p) = CHOOSE g : g = [n \in 0 .. MaxLinks |->
                           IF n = 0 THEN p ELSE FollowFirst(e, g[n - 1])]
  BY DEF Followed
<1> DEFINE c == [n \in 0 .. MaxLinks |-> p]
<1>3. c = [n \in 0 .. MaxLinks |-> IF n = 0 THEN p ELSE FollowFirst(e, c[n - 1])]
  BY <1>1
<1> HIDE DEF c
<1> DEFINE g == Followed(e, p)
<1>4. g = [n \in 0 .. MaxLinks |-> IF n = 0 THEN p ELSE FollowFirst(e, g[n - 1])]
  BY <1>2, <1>3
<1> HIDE DEF g
<1> DEFINE S == {n \in Nat : n <= MaxLinks => g[n] = p}
<1>5. 0 \in S
  BY <1>4
<1>6. \A n \in Nat : n \in S => n + 1 \in S
  BY <1>1, <1>4
<1> HIDE DEF S
<1>7. Nat \subseteq S
  BY <1>5, <1>6, Induct
<1>8. \A n \in 0 .. MaxLinks : Followed(e, p)[n] = p
  BY <1>7 DEF S, g
<1> QED
  BY <1>8 DEF Stat

(* lstat() of the first names of a path.                                   *)
LEMMA LstatIs ==
    ASSUME NEW e, NEW p \in Seq(STRING), NEW k \in 0 .. Len(p)
    PROVE  Lstat(e, SubSeq(p, 1, k)) =
              IF k = 0 THEN RootDir
              ELSE Child(e, Stat(e, SubSeq(p, 1, k - 1)), p[k])
<1>1. CASE k = 0
  BY <1>1 DEF Lstat
<1>2. CASE k # 0
  <2> DEFINE q == SubSeq(p, 1, k)
  <2>1. q \in Seq(STRING) /\ Len(q) = k /\ \A j \in 1 .. k : q[j] = p[j]
    OBVIOUS
  <2>2. q # <<>> /\ Last(q) = p[k]
    BY <2>1, <1>2 DEF Last
  <2>3. Front(q) = SubSeq(p, 1, k - 1)
    <3>1. Front(q) = SubSeq(q, 1, k - 1)
      BY <2>1 DEF Front
    <3>2. /\ SubSeq(q, 1, k - 1) = [j \in 1 .. k - 1 |-> q[j]]
          /\ SubSeq(p, 1, k - 1) = [j \in 1 .. k - 1 |-> p[j]]
      BY <1>2, <2>1
    <3> QED
      BY <2>1, <3>1, <3>2
  <2> HIDE DEF q
  <2>4. Lstat(e, q) = Child(e, Stat(e, Front(q)), Last(q))
    BY <2>2 DEF Lstat
  <2> QED
    BY <1>2, <2>2, <2>3, <2>4 DEF q
<1> QED
  BY <1>1, <1>2

(* The first k names of the canonical path lead through what is root's own,
   or nowhere, and no user may change where they lead.                     *)
Sealed(k) ==
    LET walk == Walk(entry, canonical) IN
    /\ \A j \in 0 .. k :
          walk[j] = None \/ (walk[j] \in Dirs \cup Files /\ RootsOwn(walk[j]))
    /\ \A j \in 1 .. k :
          LET s == <<walk[j - 1], canonical[j]>> IN s \in Slots => ~Writable(s)

(* On a path that is sealed stat() has no link to follow.                  *)
LEMMA SealedStat ==
    ASSUME TypeOK, TrustPathAssumption, NEW k \in 0 .. Len(canonical), Sealed(k)
    PROVE  Stat(entry, SubSeq(canonical, 1, k)) = Walk(entry, canonical)[k]
<1> DEFINE q == SubSeq(canonical, 1, k)
           walk == Walk(entry, canonical)
<1>1. canonical \in Seq(STRING) /\ MaxLinks \in Nat
  BY DEF TypeOK, TrustPathAssumption
<1>2. /\ q \in Seq(STRING)
      /\ Len(q) = k
      /\ \A j \in 0 .. k : Walk(entry, q)[j] = walk[j]
  BY <1>1, WalkPrefix
<1>3. \A j \in 0 .. k : walk[j] \in Dirs \cup Files \cup {None}
  BY DEF Sealed
<1> HIDE DEF q, walk
<1>4. LinksOn(entry, q) = {}
  <2>1. \A j \in 0 .. k : walk[j] \notin Links
    BY <1>3 DEF TrustPathAssumption, Inodes
  <2>2. \A j \in 1 .. Len(q) : Walk(entry, q)[j] \notin Links
    <3>1. \A j \in 1 .. k : j \in 0 .. k
      OBVIOUS
    <3> QED
      BY <1>2, <2>1, <3>1
  <2> QED
    BY <2>2 DEF LinksOn
<1>5. Stat(entry, q) = IF walk[k] \in Dirs \cup Files THEN walk[k] ELSE None
  <2>1. Stat(entry, q) = IF Walk(entry, q)[Len(q)] \in Dirs \cup Files
                           THEN Walk(entry, q)[Len(q)] ELSE None
    BY <1>1, <1>2, <1>4, NoLinks
  <2>2. Walk(entry, q)[Len(q)] = walk[k]
    <3>1. k \in 0 .. k
      OBVIOUS
    <3> QED
      BY <1>2, <3>1
  <2> QED
    BY <2>1, <2>2
<1> QED
  BY <1>3, <1>5 DEF q, walk

(* The canonical path is sealed name by name, as each prefix is validated. *)
LEMMA Seal ==
    ASSUME TypeOK, TrustPathAssumption, NEW k \in 0 .. Len(canonical),
           Sealed(k - 1), ValidComponent(SubSeq(canonical, 1, k), FALSE)
    PROVE  Sealed(k)
<1> DEFINE walk == Walk(entry, canonical)
           i == Lstat(entry, SubSeq(canonical, 1, k))
<1>1. canonical \in Seq(STRING) /\ entry \in [Slots -> Inodes \cup {None}]
  BY DEF TypeOK
<1>2. walk[0] = RootDir /\ \A n \in 1 .. Len(canonical) :
                              walk[n] = Child(entry, walk[n - 1], canonical[n])
  BY <1>1, WalkIs
<1>3. i = walk[k]
  <2>1. CASE k = 0
    BY <2>1, <1>1, <1>2, LstatIs
  <2>2. CASE k # 0
    <3>1. k - 1 \in 0 .. Len(canonical) /\ k \in 1 .. Len(canonical)
      BY <2>2
    <3>2. i = Child(entry, Stat(entry, SubSeq(canonical, 1, k - 1)), canonical[k])
      BY <2>2, <1>1, LstatIs
    <3>3. Stat(entry, SubSeq(canonical, 1, k - 1)) = walk[k - 1]
      BY <3>1, SealedStat
    <3> HIDE DEF walk, i
    <3> QED
      BY <3>1, <3>2, <3>3, <1>2
  <2> QED
    BY <2>1, <2>2
<1>4. i # None /\ i \notin Links /\ RootsOwn(i)
  BY DEF ValidComponent, ValidMode, RootsOwn
<1>5. walk[k] \in Inodes /\ walk[k] # None
  <2> HIDE DEF walk
  <2>1. CASE k = 0
    BY <2>1, <1>2, <1>3, <1>4 DEF TrustPathAssumption, Inodes
  <2>2. CASE k # 0
    <3>1. walk[k] = Child(entry, walk[k - 1], canonical[k])
      BY <2>2, <1>1, <1>2
    <3>2. walk[k] # None
      BY <1>3, <1>4
    <3> QED
      BY <3>1, <3>2, <1>1 DEF Child
  <2> QED
    BY <2>1, <2>2
<1>6. walk[k] \in Dirs \cup Files /\ RootsOwn(walk[k])
  BY <1>3, <1>4, <1>5 DEF Inodes
<1>7. ASSUME k # 0, <<walk[k - 1], canonical[k]>> \in Slots
      PROVE  ~Writable(<<walk[k - 1], canonical[k]>>)
  <2>1. walk[k - 1] \in Dirs
    BY <1>7 DEF TrustPathAssumption
  <2>2. RootsOwn(walk[k - 1])
    BY <2>1, <1>7 DEF Sealed, TrustPathAssumption, Inodes
  <2>3. entry[<<walk[k - 1], canonical[k]>>] = walk[k]
    BY <1>2, <1>7 DEF Child
  <2> HIDE DEF walk
  <2> QED
    BY <2>2, <2>3, <1>5, <1>6 DEF Writable, RootsOwn
<1> HIDE DEF i
<1>8. \A j \in 0 .. k :
         walk[j] = None \/ (walk[j] \in Dirs \cup Files /\ RootsOwn(walk[j]))
  <2>1. \A j \in 0 .. k - 1 :
           walk[j] = None \/ (walk[j] \in Dirs \cup Files /\ RootsOwn(walk[j]))
    BY DEF Sealed
  <2> HIDE DEF walk
  <2> QED
    BY <2>1, <1>6
<1>9. \A j \in 1 .. k : <<walk[j - 1], canonical[j]>> \in Slots =>
                          ~Writable(<<walk[j - 1], canonical[j]>>)
  <2>1. \A j \in 1 .. k - 1 : <<walk[j - 1], canonical[j]>> \in Slots =>
                                ~Writable(<<walk[j - 1], canonical[j]>>)
    BY DEF Sealed
  <2> HIDE DEF walk
  <2> TAKE j \in 1 .. k
  <2>2. CASE j = k
    BY <2>2, <1>7
  <2>3. CASE j \in 1 .. k - 1
    BY <2>1, <2>3
  <2> QED
    BY <2>2, <2>3
<1> QED
  BY <1>8, <1>9 DEF Sealed

(* What users may change, and what root changes with care, leaves a sealed
   path sealed: it leads where it did, to a file of root's or nowhere.     *)
LEMMA StaysSealed ==
    ASSUME TypeOK, TrustPathAssumption, NEW k \in Int, k <= Len(canonical),
           Sealed(k), NEW s \in Slots, NEW i, SetEntry(s, i),
           Writable(s) \/ Careful(s, i)
    PROVE  Sealed(k)'
<1> DEFINE walk == Walk(entry, canonical)
           new == Walk(entry', canonical)
           p == canonical
           Root == {f \in Files : perm[f] = "root"}
<1>1. /\ p \in Seq(STRING)
      /\ entry \in [Slots -> Inodes \cup {None}]
  BY DEF TypeOK
<1>2. /\ entry' = [entry EXCEPT ![s] = i]
      /\ UNCHANGED <<perm, canonical>>
  BY DEF SetEntry, config
<1>3. /\ walk[0] = RootDir /\ new[0] = RootDir
      /\ \A n \in 1 .. Len(p) : /\ walk[n] = Child(entry, walk[n - 1], p[n])
                               /\ new[n] = Child(entry', new[n - 1], p[n])
  BY <1>1, WalkIs
<1>4. /\ \A j \in 0 .. k :
           walk[j] = None \/ (walk[j] \in Dirs \cup Files /\ RootsOwn(walk[j]))
      /\ \A j \in 1 .. k : <<walk[j - 1], p[j]>> \in Slots =>
                             ~Writable(<<walk[j - 1], p[j]>>)
  BY DEF Sealed
<1> HIDE DEF walk, new, p
<1>5. \A j \in 0 .. k : new[j] = walk[j] \/ new[j] \in Root \cup {None}
  <2> DEFINE S == {j \in Nat : j <= k =>
                      new[j] = walk[j] \/ new[j] \in Root \cup {None}}
  <2>1. 0 \in S
    BY <1>3
  <2>2. ASSUME NEW j \in Nat, j \in S, j + 1 <= k PROVE j + 1 \in S
    <3> DEFINE t == <<new[j], p[j + 1]>>
    <3>1. j + 1 \in 1 .. Len(p) /\ j + 1 \in 1 .. k /\ (j + 1) - 1 = j
      BY <2>2, <1>1 DEF p
    <3>2. /\ new[j + 1] = IF t \in Slots THEN entry'[t] ELSE None
          /\ walk[j + 1] = Child(entry, walk[j], p[j + 1])
      BY <3>1, <1>3 DEF Child
    <3>3. CASE t \notin Slots
      BY <3>2, <3>3
    <3>4. CASE t \in Slots
      <4>1. new[j] = walk[j]
        <5>1. new[j] \in Dirs
          BY <3>4 DEF TrustPathAssumption
        <5> QED
          BY <5>1, <2>2 DEF TrustPathAssumption, Inodes
      <4>2. ~Writable(t)
        BY <4>1, <3>4, <3>1, <1>4
      <4>3. CASE t = s
        <5>1. Careful(s, i)
          BY <4>2, <4>3
        <5>2. entry'[t] = i
          BY <4>3, <1>1, <1>2
        <5> HIDE DEF t
        <5>3. new[j + 1] \in Root \cup {None}
          BY <5>1, <5>2, <3>2, <3>4 DEF Careful
        <5> QED
          BY <5>3
      <4>4. CASE t # s
        BY <4>1, <4>4, <3>2, <3>4, <1>1, <1>2 DEF Child
      <4> QED
        BY <4>3, <4>4
    <3> HIDE DEF t
    <3> QED
      BY <3>3, <3>4
  <2>3. \A j \in Nat : j \in S => j + 1 \in S
    BY <2>2
  <2> HIDE DEF S
  <2>4. Nat \subseteq S
    BY <2>1, <2>3, Induct
  <2> QED
    BY <2>4 DEF S
<1>6. \A j \in 0 .. k :
         new[j] = None \/ (new[j] \in Dirs \cup Files /\ RootsOwn(new[j]))
  BY <1>4, <1>5 DEF RootsOwn
<1>7. ASSUME NEW j \in 1 .. k, NEW t \in Slots, t = <<new[j - 1], p[j]>>
      PROVE  ~Writable(t)'
  <2>1. new[j - 1] = walk[j - 1]
    <3>1. new[j - 1] \in Dirs
      BY <1>7 DEF TrustPathAssumption
    <3> QED
      BY <3>1, <1>5 DEF TrustPathAssumption, Inodes
  <2>2. ~Writable(t)
    BY <2>1, <1>4, <1>7
  <2>3. CASE t = s
    BY <2>2, <2>3, <1>1, <1>2 DEF Writable, Careful
  <2>4. CASE t # s
    BY <2>2, <2>4, <1>1, <1>2 DEF Writable
  <2> QED
    BY <2>3, <2>4
<1>8. Walk(entry, canonical)' = new /\ canonical' = p /\ perm' = perm
  BY <1>2 DEF new, p
<1> QED
  BY <1>6, <1>7, <1>8 DEF Sealed, RootsOwn

USE TrustPathAssumption DEF TrustPathAssumption

(* A path leads to an inode that is no link, or nowhere.                   *)
LEMMA StatType ==
    ASSUME NEW e, NEW p PROVE Stat(e, p) \in Inodes \cup {None}
BY DEF Stat, Inodes

(* A turn of the loop of validate_components() goes on, ends it or fails.  *)
LEMMA ComponentType ==
    ASSUME TypeOK, NEW label, NEW p, NEW allow,
           NEW next \in {"canonicalize", "regular"},
           ValidateComponent(label, p, allow, next)
    PROVE  TypeOK'
<1>1. \/ Fail
      \/ at' = at + 1 /\ UNCHANGED <<pc, result>>
      \/ Goto(next)
  BY Zenon DEF ValidateComponent
<1>2. /\ at' \in Nat
      /\ result' \in {"none", "err", "ok"}
      /\ pc' \in {"done", pc, next}
  BY <1>1 DEF Fail, Goto, TypeOK
<1>3. UNCHANGED <<config, tree, canonical, follows, expected, opened, text>>
  BY DEF ValidateComponent
<1> QED
  BY <1>2, <1>3 DEF TypeOK, config, tree

(* What is accepted is somebody's text.                                    *)
LEMMA AcceptType ==
    ASSUME NEW i, NEW all \in BOOLEAN, Accept(i, all)
    PROVE  /\ text' \in [by : {"nobody", "root", "user"}, whole : BOOLEAN]
           /\ pc' = "done" /\ result' = "ok" /\ at' = at
<1>1. By(i) \in {"root", "user"}
  BY Zenon DEF By
<1> QED
  BY <1>1 DEF Accept

(* The types of TrustPath's variables, whatever happens to the tree.       *)
THEOREM Typing == Spec => []TypeOK
<1>1. Init => TypeOK
  <2> SUFFICES ASSUME Init PROVE TypeOK
    OBVIOUS
  <2>1. canonical \in Seq(STRING) /\ {expected, opened} \subseteq Inodes \cup {None}
    BY DEF Init
  <2>2. entry \in [Slots -> Inodes \cup {None}]
    BY DEF Init
  <2>3. \A i \in Inodes : perm[i] \in Perms(i) \cup {"root"}
    BY DEF Init
  <2>4. edits \in 0 .. MaxEdits /\ follows \in 0 .. MaxLinks /\ at \in Nat
    BY DEF Init
  <2>5. /\ path \in Paths /\ first \in Trees /\ tampered = {} /\ careless = FALSE
        /\ pc = "normal" /\ result = "none"
        /\ text = [by |-> "nobody", whole |-> FALSE]
    BY DEF Init
  <2> QED
    BY <2>1, <2>2, <2>3, <2>4, <2>5 DEF TypeOK
<1>2. TypeOK /\ [Next]_vars => TypeOK'
  <2> SUFFICES ASSUME TypeOK, [Next]_vars PROVE TypeOK'
    OBVIOUS
  <2> USE DEF TypeOK, config, tree, Goto, Fail
  <2>1. CASE CheckNormal
    BY <2>1 DEF CheckNormal
  <2>2. CASE ValidateLexical
    BY <2>2, ComponentType DEF ValidateLexical
  <2>3. CASE Canonicalize
    <3> DEFINE i == Walk(entry, canonical)[at]
    <3>1. CASE i \in Links /\ follows # MaxLinks /\ i # None
      <4>1. canonical' = Target[i] \o SubSeq(canonical, at + 1, Len(canonical))
        BY <2>3, <3>1 DEF Canonicalize, Follow
      <4>2. canonical' \in Seq(STRING)
        BY <3>1, <4>1
      <4>3. /\ follows' \in 0 .. MaxLinks /\ at' = 0 /\ pc' = pc /\ result' = result
            /\ UNCHANGED <<config, tree, expected, opened, text>>
        BY <2>3, <3>1 DEF Canonicalize
      <4> HIDE DEF i
      <4> QED
        BY <4>2, <4>3
    <3>2. CASE ~(i \in Links /\ follows # MaxLinks /\ i # None)
      <4>1. canonical' = canonical /\ follows' = follows
        BY <2>3, <3>2 DEF Canonicalize
      <4>2. /\ pc' \in {"canonicalize", "resolved", "done"} /\ at' \in Nat
            /\ result' \in {"none", "err", "ok"}
        <5>1. \/ Fail
              \/ at' = at + 1 /\ UNCHANGED <<pc, result>>
              \/ Goto("resolved")
          BY <2>3, <3>2 DEF Canonicalize
        <5>2. pc = "canonicalize"
          BY <2>3 DEF Canonicalize
        <5> QED
          BY <5>1, <5>2
      <4>3. UNCHANGED <<config, tree, expected, opened, text>>
        BY <2>3 DEF Canonicalize
      <4> QED
        BY <4>1, <4>2, <4>3
    <3> QED
      BY <3>1, <3>2
  <2>4. CASE ValidateResolved
    BY <2>4, ComponentType DEF ValidateResolved
  <2>5. CASE CheckRegular
    BY <2>5 DEF CheckRegular
  <2>6. CASE Expect
    BY <2>6, StatType DEF Expect
  <2>7. CASE Open
    BY <2>7, StatType DEF Open
  <2>8. CASE Read
    BY <2>8, AcceptType DEF Read, Bounded
  <2>9. CASE Execute
    BY <2>9, StatType, AcceptType DEF Execute
  <2>10. ASSUME NEW s \in Slots, NEW i \in Inodes \cup {None},
                UserEdit(s, i) \/ RootEdit(s, i)
         PROVE  TypeOK'
    <3>1. SetEntry(s, i)
      BY <2>10 DEF UserEdit, RootEdit
    <3>2. edits' \in 0 .. MaxEdits
      BY <2>10 DEF UserEdit, RootEdit
    <3>3. careless' \in BOOLEAN
      BY <2>10, Zenon DEF UserEdit, RootEdit
    <3> QED
      BY <3>1, <3>2, <3>3 DEF SetEntry
  <2>11. ASSUME NEW f \in Files, UserWrite(f) PROVE TypeOK'
    BY <2>11 DEF UserWrite
  <2>12. CASE Over \/ UNCHANGED vars
    BY <2>12 DEF Over, vars
  <2> QED
    BY <2>1, <2>2, <2>3, <2>4, <2>5, <2>6, <2>7, <2>8, <2>9, <2>10, <2>11,
       <2>12 DEF Next, Module, Others
<1> QED
  BY <1>1, <1>2, PTL DEF Spec

(* Where users may write there is nothing of root's, and from its validation
   to its use the canonical path is sealed.                                *)
SealedInv ==
    /\ \A f \in tampered : perm[f] # "root"
    /\ ~careless =>
          /\ pc = "resolved" => at <= Len(canonical) /\ Sealed(at - 1)
          /\ pc \in {"regular", "expected", "open", "exec"} =>
                Sealed(Len(canonical))
          /\ pc = "read" /\ opened \in Files => perm[opened] = "root"
          /\ result = "ok" => text = [by |-> "root", whole |-> TRUE]

(* The prefix that is sealed, after a step.                                *)
LEMMA SealedNext ==
    ASSUME NEW k, Sealed(k)'
    PROVE  /\ at' - 1 = k => Sealed(at - 1)'
           /\ Len(canonical') = k => Sealed(Len(canonical))'
BY DEF Sealed

(* What the canonical path then leads to is root's.                        *)
LEMMA SealedFile ==
    ASSUME TypeOK, Sealed(Len(canonical)), Stat(entry, canonical) \in Files
    PROVE  perm[Stat(entry, canonical)] = "root"
<1>1. canonical \in Seq(STRING)
  BY DEF TypeOK
<1>2. SubSeq(canonical, 1, Len(canonical)) = canonical
  BY <1>1
<1>3. Len(canonical) \in 0 .. Len(canonical)
  BY <1>1
<1>4. Stat(entry, canonical) = Walk(entry, canonical)[Len(canonical)]
  BY <1>2, <1>3, SealedStat
<1>5. RootsOwn(Stat(entry, canonical))
  BY <1>3, <1>4 DEF Sealed, Inodes
<1>6. perm[Stat(entry, canonical)] \in {"open", "user", "root"}
  <2>1. \A i \in Files : /\ perm[i] \in Perms(i) \cup {"root"}
                        /\ i \notin Dirs /\ i \notin Links
    BY DEF TypeOK, Inodes
  <2>2. \A i \in Files : Perms(i) = {"open", "user"}
    BY <2>1 DEF Perms
  <2> QED
    BY <2>1, <2>2
<1> QED
  BY <1>5, <1>6 DEF RootsOwn

(* Strict mode only takes root's text, whatever users do meanwhile.        *)
THEOREM RootsTextOnly == Spec => []RootsText
<1>1. Init => SealedInv
  BY DEF Init, SealedInv
<1>2. TypeOK /\ SealedInv /\ [Next]_vars => SealedInv'
  <2> SUFFICES ASSUME TypeOK, SealedInv, [Next]_vars PROVE SealedInv'
    OBVIOUS
  <2>0. canonical \in Seq(STRING) /\ at \in Nat
    BY DEF TypeOK
  <2>1. CASE CheckNormal
    BY <2>1 DEF CheckNormal, Goto, Fail, SealedInv, config, tree
  <2>2. CASE ValidateLexical
    BY <2>2 DEF ValidateLexical, ValidateComponent, Goto, Fail, SealedInv,
                config, tree
  <2>3. CASE Canonicalize
    <3>1. /\ pc' \in {"canonicalize", "resolved", "done"}
          /\ pc' = "resolved" => at' = 0 /\ canonical' = canonical
          /\ result' \in {result, "err"}
          /\ UNCHANGED <<config, tree, expected, opened, text>>
      BY <2>3 DEF Canonicalize, Goto, Fail
    <3>2. pc' = "resolved" => at' <= Len(canonical') /\ Sealed(at - 1)'
      <4> SUFFICES ASSUME pc' = "resolved" PROVE at' <= Len(canonical') /\ Sealed(at - 1)'
        OBVIOUS
      <4>1. at' = 0 /\ canonical' = canonical
        BY <3>1
      <4> QED
        BY <4>1, <2>0 DEF Sealed
    <3> QED
      BY <3>1, <3>2 DEF SealedInv, config, tree
  <2>4. CASE ValidateResolved
    <3> DEFINE p == SubSeq(canonical, 1, at)
    <3>1. /\ pc = "resolved"
          /\ UNCHANGED <<config, tree, canonical, follows, expected, opened, text>>
          /\ \/ Fail
             \/ /\ ValidComponent(p, FALSE)
                /\ at < Len(canonical) /\ at' = at + 1 /\ UNCHANGED <<pc, result>>
             \/ /\ ValidComponent(p, FALSE)
                /\ ~(at < Len(canonical)) /\ Goto("regular")
      BY <2>4 DEF ValidateResolved, ValidateComponent
    <3> HIDE DEF p
    <3>2. \A f \in tampered' : perm'[f] # "root"
      BY <3>1 DEF SealedInv, config, tree
    <3>3. CASE careless \/ Fail
      BY <3>1, <3>2, <3>3 DEF SealedInv, Fail, config, tree
    <3>4. CASE ~careless /\ ~Fail
      <4>1. at \in 0 .. Len(canonical) /\ Sealed(at - 1)
        BY <2>0, <3>1, <3>4 DEF SealedInv
      <4>2. PICK k : k = at
        OBVIOUS
      <4>3. Sealed(k)
        BY <4>1, <4>2, <3>1, <3>4, Seal DEF p
      <4>4. Sealed(k)'
        BY <4>3, <3>1 DEF Sealed, Writable, RootsOwn, config, tree
      <4>5. CASE at < Len(canonical)
        <5>1. at' = at + 1 /\ pc' = "resolved" /\ canonical' = canonical
          BY <3>1, <3>4, <4>5
        <5>2. at' <= Len(canonical') /\ Sealed(at - 1)'
          BY <5>1, <2>0, <4>2, <4>4, <4>5, SealedNext
        <5> QED
          BY <5>1, <5>2, <3>1, <3>2, <3>4, <4>5 DEF SealedInv, config, tree
      <4>6. CASE ~(at < Len(canonical))
        <5>1. pc' = "regular" /\ canonical' = canonical
          BY <3>1, <3>4, <4>6 DEF Goto
        <5>2. at = Len(canonical)
          BY <2>0, <4>1, <4>6
        <5>3. Sealed(Len(canonical))'
          BY <5>1, <5>2, <4>2, <4>4, SealedNext
        <5> QED
          BY <5>1, <5>3, <3>1, <3>2, <3>4, <4>6 DEF SealedInv, Goto, config, tree
      <4> QED
        BY <4>5, <4>6
    <3> QED
      BY <3>3, <3>4
  <2>5. CASE CheckRegular \/ Expect \/ Open \/ Execute \/ Read
    <3>1. /\ UNCHANGED <<config, tree, canonical>>
          /\ pc \in {"regular", "expected", "open", "exec", "read"}
          /\ pc' \in {"expected", "exec", "open", "read", "done"}
          /\ pc = "read" => pc' = "done"
      BY <2>5 DEF CheckRegular, Expect, Open, Execute, Read, Goto, Fail, Accept,
                  Bounded
    <3>2. \A f \in tampered' : perm'[f] # "root"
      BY <3>1 DEF SealedInv, config, tree
    <3>3. SealedInv /\ ~careless /\ pc # "read" => Sealed(Len(canonical))
      BY <3>1 DEF SealedInv
    <3>4. Sealed(Len(canonical)) => Sealed(Len(canonical))'
      BY <3>1 DEF Sealed, Writable, RootsOwn, config, tree
    <3>5. ~careless /\ pc' = "read" /\ opened' \in Files => perm'[opened'] = "root"
      BY <2>5, <3>1, <3>3, SealedFile
         DEF CheckRegular, Expect, Open, Execute, Read, Goto, Fail, Accept,
             Bounded, config
    <3>6. ASSUME ~careless, result' = "ok"
          PROVE  text' = [by |-> "root", whole |-> TRUE]
      <4>1. CASE CheckRegular \/ Expect \/ Open
        BY <4>1, <3>6 DEF CheckRegular, Expect, Open, Goto, Fail, SealedInv
      <4>2. ASSUME NEW i \in Files, Accept(i, TRUE), perm[i] = "root"
            PROVE  text' = [by |-> "root", whole |-> TRUE]
        BY <4>2 DEF Accept, By, SealedInv
      <4>3. CASE Execute
        BY <4>2, <4>3, <3>1, <3>3, <3>6, SealedFile DEF Execute, Fail
      <4>4. CASE Read
        BY <4>2, <4>4, <3>6 DEF Read, Bounded, Fail, SealedInv
      <4> QED
        BY <2>5, <4>1, <4>3, <4>4
    <3> QED
      BY <3>1, <3>2, <3>3, <3>4, <3>5, <3>6 DEF SealedInv, tree
  <2>6. ASSUME NEW s \in Slots, NEW i \in Inodes \cup {None},
               UserEdit(s, i) \/ RootEdit(s, i)
        PROVE  SealedInv'
    <3>1. /\ SetEntry(s, i)
          /\ ~careless' => ~careless /\ (Writable(s) \/ Careful(s, i))
      <4>1. CASE UserEdit(s, i)
        BY <4>1, Zenon DEF UserEdit
      <4>2. CASE RootEdit(s, i)
        BY <4>2, Zenon DEF RootEdit
      <4> QED
        BY <2>6, <4>1, <4>2
    <3>2. UNCHANGED <<config, tampered, pc, at, canonical, opened, result, text>>
      BY <3>1 DEF SetEntry
    <3>3. ASSUME NEW k \in Int, k <= Len(canonical), ~careless', Sealed(k)
          PROVE  Sealed(k)'
      BY <3>1, <3>3, StaysSealed
    <3>4. ASSUME ~careless', pc = "resolved"
          PROVE  at' <= Len(canonical') /\ Sealed(at - 1)'
      <4>1. PICK k \in Int : k = at - 1
        BY <2>0
      <4>2. at <= Len(canonical) /\ Sealed(k) /\ k <= Len(canonical)
        BY <3>1, <3>4, <4>1, <2>0 DEF SealedInv
      <4> QED
        BY <3>2, <3>3, <3>4, <4>1, <4>2, SealedNext
    <3>5. ASSUME ~careless', pc \in {"regular", "expected", "open", "exec"}
          PROVE  Sealed(Len(canonical))'
      <4>1. PICK k \in Int : k = Len(canonical)
        BY <2>0
      <4>2. Sealed(k) /\ k <= Len(canonical)
        BY <3>1, <3>5, <4>1, <2>0 DEF SealedInv
      <4> QED
        BY <3>2, <3>3, <3>5, <4>1, <4>2, SealedNext
    <3> QED
      BY <3>1, <3>2, <3>4, <3>5 DEF SealedInv, config
  <2>7. ASSUME NEW f \in Files, UserWrite(f) PROVE SealedInv'
    <3>1. /\ perm[f] = "open" /\ tampered' = tampered \cup {f}
          /\ UNCHANGED <<config, entry, careless, pc, at, canonical, opened,
                         result, text>>
      BY <2>7 DEF UserWrite
    <3>2. Sealed(at - 1) => Sealed(at - 1)'
      BY <3>1 DEF Sealed, Writable, RootsOwn, config
    <3>3. Sealed(Len(canonical)) => Sealed(Len(canonical))'
      BY <3>1 DEF Sealed, Writable, RootsOwn, config
    <3> QED
      BY <3>1, <3>2, <3>3 DEF SealedInv, config
  <2>8. CASE Over \/ UNCHANGED vars
    <3>1. UNCHANGED vars
      BY <2>8 DEF Over
    <3>2. /\ Sealed(at - 1) => Sealed(at - 1)'
          /\ Sealed(Len(canonical)) => Sealed(Len(canonical))'
      BY <3>1 DEF Sealed, Writable, RootsOwn, config, tree, vars
    <3> QED
      BY <3>1, <3>2 DEF SealedInv, config, tree, vars
  <2> QED
    BY <2>1, <2>2, <2>3, <2>4, <2>5, <2>6, <2>7, <2>8 DEF Next, Module, Others
<1>3. SealedInv => RootsText
  BY DEF SealedInv, RootsText
<1> QED
  BY <1>1, <1>2, <1>3, Typing, PTL DEF Spec

(* g are the path and what follows it, one link after the other.           *)
IsFollowed(e, p, n, g) ==
    g = [i \in 0 .. n |-> IF i = 0 THEN p ELSE FollowFirst(e, g[i - 1])]

(* Any number of links can be followed.                                    *)
LEMMA FollowedExists ==
    ASSUME NEW e, NEW p PROVE \A n \in Nat : \E g : IsFollowed(e, p, n, g)
<1> DEFINE S == {n \in Nat : \E g : IsFollowed(e, p, n, g)}
<1>1. 0 \in S
  <2> DEFINE g == [i \in 0 .. 0 |-> p]
  <2>1. IsFollowed(e, p, 0, g)
    BY DEF IsFollowed
  <2> HIDE DEF g
  <2> QED
    BY <2>1
<1>2. ASSUME NEW n \in Nat, n \in S PROVE n + 1 \in S
  <2>1. PICK f : IsFollowed(e, p, n, f)
    BY <1>2
  <2> DEFINE g == [i \in 0 .. n + 1 |->
                     IF i = n + 1 THEN FollowFirst(e, f[n]) ELSE f[i]]
  <2>2. g[n + 1] = FollowFirst(e, f[n]) /\ \A i \in 0 .. n : g[i] = f[i]
    OBVIOUS
  <2>3. \A i \in 0 .. n + 1 :
           g[i] = IF i = 0 THEN p ELSE FollowFirst(e, g[i - 1])
    <3> SUFFICES ASSUME NEW i \in 0 .. n + 1
                 PROVE  g[i] = IF i = 0 THEN p ELSE FollowFirst(e, g[i - 1])
      OBVIOUS
    <3> HIDE DEF g
    <3>1. CASE i = n + 1
      <4>1. i # 0 /\ i - 1 = n
        BY <3>1
      <4> QED
        BY <3>1, <4>1, <2>2
    <3>2. CASE i \in 0 .. n
      <4>1. f[i] = IF i = 0 THEN p ELSE FollowFirst(e, f[i - 1])
        BY <3>2, <2>1 DEF IsFollowed
      <4>2. g[i] = f[i] /\ (i # 0 => g[i - 1] = f[i - 1])
        BY <3>2, <2>2
      <4> QED
        BY <4>1, <4>2
    <3> QED
      BY <3>1, <3>2
  <2>4. IsFollowed(e, p, n + 1, g)
    BY <2>3 DEF IsFollowed
  <2> HIDE DEF g
  <2> QED
    BY <2>4
<1> QED
  BY <1>1, <1>2, Induct

(* The links of a path are followed one after the other.                   *)
LEMMA FollowedIs ==
    ASSUME NEW e, NEW p
    PROVE  /\ Followed(e, p)[0] = p
           /\ \A n \in 1 .. MaxLinks :
                 Followed(e, p)[n] = FollowFirst(e, Followed(e, p)[n - 1])
<1>1. Followed(e, p) = CHOOSE g : IsFollowed(e, p, MaxLinks, g)
  BY DEF Followed, IsFollowed
<1>2. IsFollowed(e, p, MaxLinks, Followed(e, p))
  BY <1>1, FollowedExists
<1> QED
  BY <1>2 DEF IsFollowed

(* The first of the links is followed.                                     *)
LEMMA FirstLink ==
    ASSUME NEW e, NEW p \in Seq(STRING), NEW k \in 1 .. Len(p),
           Walk(e, p)[k] \in Links, \A j \in 1 .. k - 1 : Walk(e, p)[j] \notin Links
    PROVE  /\ FollowFirst(e, p) = Follow(e, p, k)
           /\ FollowFirst(e, p) \in Seq(STRING)
<1> DEFINE L == LinksOn(e, p)
<1>1. L \subseteq 1 .. Len(p) /\ k \in L /\ \A j \in L : k <= j
  BY DEF LinksOn
<1>2. FollowFirst(e, p) = Follow(e, p, CHOOSE i \in L : \A j \in L : i <= j)
  BY <1>1 DEF FollowFirst
<1> HIDE DEF L
<1>3. (CHOOSE i \in L : \A j \in L : i <= j) = k
  <2>1. \A i \in L : (\A j \in L : i <= j) => i = k
    BY <1>1
  <2> QED
    BY <1>1, <2>1
<1>4. Follow(e, p, k) \in Seq(STRING)
  <2>1. SubSeq(p, k + 1, Len(p)) \in Seq(STRING)
    OBVIOUS
  <2>2. Target[Walk(e, p)[k]] \in Seq(STRING)
    OBVIOUS
  <2> QED
    BY <2>1, <2>2 DEF Follow
<1> QED
  BY <1>2, <1>3, <1>4

(* A path with links on it has a first one.                                *)
LEMMA HasFirstLink ==
    ASSUME NEW e, NEW p \in Seq(STRING), LinksOn(e, p) # {}
    PROVE  \E k \in 1 .. Len(p) : /\ Walk(e, p)[k] \in Links
                                  /\ \A j \in 1 .. k - 1 : Walk(e, p)[j] \notin Links
<1> DEFINE L == LinksOn(e, p)
<1>1. L \in SUBSET Nat /\ L # {} /\ L \subseteq 1 .. Len(p)
  BY DEF LinksOn
<1> HIDE DEF L
<1>2. PICK k \in L : \A j \in L : k <= j
  BY <1>1, Least
<1>3. \A j \in 1 .. k - 1 : j \in 1 .. Len(p) /\ j \notin L
  BY <1>1, <1>2
<1>4. \A j \in 1 .. Len(p) : j \in L <=> Walk(e, p)[j] \in Links
  BY DEF L, LinksOn
<1> QED
  BY <1>1, <1>3, <1>4

(* Whatever is followed, a path is a path.                                 *)
LEMMA FollowFirstType ==
    ASSUME NEW e, NEW p \in Seq(STRING) PROVE FollowFirst(e, p) \in Seq(STRING)
<1>1. CASE LinksOn(e, p) = {}
  BY <1>1 DEF FollowFirst
<1>2. CASE LinksOn(e, p) # {}
  BY <1>2, HasFirstLink, FirstLink
<1> QED
  BY <1>1, <1>2

(* So are all that come of it.                                             *)
LEMMA FollowedType ==
    ASSUME NEW e, NEW p \in Seq(STRING)
    PROVE  \A n \in 0 .. MaxLinks : Followed(e, p)[n] \in Seq(STRING)
<1> DEFINE g == Followed(e, p)
           S == {n \in Nat : n <= MaxLinks => g[n] \in Seq(STRING)}
<1>1. g[0] = p /\ \A n \in 1 .. MaxLinks : g[n] = FollowFirst(e, g[n - 1])
  BY FollowedIs
<1> HIDE DEF g
<1>2. 0 \in S
  BY <1>1
<1>3. \A n \in Nat : n \in S => n + 1 \in S
  <2> SUFFICES ASSUME NEW n \in Nat, n \in S, n + 1 <= MaxLinks
               PROVE  g[n + 1] \in Seq(STRING)
    OBVIOUS
  <2>1. g[n + 1] = FollowFirst(e, g[n]) /\ g[n] \in Seq(STRING)
    BY <1>1
  <2> QED
    BY <2>1, FollowFirstType
<1> HIDE DEF S
<1>4. Nat \subseteq S
  BY <1>2, <1>3, Induct
<1> QED
  BY <1>4 DEF S, g

(* So is where a path ends in any case.                                    *)
LEMMA WayEnd ==
    ASSUME NEW e, NEW p \in Seq(STRING)
    PROVE  MaxLinks \in 0 .. MaxLinks /\ Followed(e, p)[MaxLinks] \in Seq(STRING)
<1>1. MaxLinks \in 0 .. MaxLinks
  OBVIOUS
<1> QED
  BY <1>1, FollowedType

(* Past an inode that is no directory a path leads nowhere.                *)
LEMMA DeadEnd ==
    ASSUME NEW e, NEW p \in Seq(STRING), NEW k \in 0 .. Len(p),
           Walk(e, p)[k] \notin Dirs
    PROVE  \A j \in k + 1 .. Len(p) : Walk(e, p)[j] = None
<1> DEFINE w == Walk(e, p)
           S == {n \in Nat : k + 1 + n <= Len(p) => w[k + 1 + n] = None}
<1>1. \A j \in 1 .. Len(p) : w[j - 1] \notin Dirs => w[j] = None
  <2>1. \A i, name : i \notin Dirs => Child(e, i, name) = None
    BY DEF Child
  <2> QED
    BY <2>1, WalkIs
<1> HIDE DEF w
<1>2. 0 \in S
  BY <1>1 DEF w
<1>3. \A n \in Nat : n \in S => n + 1 \in S
  <2> SUFFICES ASSUME NEW n \in Nat, n \in S, k + 1 + (n + 1) <= Len(p)
               PROVE  w[k + 1 + (n + 1)] = None
    OBVIOUS
  <2>1. w[k + 1 + n] \notin Dirs
    BY DEF Inodes
  <2>2. k + 1 + (n + 1) \in 1 .. Len(p) /\ (k + 1 + (n + 1)) - 1 = k + 1 + n
    OBVIOUS
  <2> QED
    BY <1>1, <2>1, <2>2
<1> HIDE DEF S
<1>4. Nat \subseteq S
  BY <1>2, <1>3, Induct
<1>5. ASSUME NEW j \in k + 1 .. Len(p) PROVE w[j] = None
  <2>1. j - (k + 1) \in Nat /\ k + 1 + (j - (k + 1)) = j
    OBVIOUS
  <2> QED
    BY <1>4, <2>1 DEF S
<1> QED
  BY <1>5 DEF w

(* Users have changed no entry of what is root's own.                      *)
Kept == \A s \in Slots : RootsOwn(s[1]) => entry[s] = first[s]

(* As far as the first link of a path that is root's way, the tree leads
   where it led at first.                                                  *)
LEMMA Agree ==
    ASSUME Kept, NEW q \in Seq(STRING), RootsWalk(q), NEW k \in 0 .. Len(q),
           \A j \in 1 .. k - 1 : Walk(first, q)[j] \notin Links
    PROVE  \A j \in 0 .. k : Walk(entry, q)[j] = Walk(first, q)[j]
<1> DEFINE w == Walk(first, q)
           v == Walk(entry, q)
<1>1. ASSUME NEW j \in 1 .. k
      PROVE  Child(entry, w[j - 1], q[j]) = Child(first, w[j - 1], q[j])
  <2> DEFINE s == <<w[j - 1], q[j]>>
  <2>1. CASE s \notin Slots
    BY <2>1 DEF Child
  <2>2. CASE s \in Slots
    <3>1. w[j - 1] \in Dirs
      BY <2>2
    <3>2. RootsOwn(w[j - 1])
      <4>1. j - 1 \in 0 .. Len(q) /\ \A i \in 1 .. (j - 1) - 1 : w[i] \notin Links
        OBVIOUS
      <4> QED
        BY <3>1, <4>1 DEF RootsWalk, Inodes
    <3>3. s[1] = w[j - 1]
      OBVIOUS
    <3> HIDE DEF s
    <3>4. entry[s] = first[s]
      BY <2>2, <3>2, <3>3 DEF Kept
    <3> QED
      BY <2>2, <3>4 DEF Child, s
  <2> QED
    BY <2>1, <2>2
<1>2. /\ v[0] = RootDir /\ w[0] = RootDir
      /\ \A j \in 1 .. Len(q) : v[j] = Child(entry, v[j - 1], q[j])
      /\ \A j \in 1 .. Len(q) : w[j] = Child(first, w[j - 1], q[j])
  BY WalkIs
<1> HIDE DEF v, w, TrustPathAssumption
<1>3. \A j \in 1 .. k : v[j - 1] = w[j - 1] => v[j] = w[j]
  BY <1>1, <1>2
<1>4. \A j \in 0 .. k : v[j] = w[j]
  <2> TAKE j \in 0 .. k
  <2>1. j \in Nat /\ \A i \in 1 .. j : v[i - 1] = w[i - 1] => v[i] = w[i]
    BY <1>3
  <2> QED
    BY <1>2, <2>1, Along
<1> QED
  BY <1>4 DEF v, w

(* So its first link is the one that was followed at first, ...            *)
LEMMA AgreeFollow ==
    ASSUME Kept, NEW q \in Seq(STRING), RootsWalk(q)
    PROVE  /\ FollowFirst(entry, q) = FollowFirst(first, q)
           /\ LinksOn(first, q) = {} =>
                 \A j \in 0 .. Len(q) : Walk(entry, q)[j] = Walk(first, q)[j]
           /\ LinksOn(first, q) = {} <=> LinksOn(entry, q) = {}
<1>1. CASE LinksOn(first, q) = {}
  <2>1. \A j \in 1 .. Len(q) : Walk(first, q)[j] \notin Links
    BY <1>1 DEF LinksOn
  <2>2. \A j \in 0 .. Len(q) : Walk(entry, q)[j] = Walk(first, q)[j]
    BY <2>1, Agree
  <2>3. LinksOn(entry, q) = {}
    BY <2>1, <2>2 DEF LinksOn
  <2> QED
    BY <1>1, <2>2, <2>3 DEF FollowFirst
<1>2. CASE LinksOn(first, q) # {}
  <2>1. PICK k \in 1 .. Len(q) :
           /\ Walk(first, q)[k] \in Links
           /\ \A j \in 1 .. k - 1 : Walk(first, q)[j] \notin Links
    BY <1>2, HasFirstLink
  <2>2. \A j \in 0 .. k : Walk(entry, q)[j] = Walk(first, q)[j]
    BY <2>1, Agree
  <2>3. /\ Walk(entry, q)[k] \in Links
        /\ \A j \in 1 .. k - 1 : Walk(entry, q)[j] \notin Links
    BY <2>1, <2>2
  <2>4. /\ FollowFirst(first, q) = Follow(first, q, k)
        /\ FollowFirst(entry, q) = Follow(entry, q, k)
    BY <2>1, <2>3, FirstLink
  <2>5. LinksOn(entry, q) # {}
    BY <2>3 DEF LinksOn
  <2>6. Follow(first, q, k) = Follow(entry, q, k)
    <3>1. Walk(entry, q)[k] = Walk(first, q)[k]
      BY <2>2
    <3> QED
      BY <3>1 DEF Follow
  <2> QED
    BY <1>2, <2>4, <2>5, <2>6
<1> QED
  BY <1>1, <1>2

(* ... and so on to the end.                                               *)
LEMMA AgreeFollowed ==
    ASSUME Kept, NEW p \in Seq(STRING), RootsWay(p)
    PROVE  \A n \in 0 .. MaxLinks : Followed(entry, p)[n] = Followed(first, p)[n]
<1> DEFINE f == Followed(first, p)
           g == Followed(entry, p)
           S == {n \in Nat : n <= MaxLinks => g[n] = f[n]}
<1>1. /\ f[0] = p /\ \A n \in 1 .. MaxLinks : f[n] = FollowFirst(first, f[n - 1])
      /\ g[0] = p /\ \A n \in 1 .. MaxLinks : g[n] = FollowFirst(entry, g[n - 1])
  BY FollowedIs
<1>2. \A n \in 0 .. MaxLinks : f[n] \in Seq(STRING) /\ RootsWalk(f[n])
  BY FollowedType DEF RootsWay
<1> HIDE DEF f, g
<1>3. 0 \in S
  BY <1>1
<1>4. \A n \in Nat : n \in S => n + 1 \in S
  <2> SUFFICES ASSUME NEW n \in Nat, n \in S, n + 1 <= MaxLinks
               PROVE  g[n + 1] = f[n + 1]
    OBVIOUS
  <2>1. /\ g[n + 1] = FollowFirst(entry, g[n])
        /\ f[n + 1] = FollowFirst(first, f[n])
        /\ g[n] = f[n]
    BY <1>1
  <2>2. f[n] \in Seq(STRING) /\ RootsWalk(f[n])
    BY <1>2
  <2> QED
    BY <2>1, <2>2, AgreeFollow
<1> HIDE DEF S
<1>5. Nat \subseteq S
  BY <1>3, <1>4, Induct
<1> QED
  BY <1>5 DEF S, f, g

(* Where a link is left, stat() has found nothing.                         *)
LEMMA LinkLeft ==
    ASSUME NEW e, NEW p \in Seq(STRING),
           LinksOn(e, Followed(e, p)[MaxLinks]) # {}
    PROVE  Stat(e, p) = None
<1> DEFINE q == Followed(e, p)[MaxLinks]
<1>1. q \in Seq(STRING)
  BY FollowedType
<1> HIDE DEF q
<1>2. PICK k \in 1 .. Len(q) : Walk(e, q)[k] \in Links
  BY DEF LinksOn, q
<1>3. Walk(e, q)[k] \notin Dirs \cup Files
  BY <1>2
<1>4. Walk(e, q)[Len(q)] \notin Dirs \cup Files
  <2>1. CASE k = Len(q)
    BY <2>1, <1>3
  <2>2. CASE k # Len(q)
    <3>1. Len(q) \in k + 1 .. Len(q) /\ k \in 0 .. Len(q)
      BY <2>2, <1>1
    <3>2. Walk(e, q)[Len(q)] = None
      BY <1>1, <1>3, <3>1, DeadEnd
    <3> QED
      BY <3>2 DEF Inodes
  <2> QED
    BY <2>1, <2>2
<1> QED
  BY <1>4 DEF Stat, q

(* stat() of root's way finds what it found at first.                      *)
LEMMA AgreeStat ==
    ASSUME Kept, NEW p \in Seq(STRING), RootsWay(p)
    PROVE  Stat(entry, p) = Stat(first, p)
<1> DEFINE q == Followed(first, p)[MaxLinks]
<1>1. q = Followed(entry, p)[MaxLinks]
  <2>1. MaxLinks \in 0 .. MaxLinks
    BY WayEnd
  <2>2. \A n \in 0 .. MaxLinks : Followed(entry, p)[n] = Followed(first, p)[n]
    BY AgreeFollowed
  <2> QED
    BY <2>1, <2>2
<1>2. q \in Seq(STRING) /\ RootsWalk(q)
  <2>1. MaxLinks \in 0 .. MaxLinks /\ q \in Seq(STRING)
    BY WayEnd
  <2>2. \A n \in 0 .. MaxLinks : RootsWalk(Followed(first, p)[n])
    BY DEF RootsWay
  <2>3. RootsWalk(q)
    BY <2>1, <2>2
  <2> HIDE DEF q
  <2> QED
    BY <2>1, <2>3
<1> HIDE DEF q
<1>3. CASE LinksOn(first, q) = {}
  <2>1. Walk(entry, q)[Len(q)] = Walk(first, q)[Len(q)]
    BY <1>2, <1>3, AgreeFollow
  <2> QED
    BY <1>1, <2>1 DEF Stat, q
<1>4. CASE LinksOn(first, q) # {}
  <2>1. LinksOn(entry, q) # {}
    BY <1>2, <1>4, AgreeFollow
  <2> QED
    BY <1>1, <1>4, <2>1, LinkLeft DEF q
<1> QED
  BY <1>3, <1>4

(* What stat() finds at first at the end of root's way is root's own.      *)
LEMMA StatOwn ==
    ASSUME NEW p \in Seq(STRING), RootsWay(p), Stat(first, p) # None
    PROVE  LET q == Followed(first, p)[MaxLinks] IN
           /\ q \in Seq(STRING)
           /\ LinksOn(first, q) = {}
           /\ Stat(first, p) = Walk(first, q)[Len(q)]
           /\ RootsOwn(Stat(first, p))
<1> DEFINE q == Followed(first, p)[MaxLinks]
<1>1. q \in Seq(STRING) /\ RootsWalk(q)
  <2>1. MaxLinks \in 0 .. MaxLinks /\ q \in Seq(STRING)
    BY WayEnd
  <2>2. \A n \in 0 .. MaxLinks : RootsWalk(Followed(first, p)[n])
    BY DEF RootsWay
  <2>3. RootsWalk(q)
    BY <2>1, <2>2
  <2> HIDE DEF q
  <2> QED
    BY <2>1, <2>3
<1>2. LinksOn(first, q) = {}
  BY LinkLeft
<1>3. Stat(first, p) = Walk(first, q)[Len(q)] /\ Stat(first, p) \in Dirs \cup Files
  BY DEF Stat
<1> HIDE DEF q
<1>4. \A j \in 1 .. Len(q) : Walk(first, q)[j] \notin Links
  BY <1>2 DEF LinksOn
<1>5. RootsOwn(Walk(first, q)[Len(q)])
  BY <1>1, <1>3, <1>4 DEF RootsWalk, Inodes
<1> QED
  BY <1>1, <1>2, <1>3, <1>5 DEF q

(* b is the path a with one more name.                                     *)
OneMore(b, a, name) ==
    /\ b \in Seq(STRING)
    /\ Len(b) = Len(a) + 1
    /\ \A j \in 1 .. Len(a) : b[j] = a[j]
    /\ b[Len(a) + 1] = name

(* That name leads one inode further.                                      *)
LEMMA OneMoreWalk ==
    ASSUME NEW e, NEW a \in Seq(STRING), NEW name, NEW b, OneMore(b, a, name)
    PROVE  /\ \A j \in 0 .. Len(a) : Walk(e, b)[j] = Walk(e, a)[j]
           /\ Walk(e, b)[Len(b)] = Child(e, Walk(e, a)[Len(a)], name)
<1> DEFINE v == Walk(e, b)
           w == Walk(e, a)
<1>1. /\ b \in Seq(STRING) /\ Len(b) = Len(a) + 1
      /\ \A j \in 1 .. Len(a) : b[j] = a[j]
      /\ b[Len(a) + 1] = name
      /\ Len(a) \in Nat
  BY DEF OneMore
<1>2. /\ v[0] = RootDir /\ \A j \in 1 .. Len(b) : v[j] = Child(e, v[j - 1], b[j])
      /\ w[0] = RootDir /\ \A j \in 1 .. Len(a) : w[j] = Child(e, w[j - 1], a[j])
  BY <1>1, WalkIs
<1> HIDE DEF v, w, TrustPathAssumption
<1>3. \A j \in 1 .. Len(a) : v[j - 1] = w[j - 1] => v[j] = w[j]
  BY <1>1, <1>2
<1>4. \A j \in 0 .. Len(a) : v[j] = w[j]
  <2> TAKE j \in 0 .. Len(a)
  <2>1. j \in Nat /\ \A i \in 1 .. j : v[i - 1] = w[i - 1] => v[i] = w[i]
    BY <1>1, <1>3
  <2> QED
    BY <1>2, <2>1, Along
<1>5. v[Len(b)] = Child(e, w[Len(a)], name)
  BY <1>1, <1>2, <1>4
<1> QED
  BY <1>4, <1>5 DEF v, w

(* The links before it are followed all the same.                          *)
LEMMA OneMoreFollowed ==
    ASSUME NEW e, NEW a \in Seq(STRING), NEW name, NEW b, OneMore(b, a, name),
           LinksOn(e, a) # {}
    PROVE  OneMore(FollowFirst(e, b), FollowFirst(e, a), name)
<1>1. PICK k \in 1 .. Len(a) :
         /\ Walk(e, a)[k] \in Links
         /\ \A j \in 1 .. k - 1 : Walk(e, a)[j] \notin Links
  BY HasFirstLink
<1>2. /\ b \in Seq(STRING) /\ Len(b) = Len(a) + 1
      /\ \A j \in 1 .. Len(a) : b[j] = a[j]
      /\ b[Len(a) + 1] = name
  BY DEF OneMore
<1>2a. \A j \in 0 .. Len(a) : Walk(e, b)[j] = Walk(e, a)[j]
  BY OneMoreWalk
<1>3. /\ k \in 1 .. Len(b) /\ k \in 0 .. Len(a)
      /\ Walk(e, b)[k] = Walk(e, a)[k]
      /\ \A j \in 1 .. k - 1 : Walk(e, b)[j] = Walk(e, a)[j]
  BY <1>2, <1>2a
<1> DEFINE t == Target[Walk(e, a)[k]]
           s == SubSeq(a, k + 1, Len(a))
           r == SubSeq(b, k + 1, Len(b))
<1>4. FollowFirst(e, a) = t \o s
  BY <1>1, FirstLink DEF Follow
<1>5. FollowFirst(e, b) = t \o r
  <2>1. /\ Walk(e, b)[k] \in Links
        /\ \A j \in 1 .. k - 1 : Walk(e, b)[j] \notin Links
    BY <1>1, <1>3
  <2>2. FollowFirst(e, b) = Follow(e, b, k)
    BY <1>2, <1>3, <2>1, FirstLink
  <2> QED
    BY <1>3, <2>2 DEF Follow
<1>6. t \in Seq(STRING)
  BY <1>1
<1>7. /\ s \in Seq(STRING) /\ Len(s) = Len(a) - k
      /\ \A j \in 1 .. Len(a) - k : s[j] = a[k + j]
  OBVIOUS
<1>8. /\ r \in Seq(STRING) /\ Len(r) = Len(a) + 1 - k
      /\ \A j \in 1 .. Len(a) + 1 - k : r[j] = b[k + j]
  BY <1>2
<1> HIDE DEF t, s, r
<1>9. \A f \in Seq(STRING) :
         /\ t \o f \in Seq(STRING) /\ Len(t \o f) = Len(t) + Len(f)
         /\ \A j \in 1 .. Len(t) + Len(f) :
               (t \o f)[j] = IF j <= Len(t) THEN t[j] ELSE f[j - Len(t)]
  BY <1>6, ConcatProperties
<1>10. s \in Seq(STRING) /\ r \in Seq(STRING)
  BY <1>7, <1>8
<1>11. /\ \A j \in 1 .. Len(s) : r[j] = s[j]
       /\ r[Len(s) + 1] = name
  <2>1. ASSUME NEW j \in 1 .. Len(s) PROVE r[j] = s[j]
    <3>1. k + j \in 1 .. Len(a) /\ j \in 1 .. Len(a) - k /\ j \in 1 .. Len(a) + 1 - k
      BY <1>7
    <3> QED
      BY <1>2, <1>7, <1>8, <3>1
  <2>2. Len(s) + 1 \in 1 .. Len(a) + 1 - k /\ k + (Len(s) + 1) = Len(a) + 1
    BY <1>7
  <2>3. r[Len(s) + 1] = b[k + (Len(s) + 1)]
    BY <1>8, <2>2
  <2> QED
    BY <1>2, <2>1, <2>2, <2>3
<1>12. Len(t) \in Nat /\ Len(s) \in Nat /\ Len(r) = Len(s) + 1
  BY <1>6, <1>7, <1>8
<1> DEFINE u == t \o s
           v == t \o r
<1> HIDE DEF u, v
<1>13. \A j \in 1 .. Len(u) : v[j] = u[j]
  <2> TAKE j \in 1 .. Len(u)
  <2>1. CASE j <= Len(t)
    BY <2>1, <1>9, <1>10, <1>12 DEF u, v
  <2>2. CASE ~(j <= Len(t))
    <3>1. j - Len(t) \in 1 .. Len(s) /\ j \in 1 .. Len(t) + Len(r)
          /\ j \in 1 .. Len(t) + Len(s)
      BY <2>2, <1>9, <1>12 DEF u
    <3> QED
      BY <2>2, <3>1, <1>9, <1>10, <1>11 DEF u, v
  <2> QED
    BY <2>1, <2>2
<1>14. v[Len(u) + 1] = name
  <2>1. Len(u) + 1 = Len(t) + Len(r) /\ Len(u) + 1 - Len(t) = Len(s) + 1
    BY <1>9, <1>12 DEF u
  <2> QED
    BY <2>1, <1>10, <1>11, <1>12 DEF v
<1>15. u \in Seq(STRING) /\ v \in Seq(STRING) /\ Len(v) = Len(u) + 1
  <2>1. u \in Seq(STRING) /\ Len(u) = Len(t) + Len(s)
    BY <1>9, <1>10 DEF u
  <2>2. v \in Seq(STRING) /\ Len(v) = Len(t) + Len(r)
    BY <1>9, <1>10 DEF v
  <2> QED
    BY <2>1, <2>2, <1>12
<1> QED
  BY <1>4, <1>5, <1>13, <1>14, <1>15 DEF OneMore, u, v

(* A path stays root's way if what one more name leads to is root's own, or
   a link of root's which leads root's way itself.                         *)
LEMMA OneMoreWay ==
    ASSUME NEW p \in Seq(STRING), NEW name, NEW b, OneMore(b, p, name),
           RootsWay(p), Straight,
           NEW c, c = Child(first, Stat(first, p), name), c # None,
           IF c \in Links THEN perm[c] = "root" ELSE RootsOwn(c)
    PROVE  RootsWay(b)
<1> DEFINE A == Followed(first, p)
           B == Followed(first, b)
           D == Stat(first, p)
           End(m) == Walk(first, A[m])[Len(A[m])]
           Free(m) == LinksOn(first, A[m]) = {}
<1>1. <<D, name>> \in Slots /\ c = first[<<D, name>>] /\ D # None
  BY DEF Child, Inodes
<1>2. /\ A[MaxLinks] \in Seq(STRING)
      /\ Free(MaxLinks)
      /\ D = End(MaxLinks)
      /\ RootsOwn(D)
  BY <1>1, StatOwn
<1>3. A[0] = p /\ \A n \in 1 .. MaxLinks : A[n] = FollowFirst(first, A[n - 1])
  BY FollowedIs
<1>4. B[0] = b /\ \A n \in 1 .. MaxLinks : B[n] = FollowFirst(first, B[n - 1])
  BY FollowedIs
<1>5. \A n \in 0 .. MaxLinks : A[n] \in Seq(STRING) /\ RootsWalk(A[n])
  BY FollowedType DEF RootsWay
<1>6. \A n \in 0 .. MaxLinks : Free(n) => FollowFirst(first, A[n]) = A[n]
  BY DEF FollowFirst
<1>7. \A n \in 0 .. MaxLinks : ~Free(n) /\ OneMore(B[n], A[n], name) =>
         OneMore(FollowFirst(first, B[n]), FollowFirst(first, A[n]), name)
  BY <1>5, OneMoreFollowed
<1>8. ASSUME NEW n \in 0 .. MaxLinks, OneMore(B[n], A[n], name), ~Free(n)
      PROVE  RootsWalk(B[n])
  <2>1. PICK i \in 1 .. Len(A[n]) : Walk(first, A[n])[i] \in Links
    BY <1>8 DEF LinksOn
  <2>2. /\ Len(B[n]) = Len(A[n]) + 1
        /\ \A j \in 0 .. Len(A[n]) : Walk(first, B[n])[j] = Walk(first, A[n])[j]
    <3>1. A[n] \in Seq(STRING)
      BY <1>5
    <3>2. Len(B[n]) = Len(A[n]) + 1
      BY <1>8 DEF OneMore
    <3>3. \A j \in 0 .. Len(A[n]) : Walk(first, B[n])[j] = Walk(first, A[n])[j]
      BY <3>1, <1>8, OneMoreWalk
    <3> QED
      BY <3>2, <3>3
  <2>3. A[n] \in Seq(STRING) /\ RootsWalk(A[n])
    BY <1>5
  <2> DEFINE v == Walk(first, B[n])
             w == Walk(first, A[n])
  <2>4. \A k \in 0 .. Len(A[n]) : (\A j \in 1 .. k - 1 : w[j] \notin Links) =>
             w[k] = None \/ w[k] \in Links \/ RootsOwn(w[k])
    BY <2>3 DEF RootsWalk
  <2>5. /\ \A j \in 0 .. Len(A[n]) : v[j] = w[j]
        /\ w[i] \in Links
    BY <2>1, <2>2
  <2> HIDE DEF v, w
  <2>6. ASSUME NEW k \in 0 .. Len(B[n]), \A j \in 1 .. k - 1 : v[j] \notin Links
        PROVE  v[k] = None \/ v[k] \in Links \/ RootsOwn(v[k])
    <3>1. k \in 0 .. Len(A[n])
      <4>1. v[i] \in Links
        BY <2>1, <2>5
      <4>2. ~(i \in 1 .. k - 1)
        BY <2>6, <4>1
      <4>3. Len(A[n]) \in Nat /\ i \in 1 .. Len(A[n]) /\ k \in 0 .. Len(A[n]) + 1
        BY <2>1, <2>2, <2>3
      <4> QED
        BY <4>2, <4>3
    <3>2. \A j \in 1 .. k - 1 : w[j] \notin Links
      <4>1. \A j \in 1 .. k - 1 : j \in 0 .. Len(A[n])
        <5>1. Len(A[n]) \in Nat
          BY <2>3
        <5> QED
          BY <3>1, <5>1
      <4> QED
        BY <2>5, <2>6, <4>1
    <3> QED
      BY <2>4, <2>5, <3>1, <3>2
  <2> QED
    BY <2>6 DEF RootsWalk, v
<1> HIDE DEF A, B, D, End, Free
<1>9. PICK n \in 0 .. MaxLinks : Free(n) /\ \A m \in 0 .. n - 1 : ~Free(m)
  <2> DEFINE T == {m \in 0 .. MaxLinks : Free(m)}
  <2>1. T \in SUBSET Nat /\ T # {}
    BY <1>2
  <2>2. \A m \in T : m \in 0 .. MaxLinks /\ Free(m)
    OBVIOUS
  <2>3. \A m \in 0 .. MaxLinks : Free(m) => m \in T
    OBVIOUS
  <2> HIDE DEF T
  <2>4. PICK n \in T : \A m \in T : n <= m
    BY <2>1, Least
  <2>5. n \in 0 .. MaxLinks /\ Free(n)
    BY <2>2
  <2>6. \A m \in 0 .. n - 1 : ~Free(m)
    BY <2>3, <2>4, <2>5
  <2> QED
    BY <2>5, <2>6
<1>10. \A m \in 0 .. n : OneMore(B[m], A[m], name)
  <2> DEFINE S == {m \in Nat : m <= n => OneMore(B[m], A[m], name)}
  <2>1. 0 \in S
    BY <1>3, <1>4
  <2>2. \A m \in Nat : m \in S => m + 1 \in S
    <3> SUFFICES ASSUME NEW m \in Nat, m \in S, m + 1 <= n
                 PROVE  OneMore(B[m + 1], A[m + 1], name)
      OBVIOUS
    <3>1. /\ m + 1 \in 1 .. MaxLinks /\ (m + 1) - 1 = m
          /\ m \in 0 .. n - 1 /\ m \in 0 .. MaxLinks
      OBVIOUS
    <3>2. B[m + 1] = FollowFirst(first, B[m]) /\ A[m + 1] = FollowFirst(first, A[m])
      BY <1>3, <1>4, <3>1
    <3>3. OneMore(B[m], A[m], name) /\ ~Free(m)
      BY <1>9, <3>1
    <3> QED
      BY <1>7, <3>1, <3>2, <3>3
  <2> HIDE DEF S
  <2>3. Nat \subseteq S
    BY <2>1, <2>2, Induct
  <2> QED
    BY <2>3 DEF S
<1>11. A[MaxLinks] = A[n]
  <2> DEFINE S == {m \in Nat : m \in n .. MaxLinks => A[m] = A[n]}
  <2>1. 0 \in S
    OBVIOUS
  <2>2. \A m \in Nat : m \in S => m + 1 \in S
    <3> SUFFICES ASSUME NEW m \in Nat, m \in S, m \in n .. MaxLinks - 1
                 PROVE  A[m + 1] = A[n]
      OBVIOUS
    <3>1. m + 1 \in 1 .. MaxLinks /\ (m + 1) - 1 = m /\ m \in n .. MaxLinks
      OBVIOUS
    <3>2. A[m + 1] = FollowFirst(first, A[m]) /\ A[m] = A[n]
      BY <1>3, <3>1
    <3> QED
      BY <3>2, <1>6, <1>9
  <2> HIDE DEF S
  <2>3. Nat \subseteq S
    BY <2>1, <2>2, Induct
  <2> QED
    BY <2>3 DEF S
<1>12. /\ A[n] \in Seq(STRING) /\ RootsWalk(A[n])
       /\ OneMore(B[n], A[n], name)
       /\ \A j \in 1 .. Len(A[n]) : Walk(first, A[n])[j] \notin Links
  <2>1. LinksOn(first, A[n]) = {}
    BY <1>9 DEF Free
  <2>2. \A j \in 1 .. Len(A[n]) : Walk(first, A[n])[j] \notin Links
    BY <2>1 DEF LinksOn
  <2>3. n \in 0 .. n
    OBVIOUS
  <2> QED
    BY <1>5, <1>10, <2>2, <2>3
<1> DEFINE l == Len(A[n]) + 1
           v == Walk(first, B[n])
<1>13. /\ B[n] \in Seq(STRING) /\ Len(B[n]) = l /\ l \in 1 .. l
       /\ \A j \in 1 .. l - 1 : v[j] \notin Links
       /\ v[l] = c
       /\ \A k \in 0 .. l - 1 : v[k] = None \/ v[k] \in Links \/ RootsOwn(v[k])
  <2>1. /\ B[n] \in Seq(STRING) /\ Len(B[n]) = l
        /\ \A j \in 0 .. Len(A[n]) : v[j] = Walk(first, A[n])[j]
        /\ v[Len(B[n])] = Child(first, Walk(first, A[n])[Len(A[n])], name)
    <3>1. B[n] \in Seq(STRING) /\ Len(B[n]) = l
      BY <1>12 DEF OneMore
    <3>2. /\ \A j \in 0 .. Len(A[n]) : Walk(first, B[n])[j] = Walk(first, A[n])[j]
          /\ Walk(first, B[n])[Len(B[n])] =
                Child(first, Walk(first, A[n])[Len(A[n])], name)
      BY <1>12, OneMoreWalk
    <3> QED
      BY <3>1, <3>2
  <2>2. Walk(first, A[n])[Len(A[n])] = D
    BY <1>2, <1>11 DEF End
  <2>3. v[l] = c
    BY <2>1, <2>2 DEF D
  <2>4. Len(A[n]) \in Nat
    BY <1>12
  <2>5. \A k \in 0 .. Len(A[n]) : LET w == Walk(first, A[n]) IN
             w[k] = None \/ w[k] \in Links \/ RootsOwn(w[k])
    BY <1>12 DEF RootsWalk
  <2> HIDE DEF v
  <2>6. l \in 1 .. l /\ l - 1 = Len(A[n])
    BY <2>4
  <2>7. \A j \in 1 .. l - 1 : v[j] \notin Links
    <3> TAKE j \in 1 .. l - 1
    <3>1. j \in 1 .. Len(A[n]) /\ j \in 0 .. Len(A[n])
      BY <2>6
    <3> QED
      BY <1>12, <2>1, <3>1
  <2>8. \A k \in 0 .. l - 1 : v[k] = None \/ v[k] \in Links \/ RootsOwn(v[k])
    BY <2>1, <2>5, <2>6
  <2> QED
    BY <2>1, <2>3, <2>6, <2>7, <2>8
<1>14. RootsWalk(B[n])
  <2>1. ASSUME NEW k \in 0 .. Len(B[n])
        PROVE  v[k] = None \/ v[k] \in Links \/ RootsOwn(v[k])
    <3> HIDE DEF v
    <3>1. k = l \/ k \in 0 .. l - 1
      BY <1>13
    <3> QED
      BY <1>13, <3>1
  <2> QED
    BY <2>1 DEF RootsWalk
<1>15. \A m \in 0 .. n : RootsWalk(B[m])
  BY <1>8, <1>9, <1>10, <1>14
<1>16. CASE c \notin Links
  <2>1. FollowFirst(first, B[n]) = B[n]
    <3>1. LinksOn(first, B[n]) = {}
      BY <1>13, <1>16 DEF LinksOn
    <3> QED
      BY <3>1 DEF FollowFirst
  <2> DEFINE S == {m \in Nat : m \in n .. MaxLinks => B[m] = B[n]}
  <2>2. 0 \in S
    OBVIOUS
  <2>3. \A m \in Nat : m \in S => m + 1 \in S
    <3> SUFFICES ASSUME NEW m \in Nat, m \in S, m \in n .. MaxLinks - 1
                 PROVE  B[m + 1] = B[n]
      OBVIOUS
    <3>1. m + 1 \in 1 .. MaxLinks /\ (m + 1) - 1 = m /\ m \in n .. MaxLinks
      OBVIOUS
    <3>2. B[m + 1] = FollowFirst(first, B[m]) /\ B[m] = B[n]
      BY <1>4, <3>1
    <3> QED
      BY <3>2, <2>1
  <2> HIDE DEF S
  <2>4. Nat \subseteq S
    BY <2>2, <2>3, Induct
  <2>5. ASSUME NEW m \in 0 .. MaxLinks PROVE RootsWalk(B[m])
    <3>1. CASE m <= n
      BY <1>15, <3>1
    <3>2. CASE ~(m <= n)
      <4>1. m \in Nat /\ m \in n .. MaxLinks
        BY <3>2
      <4>2. B[m] = B[n]
        BY <2>4, <4>1 DEF S
      <4> QED
        BY <4>2, <1>14
    <3> QED
      BY <3>1, <3>2
  <2> QED
    BY <2>5 DEF RootsWay, B
<1>17. CASE c \in Links
  <2> DEFINE C == Followed(first, Target[c])
  <2>1. RootsWay(Target[c])
    <3>1. <<D, name>>[1] = D
      OBVIOUS
    <3> QED
      BY <1>1, <1>2, <1>17, <3>1 DEF Straight
  <2>2. \A m \in 0 .. MaxLinks : RootsWalk(C[m])
    BY <2>1 DEF RootsWay
  <2>3. C[0] = Target[c] /\ \A m \in 1 .. MaxLinks : C[m] = FollowFirst(first, C[m - 1])
    BY FollowedIs
  <2>4. FollowFirst(first, B[n]) = Target[c]
    <3>1. FollowFirst(first, B[n]) = Target[c] \o SubSeq(B[n], l + 1, Len(B[n]))
      <4>1. /\ B[n] \in Seq(STRING) /\ l \in 1 .. Len(B[n])
            /\ Walk(first, B[n])[l] \in Links
            /\ \A j \in 1 .. l - 1 : Walk(first, B[n])[j] \notin Links
        BY <1>13, <1>17
      <4>2. FollowFirst(first, B[n]) = Follow(first, B[n], l)
        BY <4>1, FirstLink
      <4> QED
        BY <1>13, <4>2 DEF Follow
    <3>2. SubSeq(B[n], l + 1, Len(B[n])) = <<>>
      BY <1>13
    <3>3. Target[c] \in Seq(STRING)
      BY <1>17
    <3> QED
      BY <3>1, <3>2, <3>3, ConcatEmptySeq
  <2> HIDE DEF C
  <2> DEFINE S == {m \in Nat : m \in n + 1 .. MaxLinks => B[m] = C[m - (n + 1)]}
  <2>5. 0 \in S
    OBVIOUS
  <2>6. \A m \in Nat : m \in S => m + 1 \in S
    <3> SUFFICES ASSUME NEW m \in Nat, m \in S, m \in n .. MaxLinks - 1
                 PROVE  B[m + 1] = C[(m + 1) - (n + 1)]
      OBVIOUS
    <3>1. m + 1 \in 1 .. MaxLinks /\ (m + 1) - 1 = m
      OBVIOUS
    <3>2. B[m + 1] = FollowFirst(first, B[m])
      BY <1>4, <3>1
    <3>3. CASE m = n
      <4>1. (m + 1) - (n + 1) = 0
        BY <3>3
      <4> QED
        BY <2>3, <2>4, <3>2, <3>3, <4>1
    <3>4. CASE m # n
      <4> DEFINE i == m - (n + 1)
      <4>1. /\ i + 1 \in 1 .. MaxLinks /\ (i + 1) - 1 = i /\ m \in n + 1 .. MaxLinks
            /\ (m + 1) - (n + 1) = i + 1
        <5>1. /\ n \in Nat /\ m \in Nat /\ MaxLinks \in Nat
              /\ n < m /\ m < MaxLinks
          BY <3>4
        <5> HIDE DEF TrustPathAssumption
        <5> QED
          BY <5>1
      <4>2. B[m] = C[i]
        BY <4>1
      <4> HIDE DEF i
      <4>3. C[i + 1] = FollowFirst(first, C[i])
        BY <2>3, <4>1
      <4> QED
        BY <3>2, <4>1, <4>2, <4>3
    <3> QED
      BY <3>3, <3>4
  <2> HIDE DEF S
  <2>7. Nat \subseteq S
    BY <2>5, <2>6, Induct
  <2>8. ASSUME NEW m \in 0 .. MaxLinks PROVE RootsWalk(B[m])
    <3>1. CASE m <= n
      BY <1>15, <3>1
    <3>2. CASE ~(m <= n)
      <4>1. m - (n + 1) \in 0 .. MaxLinks /\ m \in Nat /\ m \in n + 1 .. MaxLinks
        BY <3>2
      <4>2. B[m] = C[m - (n + 1)]
        BY <2>7, <4>1 DEF S
      <4> QED
        BY <2>2, <4>1, <4>2
    <3> QED
      BY <3>1, <3>2
  <2> QED
    BY <2>8 DEF RootsWay, B
<1> QED
  BY <1>16, <1>17

(* At the root directory root's way begins.                                *)
LEMMA NoName ==
    ASSUME RootsOwn(RootDir) PROVE RootsWay(<<>>)
<1>1. <<>> \in Seq(STRING) /\ Len(<<>>) = 0
  OBVIOUS
<1>2. Walk(first, <<>>)[0] = RootDir
  BY <1>1, WalkIs
<1>3. LinksOn(first, <<>>) = {}
  BY <1>1 DEF LinksOn
<1>4. \A n \in 0 .. MaxLinks : Followed(first, <<>>)[n] = <<>>
  BY <1>1, <1>3, NoLinks
<1>5. RootsWalk(<<>>)
  BY <1>1, <1>2 DEF RootsWalk
<1> QED
  BY <1>4, <1>5 DEF RootsWay

(* Where one more name of the configured path is validated, the path is
   root's way as far as that name.                                         *)
LEMMA LexicalWay ==
    ASSUME TypeOK, Kept, Straight, NEW k \in 0 .. Len(path),
           k > 0 => RootsWay(SubSeq(path, 1, k - 1)),
           ValidComponent(SubSeq(path, 1, k), TRUE)
    PROVE  RootsWay(SubSeq(path, 1, k))
<1> DEFINE q == SubSeq(path, 1, k - 1)
           b == SubSeq(path, 1, k)
           c == Lstat(entry, b)
<1>1. path \in Seq(STRING)
  BY DEF TypeOK
<1>2. c = IF k = 0 THEN RootDir ELSE Child(entry, Stat(entry, q), path[k])
  BY <1>1, LstatIs
<1>3. c # None /\ perm[c] # "user" /\ (c \notin Links => RootsOwn(c))
  BY DEF ValidComponent, ValidMode, RootsOwn
<1>4. CASE k = 0
  <2>1. b = <<>>
    BY <1>1, <1>4
  <2>2. RootsOwn(RootDir)
    BY <1>2, <1>3, <1>4
  <2> HIDE DEF b
  <2> QED
    BY <2>1, <2>2, NoName DEF b
<1>5. CASE k # 0
  <2>1. /\ q \in Seq(STRING)
        /\ OneMore(b, q, path[k])
    <3>1. k \in 1 .. Len(path)
      BY <1>5
    <3> QED
      BY <1>1, <3>1 DEF OneMore
  <2>2. RootsWay(q)
    BY <1>5
  <2> HIDE DEF b, q, c
  <2>3. Stat(entry, q) = Stat(first, q)
    BY <2>1, <2>2, AgreeStat
  <2> DEFINE D == Stat(first, q)
             s == <<D, path[k]>>
  <2>4. c = Child(entry, D, path[k])
    BY <1>2, <1>5, <2>3
  <2>5. s \in Slots /\ c = entry[s]
    BY <1>3, <2>4 DEF Child
  <2>6. D # None
    BY <2>5 DEF Inodes
  <2>7. RootsOwn(D)
    BY <2>1, <2>2, <2>6, StatOwn
  <2>8. entry[s] = first[s]
    <3>1. s[1] = D
      OBVIOUS
    <3> HIDE DEF s, D
    <3> QED
      BY <2>5, <2>7, <3>1 DEF Kept
  <2>9. c = Child(first, D, path[k])
    BY <2>5, <2>8 DEF Child
  <2>10. IF c \in Links THEN perm[c] = "root" ELSE RootsOwn(c)
    <3>1. ASSUME c \in Links PROVE perm[c] = "root"
      <4>1. c \in Inodes /\ c \notin Dirs /\ c \notin Files
        BY <3>1 DEF Inodes
      <4>2. perm[c] \in Perms(c) \cup {"root"}
        BY <4>1 DEF TypeOK
      <4>3. Perms(c) = {"user"}
        BY <3>1, <4>1 DEF Perms
      <4> QED
        BY <1>3, <4>2, <4>3
    <3> QED
      BY <1>3, <3>1
  <2> HIDE DEF D
  <2>11. RootsWay(b)
    BY <1>3, <2>1, <2>2, <2>9, <2>10, OneMoreWay DEF D
  <2> QED
    BY <2>11 DEF b
<1> QED
  BY <1>4, <1>5

(* While root leaves the tree alone every step sees the tree as it was.    *)
Tracked ==
    edits = 0 /\ Settled /\ Straight =>
        /\ Kept
        /\ pc \in {"normal", "lexical"} => canonical = path /\ follows = 0
        /\ pc = "lexical" =>
              /\ at <= Len(path)
              /\ at > 0 => RootsWay(SubSeq(path, 1, at - 1))
        /\ pc = "canonicalize" =>
              /\ RootsWay(path)
              /\ canonical = Followed(first, path)[follows]
              /\ at <= Len(canonical)
              /\ \A j \in 0 .. at - 1 : Walk(first, canonical)[j] \notin Links
        /\ pc \in {"resolved", "regular", "expected", "open", "exec"} =>
              /\ RootsWalk(canonical)
              /\ LinksOn(first, canonical) = {}
              /\ Stat(first, canonical) = Stat(first, path)
        /\ pc = "read" \/ result = "ok" => opened = Stat(first, path)

(* What root's way is does not change.                                     *)
LEMMA SameWay ==
    ASSUME UNCHANGED config
    PROVE  /\ \A p : RootsWay(p) => RootsWay(p)'
           /\ \A p : RootsWalk(p) => RootsWalk(p)'
           /\ Settled' => Settled
           /\ Straight' => Straight
<1>1. \A p : RootsWalk(p)' <=> RootsWalk(p)
  BY DEF RootsWalk, RootsOwn, config
<1>2. \A p : RootsWay(p)' <=> RootsWay(p)
  BY <1>1 DEF RootsWay, config
<1> QED
  BY <1>1, <1>2 DEF Settled, Straight, RootsOwn, config

(* Of a path that is named, and of one that the state names.               *)
LEMMA WayNext ==
    ASSUME NEW p, RootsWay(p)'
    PROVE  /\ p = SubSeq(path', 1, at' - 1) => RootsWay(SubSeq(path, 1, at - 1))'
           /\ p = path' => RootsWay(path)'
BY DEF RootsWay, RootsWalk

(* Then the canonical path leads where the configured path led.            *)
LEMMA CanonicalStat ==
    ASSUME TypeOK, Kept, RootsWalk(canonical), LinksOn(first, canonical) = {}
    PROVE  Stat(entry, canonical) = Stat(first, canonical)
<1>1. canonical \in Seq(STRING)
  BY DEF TypeOK
<1>2. /\ Walk(entry, canonical)[Len(canonical)] = Walk(first, canonical)[Len(canonical)]
      /\ LinksOn(entry, canonical) = {}
  <2>1. Len(canonical) \in 0 .. Len(canonical)
    BY <1>1
  <2> QED
    BY <1>1, <2>1, AgreeFollow
<1> QED
  BY <1>1, <1>2, NoLinks

(* In strict mode no user leads the request to another file.               *)
THEOREM NoneLedAstray == Spec => []NotLedAstray
<1>1. Init => Tracked
  BY DEF Init, Tracked, Kept
<1>2. TypeOK /\ Tracked /\ [Next]_vars => Tracked'
  <2> SUFFICES ASSUME TypeOK, Tracked, [Next]_vars,
                      edits' = 0, Settled', Straight'
               PROVE  Tracked'
    BY DEF Tracked
  <2>1. UNCHANGED config
    <3>1. CASE Module
      BY <3>1 DEF Module, CheckNormal, ValidateLexical, ValidateResolved,
                  ValidateComponent, Canonicalize, CheckRegular, Expect, Open,
                  Read, Execute
    <3>2. CASE Others
      BY <3>2 DEF Others, UserEdit, RootEdit, SetEntry, UserWrite
    <3> QED
      BY <3>1, <3>2 DEF Next, Over, vars
  <2>2. /\ Settled /\ Straight
        /\ \A p : RootsWay(p) => RootsWay(p)'
        /\ \A p : RootsWalk(p) => RootsWalk(p)'
    BY <2>1, SameWay
  <2>3. edits = 0
    <3>1. CASE Module
      BY <3>1 DEF Module, CheckNormal, ValidateLexical, ValidateResolved,
                  ValidateComponent, Canonicalize, CheckRegular, Expect, Open,
                  Read, Execute, tree
    <3>2. CASE Others
      BY <3>2 DEF Others, UserEdit, RootEdit, UserWrite, TypeOK
    <3> QED
      BY <3>1, <3>2 DEF Next, Over, vars, tree
  <2>4. Kept
    BY <2>2, <2>3 DEF Tracked
  <2>5. /\ path \in Seq(STRING) /\ canonical \in Seq(STRING)
        /\ at \in Nat /\ follows \in 0 .. MaxLinks
    BY DEF TypeOK
  <2>6. entry' = entry => Kept'
    BY <2>1, <2>4 DEF Kept, RootsOwn, config
  <2>7. CASE CheckNormal
    BY <2>7, <2>1, <2>2, <2>3, <2>6
       DEF CheckNormal, Goto, Fail, Tracked, tree, config
  <2>8. CASE ValidateLexical
    <3> DEFINE p == SubSeq(path, 1, at)
    <3>1. /\ pc = "lexical"
          /\ UNCHANGED <<config, tree, canonical, follows, expected, opened, text>>
          /\ \/ Fail
             \/ /\ ValidComponent(p, TRUE)
                /\ at < Len(path) /\ at' = at + 1 /\ UNCHANGED <<pc, result>>
             \/ /\ ValidComponent(p, TRUE)
                /\ ~(at < Len(path)) /\ Goto("canonicalize")
      BY <2>8 DEF ValidateLexical, ValidateComponent
    <3> HIDE DEF p
    <3>2. /\ canonical = path /\ follows = 0 /\ at \in 0 .. Len(path)
          /\ at > 0 => RootsWay(SubSeq(path, 1, at - 1))
      BY <2>2, <2>3, <2>5, <3>1 DEF Tracked
    <3>3. Kept' /\ (result' = "ok" => opened' = Stat(first, path)')
      BY <2>1, <2>2, <2>3, <2>6, <3>1 DEF Tracked, Goto, Fail, tree, config
    <3>4. CASE Fail
      BY <3>1, <3>3, <3>4 DEF Fail, Tracked
    <3>5. CASE ~Fail
      <4>1. RootsWay(p)
        BY <2>2, <2>4, <3>1, <3>2, <3>5, LexicalWay DEF p
      <4>2. PICK q : q = p
        OBVIOUS
      <4>3. RootsWay(q)'
        BY <2>2, <4>1, <4>2
      <4>4. CASE at < Len(path)
        <5>1. /\ at' = at + 1 /\ pc' = "lexical" /\ path' = path
              /\ canonical' = canonical /\ follows' = follows
          BY <3>1, <3>5, <4>4 DEF config
        <5>2. q = SubSeq(path', 1, at' - 1)
          BY <2>5, <4>2, <5>1 DEF p
        <5>3. RootsWay(SubSeq(path, 1, at - 1))'
          BY <4>3, <5>2, WayNext
        <5> QED
          BY <2>5, <3>2, <3>3, <4>4, <5>1, <5>3 DEF Tracked
      <4>5. CASE ~(at < Len(path))
        <5>1. /\ at' = 0 /\ pc' = "canonicalize" /\ path' = path
              /\ canonical' = path' /\ follows' = 0
          BY <3>1, <3>2, <3>5, <4>5 DEF Goto, config
        <5>2. q = path'
          <6>1. at = Len(path)
            BY <2>5, <3>2, <4>5
          <6> QED
            BY <2>5, <4>2, <5>1, <6>1 DEF p
        <5>3. RootsWay(path)'
          BY <4>3, <5>2, WayNext
        <5>4. canonical' = Followed(first', path')[follows']
          BY <5>1, FollowedIs
        <5>5. at' <= Len(canonical') /\ 0 .. at' - 1 = {}
          BY <2>5, <5>1
        <5> QED
          BY <3>3, <5>1, <5>3, <5>4, <5>5 DEF Tracked
      <4> QED
        BY <4>4, <4>5
    <3> QED
      BY <3>4, <3>5
  <2>9. CASE Canonicalize
    <3> DEFINE w == Walk(first, canonical)
               i == Walk(entry, canonical)[at]
    <3>1. /\ pc = "canonicalize"
          /\ UNCHANGED <<config, tree, expected, opened, text>>
          /\ \/ Fail
             \/ /\ i \in Links /\ follows # MaxLinks
                /\ canonical' = Follow(entry, canonical, at)
                /\ follows' = follows + 1 /\ at' = 0 /\ UNCHANGED <<pc, result>>
             \/ /\ i \notin Links /\ at < Len(canonical) /\ at' = at + 1
                /\ UNCHANGED <<pc, result, canonical, follows>>
             \/ /\ i \notin Links /\ ~(at < Len(canonical)) /\ Goto("resolved")
                /\ UNCHANGED <<canonical, follows>>
      BY <2>9 DEF Canonicalize
    <3>2. /\ RootsWay(path)
          /\ canonical = Followed(first, path)[follows]
          /\ at \in 0 .. Len(canonical)
          /\ \A j \in 0 .. at - 1 : w[j] \notin Links
      BY <2>2, <2>3, <2>5, <3>1 DEF Tracked
    <3>3. RootsWalk(canonical)
      BY <2>5, <3>2 DEF RootsWay
    <3>4. i = w[at]
      <4>1. \A j \in 1 .. at - 1 : w[j] \notin Links
        BY <3>2
      <4>2. \A j \in 0 .. at : Walk(entry, canonical)[j] = w[j]
        BY <2>4, <2>5, <3>2, <3>3, <4>1, Agree
      <4> QED
        BY <3>2, <4>2
    <3>5. Kept' /\ (result' = "ok" => opened' = Stat(first, path)')
      BY <2>1, <2>2, <2>3, <2>6, <3>1 DEF Tracked, Goto, Fail, tree, config
    <3>6. RootsWay(path)'
      <4>1. PICK q : q = path
        OBVIOUS
      <4>2. RootsWay(q)' /\ q = path'
        BY <2>1, <2>2, <3>2, <4>1 DEF config
      <4> QED
        BY <4>2, WayNext
    <3> HIDE DEF i
    <3>7. CASE Fail
      BY <3>1, <3>5, <3>7 DEF Fail, Tracked
    <3>8. CASE /\ i \in Links /\ follows # MaxLinks
               /\ canonical' = Follow(entry, canonical, at)
               /\ follows' = follows + 1 /\ at' = 0 /\ UNCHANGED <<pc, result>>
      <4>1. at \in 1 .. Len(canonical)
        <5>1. at # 0
          <6>1. w[0] = RootDir /\ RootDir \notin Links
            BY <2>5, WalkIs
          <6> HIDE DEF w
          <6> QED
            BY <3>4, <3>8, <6>1
        <5> QED
          BY <3>2, <5>1
      <4>2. /\ w[at] \in Links
            /\ \A j \in 1 .. at - 1 : w[j] \notin Links
        BY <3>2, <3>4, <3>8
      <4>3. FollowFirst(first, canonical) = Follow(first, canonical, at)
        BY <2>5, <4>1, <4>2, FirstLink
      <4>4. canonical' = FollowFirst(first, canonical)
        BY <3>4, <3>8, <4>3 DEF Follow, i
      <4>5. follows + 1 \in 1 .. MaxLinks /\ (follows + 1) - 1 = follows
        BY <2>5, <3>8
      <4>6. Followed(first, path)[follows + 1] = FollowFirst(first, canonical)
        BY <3>2, <4>5, FollowedIs
      <4>7. canonical' = Followed(first', path')[follows']
        BY <2>1, <3>8, <4>4, <4>6 DEF config
      <4>8. Len(canonical') \in Nat
        BY <2>5, <4>4, FollowFirstType
      <4>9. at' <= Len(canonical') /\ 0 .. at' - 1 = {} /\ pc' = "canonicalize"
        BY <3>1, <3>8, <4>8
      <4> QED
        BY <3>5, <3>6, <4>7, <4>9 DEF Tracked
    <3>9. CASE /\ i \notin Links /\ at < Len(canonical) /\ at' = at + 1
               /\ UNCHANGED <<pc, result, canonical, follows>>
      <4>1. \A j \in 0 .. at : w[j] \notin Links
        <5> HIDE DEF w
        <5> TAKE j \in 0 .. at
        <5>1. j = at \/ j \in 0 .. at - 1
          BY <2>5
        <5> QED
          BY <3>2, <3>4, <3>9, <5>1
      <4>2. /\ at' <= Len(canonical') /\ at' - 1 = at
            /\ canonical' = Followed(first', path')[follows']
            /\ \A j \in 0 .. at' - 1 : Walk(first', canonical')[j] \notin Links
            /\ pc' = "canonicalize"
        BY <2>1, <2>5, <3>1, <3>2, <3>9, <4>1 DEF config
      <4> QED
        BY <3>5, <3>6, <4>2 DEF Tracked
    <3>10. CASE /\ i \notin Links /\ ~(at < Len(canonical)) /\ Goto("resolved")
                /\ UNCHANGED <<canonical, follows>>
      <4>1. at = Len(canonical)
        BY <2>5, <3>2, <3>10
      <4>2. \A j \in 1 .. Len(canonical) : w[j] \notin Links
        <5> HIDE DEF w
        <5> TAKE j \in 1 .. Len(canonical)
        <5>1. j = at \/ j \in 0 .. at - 1
          BY <2>5, <4>1
        <5> QED
          BY <3>2, <3>4, <3>10, <5>1
      <4>3. LinksOn(first, canonical) = {}
        BY <4>2 DEF LinksOn
      <4>4. Stat(first, canonical) = Stat(first, path)
        <5> DEFINE A == Followed(first, path)
                   S == {m \in Nat : m \in follows .. MaxLinks => A[m] = canonical}
        <5>1. \A n \in 1 .. MaxLinks : A[n] = FollowFirst(first, A[n - 1])
          BY FollowedIs
        <5>2. FollowFirst(first, canonical) = canonical
          BY <4>3 DEF FollowFirst
        <5>3. A[follows] = canonical
          BY <3>2
        <5> HIDE DEF A
        <5>4. 0 \in S
          BY <2>5, <5>3
        <5>5. \A m \in Nat : m \in S => m + 1 \in S
          <6> SUFFICES ASSUME NEW m \in Nat, m \in S, m + 1 \in follows .. MaxLinks
                       PROVE  A[m + 1] = canonical
            OBVIOUS
          <6>1. CASE m + 1 = follows
            BY <5>3, <6>1
          <6>2. CASE m + 1 # follows
            <7>1. /\ m \in follows .. MaxLinks /\ m + 1 \in 1 .. MaxLinks
                  /\ (m + 1) - 1 = m
              BY <2>5, <6>2
            <7>2. A[m + 1] = FollowFirst(first, A[m]) /\ A[m] = canonical
              BY <5>1, <7>1
            <7> QED
              BY <5>2, <7>2
          <6> QED
            BY <6>1, <6>2
        <5> HIDE DEF S
        <5>6. Nat \subseteq S
          BY <5>4, <5>5, Induct
        <5>7. A[MaxLinks] = canonical
          BY <2>5, <5>6 DEF S
        <5>8. Followed(first, canonical)[MaxLinks] = canonical
          BY <2>5, <4>3, NoLinks
        <5> QED
          BY <5>7, <5>8 DEF Stat, A
      <4>5. PICK q : q = canonical
        OBVIOUS
      <4>6. RootsWalk(q)' /\ q = canonical'
        BY <2>2, <3>3, <3>10, <4>5
      <4>7. RootsWalk(canonical)'
        BY <4>6 DEF RootsWalk
      <4>8. /\ LinksOn(first, canonical)' = {}
            /\ Stat(first, canonical)' = Stat(first, path)'
            /\ pc' = "resolved"
        BY <2>1, <3>10, <4>3, <4>4 DEF config, Goto
      <4> QED
        BY <3>5, <4>7, <4>8 DEF Tracked
    <3> QED
      BY <3>1, <3>7, <3>8, <3>9, <3>10
  <2>10. CASE ValidateResolved \/ CheckRegular \/ Expect \/ Open \/ Read \/ Execute
    <3> DEFINE later == {"resolved", "regular", "expected", "open", "exec"}
    <3>1. /\ UNCHANGED <<config, tree, canonical>>
          /\ pc \in later \cup {"read"}
          /\ pc' \in later \cup {"read", "done"}
          /\ pc = "read" => pc' = "done"
      BY <2>10 DEF ValidateResolved, ValidateComponent, CheckRegular, Expect, Open,
                   Read, Execute, Goto, Fail, Accept, Bounded
    <3>2. pc \in later => /\ RootsWalk(canonical)
                          /\ LinksOn(first, canonical) = {}
                          /\ Stat(first, canonical) = Stat(first, path)
      BY <2>2, <2>3 DEF Tracked
    <3>3. pc \in later => Stat(entry, canonical) = Stat(first, path)
      BY <2>4, <3>2, CanonicalStat
    <3>4. pc = "read" \/ result = "ok" => opened = Stat(first, path)
      BY <2>2, <2>3 DEF Tracked
    <3>5. pc' = "read" \/ result' = "ok" => opened' = Stat(first, path)
      <4>1. CASE ValidateResolved \/ CheckRegular \/ Expect
        BY <4>1, <3>1, <3>4 DEF ValidateResolved, ValidateComponent, CheckRegular,
                                Expect, Goto, Fail
      <4>2. CASE Open \/ Execute
        BY <4>2, <3>1, <3>3 DEF Open, Execute
      <4>3. CASE Read
        BY <4>3, <3>1, <3>4 DEF Read
      <4> QED
        BY <2>10, <4>1, <4>2, <4>3
    <3>6. Kept'
      BY <2>6, <3>1 DEF tree
    <3>7. PICK q : q = canonical
      OBVIOUS
    <3>8. pc \in later => RootsWalk(canonical)'
      <4>1. pc \in later => RootsWalk(q)' /\ q = canonical'
        BY <2>2, <3>1, <3>2, <3>7
      <4> QED
        BY <4>1 DEF RootsWalk
    <3>9. pc' \in later => /\ RootsWalk(canonical)'
                           /\ LinksOn(first, canonical)' = {}
                           /\ Stat(first, canonical)' = Stat(first, path)'
      BY <2>1, <3>1, <3>2, <3>8 DEF config
    <3> QED
      BY <2>1, <3>1, <3>5, <3>6, <3>9 DEF Tracked, config
  <2>11. ASSUME NEW s \in Slots, NEW i \in Inodes \cup {None},
                UserEdit(s, i) \/ RootEdit(s, i)
         PROVE  Tracked'
    <3>1. UserEdit(s, i)
      BY <2>3, <2>11 DEF RootEdit
    <3>2. Writable(s) /\ SetEntry(s, i)
      BY <3>1 DEF UserEdit
    <3>3. /\ entry' = [entry EXCEPT ![s] = i]
          /\ UNCHANGED <<config, pc, at, canonical, follows, opened, result>>
      BY <3>2 DEF SetEntry
    <3>4. ~RootsOwn(s[1])
      BY <2>2, <2>4, <3>2 DEF Writable, RootsOwn, Settled, Kept
    <3>5. Kept'
      BY <2>4, <3>3, <3>4 DEF Kept, RootsOwn, TypeOK, config
    <3> QED
      BY <2>2, <2>3, <3>3, <3>5 DEF Tracked, RootsWay, RootsWalk, RootsOwn, config
  <2>12. ASSUME NEW f \in Files, UserWrite(f) PROVE Tracked'
    <3>1. UNCHANGED <<config, entry, pc, at, canonical, follows, opened, result>>
      BY <2>12 DEF UserWrite
    <3> QED
      BY <2>2, <2>3, <2>6, <3>1 DEF Tracked, RootsWay, RootsWalk, RootsOwn, config
  <2>13. CASE Over \/ UNCHANGED vars
    <3>1. UNCHANGED <<config, entry, pc, at, canonical, follows, opened, result>>
      BY <2>13 DEF Over, vars, tree
    <3> QED
      BY <2>2, <2>3, <2>6, <3>1 DEF Tracked, RootsWay, RootsWalk, RootsOwn, config
  <2> QED
    BY <2>7, <2>8, <2>9, <2>10, <2>11, <2>12, <2>13 DEF Next, Module, Others
<1>3. Tracked => NotLedAstray
  BY DEF Tracked, NotLedAstray
<1> QED
  BY <1>1, <1>2, <1>3, Typing, PTL DEF Spec
============================================================================
