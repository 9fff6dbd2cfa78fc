-------------------------- MODULE ExtrasDeploy_proofs --------------------------
(***************************************************************************)
(* The custom manifests of a deploy, for any trees of files, any CRDs and  *)
(* any number of deploys that race.                                        *)
(***************************************************************************)
EXTENDS ExtrasDeploy, TLAPS, WellFoundedInduction

-----------------------------------------------------------------------------
(* Flattening. The recursive function inside FlattenSeq exists, and what   *)
(* it returns has the elements of its arguments. Both go by the least      *)
(* index at which they would fail.                                         *)

Flat(ss) == CHOOSE g : g = [i \in 1 .. Len(ss) |-> IF i = 1 THEN ss[i] ELSE g[i-1] \o ss[i]]

LEMMA LeastNat ==
    ASSUME NEW T \in SUBSET Nat, T # {}
    PROVE  \E x \in T : \A y \in T : ~ (y < x)
<1>1. PICK x \in T : \A y \in T : ~ (<<y, x>> \in OpToRel(<, Nat))
  BY WFMin, NatLessThanWellFounded
<1>2. \A y \in T : ~ (y < x)
  BY <1>1 DEF OpToRel
<1> QED BY <1>2

LEMMA FlatExists ==
    ASSUME NEW S, NEW ss \in Seq(Seq(S))
    PROVE  Flat(ss) = [i \in 1 .. Len(ss) |-> IF i = 1 THEN ss[i] ELSE Flat(ss)[i-1] \o ss[i]]
<1> DEFINE Rec(g, m) == \A i \in 1 .. m : g[i] = IF i = 1 THEN ss[i] ELSE g[i-1] \o ss[i]
           T == {m \in Nat : m <= Len(ss) /\ ~ \E g \in [1 .. m -> Seq(S)] : Rec(g, m)}
<1>1. T = {}
  <2> SUFFICES ASSUME T # {} PROVE FALSE
    OBVIOUS
  <2>1. PICK m \in T : \A y \in T : ~ (y < m)
    BY LeastNat
  <2>2. m \in Nat /\ m <= Len(ss)
    OBVIOUS
  <2>3. CASE m = 0
    <3>1. [i \in 1 .. 0 |-> <<>>] \in [1 .. m -> Seq(S)]
      BY <2>3
    <3>2. Rec([i \in 1 .. 0 |-> <<>>], m)
      BY <2>3
    <3> QED BY <3>1, <3>2
  <2>4. CASE m # 0
    <3>1. m - 1 \in Nat /\ m - 1 < m /\ m - 1 <= Len(ss)
      BY <2>2, <2>4
    <3>2. PICK g \in [1 .. m - 1 -> Seq(S)] : Rec(g, m - 1)
      BY <2>1, <3>1
    <3> DEFINE new == IF m = 1 THEN ss[m] ELSE g[m-1] \o ss[m]
               h == [i \in 1 .. m |-> IF i < m THEN g[i] ELSE new]
    <3>3. ss[m] \in Seq(S)
      BY <2>2, <2>4
    <3>4. new \in Seq(S)
      <4>1. CASE m = 1
        BY <3>3, <4>1
      <4>2. CASE m # 1
        <5>1. m - 1 \in 1 .. m - 1
          BY <2>2, <2>4, <4>2
        <5>2. g[m - 1] \in Seq(S)
          BY <5>1
        <5>3. g[m - 1] \o ss[m] \in Seq(S)
          BY <3>3, <5>2
        <5> QED BY <4>2, <5>3
      <4> QED BY <4>1, <4>2
    <3>n. m = 1 => new = ss[m]
      OBVIOUS
    <3>o. m # 1 => new = g[m-1] \o ss[m]
      OBVIOUS
    <3> HIDE DEF new
    <3>5. \A i \in 1 .. m : i < m => i \in 1 .. m - 1
      BY <2>2
    <3>6. h \in [1 .. m -> Seq(S)]
      BY <3>4, <3>5
    <3>7. \A i \in 1 .. m : h[i] = IF i < m THEN g[i] ELSE new
      OBVIOUS
    <3> HIDE DEF h
    <3>8. ASSUME NEW i \in 1 .. m PROVE h[i] = IF i = 1 THEN ss[i] ELSE h[i-1] \o ss[i]
      <4>1. CASE i < m
        <5>1. i \in 1 .. m - 1 /\ h[i] = g[i]
          BY <3>5, <3>7, <4>1
        <5>2. i # 1 => i - 1 \in 1 .. m /\ i - 1 < m
          BY <2>2, <4>1
        <5>3. i # 1 => h[i - 1] = g[i - 1]
          BY <3>7, <5>2
        <5> QED BY <3>2, <5>1, <5>3
      <4>2. CASE ~ (i < m)
        <5>1. i = m /\ h[i] = new
          BY <2>2, <3>7, <4>2
        <5>2. i # 1 => i - 1 \in 1 .. m /\ i - 1 < m
          BY <2>2
        <5>3. i # 1 => h[i - 1] = g[i - 1]
          BY <3>7, <5>2
        <5> QED BY <3>n, <3>o, <5>1, <5>3
      <4> QED BY <4>1, <4>2
    <3> QED BY <3>6, <3>8
  <2> QED BY <2>3, <2>4
<1>2. Len(ss) \in Nat /\ Len(ss) <= Len(ss)
  OBVIOUS
<1>n. Len(ss) \notin T
  <2> HIDE DEF T
  <2> QED BY <1>1
<1>3. PICK g \in [1 .. Len(ss) -> Seq(S)] : Rec(g, Len(ss))
  BY <1>2, <1>n
<1>4. g = [i \in 1 .. Len(ss) |-> IF i = 1 THEN ss[i] ELSE g[i-1] \o ss[i]]
  BY <1>3
<1> QED BY <1>4 DEF Flat

LEMMA ConcatElements ==
    ASSUME NEW S, NEW s \in Seq(S), NEW t \in Seq(S)
    PROVE  s \o t \in Seq(S) /\ ToSet(s \o t) = ToSet(s) \cup ToSet(t)
<1>1. s \o t \in Seq(S) /\ Len(s \o t) = Len(s) + Len(t) /\ Len(s) \in Nat /\ Len(t) \in Nat
  OBVIOUS
<1>2. DOMAIN s = 1 .. Len(s) /\ DOMAIN t = 1 .. Len(t) /\ DOMAIN (s \o t) = 1 .. (Len(s) + Len(t))
  OBVIOUS
<1>3. ASSUME NEW x \in ToSet(s \o t) PROVE x \in ToSet(s) \cup ToSet(t)
  <2>1. PICK k \in 1 .. (Len(s) + Len(t)) : x = (s \o t)[k]
    BY <1>2 DEF ToSet
  <2>2. CASE k <= Len(s)
    <3>1. k \in 1 .. Len(s) /\ (s \o t)[k] = s[k]
      BY <1>1, <2>2
    <3> QED BY <1>2, <2>1, <3>1 DEF ToSet
  <2>3. CASE ~ (k <= Len(s))
    <3>1. k - Len(s) \in 1 .. Len(t) /\ (s \o t)[k] = t[k - Len(s)]
      BY <1>1, <2>3
    <3> QED BY <1>2, <2>1, <3>1 DEF ToSet
  <2> QED BY <2>2, <2>3
<1>4. ASSUME NEW x \in ToSet(s) PROVE x \in ToSet(s \o t)
  <2>1. PICK k \in 1 .. Len(s) : x = s[k]
    BY <1>2 DEF ToSet
  <2>2. k \in 1 .. (Len(s) + Len(t)) /\ (s \o t)[k] = s[k]
    BY <1>1
  <2> QED BY <1>2, <2>1, <2>2 DEF ToSet
<1>5. ASSUME NEW x \in ToSet(t) PROVE x \in ToSet(s \o t)
  <2>1. PICK k \in 1 .. Len(t) : x = t[k]
    BY <1>2 DEF ToSet
  <2>2. k + Len(s) \in 1 .. (Len(s) + Len(t)) /\ (s \o t)[k + Len(s)] = t[k]
    BY <1>1
  <2> QED BY <1>2, <2>1, <2>2 DEF ToSet
<1> QED BY <1>1, <1>3, <1>4, <1>5

LEMMA FlattenElements ==
    ASSUME NEW S, NEW ss \in Seq(Seq(S))
    PROVE  /\ FlattenSeq(ss) \in Seq(S)
           /\ ToSet(FlattenSeq(ss)) = UNION {ToSet(ss[i]) : i \in DOMAIN ss}
<1> DEFINE n == Len(ss)
           F == Flat(ss)
           P(m) == F[m] \in Seq(S) /\ ToSet(F[m]) = UNION {ToSet(ss[i]) : i \in 1 .. m}
           T == {m \in Nat : m \in 1 .. n /\ ~ P(m)}
<1>1. n \in Nat /\ DOMAIN ss = 1 .. n /\ \A i \in 1 .. n : ss[i] \in Seq(S)
  OBVIOUS
<1>2. \A i \in 1 .. n : F[i] = IF i = 1 THEN ss[i] ELSE F[i-1] \o ss[i]
  <2> DEFINE G == [i \in 1 .. n |-> IF i = 1 THEN ss[i] ELSE F[i-1] \o ss[i]]
  <2>1. F = G
    BY FlatExists
  <2>2. \A i \in 1 .. n : G[i] = IF i = 1 THEN ss[i] ELSE F[i-1] \o ss[i]
    OBVIOUS
  <2> HIDE DEF G
  <2> QED BY <2>1, <2>2
<1>d. n # 0 => FlattenSeq(ss) = F[n]
  BY DEF FlattenSeq, Flat
<1>e. n = 0 => FlattenSeq(ss) = ss
  BY DEF FlattenSeq
<1> HIDE DEF n, F
<1>3. T = {}
  <2> SUFFICES ASSUME T # {} PROVE FALSE
    OBVIOUS
  <2>0. T \in SUBSET Nat
    OBVIOUS
  <2>1. PICK m \in T : \A y \in T : ~ (y < m)
    <3> HIDE DEF T
    <3> QED BY <2>0, LeastNat
  <2>2. m \in Nat /\ m \in 1 .. n /\ ~ P(m)
    OBVIOUS
  <2>3. CASE m = 1
    <3>1. F[m] = ss[m] /\ ss[m] \in Seq(S)
      BY <1>1, <1>2, <2>2, <2>3
    <3>2. UNION {ToSet(ss[i]) : i \in 1 .. m} = ToSet(ss[m])
      <4>1. \A i \in 1 .. m : i = m
        BY <2>3
      <4>2. m \in 1 .. m
        BY <2>3
      <4> QED BY <4>1, <4>2
    <3> QED BY <2>2, <3>1, <3>2
  <2>4. CASE m # 1
    <3>1. m - 1 \in Nat /\ m - 1 \in 1 .. n /\ m - 1 < m
      BY <1>1, <2>2, <2>4
    <3>2. P(m - 1)
      BY <2>1, <3>1
    <3>3. F[m] = F[m-1] \o ss[m] /\ ss[m] \in Seq(S)
      BY <1>1, <1>2, <2>2, <2>4
    <3>4. F[m] \in Seq(S) /\ ToSet(F[m]) = ToSet(F[m-1]) \cup ToSet(ss[m])
      BY <3>2, <3>3, ConcatElements
    <3>5. 1 .. m = (1 .. m - 1) \cup {m}
      BY <2>2
    <3>6. UNION {ToSet(ss[i]) : i \in 1 .. m}
            = ToSet(ss[m]) \cup UNION {ToSet(ss[i]) : i \in 1 .. m - 1}
      <4> DEFINE I == 1 .. m
                 J == 1 .. m - 1
      <4>1. I = J \cup {m}
        BY <3>5
      <4> HIDE DEF I, J
      <4>2. UNION {ToSet(ss[i]) : i \in I} = ToSet(ss[m]) \cup UNION {ToSet(ss[i]) : i \in J}
        BY <4>1
      <4> QED BY <4>2 DEF I, J
    <3> QED BY <2>2, <3>2, <3>4, <3>6
  <2> QED BY <2>3, <2>4
<1>4. CASE n = 0
  <2>1. DOMAIN ss = {} /\ ss = <<>>
    BY <1>1, <1>4 DEF n
  <2>2. ToSet(ss) = {}
    BY <2>1 DEF ToSet
  <2>3. UNION {ToSet(ss[i]) : i \in DOMAIN ss} = {}
    BY <2>1
  <2>4. FlattenSeq(ss) = ss /\ ss \in Seq(S)
    BY <1>e, <1>4, <2>1
  <2> QED BY <2>2, <2>3, <2>4
<1>5. CASE n # 0
  <2>1. n \in Nat /\ n \in 1 .. n /\ n \notin T
    <3>1. n \notin T
      <4> HIDE DEF T
      <4> QED BY <1>3
    <3> QED BY <1>1, <1>5, <3>1
  <2>2. P(n)
    BY <2>1
  <2> QED BY <1>1, <1>d, <1>5, <2>2
<1> QED BY <1>4, <1>5

-----------------------------------------------------------------------------
(* What is loaded from a tree.                                             *)

\* The documents of files.
Docs(files) == UNION {ToSet(files[i].docs) : i \in {j \in DOMAIN files : files[j].class = "yaml"}}

LEMMA ListedDocs ==
    ASSUME NEW files, IsFiles(files), NEW nested, listYAMLFiles(files, nested) # Nil
    PROVE  /\ listYAMLFiles(files, nested) \in Seq(Seq(Docs(files)))
           /\ UNION {ToSet(listYAMLFiles(files, nested)[i]) : i \in DOMAIN listYAMLFiles(files, nested)}
                = Docs(files)
<1> DEFINE r == [i \in DOMAIN files |-> IF files[i].class = "yaml" THEN files[i].docs ELSE <<>>]
           D == Docs(files)
<1>1. listYAMLFiles(files, nested) = r
  BY DEF listYAMLFiles
<1>2. files \in Seq(ToSet(files)) /\ \A i \in DOMAIN files : files[i].docs \in Seq(ToSet(files[i].docs))
  BY DEF IsFiles, IsSeq
<1>3. Len(files) \in Nat /\ DOMAIN files = 1 .. Len(files)
  BY <1>2
<1>4. ASSUME NEW i \in DOMAIN files PROVE r[i] \in Seq(D)
  <2>1. CASE files[i].class = "yaml"
    <3>1. r[i] = files[i].docs /\ files[i].docs \in Seq(ToSet(files[i].docs))
      BY <1>2, <2>1
    <3>2. ToSet(files[i].docs) \subseteq D
      BY <2>1 DEF Docs
    <3> DEFINE E == ToSet(files[i].docs)
    <3>3. r[i] \in Seq(E) /\ E \subseteq D
      BY <3>1, <3>2
    <3> HIDE DEF r, D, E
    <3> QED BY <3>3
  <2>2. CASE files[i].class # "yaml"
    <3>1. r[i] = <<>>
      BY <2>2
    <3> HIDE DEF r, D
    <3> QED BY <3>1
  <2> QED BY <2>1, <2>2
<1>5. DOMAIN r = 1 .. Len(files)
  BY <1>3
<1>6. r \in Seq(Seq(D))
  <2>1. r \in [1 .. Len(files) -> Seq(D)]
    <3>1. r = [i \in DOMAIN files |-> r[i]]
      OBVIOUS
    <3> HIDE DEF r, D
    <3> QED BY <1>3, <1>4, <3>1
  <2> HIDE DEF r, D
  <2> QED BY <1>3, <2>1
<1>7. UNION {ToSet(r[i]) : i \in DOMAIN r} = D
  <2>1. ASSUME NEW i \in DOMAIN files, NEW x \in ToSet(r[i]) PROVE x \in D
    <3>1. CASE files[i].class = "yaml"
      BY <2>1, <3>1 DEF Docs
    <3>2. CASE files[i].class # "yaml"
      <4>1. r[i] = <<>>
        BY <3>2
      <4>2. ToSet(r[i]) = {}
        BY <4>1 DEF ToSet
      <4> QED BY <2>1, <4>2
    <3> QED BY <3>1, <3>2
  <2>2. ASSUME NEW x \in D PROVE \E i \in DOMAIN files : x \in ToSet(r[i])
    <3>1. PICK i \in DOMAIN files : files[i].class = "yaml" /\ x \in ToSet(files[i].docs)
      BY <2>2 DEF Docs
    <3>2. r[i] = files[i].docs
      BY <3>1
    <3> QED BY <3>1, <3>2
  <2>3. DOMAIN r = DOMAIN files
    OBVIOUS
  <2> HIDE DEF r, D
  <2> QED BY <2>1, <2>2, <2>3
<1> HIDE DEF r, D
<1> QED BY <1>1, <1>6, <1>7 DEF D

LEMMA NoSeqs ==
    ASSUME NEW ss, ss = <<>>
    PROVE  DOMAIN ss = {} /\ \A S : ss \in Seq(Seq(S))
<1>1. DOMAIN ss = {}
  OBVIOUS
<1>2. ASSUME NEW X PROVE ss \in Seq(X)
  OBVIOUS
<1>3. ASSUME NEW S PROVE ss \in Seq(Seq(S))
  BY <1>2
<1> QED BY <1>1, <1>3

LEMMA SeqOfSeqs ==
    ASSUME NEW A, NEW B, A \subseteq B, NEW ss \in Seq(Seq(A))
    PROVE  ss \in Seq(Seq(B))
<1> DEFINE SA == Seq(A)
           SB == Seq(B)
<1>1. ASSUME NEW s \in SA PROVE s \in SB
  BY <1>1
<1>2. ss \in Seq(SA)
  OBVIOUS
<1> HIDE DEF SA, SB
<1>3. ss \in Seq(SB)
  BY <1>1, <1>2
<1> QED BY <1>3 DEF SB

\* The directory of an environment (Meant, for any environment).
DirOf(e, declared) == IF e \in declared THEN e ELSE Prefix[e]
MeantOf(t, e, declared) ==
    Docs(t.top) \cup (IF DirOf(e, declared) \in DOMAIN t.dirs
                      THEN Docs(t.dirs[DirOf(e, declared)].files) ELSE {})

TreeOK(t) == /\ IsFiles(t.top) /\ IsFiles(t.crds)
             /\ \A e \in DOMAIN t.dirs : IsFiles(t.dirs[e].files)

LEMMA LoadedDocs ==
    ASSUME NEW S, NEW ss \in Seq(Seq(S)), NEW rejectCRD, loadFiles(ss, rejectCRD) # Nil
    PROVE  /\ loadFiles(ss, rejectCRD) \in Seq(S)
           /\ ToSet(loadFiles(ss, rejectCRD)) = UNION {ToSet(ss[i]) : i \in DOMAIN ss}
           /\ \A i \in DOMAIN loadFiles(ss, rejectCRD) : loadFiles(ss, rejectCRD)[i].kind # ""
<1> DEFINE docs == FlattenSeq(ss)
<1>1. /\ loadFiles(ss, rejectCRD) = docs
      /\ \A i \in DOMAIN docs : "" \notin {docs[i].api, docs[i].kind, docs[i].name}
  BY DEF loadFiles
<1>2. docs \in Seq(S) /\ ToSet(docs) = UNION {ToSet(ss[i]) : i \in DOMAIN ss}
  BY FlattenElements
<1> HIDE DEF docs
<1>3. \A i \in DOMAIN docs : docs[i].kind # ""
  BY <1>1
<1> QED BY <1>1, <1>2, <1>3

LEMMA ManifestDocs ==
    ASSUME NEW t, TreeOK(t), NEW e, NEW declared, "" \notin declared,
           listManifestFiles(t, declared, MatchEnvKey(e, declared)) # Nil
    PROVE  LET fs == listManifestFiles(t, declared, MatchEnvKey(e, declared))
           IN  /\ fs \in Seq(Seq(MeantOf(t, e, declared)))
               /\ UNION {ToSet(fs[i]) : i \in DOMAIN fs} = MeantOf(t, e, declared)
<1> DEFINE key == MatchEnvKey(e, declared)
           top == listYAMLFiles(t.top, FALSE)
           own == IF key \in DOMAIN t.dirs
                  THEN listYAMLFiles(t.dirs[key].files, t.dirs[key].nested) ELSE <<>>
           M == MeantOf(t, e, declared)
           D == IF DirOf(e, declared) \in DOMAIN t.dirs
                THEN Docs(t.dirs[DirOf(e, declared)].files) ELSE {}
           fs == listManifestFiles(t, declared, MatchEnvKey(e, declared))
<1>1. DOMAIN t.dirs \subseteq declared /\ top # Nil /\ own # Nil /\ fs = top \o own
  BY DEF listManifestFiles
<1>2. IF key \in DOMAIN t.dirs THEN key = DirOf(e, declared)
                               ELSE DirOf(e, declared) \notin DOMAIN t.dirs
  BY <1>1 DEF MatchEnvKey, matchEnvKey, MatchedKey, DirOf
<1>3. /\ top \in Seq(Seq(Docs(t.top)))
      /\ UNION {ToSet(top[i]) : i \in DOMAIN top} = Docs(t.top)
  BY <1>1, ListedDocs DEF TreeOK
<1>4. own \in Seq(Seq(D)) /\ UNION {ToSet(own[i]) : i \in DOMAIN own} = D
  <2>1. CASE key \in DOMAIN t.dirs
    <3>1. D = Docs(t.dirs[key].files) /\ own = listYAMLFiles(t.dirs[key].files, t.dirs[key].nested)
      BY <1>2, <2>1
    <3>2. IsFiles(t.dirs[key].files)
      BY <2>1 DEF TreeOK
    <3> DEFINE L == listYAMLFiles(t.dirs[key].files, t.dirs[key].nested)
    <3>3. L # Nil
      BY <1>1, <3>1
    <3>4. L \in Seq(Seq(Docs(t.dirs[key].files)))
          /\ UNION {ToSet(L[i]) : i \in DOMAIN L} = Docs(t.dirs[key].files)
      BY <3>2, <3>3, ListedDocs
    <3>5. own = L
      BY <3>1
    <3> HIDE DEF L, own, D
    <3> QED BY <3>1, <3>4, <3>5
  <2>2. CASE key \notin DOMAIN t.dirs
    <3>1. D = {} /\ own = <<>>
      BY <1>2, <2>2
    <3> HIDE DEF D, own
    <3>2. own \in Seq(Seq(D)) /\ DOMAIN own = {}
      BY <3>1, NoSeqs
    <3>3. UNION {ToSet(own[i]) : i \in DOMAIN own} = {}
      BY <3>2
    <3> QED BY <3>1, <3>2, <3>3
  <2> QED BY <2>1, <2>2
<1>5. M = Docs(t.top) \cup D
  BY DEF MeantOf
<1> HIDE DEF fs, M, D, own, top
<1>6. top \in Seq(Seq(M)) /\ own \in Seq(Seq(M))
  <2> DEFINE A == Docs(t.top)
  <2>1. A \subseteq M /\ D \subseteq M /\ top \in Seq(Seq(A))
    BY <1>3, <1>5
  <2> HIDE DEF A
  <2> QED BY <1>4, <2>1, SeqOfSeqs
<1> DEFINE SM == Seq(M)
<1>7. top \in Seq(SM) /\ own \in Seq(SM)
  BY <1>6
<1> HIDE DEF SM
<1>8. fs \in Seq(SM) /\ ToSet(fs) = ToSet(top) \cup ToSet(own)
  BY <1>1, <1>7, ConcatElements
<1>9. \A ss : UNION {ToSet(ss[i]) : i \in DOMAIN ss} = UNION {ToSet(s) : s \in ToSet(ss)}
  <2> SUFFICES ASSUME NEW ss
               PROVE  UNION {ToSet(ss[i]) : i \in DOMAIN ss} = UNION {ToSet(s) : s \in ToSet(ss)}
    OBVIOUS
  <2>1. ToSet(ss) = {ss[i] : i \in DOMAIN ss}
    BY DEF ToSet
  <2>2. {ToSet(ss[i]) : i \in DOMAIN ss} = {ToSet(s) : s \in ToSet(ss)}
    BY <2>1
  <2> QED BY <2>2
<1>10. UNION {ToSet(s) : s \in ToSet(fs)}
         = (UNION {ToSet(s) : s \in ToSet(top)}) \cup (UNION {ToSet(s) : s \in ToSet(own)})
  BY <1>8
<1>11. UNION {ToSet(fs[i]) : i \in DOMAIN fs} = M
  BY <1>3, <1>4, <1>5, <1>9, <1>10
<1> QED BY <1>8, <1>11 DEF fs, M, SM

RawManifests(t, e, declared) ==
    loadFiles(listManifestFiles(t, declared, MatchEnvKey(e, declared)), TRUE)
RawCrds(t) == loadFiles(listCRDFiles(t), FALSE)

\* What has been read does not depend on the cluster.
LEMMA LoadedFrom ==
    ASSUME NEW t, TreeOK(t), NEW e, NEW declared, "" \notin declared, NEW live,
           LoadExtras(t, e, declared, live) # Nil
    PROVE  /\ RawManifests(t, e, declared) \in Seq(MeantOf(t, e, declared))
           /\ ToSet(RawManifests(t, e, declared)) = MeantOf(t, e, declared)
           /\ \A i \in DOMAIN RawManifests(t, e, declared) :
                 RawManifests(t, e, declared)[i].kind # ""
           /\ RawCrds(t) \in Seq(Docs(t.crds)) /\ ToSet(RawCrds(t)) = Docs(t.crds)
           /\ \A l : LoadExtras(t, e, declared, l)
                       = LoadDocs(RawManifests(t, e, declared), RawCrds(t), e, l)
<1> DEFINE mf == listManifestFiles(t, declared, MatchEnvKey(e, declared))
           cf == listCRDFiles(t)
           m == loadFiles(mf, TRUE)
           c == loadFiles(cf, FALSE)
<1>1. \A l : LoadExtras(t, e, declared, l) =
                IF Nil \in {mf, cf} THEN Nil ELSE IF Nil \in {m, c} THEN Nil ELSE LoadDocs(m, c, e, l)
  BY DEF LoadExtras
<1>2. mf # Nil /\ cf # Nil /\ m # Nil /\ c # Nil
  <2> HIDE DEF mf, cf, m, c
  <2> QED BY <1>1
<1>3. \A l : LoadExtras(t, e, declared, l) = LoadDocs(m, c, e, l)
  <2> HIDE DEF mf, cf, m, c
  <2> QED BY <1>1, <1>2
<1>4. /\ mf \in Seq(Seq(MeantOf(t, e, declared)))
      /\ UNION {ToSet(mf[i]) : i \in DOMAIN mf} = MeantOf(t, e, declared)
  BY <1>2, ManifestDocs
<1>5. /\ m \in Seq(MeantOf(t, e, declared)) /\ ToSet(m) = MeantOf(t, e, declared)
      /\ \A i \in DOMAIN m : m[i].kind # ""
  <2> HIDE DEF mf
  <2> QED BY <1>2, <1>4, LoadedDocs
<1>6. /\ cf \in Seq(Seq(Docs(t.crds)))
      /\ UNION {ToSet(cf[i]) : i \in DOMAIN cf} = Docs(t.crds)
  BY <1>2, ListedDocs DEF TreeOK, listCRDFiles
<1>7. c \in Seq(Docs(t.crds)) /\ ToSet(c) = Docs(t.crds)
  <2> HIDE DEF cf
  <2> QED BY <1>2, <1>6, LoadedDocs
<1>8. m = RawManifests(t, e, declared) /\ c = RawCrds(t)
  BY DEF RawManifests, RawCrds
<1> HIDE DEF m, c
<1> QED BY <1>3, <1>5, <1>7, <1>8

\* What a merge keeps and what it sets.
Empty == ""

LEMMA Merged ==
    ASSUME NEW o, NEW env, NEW source, NEW ns, NEW namespaced, NEW r,
           r = mergeIdentity(o, env, source, ns, namespaced), r # Nil
    PROVE  /\ r.api = o.api /\ r.kind = o.kind /\ r.name = o.name
           /\ r.declares = o.declares /\ r.cluster = o.cluster
           /\ r.ns = IF namespaced THEN ns ELSE Empty
           /\ r.labels = owned(o.labels, identityLabels(env, source))
           /\ r.notes = owned(o.notes, identityNotes(source))
BY DEF mergeIdentity, Empty

Manifest(m, c, e, live, i) ==
    mergeIdentity(m[i], K8sSafe[e], "manifests", ReleaseNs,
                  Namespaced(m[i], scopeFromCRDObjects(c), live))

CrdObject(o) == mergeIdentity(o, "", "crds", "", FALSE)

LEMMA CrdMerged ==
    ASSUME NEW o, CrdObject(o) # Nil
    PROVE  CrdObject(o).declares = o.declares /\ CrdObject(o).cluster = o.cluster
BY DEF CrdObject, mergeIdentity

LEMMA DocsLoaded ==
    ASSUME NEW m, NEW c, NEW e, NEW live, NEW b, b = LoadDocs(m, c, e, live), b # Nil
    PROVE  /\ DOMAIN b.manifests = DOMAIN m
           /\ \A i \in DOMAIN m : b.manifests[i] = Manifest(m, c, e, live, i)
           /\ DOMAIN b.crds = DOMAIN c
           /\ \A i \in DOMAIN c : b.crds[i] = CrdObject(c[i])
           /\ live # Nil => \A i \in DOMAIN m : Known(m[i], scopeFromCRDObjects(c), live)
           /\ \A i \in DOMAIN m : Manifest(m, c, e, live, i) # Nil
           /\ \A i \in DOMAIN c : b.crds[i] # Nil
           /\ checkDuplicateIdentities(b.manifests)
<1> DEFINE ms == [i \in DOMAIN m |-> Manifest(m, c, e, live, i)]
           cs == [i \in DOMAIN c |-> CrdObject(c[i])]
           known == live = Nil \/ \A i \in DOMAIN m : Known(m[i], scopeFromCRDObjects(c), live)
           good == /\ \A i \in DOMAIN c : c[i].kind = CRDKind /\ c[i].api = crdAPIVersion
                   /\ known
                   /\ Nil \notin ToSet(ms) \cup ToSet(cs)
                   /\ checkDuplicateIdentities(ms) /\ checkDuplicateIdentities(cs)
<1>1. b = IF good THEN [manifests |-> ms, crds |-> cs] ELSE Nil
  BY DEF LoadDocs, withCRDScope, Manifest, CrdObject
<1>2. good
  <2> HIDE DEF good
  <2> QED BY <1>1
<1>3. b.manifests = ms /\ b.crds = cs
  <2> HIDE DEF ms, cs, good
  <2> QED BY <1>1, <1>2
<1>4. Nil \notin ToSet(ms) \cup ToSet(cs)
  BY <1>2
<1>5. \A i \in DOMAIN m : ms[i] # Nil
  <2>1. \A i \in DOMAIN m : ms[i] \in ToSet(ms)
    BY DEF ToSet
  <2> HIDE DEF ms
  <2> QED BY <1>4, <2>1
<1>6. \A i \in DOMAIN c : cs[i] # Nil
  <2>1. \A i \in DOMAIN c : cs[i] \in ToSet(cs)
    BY DEF ToSet
  <2> HIDE DEF cs
  <2> QED BY <1>4, <2>1
<1>7. known /\ checkDuplicateIdentities(ms)
  BY <1>2
<1>8. \A i \in DOMAIN m : ms[i] = Manifest(m, c, e, live, i)
  OBVIOUS
<1> HIDE DEF ms, cs
<1>9. \A i \in DOMAIN m : Manifest(m, c, e, live, i) # Nil
  BY <1>5, <1>8
<1>10. \A i \in DOMAIN c : b.crds[i] # Nil
  BY <1>3, <1>6
<1>11. /\ DOMAIN b.manifests = DOMAIN m
       /\ \A i \in DOMAIN m : b.manifests[i] = Manifest(m, c, e, live, i)
       /\ DOMAIN b.crds = DOMAIN c
       /\ \A i \in DOMAIN c : b.crds[i] = CrdObject(c[i])
  BY <1>3 DEF ms, cs
<1> QED BY <1>3, <1>7, <1>9, <1>10, <1>11

-----------------------------------------------------------------------------
(* ApplyCRDs. A run that is past the writes waits for all its CRDs, those  *)
(* it did not write included; only create-replace gets to Apply; the scope *)
(* of an Established CRD stays what it is.                                 *)

CrdRun == [pc : {"idle", "get", "create", "apply", "wait"}, policy : Policies,
           ver : Versions \cup {Absent}, crds : SUBSET Crds, left : SUBSET Crds,
           applied : SUBSET Crds]

RunOK(r, est) ==
    /\ r.pc \in {"get", "create", "apply"} => r.left \cup r.applied = r.crds
    /\ r.pc = "wait" => r.crds \ r.left \subseteq est
    /\ r.pc = "apply" => r.policy = "create-replace"
    /\ r.pc # "idle" => r.ver \in Versions

CrdInv ==
    /\ TypeOK
    /\ \A n \in established : content[n] # Absent
    /\ \A p \in Clis : RunOK(run[p], established)

\* What the others may rely on.
Steady == /\ established \subseteq established'
          /\ \A n \in established : (content'[n] \in Cluster[n]) = (content[n] \in Cluster[n])

LEMMA NoRunOK == NoRun \in CrdRun /\ NoRun.pc = "idle"
BY DEF NoRun, CrdRun, Policies

LEMMA RunsTyped == TypeOK => run \in [Clis -> CrdRun]
BY DEF TypeOK, CrdRun

\* One process moves on to r, with out o.
LEMMA CrdMoves ==
    ASSUME CrdInv, NEW p \in Clis, NEW r \in CrdRun, NEW o \in {"none", "ok", "error"},
           run' = [run EXCEPT ![p] = r], out' = [out EXCEPT ![p] = o],
           content' \in [Crds -> Versions \cup {Absent}], established' = established,
           \A n \in established : content'[n] # Absent,
           RunOK(r, established)
    PROVE  CrdInv'
<1>1. TypeOK /\ run \in [Clis -> CrdRun]
  BY RunsTyped DEF CrdInv
<1>2. run' \in [Clis -> CrdRun] /\ out' \in [Clis -> {"none", "ok", "error"}]
  BY <1>1 DEF TypeOK
<1>3. TypeOK'
  BY <1>1, <1>2 DEF TypeOK, CrdRun
<1>4. ASSUME NEW q \in Clis
      PROVE  RunOK(run'[q], established')
  <2>1. CASE q = p
    <3>1. run'[q] = r
      BY <1>1, <2>1 DEF TypeOK
    <3> QED BY <3>1
  <2>2. CASE q # p
    <3>1. run'[q] = run[q]
      BY <1>1, <2>2 DEF TypeOK
    <3> QED BY <3>1 DEF CrdInv
  <2> QED BY <2>1, <2>2
<1> QED BY <1>3, <1>4 DEF CrdInv

LEMMA CrdEnds ==
    ASSUME CrdInv, NEW p \in Clis, NEW o \in {"ok", "error"}, End(p, o),
           UNCHANGED <<content, established>>
    PROVE  CrdInv' /\ Steady
<1>1. RunOK(NoRun, established)
  BY NoRunOK DEF RunOK
<1>2. content \in [Crds -> Versions \cup {Absent}]
  BY DEF CrdInv, TypeOK
<1>3. CrdInv'
  BY <1>1, <1>2, NoRunOK, CrdMoves DEF End, CrdInv
<1> QED BY <1>3 DEF Steady

LEMMA CrdApplied ==
    ASSUME CrdInv, NEW p \in Clis, NEW n \in Crds, n \in run[p].left,
           run[p].pc \in {"get", "create", "apply"}, Applied(p, n),
           content' \in [Crds -> Versions \cup {Absent}], established' = established,
           \A m \in established : content'[m] # Absent
    PROVE  CrdInv'
<1>1. run \in [Clis -> CrdRun] /\ run[p] \in CrdRun /\ RunOK(run[p], established)
  BY RunsTyped DEF CrdInv
<1> DEFINE done == run[p].left = {n}
           all == run[p].applied \cup {n}
           rest == IF done THEN all ELSE run[p].left \ {n}
           pc == IF done THEN "wait" ELSE "get"
           r == [run[p] EXCEPT !.pc = pc, !.left = rest, !.applied = all]
<1>2. run' = [run EXCEPT ![p] = r] /\ out' = out
  BY DEF Applied
<1>3. all \in SUBSET Crds /\ rest \in SUBSET Crds /\ pc \in {"get", "wait"}
  BY <1>1 DEF CrdRun
<1>4. /\ pc = "wait" => rest = run[p].crds
      /\ pc = "get" => rest \cup all = run[p].crds
  BY <1>1 DEF RunOK
<1> HIDE DEF rest, all, pc
<1>5. r \in CrdRun /\ r.pc = pc /\ r.left = rest /\ r.applied = all /\ r.ver = run[p].ver
      /\ r.crds = run[p].crds
  BY <1>1, <1>3 DEF CrdRun
<1> HIDE DEF r
<1>6. RunOK(r, established)
  BY <1>1, <1>3, <1>4, <1>5 DEF RunOK
<1>7. out' = [out EXCEPT ![p] = out[p]] /\ out[p] \in {"none", "ok", "error"}
  BY <1>2 DEF CrdInv, TypeOK
<1> QED BY <1>2, <1>5, <1>6, <1>7, CrdMoves

\* The state of a run moves within the loop.
LEMMA CrdTurns ==
    ASSUME CrdInv, NEW p \in Clis, NEW r \in CrdRun, run' = [run EXCEPT ![p] = r],
           UNCHANGED <<content, established, out>>, RunOK(r, established)
    PROVE  CrdInv' /\ Steady
<1>1. out' = [out EXCEPT ![p] = out[p]] /\ out[p] \in {"none", "ok", "error"}
      /\ content' \in [Crds -> Versions \cup {Absent}]
  BY DEF CrdInv, TypeOK
<1>2. \A n \in established : content'[n] # Absent
  BY DEF CrdInv
<1>3. CrdInv'
  BY <1>1, <1>2, CrdMoves
<1> QED BY <1>3 DEF Steady

LEMMA CrdStart ==
    ASSUME CrdInv, NEW p \in Clis, NEW policy \in Policies, NEW ver \in Versions,
           NEW crds \in SUBSET Crds, Start(p, policy, ver, crds)
    PROVE  CrdInv' /\ Steady /\ run'[p].crds = crds
           /\ \A q \in Clis : q # p => run'[q] = run[q]
<1> DEFINE r == [NoRun EXCEPT !.pc = "get", !.policy = policy, !.ver = ver, !.crds = crds,
                              !.left = crds]
<1>1. run' = [run EXCEPT ![p] = r] /\ out' = [out EXCEPT ![p] = "none"]
      /\ UNCHANGED <<content, established>>
  BY DEF Start
<1>2. r \in CrdRun /\ r.pc = "get" /\ r.crds = crds /\ r.left = crds /\ r.applied = {}
      /\ r.ver = ver
  BY NoRunOK DEF NoRun, CrdRun
<1> HIDE DEF r
<1>3. RunOK(r, established)
  BY <1>2 DEF RunOK
<1>4. content' \in [Crds -> Versions \cup {Absent}] /\ \A n \in established : content'[n] # Absent
  BY <1>1 DEF CrdInv, TypeOK
<1>5. CrdInv'
  BY <1>1, <1>2, <1>3, <1>4, CrdMoves
<1>6. run'[p] = r /\ \A q \in Clis : q # p => run'[q] = run[q]
  BY <1>1, RunsTyped DEF CrdInv, TypeOK
<1> QED BY <1>1, <1>2, <1>5, <1>6 DEF Steady

LEMMA CrdStep ==
    ASSUME CrdInv, NEW p \in Clis, Step(p) \/ Fault(p)
    PROVE  CrdInv' /\ Steady
<1>t. run \in [Clis -> CrdRun] /\ run[p] \in CrdRun /\ RunOK(run[p], established)
      /\ content \in [Crds -> Versions \cup {Absent}]
  BY RunsTyped DEF CrdInv, TypeOK
<1>k. \A n \in established : n \in Crds /\ content[n] # Absent
  BY DEF CrdInv, TypeOK
<1>1. ASSUME NEW n \in Crds, Get(p, n) PROVE CrdInv' /\ Steady
  <2>1. At(p, "get") /\ n \in run[p].left /\ UNCHANGED <<content, established>>
    BY <1>1 DEF Get, First
  <2>2. CASE Applied(p, n)
    <3>1. CrdInv'
      BY <1>t, <1>k, <2>1, <2>2, CrdApplied DEF At
    <3> QED BY <2>1, <3>1 DEF Steady
  <2>3. CASE ~ Applied(p, n)
    <3> DEFINE s == IF run[p].policy = "create" THEN "create" ELSE "apply"
               r == [run[p] EXCEPT !.pc = s]
    <3>1. run' = [run EXCEPT ![p] = r] /\ out' = out
      BY <1>1, <2>3 DEF Get, Present
    <3>2. r \in CrdRun /\ r.pc = s /\ r.left = run[p].left /\ r.applied = run[p].applied
          /\ r.crds = run[p].crds
          /\ r.policy = run[p].policy /\ r.ver = run[p].ver
      BY <1>t DEF CrdRun
    <3>3. s = "create" \/ (s = "apply" /\ run[p].policy = "create-replace")
      BY <1>t DEF CrdRun, Policies
    <3> HIDE DEF s, r
    <3>4. RunOK(r, established)
      BY <1>t, <2>1, <3>2, <3>3 DEF RunOK, At
    <3> QED BY <2>1, <3>1, <3>2, <3>4, CrdTurns
  <2> QED BY <2>2, <2>3
<1>2. ASSUME NEW n \in Crds, Create(p, n) PROVE CrdInv' /\ Steady
  <2>1. At(p, "create") /\ n \in run[p].left /\ established' = established
    BY <1>2 DEF Create, First
  <2>2. CASE content[n] = Absent
    <3>1. content' = [content EXCEPT ![n] = run[p].ver] /\ Applied(p, n) /\ n \notin established
      BY <1>2, <1>k, <2>2 DEF Create
    <3>2. run[p].ver \in Versions \cup {Absent}
      BY <1>t DEF CrdRun
    <3>3. content' \in [Crds -> Versions \cup {Absent}] /\ \A m \in established : content'[m] = content[m]
      BY <1>t, <1>k, <3>1, <3>2
    <3>4. CrdInv'
      BY <1>k, <2>1, <3>1, <3>3, CrdApplied DEF At
    <3> QED BY <2>1, <3>3, <3>4 DEF Steady
  <2>3. CASE content[n] # Absent
    BY <1>2, <2>3, CrdEnds DEF Create
  <2> QED BY <2>2, <2>3
<1>3. ASSUME NEW n \in Crds, Apply(p, n) PROVE CrdInv' /\ Steady
  <2>1. At(p, "apply") /\ n \in run[p].left /\ established' = established
    BY <1>3 DEF Apply, First
  <2>2. CASE n \in established /\ (content[n] \in Cluster[n]) # (run[p].ver \in Cluster[n])
    BY <1>3, <2>2, CrdEnds DEF Apply
  <2>3. CASE ~ (n \in established /\ (content[n] \in Cluster[n]) # (run[p].ver \in Cluster[n]))
    <3>1. content' = [content EXCEPT ![n] = run[p].ver] /\ Applied(p, n)
      BY <1>3, <2>3 DEF Apply
    <3>2. run[p].ver \in Versions \cup {Absent}
      BY <1>t DEF CrdRun
    <3>3. content' \in [Crds -> Versions \cup {Absent}]
          /\ \A m \in Crds : content'[m] = IF m = n THEN run[p].ver ELSE content[m]
      BY <1>t, <3>1, <3>2
    <3>4. \A m \in established : content'[m] # Absent
      <4>1. run[p].ver # Absent
        BY <1>t, <2>1, CRDAssumption DEF RunOK, At
      <4> QED BY <1>k, <3>3, <4>1
    <3>5. CrdInv'
      BY <2>1, <3>1, <3>3, <3>4, CrdApplied DEF At
    <3>6. \A m \in established : (content'[m] \in Cluster[m]) = (content[m] \in Cluster[m])
      BY <1>k, <2>3, <3>3
    <3> QED BY <2>1, <3>5, <3>6 DEF Steady
  <2> QED BY <2>2, <2>3
<1>4. ASSUME NEW n \in Crds, Wait(p, n) PROVE CrdInv' /\ Steady
  <2> DEFINE rest == run[p].left \ {n}
             r == [run[p] EXCEPT !.left = rest]
  <2>1. At(p, "wait") /\ n \in established /\ run' = [run EXCEPT ![p] = r]
        /\ UNCHANGED <<content, established, out>>
    BY <1>4 DEF Wait
  <2>2. rest \in SUBSET Crds
    BY <1>t DEF CrdRun
  <2>3. rest = run[p].left \ {n}
    OBVIOUS
  <2> HIDE DEF rest
  <2>4. r \in CrdRun /\ r.pc = run[p].pc /\ r.left = rest /\ r.policy = run[p].policy
        /\ r.ver = run[p].ver /\ r.crds = run[p].crds
    BY <1>t, <2>2 DEF CrdRun
  <2> HIDE DEF r
  <2>5. RunOK(r, established)
    BY <1>t, <2>1, <2>3, <2>4 DEF RunOK, At
  <2> QED BY <2>1, <2>4, <2>5, CrdTurns
<1>5. CASE WaitDone(p)
  BY <1>5, CrdEnds DEF WaitDone
<1>6. CASE Deadline(p)
  BY <1>6, CrdEnds DEF Deadline
<1>7. CASE Fault(p)
  BY <1>7, CrdEnds DEF Fault
<1> QED BY <1>1, <1>2, <1>3, <1>4, <1>5, <1>6, <1>7 DEF Step

\* A run keeps to its CRDs, and ends well only when all of them are there.
LEMMA CrdRuns ==
    ASSUME CrdInv, NEW p \in Clis, Step(p) \/ Fault(p)
    PROVE  /\ \A q \in Clis : q # p => run'[q] = run[q]
           /\ run'[p].pc # "idle" => run'[p].crds = run[p].crds
           /\ run'[p].pc = "idle" /\ out'[p] = "ok" =>
                 established' = established /\ run[p].crds \subseteq established
<1>t. run \in [Clis -> CrdRun] /\ run[p] \in CrdRun /\ RunOK(run[p], established)
      /\ out \in [Clis -> {"none", "ok", "error"}]
  BY RunsTyped DEF CrdInv, TypeOK
<1> DEFINE Kept == /\ \A q \in Clis : q # p => run'[q] = run[q]
                   /\ run'[p].crds = run[p].crds /\ run'[p].pc # "idle"
           Failed == (\A q \in Clis : q # p => run'[q] = run[q]) /\ out'[p] = "error"
                     /\ run'[p] = NoRun
<1>1. ASSUME NEW n, Applied(p, n) PROVE Kept
  BY <1>1, <1>t DEF Applied, CrdRun
<1>2. End(p, "error") => Failed
  BY <1>t DEF End
<1>3. ASSUME NEW n \in Crds, Get(p, n) PROVE Kept
  <2>1. CASE Applied(p, n)
    BY <1>1, <2>1
  <2>2. CASE ~ Applied(p, n)
    BY <1>3, <1>t, <2>2 DEF Get, Present, CrdRun
  <2> QED BY <2>1, <2>2
<1>4. ASSUME NEW n \in Crds, Wait(p, n) PROVE Kept
  BY <1>4, <1>t DEF Wait, At, CrdRun
<1>5. ASSUME NEW n \in Crds, Create(p, n) \/ Apply(p, n) PROVE Kept \/ Failed
  BY <1>1, <1>2, <1>5 DEF Create, Apply
<1>6. Deadline(p) \/ Fault(p) => Failed
  BY <1>2 DEF Deadline, Fault
<1>7. ASSUME WaitDone(p)
      PROVE  /\ \A q \in Clis : q # p => run'[q] = run[q]
             /\ run'[p] = NoRun
             /\ established' = established /\ run[p].crds \subseteq established
  BY <1>7, <1>t DEF WaitDone, End, At, RunOK
<1>8. Kept \/ Failed \/ WaitDone(p)
  <2> HIDE DEF Kept, Failed
  <2> QED BY <1>3, <1>4, <1>5, <1>6 DEF Step
<1> QED BY <1>7, <1>8, NoRunOK

LEMMA CrdEstablish ==
    ASSUME CrdInv, NEW n \in Crds, Establish(n)
    PROVE  CrdInv' /\ Steady
<1>1. /\ established' = established \cup {n} /\ content[n] # Absent
      /\ content' = content /\ run' = run /\ out' = out
  BY DEF Establish
<1>2. TypeOK'
  BY <1>1 DEF CrdInv, TypeOK
<1>3. \A m \in established' : content'[m] # Absent
  BY <1>1 DEF CrdInv
<1>4. ASSUME NEW p \in Clis
      PROVE  RunOK(run'[p], established')
  <2>1. RunOK(run[p], established)
    BY DEF CrdInv
  <2>2. RunOK(run[p], established')
    BY <1>1, <2>1 DEF RunOK
  <2> QED BY <1>1, <2>1, <2>2
<1> QED BY <1>1, <1>2, <1>3, <1>4 DEF CrdInv, Steady

LEMMA CrdStarts == CRDInit => CrdInv
<1> SUFFICES ASSUME CRDInit PROVE CrdInv
  OBVIOUS
<1>1. run \in [Clis -> CrdRun] /\ \A p \in Clis : run[p] = NoRun /\ out[p] = "none"
  BY NoRunOK DEF CRDInit
<1>2. TypeOK
  BY <1>1 DEF CRDInit, TypeOK, CrdRun
<1>3. \A p \in Clis : RunOK(run[p], established)
  BY <1>1, NoRunOK DEF RunOK
<1> QED BY <1>1, <1>2, <1>3 DEF CRDInit, CrdInv

-----------------------------------------------------------------------------
(* The scope of a kind that comes with the bundle is that of one of the    *)
(* CRDs that declare it: there is a last one.                              *)

LEMMA CrdScope ==
    ASSUME NEW S, NEW c \in Seq(S), NEW k, k # Empty
    PROVE  /\ k \in DOMAIN scopeFromCRDObjects(c) <=> \E i \in DOMAIN c : c[i].declares = k
           /\ k \in DOMAIN scopeFromCRDObjects(c) =>
                \E i \in DOMAIN c : c[i].declares = k
                                    /\ scopeFromCRDObjects(c)[k] = ~ c[i].cluster
<1>0. Len(c) \in Nat /\ DOMAIN c = 1 .. Len(c)
  OBVIOUS
<1> DEFINE D == {i \in DOMAIN c : c[i].declares # Empty}
           LastDoc(i, x) == c[i].declares = x /\ \A j \in D : c[j].declares = x => j <= i
           last(x) == CHOOSE i \in D : LastDoc(i, x)
           sc == scopeFromCRDObjects(c)
<1>1. sc = [x \in {c[i].declares : i \in D} |-> ~ c[last(x)].cluster]
  BY DEF scopeFromCRDObjects, Empty
<1>2. k \in DOMAIN sc <=> \E i \in DOMAIN c : c[i].declares = k
  BY <1>1
<1>3. ASSUME k \in DOMAIN sc
      PROVE  \E i \in DOMAIN c : c[i].declares = k /\ sc[k] = ~ c[i].cluster
  <2>1. sc[k] = ~ c[last(k)].cluster
    BY <1>1, <1>3
  <2>2. PICK i0 \in D : c[i0].declares = k
    BY <1>2, <1>3
  <2> DEFINE N == Len(c)
             T == {x \in Nat : \E i \in D : c[i].declares = k /\ x = N - i}
  <2>3. N \in Nat /\ D \subseteq 1 .. N
    <3>1. N \in Nat /\ DOMAIN c = 1 .. N
      BY <1>0
    <3>2. D \subseteq DOMAIN c
      OBVIOUS
    <3> HIDE DEF D, N
    <3> QED BY <3>1, <3>2
  <2> HIDE DEF N
  <2> HIDE DEF D
  <2>4. N - i0 \in T
    <3>1. N - i0 \in Nat
      <4> HIDE DEF T
      <4> QED BY <2>3
    <3> QED BY <2>2, <3>1
  <2>5. PICK x \in T : \A y \in T : ~ (y < x)
    <3> HIDE DEF T
    <3>1. T \in SUBSET Nat
      BY DEF T
    <3> QED BY <2>4, <3>1, LeastNat
  <2>6. PICK i \in D : c[i].declares = k /\ x = N - i
    OBVIOUS
  <2>7. ASSUME NEW j \in D, c[j].declares = k PROVE j <= i
    <3>1. i \in 1 .. N /\ j \in 1 .. N /\ N - j \in Nat
      <4> HIDE DEF T
      <4> QED BY <2>3
    <3>2. N - j \in T
      BY <2>7, <3>1
    <3> HIDE DEF T
    <3>3. ~ (N - j < N - i)
      BY <2>5, <2>6, <3>2
    <3> QED BY <2>3, <3>1, <3>3
  <2>8. LastDoc(i, k)
    BY <2>6, <2>7
  <2>9. last(k) \in D /\ LastDoc(last(k), k)
    <3> HIDE DEF LastDoc
    <3> QED BY <2>6, <2>8
  <2> QED BY <2>1, <2>9 DEF D
<1> QED BY <1>2, <1>3

-----------------------------------------------------------------------------
(* The invariant of a deploy. What discovery found when the bundle was     *)
(* loaded still holds: CRDs stay Established and keep their scope. A       *)
(* deploy applies the CRDs of its bundle, and comes to Helm when all of    *)
(* them are Established.                                                   *)

Seen(live, con, est) ==
    /\ \A a, k : <<a, k>> \in DOMAIN live => a = "v1"
    /\ \A a, k : <<a, k>> \in DOMAIN live /\ k \in DOMAIN builtInScope =>
                   live[<<a, k>>] = builtInScope[k]
    /\ \A n \in Crds : <<"v1", KindOf[n]>> \in DOMAIN live =>
          n \in est /\ live[<<"v1", KindOf[n]>>] = (con[n] \notin Cluster[n])

Bundled(d, x) ==
    /\ d = [pc |-> d.pc, bundle |-> d.bundle, tree |-> d.tree, policy |-> d.policy,
            live |-> d.live]
    /\ d.tree \in x.trees /\ d.policy \in x.policies
    /\ d.bundle = LoadExtras(d.tree, x.env, x.declared, d.live) /\ d.bundle # Nil
    /\ PostRender(x.generated, d.bundle.manifests) # Nil

DepOK(d, x, con, est) ==
    \/ d = NoDeploy
    \/ /\ d.pc \in {"confirm", "crds", "helm"}
       /\ Bundled(d, x)
       /\ d.live # Nil => Seen(d.live, con, est)
       /\ d.pc = "helm" => CrdsOf(d.bundle) \subseteq est

EInv ==
    /\ CrdInv
    /\ input \in Inputs
    /\ DOMAIN dep = Clis /\ dep = [p \in Clis |-> dep[p]]
    /\ \A p \in Clis : DepOK(dep[p], input, content, established)
    /\ \A p \in Clis : dep[p].pc = "crds" => run[p].crds = CrdsOf(dep[p].bundle)

LEMMA NoneIsEmpty == DOMAIN <<>> = {}
OBVIOUS

LEMMA BuiltIns == DOMAIN builtInScope = {"ConfigMap", "ClusterRole", "PrometheusRule"}
BY DEF builtInScope

LEMMA ServedSeen ==
    ASSUME established \subseteq Crds
    PROVE  Seen(Served, content, established)
<1> DEFINE own == {"ConfigMap", "ClusterRole"}
           custom == {KindOf[n] : n \in established}
           fits(k) == \A n \in established : k = KindOf[n] => content[n] \notin Cluster[n]
           D == {"v1"} \X (own \cup custom)
<1>1. Served = [k \in D |-> IF k[2] \in own THEN builtInScope[k[2]] ELSE fits(k[2])]
  BY DEF Served
<1>2. \A n \in Crds : KindOf[n] \notin DOMAIN builtInScope /\ KindOf[n] \notin own
  BY KindsAssumption, BuiltIns
<1>3. own \subseteq DOMAIN builtInScope
  BY BuiltIns
<1>4. \A a, k : <<a, k>> \in D <=> a = "v1" /\ k \in own \cup custom
  OBVIOUS
<1>5. \A a, k : <<a, k>> \in D =>
          Served[<<a, k>>] = IF k \in own THEN builtInScope[k] ELSE fits(k)
  <2> HIDE DEF D, own, custom, fits
  <2> QED BY <1>1
<1>6. DOMAIN Served = D
  <2> HIDE DEF D, own, custom, fits
  <2> QED BY <1>1
<1> HIDE DEF D
<1>7. ASSUME NEW a, NEW k, <<a, k>> \in DOMAIN Served, k \in DOMAIN builtInScope
      PROVE  Served[<<a, k>>] = builtInScope[k]
  <2>1. k \notin custom
    BY <1>2, <1>7
  <2>2. k \in own
    BY <1>4, <1>6, <1>7, <2>1
  <2> HIDE DEF own, custom, fits
  <2> QED BY <1>5, <1>6, <1>7, <2>2
<1>8. ASSUME NEW n \in Crds, <<"v1", KindOf[n]>> \in DOMAIN Served
      PROVE  n \in established /\ Served[<<"v1", KindOf[n]>>] = (content[n] \notin Cluster[n])
  <2>1. KindOf[n] \in custom /\ KindOf[n] \notin own
    BY <1>2, <1>4, <1>6, <1>8
  <2>2. n \in established
    BY <2>1, KindsAssumption
  <2>3. Served[<<"v1", KindOf[n]>>] = fits(KindOf[n])
    <3> HIDE DEF own, custom, fits
    <3> QED BY <1>5, <1>6, <1>8, <2>1
  <2>4. fits(KindOf[n]) = (content[n] \notin Cluster[n])
    BY <2>2, KindsAssumption
  <2> HIDE DEF fits
  <2> QED BY <2>2, <2>3, <2>4
<1>9. \A a, k : <<a, k>> \in DOMAIN Served => a = "v1"
  BY <1>4, <1>6
<1> QED BY <1>7, <1>8, <1>9 DEF Seen

\* What discovery answers is true, though it need not be all.
LEMMA AnswersSeen ==
    ASSUME established \subseteq Crds, NEW online, NEW lost, Discovery(online, lost) # Nil
    PROVE  Seen(Discovery(online, lost), content, established)
<1> DEFINE live == Discovery(online, lost)
           D == {s \in DOMAIN Served : s[2] \notin lost}
<1>1. Seen(Served, content, established)
  BY ServedSeen
<1>2. live = [k \in D |-> Served[k]]
  BY DEF Discovery
<1>3. D \subseteq DOMAIN Served
  OBVIOUS
<1> HIDE DEF live, D
<1>4. \A s : s \in DOMAIN live => s \in DOMAIN Served /\ live[s] = Served[s]
  BY <1>2, <1>3
<1> QED BY <1>1, <1>4 DEF Seen, live

LEMMA DepSteady ==
    ASSUME CrdInv, CrdInv', Steady, NEW d, NEW x, DepOK(d, x, content, established)
    PROVE  DepOK(d, x, content', established')
<1>1. established \subseteq established' /\ established' \subseteq Crds
  BY DEF Steady, CrdInv, TypeOK
<1>2. ASSUME Seen(d.live, content, established) PROVE Seen(d.live, content', established')
  BY <1>1, <1>2 DEF Seen, Steady
<1> QED BY <1>1, <1>2 DEF DepOK

\* One deploy goes on, all others stay where they are.
LEMMA DepMoves ==
    ASSUME EInv, CrdInv', Steady, input' = input, NEW p \in Clis, NEW d,
           dep' = [dep EXCEPT ![p] = d], DepOK(d, input, content', established'),
           \A q \in Clis : q # p => run'[q] = run[q],
           d.pc = "crds" => run'[p].crds = CrdsOf(d.bundle)
    PROVE  EInv'
<1>1. DOMAIN dep = Clis /\ CrdInv /\ input' \in Inputs
      /\ \A q \in Clis : DepOK(dep[q], input, content, established)
  BY DEF EInv
<1>2. DOMAIN dep' = Clis /\ dep' = [q \in Clis |-> dep'[q]] /\ dep'[p] = d
      /\ \A q \in Clis : q # p => dep'[q] = dep[q]
  BY <1>1
<1>3. ASSUME NEW q \in Clis PROVE DepOK(dep'[q], input', content', established')
  <2>1. CASE q = p
    BY <1>2, <2>1
  <2>2. CASE q # p
    <3>1. DepOK(dep[q], input, content', established')
      BY <1>1, DepSteady
    <3> QED BY <1>2, <2>2, <3>1
  <2> QED BY <2>1, <2>2
<1>4. ASSUME NEW q \in Clis, dep'[q].pc = "crds" PROVE run'[q].crds = CrdsOf(dep'[q].bundle)
  <2>1. CASE q = p
    BY <1>2, <1>4, <2>1
  <2>2. CASE q # p
    BY <1>2, <1>4, <2>2 DEF EInv
  <2> QED BY <2>1, <2>2
<1> QED BY <1>1, <1>2, <1>3, <1>4 DEF EInv

LEMMA CrdStays == CrdInv /\ UNCHANGED crdVars => CrdInv' /\ Steady /\ run' = run
<1> SUFFICES ASSUME CrdInv, UNCHANGED crdVars PROVE CrdInv' /\ Steady /\ run' = run
  OBVIOUS
<1>1. content' = content /\ established' = established /\ run' = run /\ out' = out
  BY DEF crdVars
<1> QED BY <1>1 DEF CrdInv, TypeOK, Steady

LEMMA DepGoes ==
    ASSUME NEW d, NEW x, Bundled(d, x), NEW s
    PROVE  LET r == [d EXCEPT !.pc = s]
           IN  Bundled(r, x) /\ r.pc = s /\ r.live = d.live /\ r.bundle = d.bundle
<1> DEFINE r == [d EXCEPT !.pc = s]
<1>1. d = [pc |-> d.pc, bundle |-> d.bundle, tree |-> d.tree, policy |-> d.policy,
           live |-> d.live]
  BY DEF Bundled
<1>2. r = [pc |-> s, bundle |-> d.bundle, tree |-> d.tree, policy |-> d.policy,
           live |-> d.live]
  BY <1>1
<1> HIDE DEF r
<1>3. /\ r.pc = s /\ r.bundle = d.bundle /\ r.tree = d.tree /\ r.policy = d.policy
      /\ r.live = d.live
  BY <1>2
<1>4. Bundled(r, x)
  BY <1>2, <1>3 DEF Bundled
<1> QED BY <1>3, <1>4 DEF r

LEMMA IdleDep == \A x, con, est : DepOK(NoDeploy, x, con, est)
BY DEF DepOK

LEMMA Busy ==
    ASSUME NEW d, NEW x, NEW con, NEW est, DepOK(d, x, con, est), d.pc # "idle"
    PROVE  /\ d.pc \in {"confirm", "crds", "helm"}
           /\ Bundled(d, x)
           /\ d.live # Nil => Seen(d.live, con, est)
           /\ d.pc = "helm" => CrdsOf(d.bundle) \subseteq est
<1>1. NoDeploy.pc = "idle"
  BY DEF NoDeploy
<1>2. d # NoDeploy
  BY <1>1
<1> QED BY <1>2 DEF DepOK

\* A bundle that goes on is the bundle that was loaded.
LEMMA DepGoesOn ==
    ASSUME EInv, CrdInv', Steady, input' = input, NEW p \in Clis, dep[p].pc # "idle",
           NEW s \in {"crds", "helm"}, dep' = [dep EXCEPT ![p] = [dep[p] EXCEPT !.pc = s]],
           \A q \in Clis : q # p => run'[q] = run[q],
           s = "crds" => run'[p].crds = CrdsOf(dep[p].bundle),
           s = "helm" => CrdsOf(dep[p].bundle) \subseteq established'
    PROVE  EInv'
<1> DEFINE r == [dep[p] EXCEPT !.pc = s]
<1>1. CrdInv /\ DepOK(dep[p], input, content', established')
  BY DepSteady DEF EInv
<1>2. Bundled(dep[p], input) /\ (dep[p].live # Nil => Seen(dep[p].live, content', established'))
  BY <1>1, Busy
<1>3. Bundled(r, input) /\ r.pc = s /\ r.live = dep[p].live /\ r.bundle = dep[p].bundle
  BY <1>2, DepGoes
<1>4. dep' = [dep EXCEPT ![p] = r]
  OBVIOUS
<1> HIDE DEF r
<1>5. DepOK(r, input, content', established')
  BY <1>2, <1>3 DEF DepOK
<1>6. r.pc = "crds" => run'[p].crds = CrdsOf(r.bundle)
  BY <1>3
<1> QED BY <1>4, <1>5, <1>6, DepMoves

LEMMA LoadKeeps ==
    ASSUME EInv, NEW p \in Clis, NEW tree \in input.trees, NEW policy \in input.policies,
           NEW online, NEW lost, Load(p, tree, policy, online, lost)
    PROVE  EInv'
<1> DEFINE live == Discovery(online, lost)
           b == LoadExtras(tree, input.env, input.declared, live)
           good == b # Nil /\ PostRender(input.generated, b.manifests) # Nil
           r == [pc |-> "confirm", bundle |-> b, tree |-> tree, policy |-> policy, live |-> live]
           d == IF ~ good THEN NoDeploy ELSE r
<1>1. dep' = [dep EXCEPT ![p] = d] /\ UNCHANGED crdVars /\ input' = input
  BY DEF Load, LoadFromSpec
<1>2. CrdInv' /\ Steady /\ run' = run
  BY <1>1, CrdStays DEF EInv
<1>3. content' = content /\ established' = established /\ established \subseteq Crds
  BY <1>1 DEF crdVars, EInv, CrdInv, TypeOK
<1>4. live # Nil => Seen(live, content, established)
  BY <1>3, AnswersSeen
<1>5. ASSUME good PROVE DepOK(r, input, content, established)
  <2>1. b = LoadExtras(tree, input.env, input.declared, live) /\ b # Nil
        /\ PostRender(input.generated, b.manifests) # Nil
    BY <1>5
  <2> HIDE DEF b, live
  <2>2. /\ r.pc = "confirm" /\ r.bundle = b /\ r.tree = tree /\ r.policy = policy
        /\ r.live = live
        /\ r = [pc |-> r.pc, bundle |-> r.bundle, tree |-> r.tree, policy |-> r.policy,
                live |-> r.live]
    OBVIOUS
  <2> HIDE DEF r
  <2>3. Bundled(r, input)
    BY <2>1, <2>2 DEF Bundled
  <2> QED BY <1>4, <2>2, <2>3 DEF DepOK
<1>6. DepOK(d, input, content, established)
  <2> HIDE DEF good, r
  <2> QED BY <1>5, IdleDep
<1>7. d.pc # "crds"
  <2> HIDE DEF good, b, live
  <2> QED BY DEF NoDeploy
<1> HIDE DEF d
<1> QED BY <1>1, <1>2, <1>3, <1>6, <1>7, DepMoves

LEMMA ConfirmKeeps ==
    ASSUME EInv, NEW p \in Clis, Confirm(p)
    PROVE  EInv'
<1>1. dep[p].pc = "confirm" /\ input' = input /\ CrdInv /\ input \in Inputs
      /\ DepOK(dep[p], input, content, established)
  BY DEF Confirm, EInv
<1>2. Bundled(dep[p], input)
  BY <1>1, Busy
<1>3. CASE dep[p].bundle.crds # <<>>
  <2>1. Start(p, dep[p].policy, dep[p].tree.ver, CrdsOf(dep[p].bundle))
        /\ dep' = [dep EXCEPT ![p] = [dep[p] EXCEPT !.pc = "crds"]]
    BY <1>3 DEF Confirm, Goto
  <2>2. dep[p].policy \in Policies /\ dep[p].tree.ver \in Versions
    BY <1>1, <1>2, InputsAssumption DEF Bundled
  <2>4. CrdsOf(dep[p].bundle) \in SUBSET Crds
    BY DEF CrdsOf
  <2>3. CrdInv' /\ Steady /\ run'[p].crds = CrdsOf(dep[p].bundle)
        /\ \A q \in Clis : q # p => run'[q] = run[q]
    BY <1>1, <2>1, <2>2, <2>4, CrdStart
  <2> QED BY <1>1, <2>1, <2>3, DepGoesOn
<1>4. CASE dep[p].bundle.crds = <<>>
  <2>1. UNCHANGED crdVars /\ dep' = [dep EXCEPT ![p] = [dep[p] EXCEPT !.pc = "helm"]]
    BY <1>4 DEF Confirm, Goto
  <2>2. CrdInv' /\ Steady /\ run' = run
    BY <1>1, <2>1, CrdStays
  <2>3. CrdsOf(dep[p].bundle) = {}
    BY <1>4, NoneIsEmpty DEF CrdsOf
  <2> QED BY <1>1, <2>1, <2>2, <2>3, DepGoesOn
<1> QED BY <1>3, <1>4

LEMMA EndKeeps ==
    ASSUME EInv, NEW p \in Clis, UNCHANGED crdVars, input' = input,
           dep' = [dep EXCEPT ![p] = NoDeploy]
    PROVE  EInv'
<1>1. CrdInv' /\ Steady /\ run' = run
  BY CrdStays DEF EInv
<1>2. NoDeploy.pc # "crds"
  BY DEF NoDeploy
<1> QED BY <1>1, <1>2, IdleDep, DepMoves

LEMMA ApplyCRDsKeeps ==
    ASSUME EInv, NEW p \in Clis, ApplyCRDs(p, Step(p)) \/ ApplyCRDs(p, Fault(p))
    PROVE  EInv'
<1>1. dep[p].pc = "crds" /\ (Step(p) \/ Fault(p)) /\ input' = input
  BY DEF ApplyCRDs
<1>2. CrdInv' /\ Steady /\ CrdInv
  BY <1>1, CrdStep DEF EInv
<1>r. /\ \A q \in Clis : q # p => run'[q] = run[q]
      /\ run'[p].pc # "idle" => run'[p].crds = run[p].crds
      /\ run'[p].pc = "idle" /\ out'[p] = "ok" =>
            established' = established /\ run[p].crds \subseteq established
  BY <1>1, <1>2, CrdRuns
<1>c. run[p].crds = CrdsOf(dep[p].bundle)
  BY <1>1 DEF EInv
<1>n. NoDeploy.pc # "crds"
  BY DEF NoDeploy
<1>3. \/ dep' = dep /\ run'[p].pc # "idle"
      \/ dep' = [dep EXCEPT ![p] = NoDeploy]
      \/ /\ dep' = [dep EXCEPT ![p] = [dep[p] EXCEPT !.pc = "helm"]]
         /\ out'[p] = "ok" /\ run'[p].pc = "idle"
  <2>1. CASE ~ At(p, "idle")'
    BY <2>1 DEF ApplyCRDs, At
  <2>2. CASE At(p, "idle")'
    <3>1. PICK next \in (IF out'[p] = "ok" THEN {"helm", "idle"} ELSE {"idle"}) :
             dep' = [dep EXCEPT ![p] = IF next = "idle" THEN NoDeploy
                                       ELSE [dep[p] EXCEPT !.pc = next]]
      BY <2>2 DEF ApplyCRDs
    <3>2. next = "idle" \/ (next = "helm" /\ out'[p] = "ok")
      BY <3>1
    <3>3. run'[p].pc = "idle"
      BY <2>2 DEF At
    <3> QED BY <3>1, <3>2, <3>3
  <2> QED BY <2>1, <2>2
<1>4. CASE dep' = dep /\ run'[p].pc # "idle"
  <2>1. \A q \in Clis : DepOK(dep[q], input, content', established')
    BY <1>2, DepSteady DEF EInv
  <2>2. ASSUME NEW q \in Clis, dep[q].pc = "crds" PROVE run'[q].crds = CrdsOf(dep[q].bundle)
    BY <1>4, <1>r, <2>2 DEF EInv
  <2> QED BY <1>1, <1>2, <1>4, <2>1, <2>2 DEF EInv
<1>5. CASE dep' = [dep EXCEPT ![p] = NoDeploy]
  BY <1>1, <1>2, <1>5, <1>r, <1>n, IdleDep, DepMoves
<1>6. CASE /\ dep' = [dep EXCEPT ![p] = [dep[p] EXCEPT !.pc = "helm"]]
           /\ out'[p] = "ok" /\ run'[p].pc = "idle"
  <2>1. CrdsOf(dep[p].bundle) \subseteq established'
    BY <1>r, <1>c, <1>6
  <2> QED BY <1>1, <1>2, <1>6, <1>r, <2>1, DepGoesOn
<1> QED BY <1>3, <1>4, <1>5, <1>6

LEMMA EInvInductive == EInv /\ [Next]_vars => EInv'
<1> SUFFICES ASSUME EInv, [Next]_vars PROVE EInv'
  OBVIOUS
<1>1. ASSUME NEW p \in Clis, NEW tree \in input.trees, NEW policy \in input.policies,
             NEW online \in input.online, NEW lost \in input.lost,
             Load(p, tree, policy, online, lost)
      PROVE  EInv'
  BY <1>1, LoadKeeps
<1>2. ASSUME NEW p \in Clis, Confirm(p) PROVE EInv'
  BY <1>2, ConfirmKeeps
<1>3. ASSUME NEW p \in Clis, Abort(p) \/ Install(p) PROVE EInv'
  BY <1>3, EndKeeps DEF Abort, Install
<1>4. ASSUME NEW p \in Clis, ApplyCRDs(p, Step(p)) \/ ApplyCRDs(p, Fault(p)) PROVE EInv'
  BY <1>4, ApplyCRDsKeeps
<1>5. ASSUME NEW n \in Crds, Establish(n), UNCHANGED <<dep, loads, input>> PROVE EInv'
  <2>1. CrdInv' /\ Steady /\ CrdInv
    BY <1>5, CrdEstablish DEF EInv
  <2>2. \A q \in Clis : DepOK(dep[q], input, content', established')
    BY <2>1, DepSteady DEF EInv
  <2>3. run' = run
    BY <1>5 DEF Establish
  <2> QED BY <1>5, <2>1, <2>2, <2>3 DEF EInv
<1>6. CASE UNCHANGED vars
  <2>1. UNCHANGED crdVars /\ dep' = dep /\ input' = input
    BY <1>6 DEF vars
  <2>2. CrdInv' /\ content' = content /\ established' = established /\ run' = run
    BY <2>1, CrdStays DEF EInv, crdVars
  <2> QED BY <2>1, <2>2 DEF EInv
<1> QED BY <1>1, <1>2, <1>3, <1>4, <1>5, <1>6 DEF Next

LEMMA EInvInit == Init => EInv
<1> SUFFICES ASSUME Init PROVE EInv
  OBVIOUS
<1>1. CrdInv /\ input \in Inputs /\ dep = [p \in Clis |-> NoDeploy]
  BY CrdStarts DEF Init
<1>2. \A p \in Clis : dep[p] = NoDeploy /\ dep[p].pc # "crds"
  BY <1>1 DEF NoDeploy
<1> QED BY <1>1, <1>2, IdleDep DEF EInv

LEMMA EInvAlways == Spec => []EInv
BY EInvInit, EInvInductive, PTL DEF Spec

-----------------------------------------------------------------------------
(* Existing CRDs under --crds create.                                      *)

Replaced(n) == content[n] # Absent /\ content'[n] # content[n] =>
                  \E p \in Clis : run[p].policy = "create-replace" /\ run'[p] # run[p]

LEMMA WriteReplaces ==
    ASSUME CrdInv, NEW p \in Clis, NEW k \in Crds,
           Get(p, k) \/ Create(p, k) \/ Apply(p, k) \/ Wait(p, k), NEW n \in Crds
    PROVE  Replaced(n)
<1> SUFFICES ASSUME content[n] # Absent, content'[n] # content[n]
             PROVE  run[p].policy = "create-replace" /\ run'[p] # run[p]
  BY DEF Replaced
<1>1. content \in [Crds -> Versions \cup {Absent}] /\ run \in [Clis -> CrdRun]
      /\ RunOK(run[p], established)
  BY RunsTyped DEF CrdInv, TypeOK
<1>2. ~ Create(p, k)
  BY <1>1 DEF Create
<1>3. ~ Get(p, k) /\ ~ Wait(p, k)
  BY DEF Get, Wait
<1>4. Apply(p, k)
  BY <1>2, <1>3
<1>5. At(p, "apply") /\ Applied(p, k)
  BY <1>4 DEF Apply
<1>6. run'[p].pc \in {"wait", "get"}
  BY <1>1, <1>5 DEF Applied, CrdRun
<1> QED BY <1>1, <1>5, <1>6 DEF At, RunOK

\* Under --crds create no run changes a CRD that is there, also one that
\* another deploy creates between its Get and its Create: whoever changes one
\* is a run of create-replace.
THEOREM CreateKeepsExisting == Spec => CreateKeeps
<1> DEFINE A == \A n \in Crds :
                  content[n] # Absent /\ content'[n] # content[n] =>
                     \E p \in Clis : run[p].policy = "create-replace" /\ run'[p] # run[p]
<1>1. EInv /\ [Next]_vars => [A]_crdVars
  <2> SUFFICES ASSUME EInv, [Next]_vars, NEW n \in Crds PROVE Replaced(n)
    BY DEF Replaced
  <2>1. CrdInv
    BY DEF EInv
  <2>2. CASE UNCHANGED content
    BY <2>2 DEF Replaced
  <2>3. ASSUME NEW p \in Clis, NEW tree, NEW policy, NEW online, NEW lost,
               Load(p, tree, policy, online, lost)
        PROVE  UNCHANGED content
    BY <2>3 DEF Load, crdVars
  <2>4. ASSUME NEW p \in Clis, Confirm(p) \/ Abort(p) \/ Install(p) PROVE UNCHANGED content
    BY <2>4 DEF Confirm, Abort, Install, Start, crdVars
  <2>5. ASSUME NEW p \in Clis, ApplyCRDs(p, Step(p)) \/ ApplyCRDs(p, Fault(p))
        PROVE  Replaced(n)
    <3>1. Step(p) \/ Fault(p)
      BY <2>5 DEF ApplyCRDs
    <3>2. CASE WaitDone(p) \/ Deadline(p) \/ Fault(p)
      BY <2>2, <3>2 DEF WaitDone, Deadline, Fault
    <3>3. ASSUME NEW k \in Crds, Get(p, k) \/ Create(p, k) \/ Apply(p, k) \/ Wait(p, k)
          PROVE  Replaced(n)
      BY <2>1, <3>3, WriteReplaces
    <3> QED BY <3>1, <3>2, <3>3 DEF Step
  <2>6. ASSUME NEW k \in Crds, Establish(k) PROVE UNCHANGED content
    BY <2>6 DEF Establish
  <2>7. CASE UNCHANGED vars
    BY <2>2, <2>7 DEF vars, crdVars
  <2> QED BY <2>2, <2>3, <2>4, <2>5, <2>6, <2>7 DEF Next
<1> QED BY <1>1, EInvAlways, PTL DEF Spec, CreateKeeps

-----------------------------------------------------------------------------
(* What a deploy has in hand comes from its tree.                          *)

LEMMA BundleFrom ==
    ASSUME NEW x \in Inputs, NEW d, Bundled(d, x)
    PROVE  LET m == RawManifests(d.tree, x.env, x.declared)
               c == RawCrds(d.tree)
               meant == MeantOf(d.tree, x.env, x.declared)
           IN  /\ m \in Seq(meant) /\ ToSet(m) = meant
               /\ \A i \in DOMAIN m : m[i].kind # Empty
               /\ c \in Seq(Docs(d.tree.crds)) /\ ToSet(c) = Docs(d.tree.crds)
               /\ \A l : LoadExtras(d.tree, x.env, x.declared, l) = LoadDocs(m, c, x.env, l)
               /\ d.bundle = LoadDocs(m, c, x.env, d.live) /\ d.bundle # Nil
<1>1. TreeOK(d.tree)
  BY InputsAssumption DEF Bundled, TreeOK
<1>2. "" \notin x.declared
  BY InputsAssumption
<1>3. d.bundle = LoadExtras(d.tree, x.env, x.declared, d.live) /\ d.bundle # Nil
  BY DEF Bundled
<1> DEFINE t == d.tree
           e == x.env
           declared == x.declared
           live == d.live
<1>4. LoadExtras(t, e, declared, live) # Nil
  BY <1>3
<1> HIDE DEF t, e, declared, live
<1>5. /\ RawManifests(t, e, declared) \in Seq(MeantOf(t, e, declared))
      /\ ToSet(RawManifests(t, e, declared)) = MeantOf(t, e, declared)
      /\ \A i \in DOMAIN RawManifests(t, e, declared) :
            RawManifests(t, e, declared)[i].kind # ""
      /\ RawCrds(t) \in Seq(Docs(t.crds)) /\ ToSet(RawCrds(t)) = Docs(t.crds)
      /\ \A l : LoadExtras(t, e, declared, l)
                  = LoadDocs(RawManifests(t, e, declared), RawCrds(t), e, l)
  <2>1. TreeOK(t) /\ "" \notin declared
    BY <1>1, <1>2 DEF t, declared
  <2> QED BY <1>4, <2>1, LoadedFrom
<1>6. d.bundle = LoadDocs(RawManifests(t, e, declared), RawCrds(t), e, live)
  BY <1>3, <1>5 DEF t, e, declared, live
<1> QED BY <1>3, <1>5, <1>6 DEF Empty, t, e, declared, live

\* The scope that the CRDs of a tree declare is that of its version.
LEMMA TreeScope ==
    ASSUME NEW x \in Inputs, NEW t \in x.trees, NEW o \in Docs(t.crds), NEW n \in Crds,
           o.declares = KindOf[n]
    PROVE  o.cluster = (t.ver \in Cluster[n])
<1>1. PICK i \in DOMAIN t.crds : o \in ToSet(t.crds[i].docs)
  BY DEF Docs
<1>2. PICK j \in DOMAIN t.crds[i].docs : o = t.crds[i].docs[j]
  BY <1>1 DEF ToSet
<1>3. \A i1 \in DOMAIN t.crds : \A j1 \in DOMAIN t.crds[i1].docs : \A n1 \in Crds :
         t.crds[i1].docs[j1].declares = KindOf[n1]
            => t.crds[i1].docs[j1].cluster = (t.ver \in Cluster[n1])
  BY Zenon, InputsAssumption
<1>4. t.crds[i].docs[j].declares = KindOf[n]
         => t.crds[i].docs[j].cluster = (t.ver \in Cluster[n])
  BY Zenon, <1>3
<1> QED BY <1>2, <1>4

LEMMA KindsKnown == \A n \in Crds : KindOf[n] \notin DOMAIN builtInScope
BY KindsAssumption

LEMMA ReleaseNsNamed == ReleaseNs # Empty
BY KindsAssumption DEF Empty

\* What ManifestsFit says of the object o of a deploy d.
Fitted(o, d, n, con, est) ==
    /\ n \in est
    /\ \/ (o.ns = Empty) = (con[n] \in Cluster[n])
       \/ ~ Discovered(o, d.live) /\ (con[n] \in Cluster[n]) # (d.tree.ver \in Cluster[n])

LEMMA Fits ==
    ASSUME NEW x \in Inputs, NEW d, Bundled(d, x), d.live # Nil, NEW con, NEW est,
           Seen(d.live, con, est), CrdsOf(d.bundle) \subseteq est,
           NEW i \in DOMAIN d.bundle.manifests, NEW n \in Crds,
           d.bundle.manifests[i].kind = KindOf[n]
    PROVE  Fitted(d.bundle.manifests[i], d, n, con, est)
<1> DEFINE e == x.env
           m == RawManifests(d.tree, e, x.declared)
           c == RawCrds(d.tree)
           sc == scopeFromCRDObjects(c)
           o == d.bundle.manifests[i]
           N == Namespaced(m[i], sc, d.live)
           v == d.tree.ver \in Cluster[n]
           C == con[n] \in Cluster[n]
<1>1. d.bundle = LoadDocs(m, c, e, d.live) /\ d.bundle # Nil
      /\ c \in Seq(Docs(d.tree.crds)) /\ ToSet(c) = Docs(d.tree.crds)
      /\ \A k \in DOMAIN m : m[k].kind # Empty
  BY BundleFrom
<1>2. d.tree \in x.trees
  BY DEF Bundled
<1> HIDE DEF e, m, c
<1>3. /\ DOMAIN d.bundle.manifests = DOMAIN m
      /\ \A k \in DOMAIN m : d.bundle.manifests[k] = Manifest(m, c, e, d.live, k)
      /\ DOMAIN d.bundle.crds = DOMAIN c
      /\ \A k \in DOMAIN c : d.bundle.crds[k].declares = c[k].declares
      /\ \A k \in DOMAIN m : Known(m[k], sc, d.live) /\ Manifest(m, c, e, d.live, k) # Nil
  <2> DEFINE b == d.bundle
             live == d.live
  <2>1. b = LoadDocs(m, c, e, live) /\ b # Nil /\ live # Nil
    BY <1>1
  <2> HIDE DEF b, live
  <2>2. /\ DOMAIN b.manifests = DOMAIN m
        /\ \A k \in DOMAIN m : b.manifests[k] = Manifest(m, c, e, live, k)
        /\ DOMAIN b.crds = DOMAIN c
        /\ \A k \in DOMAIN m : Known(m[k], scopeFromCRDObjects(c), live)
        /\ \A k \in DOMAIN m : Manifest(m, c, e, live, k) # Nil
        /\ \A k \in DOMAIN c : b.crds[k] = CrdObject(c[k]) /\ b.crds[k] # Nil
    BY <2>1, DocsLoaded
  <2>3. \A k \in DOMAIN c : b.crds[k].declares = c[k].declares
    BY <2>2, CrdMerged
  <2> QED BY <2>2, <2>3 DEF b, live
<1>4. i \in DOMAIN m /\ o = Manifest(m, c, e, d.live, i) /\ o # Nil /\ Known(m[i], sc, d.live)
  BY <1>3
<1>5. /\ o.kind = m[i].kind /\ o.api = m[i].api
      /\ o.ns = IF N THEN ReleaseNs ELSE Empty
  <2> DEFINE r == mergeIdentity(m[i], K8sSafe[e], "manifests", ReleaseNs, N)
  <2>1. o = r /\ r # Nil
    BY <1>4 DEF Manifest
  <2> HIDE DEF N, o
  <2>2. /\ r.kind = m[i].kind /\ r.api = m[i].api
        /\ r.ns = IF N THEN ReleaseNs ELSE Empty
    BY <2>1, Merged
  <2> QED BY <2>1, <2>2
<1> HIDE DEF o, sc
<1>6. m[i].kind = KindOf[n] /\ KindOf[n] # Empty
  BY <1>1, <1>4, <1>5 DEF o
<1>7. Discovered(o, d.live) <=> Discovered(m[i], d.live)
  BY <1>5 DEF Discovered
<1>8. CASE Discovered(m[i], d.live)
  <2>a. <<m[i].api, KindOf[n]>> \in DOMAIN d.live
    BY <1>6, <1>8 DEF Discovered
  <2>b. m[i].api = "v1"
    BY <2>a DEF Seen
  <2>1. <<"v1", KindOf[n]>> \in DOMAIN d.live
    BY <2>a, <2>b
  <2>2. n \in est /\ d.live[<<"v1", KindOf[n]>>] = (con[n] \notin Cluster[n])
    BY <2>1 DEF Seen
  <2>3. N = d.live[<<"v1", KindOf[n]>>]
    BY <1>6, <1>8, <2>b DEF Namespaced
  <2>4. N = ~ C
    BY <2>2, <2>3
  <2> HIDE DEF N, C
  <2>5. (o.ns = Empty) <=> C
    BY <1>5, <2>4, ReleaseNsNamed
  <2>6. n \in est /\ (o.ns = Empty) = C
    BY <2>2, <2>5 DEF C
  <2> QED BY <2>6 DEF Fitted, o, C
<1>9. CASE ~ Discovered(m[i], d.live)
  <2>1. KindOf[n] \in DOMAIN sc
    BY <1>4, <1>6, <1>9, KindsKnown DEF Known, TableKnown
  <2>2. PICK j \in DOMAIN c : c[j].declares = KindOf[n] /\ sc[KindOf[n]] = ~ c[j].cluster
    BY <1>1, <1>6, <2>1, CrdScope DEF sc
  <2>3. n \in CrdsOf(d.bundle)
    BY <1>3, <2>2 DEF CrdsOf
  <2>4. n \in est
    BY <2>3
  <2>5. c[j] \in Docs(d.tree.crds)
    BY <1>1, <2>2 DEF ToSet
  <2>6. c[j].cluster = v
    BY <1>2, <2>2, <2>5, TreeScope
  <2>7. N = sc[KindOf[n]]
    BY <1>6, <1>9, <2>1 DEF Namespaced, TableNamespaced
  <2> HIDE DEF N, v, C
  <2>8. N = ~ v
    BY <2>2, <2>6, <2>7
  <2>9. (o.ns = Empty) <=> v
    BY <1>5, <2>8, ReleaseNsNamed
  <2>10. (o.ns = Empty) = C \/ C # v
    BY <2>9 DEF C, v
  <2> QED BY <1>7, <1>9, <2>4, <2>10 DEF Fitted, o, C, v
<1> QED BY <1>8, <1>9

\* When Helm gets the custom resources of a deploy that had a REST config, the
\* CRDs of their kinds are Established and have the scope the objects were
\* fitted to, whatever other deploys have done since the bundle was loaded; but
\* for an object discovery did not answer for and whose CRD in the cluster has
\* another scope than the one in the bundle.
THEOREM ManifestsAlwaysFit == Spec => []ManifestsFit
<1>1. EInv => ManifestsFit
  <2> SUFFICES ASSUME EInv PROVE ManifestsFit
    OBVIOUS
  <2>1. TypeOK /\ CRDsEstablished
    BY Busy DEF EInv, CrdInv, CRDsEstablished
  <2>2. ASSUME NEW p \in Clis, dep[p].pc = "helm", dep[p].live # Nil,
               NEW i \in DOMAIN dep[p].bundle.manifests, NEW n \in Crds,
               dep[p].bundle.manifests[i].kind = KindOf[n]
        PROVE  LET o == dep[p].bundle.manifests[i]
                   clusterScoped == content[n] \in Cluster[n]
               IN  /\ n \in established
                   /\ \/ (o.ns = "") = clusterScoped
                      \/ /\ ~ Discovered(o, dep[p].live)
                         /\ clusterScoped # (dep[p].tree.ver \in Cluster[n])
    <3> DEFINE d == dep[p]
    <3>1. input \in Inputs /\ DepOK(d, input, content, established)
      BY DEF EInv
    <3>2. d.pc = "helm" /\ d.live # Nil /\ i \in DOMAIN d.bundle.manifests
          /\ d.bundle.manifests[i].kind = KindOf[n]
      BY <2>2
    <3> HIDE DEF d
    <3>3. /\ Bundled(d, input) /\ Seen(d.live, content, established)
          /\ CrdsOf(d.bundle) \subseteq established
      BY <3>1, <3>2, Busy
    <3>4. Fitted(d.bundle.manifests[i], d, n, content, established)
      BY <3>1, <3>2, <3>3, Fits
    <3> QED BY <3>4 DEF Fitted, d, Empty
  <2> QED BY <2>1, <2>2 DEF ManifestsFit
<1> QED BY <1>1, EInvAlways, PTL

-----------------------------------------------------------------------------
(* The bundle without a cluster.                                           *)

\* A document has the same scope with and without discovery.
LEMMA SameScope ==
    ASSUME NEW S, NEW c \in Seq(S), NEW o, o.kind # Empty, NEW live,
           \A a, k : <<a, k>> \in DOMAIN live /\ k \in DOMAIN builtInScope =>
                        live[<<a, k>>] = builtInScope[k],
           o.kind \in DOMAIN builtInScope \/ \E i \in DOMAIN c : c[i].declares = o.kind,
           \A i \in DOMAIN c : c[i].declares = o.kind /\ Discovered(o, live) =>
               live[<<o.api, o.kind>>] = ~ c[i].cluster
    PROVE  Namespaced(o, scopeFromCRDObjects(c), live)
             = Namespaced(o, scopeFromCRDObjects(c), Nil)
<1> DEFINE sc == scopeFromCRDObjects(c)
           k == o.kind
<1>1. ~ Discovered(o, Nil)
  BY DEF Discovered
<1>2. k \in DOMAIN sc <=> \E i \in DOMAIN c : c[i].declares = k
  BY CrdScope
<1>3. k \in DOMAIN sc => \E i \in DOMAIN c : c[i].declares = k /\ sc[k] = ~ c[i].cluster
  BY CrdScope
<1> HIDE DEF sc
<1>4. CASE ~ Discovered(o, live)
  BY <1>1, <1>4 DEF Namespaced, sc
<1>5. CASE Discovered(o, live)
  <2>1. Namespaced(o, sc, live) = live[<<o.api, k>>]
    BY <1>5 DEF Namespaced
  <2>2. Namespaced(o, sc, Nil) = TableNamespaced(o, sc)
    BY <1>1 DEF Namespaced
  <2>3. CASE k \in DOMAIN sc
    <3>1. PICK i \in DOMAIN c : c[i].declares = k /\ sc[k] = ~ c[i].cluster
      BY <1>3, <2>3
    <3>2. live[<<o.api, k>>] = sc[k]
      BY <1>5, <3>1
    <3> QED BY <2>1, <2>2, <2>3, <3>2 DEF TableNamespaced, sc
  <2>4. CASE k \notin DOMAIN sc
    <3>1. k \in DOMAIN builtInScope
      BY <1>2, <2>4
    <3>2. live[<<o.api, k>>] = builtInScope[k]
      BY <1>5, <3>1 DEF Discovered
    <3> QED BY <2>1, <2>2, <2>4, <3>1, <3>2 DEF TableNamespaced, sc
  <2> QED BY <2>3, <2>4
<1> QED BY <1>4, <1>5

\* Documents that have the same scopes make the same bundle.
LEMMA SameBundle ==
    ASSUME NEW m, NEW c, NEW e, NEW live, LoadDocs(m, c, e, live) # Nil,
           \A i \in DOMAIN m : Namespaced(m[i], scopeFromCRDObjects(c), live)
                                = Namespaced(m[i], scopeFromCRDObjects(c), Nil)
    PROVE  LoadDocs(m, c, e, Nil) = LoadDocs(m, c, e, live)
<1> DEFINE ms(l) == [i \in DOMAIN m |-> Manifest(m, c, e, l, i)]
           cs == [i \in DOMAIN c |-> CrdObject(c[i])]
           known(l) == l = Nil \/ \A i \in DOMAIN m : Known(m[i], scopeFromCRDObjects(c), l)
           crds == \A i \in DOMAIN c : c[i].kind = CRDKind /\ c[i].api = crdAPIVersion
           rest(f) == Nil \notin ToSet(f) \cup ToSet(cs) /\ checkDuplicateIdentities(f)
                      /\ checkDuplicateIdentities(cs)
<1>1. \A l : LoadDocs(m, c, e, l) = IF crds /\ known(l) /\ rest(ms(l))
                                    THEN [manifests |-> ms(l), crds |-> cs] ELSE Nil
  BY DEF LoadDocs, withCRDScope, Manifest, CrdObject
<1>2. \A i \in DOMAIN m : Manifest(m, c, e, live, i) = Manifest(m, c, e, Nil, i)
  BY DEF Manifest
<1>3. ms(live) = ms(Nil)
  BY <1>2
<1>4. known(Nil)
  OBVIOUS
<1> HIDE DEF ms, cs, known, crds, rest
<1> QED BY <1>1, <1>3, <1>4

\* The objects of a bundle and the documents they come from.
LEMMA ObjectsOf ==
    ASSUME NEW m, NEW c, NEW e, NEW live, NEW b, b = LoadDocs(m, c, e, live), b # Nil
    PROVE  /\ DOMAIN b.manifests = DOMAIN m /\ DOMAIN b.crds = DOMAIN c
           /\ \A i \in DOMAIN m :
                 /\ b.manifests[i].api = m[i].api /\ b.manifests[i].kind = m[i].kind
                 /\ b.manifests[i].name = m[i].name
                 /\ b.manifests[i].ns \in {ReleaseNs, Empty}
                 /\ b.manifests[i].labels
                      = owned(m[i].labels, identityLabels(K8sSafe[e], "manifests"))
                 /\ b.manifests[i].notes = owned(m[i].notes, identityNotes("manifests"))
           /\ \A i \in DOMAIN c : /\ b.crds[i].declares = c[i].declares
                                  /\ b.crds[i].cluster = c[i].cluster
<1>1. /\ DOMAIN b.manifests = DOMAIN m /\ DOMAIN b.crds = DOMAIN c
      /\ \A i \in DOMAIN m : b.manifests[i] = Manifest(m, c, e, live, i)
      /\ \A i \in DOMAIN m : Manifest(m, c, e, live, i) # Nil
      /\ \A i \in DOMAIN c : b.crds[i] = CrdObject(c[i]) /\ b.crds[i] # Nil
  BY DocsLoaded
<1>2. ASSUME NEW i \in DOMAIN m
      PROVE  /\ b.manifests[i].api = m[i].api /\ b.manifests[i].kind = m[i].kind
             /\ b.manifests[i].name = m[i].name
             /\ b.manifests[i].ns \in {ReleaseNs, Empty}
             /\ b.manifests[i].labels
                  = owned(m[i].labels, identityLabels(K8sSafe[e], "manifests"))
             /\ b.manifests[i].notes = owned(m[i].notes, identityNotes("manifests"))
  <2> DEFINE N == Namespaced(m[i], scopeFromCRDObjects(c), live)
             r == b.manifests[i]
  <2>1. r = mergeIdentity(m[i], K8sSafe[e], "manifests", ReleaseNs, N) /\ r # Nil
    BY <1>1 DEF Manifest
  <2> HIDE DEF N, r
  <2>2. /\ r.api = m[i].api /\ r.kind = m[i].kind /\ r.name = m[i].name
        /\ r.ns = IF N THEN ReleaseNs ELSE Empty
        /\ r.labels = owned(m[i].labels, identityLabels(K8sSafe[e], "manifests"))
        /\ r.notes = owned(m[i].notes, identityNotes("manifests"))
    BY <2>1, Merged
  <2>3. r.ns \in {ReleaseNs, Empty}
    BY <2>2
  <2> QED BY <2>2, <2>3 DEF r
<1>3. ASSUME NEW i \in DOMAIN c
      PROVE  b.crds[i].declares = c[i].declares /\ b.crds[i].cluster = c[i].cluster
  BY <1>1, CrdMerged
<1> QED BY <1>1, <1>2, <1>3

\* What OfflineAgrees asks of a bundle.
Foreseen(b, live) ==
    \A i \in DOMAIN b.manifests :
        LET o == b.manifests[i]
        IN  /\ o.kind \in DOMAIN builtInScope \/ \E j \in DOMAIN b.crds : b.crds[j].declares = o.kind
            /\ \A j \in DOMAIN b.crds :
                  b.crds[j].declares = o.kind /\ Discovered(o, live) =>
                      live[<<o.api, o.kind>>] = ~ b.crds[j].cluster

LEMMA Offline ==
    ASSUME NEW x \in Inputs, NEW d, Bundled(d, x), NEW con, NEW est, Seen(d.live, con, est),
           Foreseen(d.bundle, d.live)
    PROVE  LoadExtras(d.tree, x.env, x.declared, Nil) = d.bundle
<1> DEFINE e == x.env
           m == RawManifests(d.tree, e, x.declared)
           c == RawCrds(d.tree)
           sc == scopeFromCRDObjects(c)
           b == d.bundle
           live == d.live
           S == Docs(d.tree.crds)
<1>1. /\ b = LoadDocs(m, c, e, live) /\ b # Nil
      /\ c \in Seq(S) /\ \A i \in DOMAIN m : m[i].kind # Empty
      /\ LoadExtras(d.tree, x.env, x.declared, Nil) = LoadDocs(m, c, e, Nil)
  BY BundleFrom
<1>2. \A a, k : <<a, k>> \in DOMAIN live /\ k \in DOMAIN builtInScope =>
                   live[<<a, k>>] = builtInScope[k]
  BY DEF Seen
<1>3. Foreseen(b, live)
  OBVIOUS
<1> HIDE DEF e, m, c, b, live, S
<1>4. /\ DOMAIN b.manifests = DOMAIN m /\ DOMAIN b.crds = DOMAIN c
      /\ \A i \in DOMAIN m : b.manifests[i].api = m[i].api /\ b.manifests[i].kind = m[i].kind
      /\ \A i \in DOMAIN c : b.crds[i].declares = c[i].declares
                             /\ b.crds[i].cluster = c[i].cluster
  BY <1>1, ObjectsOf
<1>5. ASSUME NEW i \in DOMAIN m
      PROVE  Namespaced(m[i], sc, live) = Namespaced(m[i], sc, Nil)
  <2> DEFINE o == m[i]
  <2>1. b.manifests[i].api = o.api /\ b.manifests[i].kind = o.kind /\ o.kind # Empty
    BY <1>1, <1>4
  <2>2. Discovered(b.manifests[i], live) <=> Discovered(o, live)
    BY <2>1 DEF Discovered
  <2>3. o.kind \in DOMAIN builtInScope \/ \E j \in DOMAIN c : c[j].declares = o.kind
    <3> DEFINE k == o.kind
    <3>1. i \in DOMAIN b.manifests /\ b.manifests[i].kind = k
      BY <1>4, <2>1
    <3> HIDE DEF o, k
    <3>2. k \in DOMAIN builtInScope \/ \E j \in DOMAIN b.crds : b.crds[j].declares = k
      BY <1>3, <3>1 DEF Foreseen
    <3>3. k \in DOMAIN builtInScope \/ \E j \in DOMAIN c : c[j].declares = k
      BY <1>4, <3>2
    <3> QED BY <3>3 DEF k
  <2>4. \A j \in DOMAIN c : c[j].declares = o.kind /\ Discovered(o, live) =>
            live[<<o.api, o.kind>>] = ~ c[j].cluster
    BY <1>3, <1>4, <2>1, <2>2 DEF Foreseen
  <2> HIDE DEF o, sc
  <2>5. Namespaced(o, scopeFromCRDObjects(c), live) = Namespaced(o, scopeFromCRDObjects(c), Nil)
    BY <1>1, <1>2, <2>1, <2>3, <2>4, SameScope
  <2> QED BY <2>5 DEF o, sc
<1>6. LoadDocs(m, c, e, Nil) = LoadDocs(m, c, e, live)
  BY <1>1, <1>5, SameBundle
<1> QED BY <1>1, <1>6 DEF b

\* plan --offline shows the bundle that deploy loads: where the kinds are built
\* in or come with the bundle, and the cluster has no other scope for them,
\* loading without discovery gives the same objects.
THEOREM OfflineAlwaysAgrees == Spec => []OfflineAgrees
<1>1. EInv => OfflineAgrees
  <2> SUFFICES ASSUME EInv, NEW p \in Clis, Prepared(p), dep[p].live # Nil,
                      LET b == dep[p].bundle
                          own == {b.crds[i].declares : i \in DOMAIN b.crds}
                          sameScope(o) ==
                             \A i \in DOMAIN b.crds :
                                b.crds[i].declares = o.kind /\ Discovered(o, dep[p].live) =>
                                    dep[p].live[<<o.api, o.kind>>] = ~ b.crds[i].cluster
                      IN  \A o \in ToSet(b.manifests) :
                             o.kind \in DOMAIN builtInScope \cup own /\ sameScope(o)
               PROVE  LoadFromSpec(dep[p].tree, Nil) = dep[p].bundle
    BY DEF OfflineAgrees
  <2> DEFINE b == dep[p].bundle
             live == dep[p].live
  <2>1. Foreseen(b, live)
    <3>1. \A i \in DOMAIN b.manifests : b.manifests[i] \in ToSet(b.manifests)
      BY DEF ToSet
    <3> QED BY <3>1 DEF Foreseen
  <2>2. input \in Inputs /\ DepOK(dep[p], input, content, established) /\ dep[p].pc # "idle"
    BY DEF EInv, Prepared
  <2>3. Bundled(dep[p], input) /\ Seen(dep[p].live, content, established)
    BY <2>2, Busy
  <2>4. LoadExtras(dep[p].tree, input.env, input.declared, Nil) = dep[p].bundle
    BY <2>1, <2>2, <2>3, Offline
  <2> QED BY <2>4 DEF LoadFromSpec
<1> QED BY <1>1, EInvAlways, PTL

-----------------------------------------------------------------------------
(* What the release is made of.                                            *)

LEMMA MeantIs == \A t : Meant(t) = MeantOf(t, input.env, input.declared)
BY DEF Meant, MeantOf, DirOf, Docs

\* The reserved keys of an object are those of deployah.
LEMMA Owned ==
    ASSUME NEW labels, NEW env, NEW r, r = owned(labels, identityLabels(env, "manifests"))
    PROVE  /\ DOMAIN r \cap Reserved = {LabelProject, LabelEnvironment}
           /\ r[LabelEnvironment] = env /\ r[LabelProject] = Project
           /\ DOMAIN r \ Reserved = DOMAIN labels \ Reserved
<1> DEFINE ours == identityLabels(env, "manifests")
<1>1. DOMAIN ours = {LabelProject, LabelEnvironment} /\ ours[LabelProject] = Project
      /\ ours[LabelEnvironment] = env
  BY DEF identityLabels, LabelProject, LabelEnvironment
<1>2. {LabelProject, LabelEnvironment} \subseteq Reserved
  BY DEF Reserved
<1> HIDE DEF ours
<1>3. r = [k \in DOMAIN ours \cup (DOMAIN labels \ Reserved) |->
              IF k \in DOMAIN ours THEN ours[k] ELSE labels[k]]
  BY DEF owned, ours
<1>4. DOMAIN r = DOMAIN ours \cup (DOMAIN labels \ Reserved)
      /\ \A k \in DOMAIN ours : r[k] = ours[k]
  BY <1>3
<1> QED BY <1>1, <1>2, <1>4

LEMMA OwnedNotes ==
    ASSUME NEW notes, NEW r, r = owned(notes, identityNotes("manifests"))
    PROVE  DOMAIN r \cap Reserved = {LabelProject, AnnotationSource}
<1> DEFINE ours == identityNotes("manifests")
<1>1. DOMAIN ours = {LabelProject, AnnotationSource}
  BY DEF identityNotes
<1>2. {LabelProject, AnnotationSource} \subseteq Reserved
  BY DEF Reserved
<1> HIDE DEF ours
<1>3. DOMAIN r = DOMAIN ours \cup (DOMAIN notes \ Reserved)
  BY DEF owned, ours
<1> QED BY <1>1, <1>2, <1>3

LEMMA Marked ==
    ASSUME NEW x \in Inputs, NEW d, Bundled(d, x), NEW o \in ToSet(d.bundle.manifests)
    PROVE  /\ DOMAIN o.labels \cap Reserved = {LabelProject, LabelEnvironment}
           /\ o.labels[LabelEnvironment] = K8sSafe[x.env]
           /\ o.labels[LabelProject] = Project
           /\ DOMAIN o.notes \cap Reserved = {LabelProject, AnnotationSource}
           /\ \E f \in MeantOf(d.tree, x.env, x.declared) :
                 f.name = o.name /\ DOMAIN f.labels \ Reserved = DOMAIN o.labels \ Reserved
<1> DEFINE e == x.env
           m == RawManifests(d.tree, e, x.declared)
           c == RawCrds(d.tree)
           b == d.bundle
           live == d.live
           meant == MeantOf(d.tree, e, x.declared)
<1>1. b = LoadDocs(m, c, e, live) /\ b # Nil /\ ToSet(m) = meant
  BY BundleFrom
<1>2. PICK i \in DOMAIN b.manifests : o = b.manifests[i]
  BY DEF ToSet
<1> HIDE DEF m, c, b, live, e, meant
<1>3. /\ DOMAIN b.manifests = DOMAIN m
      /\ \A k \in DOMAIN m :
            /\ b.manifests[k].name = m[k].name
            /\ b.manifests[k].labels
                 = owned(m[k].labels, identityLabels(K8sSafe[e], "manifests"))
            /\ b.manifests[k].notes = owned(m[k].notes, identityNotes("manifests"))
  BY <1>1, ObjectsOf
<1>4. /\ i \in DOMAIN m /\ o.name = m[i].name
      /\ o.labels = owned(m[i].labels, identityLabels(K8sSafe[e], "manifests"))
      /\ o.notes = owned(m[i].notes, identityNotes("manifests"))
  BY <1>2, <1>3
<1>5. /\ DOMAIN o.labels \cap Reserved = {LabelProject, LabelEnvironment}
      /\ o.labels[LabelEnvironment] = K8sSafe[e] /\ o.labels[LabelProject] = Project
      /\ DOMAIN o.labels \ Reserved = DOMAIN m[i].labels \ Reserved
  BY <1>4, Owned
<1>6. DOMAIN o.notes \cap Reserved = {LabelProject, AnnotationSource}
  BY <1>4, OwnedNotes
<1>7. m[i] \in meant
  BY <1>1, <1>4 DEF ToSet
<1> QED BY <1>4, <1>5, <1>6, <1>7 DEF e, meant

Apart(a, b) == \/ a.kind # b.kind \/ a.api # b.api \/ a.name # b.name
               \/ {a.ns, b.ns} = {Empty, ReleaseNs}

LEMMA IdentitiesApart ==
    ASSUME NEW a, NEW b, Identity(a) # Identity(b),
           a.ns \in {ReleaseNs, Empty}, b.ns \in {ReleaseNs, Empty}
    PROVE  Apart(a, b)
<1>1. a.api # b.api \/ a.kind # b.kind \/ a.ns # b.ns \/ a.name # b.name
  BY DEF Identity
<1>2. a.ns # b.ns => {a.ns, b.ns} = {Empty, ReleaseNs}
  OBVIOUS
<1> QED BY <1>1, <1>2 DEF Apart

\* Two lists without duplicates and without a common identity, one after the
\* other, have no duplicates.
LEMMA ConcatApart ==
    ASSUME NEW A, NEW B, NEW g \in Seq(A), NEW s \in Seq(B),
           checkDuplicateIdentities(g), checkDuplicateIdentities(s),
           \A i \in DOMAIN g, j \in DOMAIN s : Identity(g[i]) # Identity(s[j])
    PROVE  \A i, j \in DOMAIN (g \o s) : i # j => Identity((g \o s)[i]) # Identity((g \o s)[j])
<1> SUFFICES ASSUME NEW i \in DOMAIN (g \o s), NEW j \in DOMAIN (g \o s), i # j
             PROVE  Identity((g \o s)[i]) # Identity((g \o s)[j])
  OBVIOUS
<1> DEFINE K == Len(g)
           L == Len(s)
           f == g \o s
<1>1. K \in Nat /\ L \in Nat /\ DOMAIN g = 1 .. K /\ DOMAIN s = 1 .. L
  OBVIOUS
<1>2. DOMAIN f = 1 .. K + L
      /\ \A k \in 1 .. K + L : f[k] = IF k <= K THEN g[k] ELSE s[k - K]
  OBVIOUS
<1>3. i \in 1 .. K + L /\ j \in 1 .. K + L
  BY <1>2
<1> HIDE DEF K, L, f
<1>4. \A k \in 1 .. K + L : (k <= K => k \in DOMAIN g /\ f[k] = g[k])
                           /\ (~ (k <= K) => k - K \in DOMAIN s /\ f[k] = s[k - K])
  BY <1>1, <1>2
<1>5. Identity(f[i]) # Identity(f[j])
  <2>1. CASE i <= K /\ j <= K
    BY <1>3, <1>4, <2>1 DEF checkDuplicateIdentities
  <2>2. CASE i <= K /\ ~ (j <= K)
    BY <1>3, <1>4, <2>2
  <2>3. CASE ~ (i <= K) /\ j <= K
    BY <1>3, <1>4, <2>3
  <2>4. CASE ~ (i <= K) /\ ~ (j <= K)
    <3>1. i - K # j - K
      BY <1>1, <1>3
    <3> QED BY <1>3, <1>4, <2>4, <3>1 DEF checkDuplicateIdentities
  <2> QED BY <2>1, <2>2, <2>3, <2>4
<1> QED BY <1>5 DEF f

LEMMA ManifestsList ==
    ASSUME NEW S, NEW m \in Seq(S), NEW c, NEW e, NEW live, NEW b,
           b = LoadDocs(m, c, e, live), b # Nil
    PROVE  b.manifests \in Seq(ToSet(b.manifests))
<1> DEFINE ms == [i \in DOMAIN m |-> Manifest(m, c, e, live, i)]
           cs == [i \in DOMAIN c |-> CrdObject(c[i])]
<1>1. b = [manifests |-> ms, crds |-> cs]
  BY DEF LoadDocs, withCRDScope, Manifest, CrdObject
<1>2. b.manifests = ms
  <2> HIDE DEF ms, cs
  <2> QED BY <1>1
<1>3. Len(m) \in Nat /\ DOMAIN m = 1 .. Len(m)
  OBVIOUS
<1>4. DOMAIN ms = 1 .. Len(m) /\ ms = [i \in 1 .. Len(m) |-> ms[i]]
  BY <1>3
<1> HIDE DEF ms
<1>5. \A i \in 1 .. Len(m) : ms[i] \in ToSet(ms)
  BY <1>4 DEF ToSet
<1>6. ms \in Seq(ToSet(ms))
  BY <1>3, <1>4, <1>5
<1> QED BY <1>2, <1>6

LEMMA Once ==
    ASSUME NEW x \in Inputs, NEW d, Bundled(d, x)
    PROVE  LET g == x.generated
               ms == d.bundle.manifests
           IN  /\ PostRender(g, ms) = g \o ms
               /\ \A i, j \in DOMAIN (g \o ms) : i # j => Apart((g \o ms)[i], (g \o ms)[j])
               /\ {<<o.kind, o.name>> : o \in ToSet(ms)}
                    = {<<o.kind, o.name>> : o \in MeantOf(d.tree, x.env, x.declared)}
<1> DEFINE e == x.env
           m == RawManifests(d.tree, e, x.declared)
           c == RawCrds(d.tree)
           b == d.bundle
           live == d.live
           meant == MeantOf(d.tree, e, x.declared)
           g == x.generated
           ms == b.manifests
<1>1. b = LoadDocs(m, c, e, live) /\ b # Nil /\ m \in Seq(meant) /\ ToSet(m) = meant
  BY BundleFrom
<1>2. g \in Seq(ToSet(g)) /\ checkDuplicateIdentities(g)
  BY InputsAssumption DEF IsSeq
<1>3. \A i \in DOMAIN g : g[i].ns \in {ReleaseNs, Empty}
  BY InputsAssumption DEF Empty
<1>4. PostRender(g, ms) # Nil
  BY DEF Bundled
<1> HIDE DEF m, c, b, live, e, meant, g
<1>5. PostRender(g, ms) = g \o ms
      /\ \A i \in DOMAIN g, j \in DOMAIN ms : Identity(g[i]) # Identity(ms[j])
  <2> HIDE DEF ms
  <2> QED BY <1>4 DEF PostRender
<1>6. ms \in Seq(ToSet(ms))
  BY <1>1, ManifestsList
<1>7. checkDuplicateIdentities(ms)
  BY <1>1, DocsLoaded
<1>8. /\ DOMAIN ms = DOMAIN m
      /\ \A k \in DOMAIN m : ms[k].kind = m[k].kind /\ ms[k].name = m[k].name
                             /\ ms[k].ns \in {ReleaseNs, Empty}
  BY <1>1, ObjectsOf
<1> HIDE DEF ms
<1>9. \A i, j \in DOMAIN (g \o ms) : i # j => Apart((g \o ms)[i], (g \o ms)[j])
  <2> DEFINE f == g \o ms
             A == ToSet(g)
             B == ToSet(ms)
  <2>1. g \in Seq(A) /\ ms \in Seq(B)
    BY <1>2, <1>6
  <2>2. ToSet(f) = A \cup B
    <3> HIDE DEF A, B
    <3>1. ToSet(f) = ToSet(g) \cup ToSet(ms)
      <4> DEFINE C == A \cup B
      <4>1. g \in Seq(C) /\ ms \in Seq(C)
        BY <2>1
      <4> HIDE DEF C
      <4> QED BY <4>1, ConcatElements
    <3> QED BY <3>1 DEF A, B
  <2>3. \A i \in DOMAIN f : f[i] \in A \cup B
    <3>1. \A i \in DOMAIN f : f[i] \in ToSet(f)
      BY DEF ToSet
    <3> QED BY <2>2, <3>1
  <2>4. \A o \in A \cup B : o.ns \in {ReleaseNs, Empty}
    BY <1>3, <1>8 DEF ToSet
  <2>5. \A i, j \in DOMAIN f : i # j => Identity(f[i]) # Identity(f[j])
    <3> HIDE DEF A, B
    <3> QED BY <1>2, <1>5, <1>7, <2>1, ConcatApart
  <2> HIDE DEF f, A, B
  <2>6. \A i, j \in DOMAIN f : i # j => Apart(f[i], f[j])
    BY <2>3, <2>4, <2>5, IdentitiesApart
  <2> QED BY <2>6 DEF f
<1>10. {<<o.kind, o.name>> : o \in ToSet(ms)} = {<<o.kind, o.name>> : o \in ToSet(m)}
  BY <1>8 DEF ToSet
<1> QED BY <1>1, <1>5, <1>9, <1>10 DEF g, ms, b, meant, e

\* The release of a deploy is the chart's objects and the documents that are
\* meant for its environment, each once, marked as this project's and this
\* environment's, for any files, labels and namespaces.
THEOREM BundleAlwaysAsMeant == Spec => []BundleAsMeant
<1>1. EInv => BundleAsMeant
  <2> SUFFICES ASSUME EInv PROVE EachObjectOnce /\ MarkedAsOwn
    BY DEF BundleAsMeant
  <2>1. ASSUME NEW p \in Clis, Prepared(p)
        PROVE  input \in Inputs /\ Bundled(dep[p], input)
    <3>1. DepOK(dep[p], input, content, established) /\ dep[p].pc # "idle"
      BY <2>1 DEF EInv, Prepared
    <3> QED BY <3>1, Busy DEF EInv
  <2>2. EachObjectOnce
    <3> SUFFICES ASSUME NEW p \in Clis, Prepared(p)
                 PROVE  LET stream == PostRender(input.generated, dep[p].bundle.manifests)
                            objects == input.generated \o dep[p].bundle.manifests
                        IN  /\ stream = objects
                            /\ \A i, j \in DOMAIN stream :
                                  i # j => stream[i].kind # stream[j].kind
                                           \/ stream[i].api # stream[j].api
                                           \/ stream[i].name # stream[j].name
                                           \/ {stream[i].ns, stream[j].ns} = {"", ReleaseNs}
                            /\ {<<o.kind, o.name>> : o \in ToSet(dep[p].bundle.manifests)}
                                 = {<<o.kind, o.name>> : o \in Meant(dep[p].tree)}
      BY DEF EachObjectOnce
    <3> DEFINE g == input.generated
               ms == dep[p].bundle.manifests
               meant == MeantOf(dep[p].tree, input.env, input.declared)
    <3>1. /\ PostRender(g, ms) = g \o ms
          /\ \A i, j \in DOMAIN (g \o ms) : i # j => Apart((g \o ms)[i], (g \o ms)[j])
          /\ {<<o.kind, o.name>> : o \in ToSet(ms)} = {<<o.kind, o.name>> : o \in meant}
      BY <2>1, Once
    <3>2. Meant(dep[p].tree) = meant
      BY MeantIs
    <3> HIDE DEF g, ms, meant
    <3>3. \A i, j \in DOMAIN PostRender(g, ms) : i # j =>
             Apart(PostRender(g, ms)[i], PostRender(g, ms)[j])
      BY <3>1
    <3> QED BY <3>1, <3>2, <3>3 DEF Apart, Empty, g, ms
  <2>3. MarkedAsOwn
    BY <2>1, Marked, MeantIs DEF MarkedAsOwn
  <2> QED BY <2>2, <2>3
<1> QED BY <1>1, EInvAlways, PTL
=============================================================================
