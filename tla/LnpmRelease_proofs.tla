------------------------ MODULE LnpmRelease_proofs -------------------------
(***************************************************************************)
(* Proofs about what is released: the files a publish packs (LnpmPack),    *)
(* for any tree of any depth, any lists that "files" and the ignore files  *)
(* may be, and whatever cannot be read; and the binary that an update puts *)
(* in place (LnpmUpdate), for any number of updates at once.               *)
(*                                                                         *)
(* What is said of every prefix of a path, or of every segment of a        *)
(* pattern, is proved by the least number it could fail for.               *)
(***************************************************************************)
EXTENDS LnpmPack, LnpmUpdate, WellFoundedInduction, TLAPS

-----------------------------------------------------------------------------
(* Numbers.                                                                *)

LEMMA Least ==
  ASSUME NEW T, T \subseteq Nat, T # {}
  PROVE  \E x \in T : \A y \in T : x <= y
<1> DEFINE R == OpToRel(<, Nat)
<1>1. IsWellFoundedOn(R, Nat)
  BY NatLessThanWellFounded
<1>2. \A x, y \in Nat : y < x => <<y, x>> \in R
  BY DEF OpToRel
<1> HIDE DEF R
<1>3. PICK x \in T : \A y \in T : ~(<<y, x>> \in R)
  BY <1>1, WFMin
<1>4. \A y \in T : ~(y < x)
  BY <1>2, <1>3
<1> QED
  BY <1>3, <1>4

LEMMA Largest ==
  ASSUME NEW n \in Nat, NEW T, T \subseteq 1 .. n, T # {}
  PROVE  Max(T) \in T
<1> DEFINE Bounds == {m \in Nat : \A x \in T : x <= m}
<1>1. n \in Bounds
  OBVIOUS
<1>2. PICK b \in Bounds : \A m \in Bounds : b <= m
  BY <1>1, Least
<1>3. b \in Nat /\ \A x \in T : x <= b
  OBVIOUS
<1>4. b # 0
  <2>1. PICK x \in T : TRUE
    OBVIOUS
  <2> QED
    BY <1>3, <2>1
<1>5. b - 1 \notin Bounds
  BY <1>2, <1>3
<1>6. \E x \in T : ~(x <= b - 1)
  BY <1>3, <1>4, <1>5
<1>7. b \in T
  BY <1>3, <1>4, <1>6
<1>8. \E x \in T : \A y \in T : x >= y
  BY <1>3, <1>7
<1> QED
  BY <1>8 DEF Max

(* A chain of verdicts, each made of the one before: there is one.         *)
Chained(S, n, seed, step, c) ==
    /\ c \in [0 .. n - 1 -> S]
    /\ \A k \in 0 .. n - 1 : c[k] = step[k][IF k = 0 THEN seed ELSE c[k - 1]]

LEMMA ChainExists ==
  ASSUME NEW S, NEW n \in Nat, NEW seed \in S, NEW step \in [Nat -> [S -> S]]
  PROVE  \E c : Chained(S, n, seed, step, c)
<1> USE DEF Chained
<1> DEFINE Follows(m, c) == Chained(S, m, seed, step, c)
<1> DEFINE T == {m \in Nat : ~\E c : Follows(m, c)}
<1>1. T = {}
  <2> SUFFICES ASSUME T # {} PROVE FALSE
    OBVIOUS
  <2>0. T \subseteq Nat
    OBVIOUS
  <2>1. PICK m \in T : \A y \in T : m <= y
    <3> HIDE DEF T
    <3> QED
      BY <2>0, Least
  <2>2. Follows(0, [k \in 0 .. 0 - 1 |-> seed])
    OBVIOUS
  <2>3. m \in Nat /\ m # 0
    BY <2>2
  <2>4. PICK c : Follows(m - 1, c)
    <3>1. m - 1 \in Nat /\ ~(m <= m - 1)
      BY <2>3
    <3>2. m - 1 \notin T
      <4> HIDE DEF T
      <4> QED
        BY <2>1, <3>1
    <3> QED
      BY <3>1, <3>2
  <2> DEFINE before == IF m - 1 = 0 THEN seed ELSE c[m - 2]
  <2> DEFINE last == step[m - 1][before]
  <2>5. before \in S
    BY <2>3, <2>4
  <2>6. last \in S
    BY <2>3, <2>5
  <2> DEFINE d == [k \in 0 .. m - 1 |-> IF k = m - 1 THEN last ELSE c[k]]
  <2>7. \A k \in 0 .. m - 1 : k # m - 1 => k \in 0 .. (m - 1) - 1
    BY <2>3
  <2>8. d \in [0 .. m - 1 -> S]
    BY <2>4, <2>6, <2>7
  <2>9. \A k \in 0 .. m - 1 : d[k] = step[k][IF k = 0 THEN seed ELSE d[k - 1]]
    <3> SUFFICES ASSUME NEW k \in 0 .. m - 1
                 PROVE  d[k] = step[k][IF k = 0 THEN seed ELSE d[k - 1]]
      OBVIOUS
    <3>1. k # 0 => k - 1 \in 0 .. m - 1 /\ d[k - 1] = c[k - 1]
      BY <2>3
    <3>2. CASE k = m - 1
      BY <2>3, <3>1, <3>2
    <3>3. CASE k # m - 1
      BY <2>3, <2>4, <2>7, <3>1, <3>3
    <3> QED
      BY <3>2, <3>3
  <2>10. Follows(m, d)
    BY <2>8, <2>9
  <2> QED
    BY <2>1, <2>10
<1> QED
  BY <1>1

-----------------------------------------------------------------------------
(* Paths.                                                                  *)

LEMMA Cut ==
  ASSUME NEW S, NEW p \in Seq(S), NEW k \in 0 .. Len(p)
  PROVE  /\ SubSeq(p, 1, k) \in Seq(S) /\ Len(SubSeq(p, 1, k)) = k
         /\ \A i \in 1 .. k : SubSeq(p, 1, k)[i] = p[i]
         /\ \A m \in 0 .. k : SubSeq(SubSeq(p, 1, k), 1, m) = SubSeq(p, 1, m)
         /\ \A j \in 1 .. k : SubSeq(SubSeq(p, 1, k), j, k) = SubSeq(p, j, k)
         /\ SubSeq(p, 1, Len(p)) = p
  OBVIOUS

(* Two paths of one length and with the same segments are the same.        *)
LEMMA SameSegments ==
  ASSUME NEW S, NEW p \in Seq(S), NEW q \in Seq(S), Len(p) = Len(q),
         \A i \in 1 .. Len(p) : p[i] = q[i]
  PROVE  p = q
  OBVIOUS

LEMMA UnderIsCut ==
  ASSUME NEW S, NEW p \in Seq(S), NEW d \in Seq(S)
  PROVE  /\ Under(p, d) <=> Len(d) < Len(p) /\ d = SubSeq(p, 1, Len(d))
         /\ IsPrefix(d, p) <=> Len(d) <= Len(p) /\ d = SubSeq(p, 1, Len(d))
<1>1. SubSeq(d, 1, Len(d)) = d /\ SubSeq(p, 1, Len(p)) = p
  OBVIOUS
<1>2. IsPrefix(d, p) <=> Len(d) <= Len(p) /\ d = SubSeq(p, 1, Len(d))
  BY <1>1 DEF IsPrefix
<1>3. Len(d) = Len(p) /\ d = SubSeq(p, 1, Len(d)) => d = p
  BY <1>1
<1> QED
  BY <1>2, <1>3 DEF Under, IsStrictPrefix

LEMMA AncestorIs ==
  ASSUME NEW S, NEW p \in Seq(S)
  PROVE  /\ \A k \in 1 .. Len(p) : SubSeq(p, 1, k) \in Ancestors(p) \cup {p}
         /\ \A q \in Ancestors(p) : \E k \in 1 .. Len(p) - 1 : q = SubSeq(p, 1, k)
         /\ \A q \in Ancestors(p) \cup {p} : p # <<>> => \E k \in 1 .. Len(p) : q = SubSeq(p, 1, k)
<1>1. SubSeq(p, 1, Len(p)) = p /\ (p # <<>> => Len(p) \in 1 .. Len(p))
  OBVIOUS
<1>2. \A q : q \in Ancestors(p) <=> \E k \in 1 .. Len(p) - 1 : q = SubSeq(p, 1, k)
  BY DEF Ancestors
<1>3. ASSUME NEW k \in 1 .. Len(p)
      PROVE  SubSeq(p, 1, k) \in Ancestors(p) \cup {p}
  <2>1. CASE k = Len(p)
    BY <1>1, <2>1
  <2>2. CASE k # Len(p)
    <3>1. k \in 1 .. Len(p) - 1
      BY <2>2
    <3> QED
      BY <1>2, <3>1
  <2> QED
    BY <2>1, <2>2
<1>4. ASSUME NEW q \in Ancestors(p) \cup {p}, p # <<>>
      PROVE  \E k \in 1 .. Len(p) : q = SubSeq(p, 1, k)
  BY <1>1, <1>2, <1>4
<1> QED
  BY <1>2, <1>3, <1>4

(* What lies in directory d lies under what d lies under, and under d.     *)
LEMMA ChildAncestors ==
  ASSUME NEW S, NEW c \in Seq(S), c # <<>>
  PROVE  /\ Front(c) \in Seq(S) /\ Len(Front(c)) = Len(c) - 1
         /\ \A q \in Ancestors(c) : q = Front(c) \/ q \in Ancestors(Front(c))
<1>1. Front(c) = SubSeq(c, 1, Len(c) - 1) /\ Len(c) - 1 \in 0 .. Len(c)
  BY DEF Front
<1>2. Front(c) \in Seq(S) /\ Len(Front(c)) = Len(c) - 1
  <2> DEFINE k == Len(c) - 1
  <2>1. SubSeq(c, 1, k) \in Seq(S) /\ Len(SubSeq(c, 1, k)) = k
    BY <1>1, Cut
  <2> QED
    BY <1>1, <2>1
<1>3. ASSUME NEW q \in Ancestors(c), q # Front(c)
      PROVE  q \in Ancestors(Front(c))
  <2>1. PICK k \in 1 .. Len(c) - 1 : q = SubSeq(c, 1, k)
    BY AncestorIs
  <2>2. k # Len(c) - 1
    BY <1>1, <1>3, <2>1
  <2>3. k \in 1 .. Len(Front(c)) - 1
    BY <1>2, <2>2
  <2>4. SubSeq(Front(c), 1, k) = q
    BY <1>1, <2>1, <2>3, Cut
  <2> QED
    BY <2>3, <2>4 DEF Ancestors
<1> QED
  BY <1>2, <1>3

-----------------------------------------------------------------------------
(* Matching.                                                               *)

LEMMA MatchesSegment ==
  ASSUME NEW n, NEW x, n # "**"
  PROVE  Match(<<n>>, <<x>>) <=> SegmentMatches(n, x)
<1>1. ASSUME SegmentMatches(n, x)
      PROVE  Match(<<n>>, <<x>>)
  <2> DEFINE upto == [i \in 0 .. 1 |-> i]
  <2>1. upto \in [0 .. Len(<<n>>) -> 0 .. Len(<<x>>)]
    OBVIOUS
  <2>2. /\ upto[0] = 0 /\ upto[Len(<<n>>)] = Len(<<x>>)
        /\ \A i \in 1 .. Len(<<n>>) :
              IF <<n>>[i] = "**" THEN upto[i - 1] <= upto[i]
              ELSE upto[i] = upto[i - 1] + 1 /\ SegmentMatches(<<n>>[i], <<x>>[upto[i]])
    BY <1>1
  <2> HIDE DEF upto
  <2> QED
    BY <2>1, <2>2 DEF Match
<1>2. ASSUME Match(<<n>>, <<x>>)
      PROVE  SegmentMatches(n, x)
  <2>1. PICK upto \in [0 .. Len(<<n>>) -> 0 .. Len(<<x>>)] :
           /\ upto[0] = 0
           /\ \A i \in 1 .. Len(<<n>>) :
                 IF <<n>>[i] = "**" THEN upto[i - 1] <= upto[i]
                 ELSE upto[i] = upto[i - 1] + 1 /\ SegmentMatches(<<n>>[i], <<x>>[upto[i]])
    BY <1>2 DEF Match
  <2>2. Len(<<n>>) = 1 /\ <<n>>[1] = n /\ <<x>>[1] = x
    OBVIOUS
  <2>3. upto[1] = upto[0] + 1 /\ SegmentMatches(<<n>>[1], <<x>>[upto[1]])
    BY <2>1, <2>2
  <2> QED
    BY <2>1, <2>2, <2>3
<1> QED
  BY <1>1, <1>2

LEMMA Names ==
  /\ Lower \in [Name -> Name]
  /\ \A n \in ReservedTrees \cup ReservedFiles \cup DefaultNames : n # "**"
  BY PackAssumption DEF ReservedTrees, ReservedFiles, DefaultNames

LEMMA FoldIs ==
  ASSUME NEW p \in Seq(Name), p # <<>>
  PROVE  /\ Fold(p) \in Seq(Name) /\ Len(Fold(p)) = Len(p)
         /\ Last(Fold(p)) = Lower[p[Len(p)]]
  BY Names DEF Fold, Last

(* A name of a list excludes whatever is so called.                        *)
LEMMA ListedIsExcluded ==
  ASSUME NEW p \in Seq(Name), p # <<>>, NEW n, n # "**",
         NEW patterns, <<n>> \in patterns,
         SegmentMatches(n, Lower[p[Len(p)]])
  PROVE  isExcludedBy(Fold(p), patterns)
<1>1. Match(<<n>>, <<Last(Fold(p))>>)
  BY FoldIs, MatchesSegment
<1>2. IgnoreMatch(Line(<<n>>), Fold(p))
  BY <1>1 DEF IgnoreMatch, Line
<1> QED
  BY <1>2 DEF isExcludedBy

LEMMA ReservedName ==
  ASSUME NEW p \in Seq(Name), p # <<>>, NEW n \in ReservedTrees \cup ReservedFiles,
         SegmentMatches(n, Lower[p[Len(p)]])
  PROVE  isHardReserved(p)
<1> DEFINE patterns == {<<m>> : m \in ReservedTrees \cup ReservedFiles}
                         \cup {<<m, "**">> : m \in ReservedTrees}
<1>1. <<n>> \in patterns
  OBVIOUS
<1>2. n # "**"
  BY Names
<1> HIDE DEF patterns
<1>3. isExcludedBy(Fold(p), patterns)
  BY <1>1, <1>2, ListedIsExcluded
<1> QED
  BY <1>3 DEF isHardReserved, patterns

LEMMA DefaultName ==
  ASSUME NEW p \in Seq(Name), p # <<>>, NEW n \in DefaultNames,
         SegmentMatches(n, Lower[p[Len(p)]])
  PROVE  isDefaultExcluded(p)
<1> DEFINE patterns == {<<m>> : m \in DefaultNames}
<1>1. <<n>> \in patterns
  OBVIOUS
<1>2. n # "**"
  BY Names
<1> HIDE DEF patterns
<1>3. isExcludedBy(Fold(p), patterns)
  BY <1>1, <1>2, ListedIsExcluded
<1> QED
  BY <1>3 DEF isDefaultExcluded, patterns

(* Nothing that the git filter takes out was left for it.                  *)
LEMMA GitIsReserved ==
  ASSUME NEW p \in Seq(Name), p # <<>>, isGitRelatedPath(p)
  PROVE  \E q \in Ancestors(p) \cup {p} : isHardReserved(q)
<1>1. \E k \in 1 .. Len(p) : Lower[p[k]] \in {".git", ".gitignore", ".gitattributes", ".gitmodules"}
  BY DEF isGitRelatedPath, Last
<1>2. PICK k \in 1 .. Len(p) :
          Lower[p[k]] \in {".git", ".gitignore", ".gitattributes", ".gitmodules"}
  BY <1>1
<1> DEFINE q == SubSeq(p, 1, k)
<1>3. q \in Seq(Name) /\ Len(q) = k /\ q[Len(q)] = p[k]
  BY Cut
<1>4. q # <<>>
  BY <1>3
<1>5. Lower[p[k]] \in ReservedTrees \cup ReservedFiles
  BY <1>2 DEF ReservedTrees, ReservedFiles
<1>6. isHardReserved(q)
  BY <1>3, <1>4, <1>5, ReservedName DEF SegmentMatches
<1> QED
  BY <1>6, AncestorIs

-----------------------------------------------------------------------------
(* The ignore files.                                                       *)

(* The package is as it was found.                                         *)
Known ==
    /\ \E s \in Source : pkg.tree = s.tree /\ pkg.lines = s.lines
    /\ pkg.files \in FilesField

LEMMA LoadedLines ==
  ASSUME Known, NEW d
  PROVE  loadIgnorePatterns(d) \in Seq(PatternLine)
<1>1. \A p \in DOMAIN pkg.lines : pkg.lines[p] \in Seq(PatternLine)
  BY PackAssumption DEF Known
<1>2. \A p : readIgnoreFile(p) \in Seq(PatternLine)
  BY <1>1 DEF readIgnoreFile
<1> QED
  BY <1>2 DEF loadIgnorePatterns

(* A verdict is one of the two, and "published after all" comes of a line  *)
(* with a "!".                                                             *)
LEMMA ApplyIs ==
  ASSUME NEW lines \in Seq(PatternLine), NEW path, NEW excluded \in BOOLEAN
  PROVE  /\ applyIgnorePatterns(path, lines, excluded) \in BOOLEAN
         /\ excluded /\ ~applyIgnorePatterns(path, lines, excluded) =>
               \E l \in ToSet(lines) : l.neg /\ IgnoreMatch(l, path)
<1> DEFINE hits == {i \in 1 .. Len(lines) : IgnoreMatch(lines[i], path)}
<1> DEFINE hit == IF hits # {} THEN Max(hits) ELSE 0
<1>1. applyIgnorePatterns(path, lines, excluded) = IF hit = 0 THEN excluded ELSE ~lines[hit].neg
  BY DEF applyIgnorePatterns, SelectLastInSeq
<1>2. hits \subseteq 1 .. Len(lines) /\ Len(lines) \in Nat
  OBVIOUS
<1>3. hit # 0 => hit \in hits
  <2> HIDE DEF hits
  <2> QED
    BY <1>2, Largest
<1>4. hit # 0 => /\ lines[hit] \in PatternLine /\ lines[hit].neg \in BOOLEAN
                 /\ lines[hit] \in ToSet(lines) /\ IgnoreMatch(lines[hit], path)
  <2> SUFFICES ASSUME hit # 0
               PROVE  /\ lines[hit] \in PatternLine /\ lines[hit].neg \in BOOLEAN
                      /\ lines[hit] \in ToSet(lines) /\ IgnoreMatch(lines[hit], path)
    OBVIOUS
  <2> HIDE DEF hit
  <2>1. hit \in 1 .. Len(lines) /\ IgnoreMatch(lines[hit], path)
    BY <1>3
  <2>2. lines[hit] \in PatternLine
    BY <2>1
  <2>3. lines[hit].neg \in BOOLEAN
    BY <2>2 DEF PatternLine
  <2>4. lines[hit] \in ToSet(lines)
    BY <2>1 DEF ToSet
  <2> QED
    BY <2>1, <2>2, <2>3, <2>4
<1> HIDE DEF hit
<1> QED
  BY <1>1, <1>4

(* What the chain says, one ignore file after the other.                   *)
ChainOf(p, c) ==
    /\ c \in [0 .. Len(p) - 1 -> BOOLEAN]
    /\ c[0] = applyIgnorePatterns(SubSeq(p, 1, Len(p)), loadIgnorePatterns(SubSeq(p, 1, 0)),
                                  isDefaultExcluded(p))
    /\ \A k \in 1 .. Len(p) - 1 :
          c[k] = applyIgnorePatterns(SubSeq(p, k + 1, Len(p)), loadIgnorePatterns(SubSeq(p, 1, k)),
                                     c[k - 1])
    /\ chainVerdict(p, scopes(p)) = c[Len(p) - 1]

LEMMA ChainIs ==
  ASSUME Known, NEW p \in Seq(Name), p # <<>>
  PROVE  \E c : ChainOf(p, c)
<1> DEFINE n == Len(p)
<1> DEFINE Says(k, b) == applyIgnorePatterns(SubSeq(p, k + 1, n), loadIgnorePatterns(SubSeq(p, 1, k)), b)
<1> DEFINE seed == isDefaultExcluded(p)
<1> DEFINE step == [k \in Nat |-> [b \in BOOLEAN |-> Says(k, b)]]
<1> DEFINE Chain(c) == c = [k \in 0 .. n - 1 |-> Says(k, IF k = 0 THEN seed ELSE c[k - 1])]
<1>1. n \in Nat /\ n # 0
  OBVIOUS
<1>2. seed \in BOOLEAN
  BY DEF isDefaultExcluded, isExcludedBy
<1>3. \A k, b : b \in BOOLEAN => Says(k, b) \in BOOLEAN
  BY LoadedLines, ApplyIs
<1>4. chainVerdict(p, scopes(p)) = (CHOOSE c : Chain(c))[n - 1]
  BY DEF chainVerdict, scopes
<1> HIDE DEF n, Says, seed
<1>5. step \in [Nat -> [BOOLEAN -> BOOLEAN]]
  BY <1>3
<1>6. \E c \in [0 .. n - 1 -> BOOLEAN] :
          \A k \in 0 .. n - 1 : c[k] = step[k][IF k = 0 THEN seed ELSE c[k - 1]]
  <2> DEFINE S == BOOLEAN
  <2>1. n \in Nat /\ seed \in S /\ step \in [Nat -> [S -> S]]
    BY <1>1, <1>2, <1>5
  <2> HIDE DEF step, S
  <2>2. \E c : Chained(S, n, seed, step, c)
    BY <2>1, ChainExists
  <2> QED
    BY <2>2 DEF Chained, S
<1>7. PICK d \in [0 .. n - 1 -> BOOLEAN] :
          \A k \in 0 .. n - 1 : d[k] = step[k][IF k = 0 THEN seed ELSE d[k - 1]]
  BY <1>6
<1>8. \A k \in 0 .. n - 1 : d[k] = Says(k, IF k = 0 THEN seed ELSE d[k - 1])
  <2> SUFFICES ASSUME NEW k \in 0 .. n - 1
               PROVE  d[k] = Says(k, IF k = 0 THEN seed ELSE d[k - 1])
    OBVIOUS
  <2> DEFINE b == IF k = 0 THEN seed ELSE d[k - 1]
  <2>1. b \in BOOLEAN
    BY <1>1, <1>2
  <2>2. d[k] = step[k][b]
    BY <1>7
  <2>3. k \in Nat
    BY <1>1
  <2> HIDE DEF b
  <2>4. step[k][b] = Says(k, b)
    BY <2>1, <2>3
  <2> QED
    BY <2>2, <2>4 DEF b
<1>9. Chain(d)
  BY <1>8
<1> DEFINE c == CHOOSE c : Chain(c)
<1>10. Chain(c)
  BY <1>9
<1> HIDE DEF c
<1>11. /\ DOMAIN c = 0 .. n - 1
       /\ c[0] = Says(0, seed)
       /\ \A k \in 1 .. n - 1 : c[k] = Says(k, c[k - 1])
  BY <1>1, <1>10
<1>12. c = [k \in 0 .. n - 1 |-> c[k]]
  BY <1>10
<1>13. \A k \in 0 .. n - 1 : c[k] \in BOOLEAN
  <2> DEFINE T == {k \in 0 .. n - 1 : c[k] \notin BOOLEAN}
  <2> SUFFICES ASSUME T # {} PROVE FALSE
    OBVIOUS
  <2>1. T \subseteq Nat
    BY <1>1
  <2>2. PICK k \in T : \A j \in T : k <= j
    <3> HIDE DEF T
    <3> QED
      BY <2>1, Least
  <2>3. k # 0
    BY <1>2, <1>3, <1>11
  <2>4. k \in 1 .. n - 1 /\ k - 1 \in 0 .. n - 1 /\ ~(k <= k - 1)
    BY <1>1, <2>3
  <2>5. c[k - 1] \in BOOLEAN
    BY <2>2, <2>4
  <2> QED
    BY <1>3, <1>11, <2>4, <2>5
<1>14. chainVerdict(p, scopes(p)) = c[n - 1]
  BY <1>4 DEF c
<1>15. c \in [0 .. n - 1 -> BOOLEAN]
  BY <1>12, <1>13
<1> QED
  BY <1>11, <1>14, <1>15 DEF ChainOf, n, Says, seed

(* A path that is excluded by default and by no chain has a "!" line.      *)
LEMMA OnlyByNegation ==
  ASSUME Known, NEW p \in Seq(Name), p # <<>>, isDefaultExcluded(p), ~excludes(p)
  PROVE  \E j \in 0 .. Len(p) - 1 :
            \E l \in ToSet(loadIgnorePatterns(SubSeq(p, 1, j))) :
               l.neg /\ IgnoreMatch(l, SubSeq(p, j + 1, Len(p)))
<1>1. PICK c : ChainOf(p, c)
  BY ChainIs
<1>2. ~c[Len(p) - 1]
  BY <1>1 DEF ChainOf, excludes
<1> DEFINE T == {k \in 0 .. Len(p) - 1 : ~c[k]}
<1>3. T \subseteq Nat /\ Len(p) - 1 \in T
  BY <1>2
<1>4. PICK j \in T : \A k \in T : j <= k
  <2> HIDE DEF T
  <2> QED
    BY <1>3, Least
<1> DEFINE lines == loadIgnorePatterns(SubSeq(p, 1, j))
<1>5. j \in 0 .. Len(p) - 1 /\ ~c[j]
  OBVIOUS
<1>6. lines \in Seq(PatternLine)
  BY LoadedLines
<1>7. \E b \in BOOLEAN : b /\ c[j] = applyIgnorePatterns(SubSeq(p, j + 1, Len(p)), lines, b)
  <2>1. CASE j = 0
    BY <1>1, <2>1 DEF ChainOf
  <2>2. CASE j # 0
    <3>1. j \in 1 .. Len(p) - 1 /\ j - 1 \in 0 .. Len(p) - 1 /\ ~(j <= j - 1)
      BY <1>5, <2>2
    <3>2. j - 1 \notin T
      BY <1>4, <3>1
    <3>3. c[j - 1] \in BOOLEAN /\ c[j - 1]
      BY <1>1, <3>1, <3>2 DEF ChainOf
    <3> QED
      BY <1>1, <3>1, <3>3 DEF ChainOf
  <2> QED
    BY <2>1, <2>2
<1>8. \E l \in ToSet(lines) : l.neg /\ IgnoreMatch(l, SubSeq(p, j + 1, Len(p)))
  BY <1>5, <1>6, <1>7, ApplyIs
<1> QED
  BY <1>5, <1>8

(* A file of the root is judged by the list and the root's ignore file.    *)
LEMMA ExcludesInRoot ==
  ASSUME Known, NEW p \in Seq(Name), Len(p) = 1
  PROVE  excludes(p) <=> applyIgnorePatterns(p, loadIgnorePatterns(Root), isDefaultExcluded(p))
<1>1. PICK c : ChainOf(p, c)
  BY ChainIs
<1>2. SubSeq(p, 1, 1) = p /\ SubSeq(p, 1, 0) = Root /\ Len(p) - 1 = 0
  BY DEF Root
<1>3. Ancestors(p) = {}
  BY DEF Ancestors
<1>4. chainVerdict(p, scopes(p)) = applyIgnorePatterns(p, loadIgnorePatterns(Root), isDefaultExcluded(p))
  BY <1>1, <1>2 DEF ChainOf
<1> QED
  BY <1>3, <1>4 DEF excludes

-----------------------------------------------------------------------------
(* The "files" of package.json: an entry that selects a path may reach     *)
(* every directory the path lies in.                                       *)

LEMMA EntriesType ==
  ASSUME Known
  PROVE  \A e \in Entries : e.segs \in Seq(STRING) /\ e.slash \in BOOLEAN
<1>1. pkg.files \in Seq(FilesEntry)
  BY PackAssumption DEF Known
<1>2. \A e \in ToSet(pkg.files) : e \in FilesEntry
  BY <1>1 DEF ToSet
<1>3. \A e \in FilesEntry : normalizeFilesEntry(e) \in FilesEntry
  BY DEF normalizeFilesEntry, FilesEntry
<1>4. \A e \in Entries : e \in FilesEntry
  BY <1>2, <1>3 DEF Entries
<1> QED
  BY <1>4 DEF FilesEntry

(* As long as a pattern has no "**" it takes one segment for one.          *)
LEMMA MatchReaches ==
  ASSUME NEW segs \in Seq(STRING), NEW p \in Seq(Name),
         NEW m \in 0 .. Len(p), NEW k \in 0 .. Len(p),
         Match(segs, SubSeq(p, 1, m))
  PROVE  segmentsReach(segs, SubSeq(p, 1, k))
<1> DEFINE q == SubSeq(p, 1, m)
<1> DEFINE d == SubSeq(p, 1, k)
<1>1. /\ Len(q) = m /\ \A i \in 1 .. m : q[i] = p[i]
      /\ Len(d) = k /\ \A i \in 1 .. k : d[i] = p[i]
  BY Cut
<1>2. PICK upto \in [0 .. Len(segs) -> 0 .. m] :
         /\ upto[0] = 0
         /\ \A i \in 1 .. Len(segs) :
               IF segs[i] = "**" THEN upto[i - 1] <= upto[i]
               ELSE upto[i] = upto[i - 1] + 1 /\ SegmentMatches(segs[i], q[upto[i]])
  BY <1>1 DEF Match
<1> HIDE DEF q, d
<1> SUFFICES ASSUME NEW i \in 1 .. k, i <= Len(segs), \A j \in 1 .. i : segs[j] # "**"
             PROVE  SegmentMatches(segs[i], d[i])
  BY <1>1 DEF segmentsReach, d
<1>3. \A j \in 0 .. i : upto[j] = j
  <2> DEFINE T == {j \in 0 .. i : upto[j] # j}
  <2> SUFFICES ASSUME T # {} PROVE FALSE
    OBVIOUS
  <2>1. T \subseteq Nat
    OBVIOUS
  <2>2. PICK j \in T : \A h \in T : j <= h
    <3> HIDE DEF T
    <3> QED
      BY <2>1, Least
  <2>3. j \in 1 .. i /\ j - 1 \in 0 .. i /\ ~(j <= j - 1)
    BY <1>2
  <2>4. upto[j - 1] = j - 1
    BY <2>2, <2>3
  <2>5. upto[j] = upto[j - 1] + 1
    BY <1>2, <2>3
  <2> QED
    BY <2>3, <2>4, <2>5
<1>4. upto[i] = i /\ i \in 1 .. Len(segs) /\ upto[i] \in 0 .. m
  BY <1>2, <1>3
<1>5. SegmentMatches(segs[i], q[i]) /\ i \in 1 .. m
  BY <1>2, <1>4
<1> QED
  BY <1>1, <1>5

LEMMA PrefixReaches ==
  ASSUME NEW segs \in Seq(STRING), NEW p \in Seq(Name), NEW k \in 0 .. Len(p),
         NEW m \in 0 .. Len(p), m <= Len(segs), \A i \in 1 .. m : segs[i] = p[i],
         m = Len(segs) \/ (m + 1 = Len(segs) /\ segs[Len(segs)] = "**")
  PROVE  segmentsReach(segs, SubSeq(p, 1, k))
<1> DEFINE d == SubSeq(p, 1, k)
<1>1. Len(d) = k /\ \A i \in 1 .. k : d[i] = p[i]
  BY Cut
<1> HIDE DEF d
<1>2. ASSUME NEW i \in 1 .. k, i <= Len(segs), \A j \in 1 .. i : segs[j] # "**"
      PROVE  SegmentMatches(segs[i], d[i])
  <2>1. i \in 1 .. m
    BY <1>2
  <2> QED
    BY <1>1, <2>1 DEF SegmentMatches
<1> QED
  BY <1>1, <1>2 DEF segmentsReach, d

LEMMA SelectedIsReached ==
  ASSUME Known, NEW p \in Seq(Name), p # <<>>, NEW k \in 1 .. Len(p), isIncluded(p)
  PROVE  filesFieldMayReach(SubSeq(p, 1, k))
<1>1. PICK e \in Entries : MatchDirect(e, p) \/ MatchContains(e, p)
  BY DEF isIncluded
<1>2. e.segs \in Seq(STRING) /\ e.slash \in BOOLEAN
  BY EntriesType
<1> DEFINE segs == e.segs
<1>3. SubSeq(p, 1, Len(p)) = p /\ Len(p) \in 0 .. Len(p) /\ k \in 0 .. Len(p)
  OBVIOUS
<1>4. ASSUME segs # <<>>, ~e.slash
      PROVE  segmentsReach(segs, SubSeq(p, 1, k))
  <2>1. CASE p = segs
    BY <1>2, <1>3, <2>1, PrefixReaches
  <2>2. CASE \E q \in Ancestors(p) \cup {p} : Match(segs, q)
    <3>1. PICK m \in 1 .. Len(p) : Match(segs, SubSeq(p, 1, m))
      BY <2>2, AncestorIs
    <3> QED
      BY <1>2, <1>3, <3>1, MatchReaches
  <2>3. CASE Under(p, segs)
    <3>1. Len(segs) < Len(p) /\ segs = SubSeq(p, 1, Len(segs))
      BY <1>2, <2>3 DEF Under, IsStrictPrefix, IsPrefix
    <3>2. \A i \in 1 .. Len(segs) : segs[i] = p[i]
      BY <1>2, <3>1, Cut
    <3> QED
      BY <1>2, <1>3, <3>1, <3>2, PrefixReaches
  <2>4. CASE Len(segs) > 1 /\ Last(segs) = "**" /\ IsPrefix(Front(segs), p)
    <3> DEFINE m == Len(segs) - 1
    <3>1. Front(segs) = SubSeq(segs, 1, m) /\ m \in 0 .. Len(segs) /\ segs[Len(segs)] = "**"
      BY <1>2, <2>4 DEF Front, Last
    <3>2. /\ Front(segs) \in Seq(STRING) /\ Len(Front(segs)) = m
          /\ \A i \in 1 .. m : Front(segs)[i] = segs[i]
      BY <1>2, <3>1, Cut
    <3>3. m <= Len(p) /\ Front(segs) = SubSeq(p, 1, m)
      BY <2>4, <3>2 DEF IsPrefix
    <3>4. \A i \in 1 .. m : segs[i] = p[i]
      BY <3>1, <3>2, <3>3, Cut
    <3>5. m \in 0 .. Len(p) /\ m <= Len(segs) /\ m + 1 = Len(segs)
      BY <1>2, <3>1, <3>3
    <3> HIDE DEF m
    <3> QED
      BY <1>2, <1>3, <3>1, <3>4, <3>5, PrefixReaches
  <2> QED
    BY <1>1, <1>4, <2>1, <2>2, <2>3, <2>4 DEF MatchDirect, MatchContains
<1>5. segs = <<>> \/ ~e.slash
  BY <1>1 DEF MatchDirect, MatchContains
<1> QED
  BY <1>4, <1>5 DEF filesFieldMayReach

-----------------------------------------------------------------------------
(* The package stays as it is while it is packed.                          *)

LEMMA Stable ==
  ASSUME pkg' = pkg
  PROVE  /\ Files' = Files /\ Published' = Published
         /\ \A p : Pruned(p)' <=> Pruned(p)
         /\ \A p : Selected(p)' <=> Selected(p)
<1>1. (Whitelist' <=> Whitelist) /\ Files' = Files
  BY DEF Whitelist, Files
<1>2. \A p : loadIgnorePatterns(p)' = loadIgnorePatterns(p)
  BY DEF loadIgnorePatterns, readIgnoreFile
<1>3. \A p : scopes(p)' = scopes(p)
  BY <1>2 DEF scopes
<1>4. \A p : excludes(p)' <=> excludes(p)
  BY <1>2, <1>3 DEF excludes
<1>5. \A p : Pruned(p)' <=> Pruned(p)
  BY <1>1, <1>4 DEF Pruned
<1>6. Entries' = Entries
  BY DEF Entries
<1>7. \A p : (isIncluded(p)' <=> isIncluded(p)) /\ (isIncludedDirectly(p)' <=> isIncludedDirectly(p))
  BY <1>6 DEF isIncluded, isIncludedDirectly
<1>8. \A p : Selected(p)' <=> Selected(p)
  BY <1>1, <1>4, <1>7 DEF Selected
<1>9. \A p : p \in Published' <=> p \in Published
  BY <1>1, <1>4, <1>8 DEF Published
<1>10. Published' = Published
  BY <1>9
<1> QED
  BY <1>1, <1>5, <1>8, <1>10

-----------------------------------------------------------------------------
(* The walk.                                                               *)

(* What the tree holds.                                                    *)
LEMMA TreeIs ==
  ASSUME Known, NEW p \in DOMAIN pkg.tree
  PROVE  /\ p \in Seq(Name) /\ p # <<>> /\ p # Root /\ Kind(p) = pkg.tree[p]
         /\ pkg.tree[p] \in {"dir", "file", "link"}
         /\ \A d \in Ancestors(p) : d \in DOMAIN pkg.tree /\ pkg.tree[d] = "dir"
  BY PackAssumption DEF Known, Root, Kind

LEMMA FileIs ==
  ASSUME Known, NEW p \in Files
  PROVE  /\ p \in DOMAIN pkg.tree /\ pkg.tree[p] = "file" /\ p \in Seq(Name) /\ p # <<>>
         /\ \A d \in Ancestors(p) : d \in DOMAIN pkg.tree /\ pkg.tree[d] = "dir" /\ d # p
  BY TreeIs DEF Files

(* What a directory is skipped for holds nothing to publish: for the lists *)
(* and the ignore files, as they are asked of every directory a file lies  *)
(* in; for "files", as no entry selects anything there.                    *)
LEMMA NothingBelow ==
  ASSUME Known, NEW p \in Files, NEW d \in Ancestors(p) \cup {p}, Len(p) > 1,
         unreadableDirIsExcluded(d)
  PROVE  p \notin Published
<1>1. p \in Seq(Name) /\ p # <<>>
  BY FileIs
<1>2. p # Manifest /\ ~isDefaultInclude(p)
  <2>1. \A n \in Nat : n > 1 => n # 1
    OBVIOUS
  <2>2. Len(p) \in Nat
    BY <1>1
  <2>3. Len(p) # 1
    BY <2>1, <2>2
  <2>4. Len(Manifest) = 1
    BY DEF Manifest
  <2> QED
    BY <2>3, <2>4 DEF isDefaultInclude
<1>3. CASE isHardReserved(d)
  BY <1>3 DEF Published
<1>4. CASE ~Whitelist /\ excludes(d)
  BY <1>2, <1>4 DEF Published
<1>5. CASE Whitelist /\ ~IsPrefix(d, mainEntryPath(pkg.main)) /\ ~filesFieldMayReach(d)
  <2>1. PICK k \in 1 .. Len(p) : d = SubSeq(p, 1, k)
    BY <1>1, AncestorIs
  <2>2. IsPrefix(d, p)
    <3>1. d \in Seq(Name) /\ Len(d) = k
      BY <1>1, <2>1, Cut
    <3>2. Len(d) <= Len(p) /\ d = SubSeq(p, 1, Len(d))
      BY <1>1, <2>1, <3>1
    <3> QED
      BY <1>1, <3>1, <3>2, UnderIsCut
  <2>3. p # mainEntryPath(pkg.main)
    BY <1>5, <2>2
  <2>4. ~isIncluded(p)
    BY <1>1, <1>5, <2>1, SelectedIsReached
  <2> QED
    BY <1>2, <1>5, <2>3, <2>4 DEF Published, Selected
<1> QED
  BY <1>3, <1>4, <1>5 DEF unreadableDirIsExcluded

(* Whoever leads to p: p itself, the directories it lies in, the root.     *)
Leads(q, p) == q = Root \/ q \in Ancestors(p) \cup {p}

(* Nothing is entered or collected that the rules keep out, and what they  *)
(* publish is collected or still to be come to.                            *)
WalkInv ==
    /\ Known
    /\ phase \in {"reading", "walking", "hashing", "packed", "failed"}
    /\ todo \subseteq DOMAIN pkg.tree \cup {Root} /\ packed \subseteq Files
    /\ phase \in {"walking", "hashing", "packed"} =>
          Manifest \in DOMAIN pkg.tree /\ pkg.tree[Manifest] # "dir"
    /\ phase = "hashing" => todo = {}
    /\ phase = "packed" => Published \subseteq packed /\ Manifest \in packed
    /\ \A p \in todo \cup packed : \A q \in Ancestors(p) : ~isHardReserved(q) /\ ~Pruned(q)
    /\ \A p \in packed : ~isHardReserved(p) /\ ~Pruned(p) /\ Selected(p)
    /\ phase \in {"walking", "hashing"} =>
          \A p \in Published : p \in packed \/ \E q \in todo : Leads(q, p)

LEMMA WalkInit == Init => WalkInv
<1> SUFFICES ASSUME Init PROVE WalkInv
  OBVIOUS
<1>1. PICK s \in Source, f \in FilesField : \E m, x, y :
         pkg = [tree |-> s.tree, lines |-> s.lines, files |-> f, main |-> m,
                unread |-> x, unstat |-> y]
  BY DEF Init
<1>2. Known
  BY <1>1 DEF Known
<1>3. todo = {} /\ packed = {} /\ phase = "reading"
  BY DEF Init
<1> QED
  BY <1>2, <1>3 DEF WalkInv

(* A step that leaves the package alone keeps what is said of it.          *)
LEMMA Unwalked ==
  ASSUME WalkInv, pkg' = pkg, NEW t, t \subseteq todo,
         todo' = todo \ t, packed' = packed, phase' = phase,
         phase = "walking" =>
            \A q \in t, p \in Published : Leads(q, p) => p \in packed \/ \E r \in todo \ t : Leads(r, p)
  PROVE  WalkInv'
<1>1. Known'
  BY DEF WalkInv, Known
<1>2. /\ Files' = Files /\ Published' = Published
      /\ (\A p : Pruned(p)' <=> Pruned(p)) /\ (\A p : Selected(p)' <=> Selected(p))
  BY Stable
<1>3. phase = "hashing" => t = {}
  BY DEF WalkInv
<1>4. ASSUME phase \in {"walking", "hashing"}, NEW p \in Published, p \notin packed
      PROVE  \E q \in todo' : Leads(q, p)
  <2>1. PICK q \in todo : Leads(q, p)
    BY <1>4 DEF WalkInv
  <2> QED
    BY <1>3, <1>4, <2>1
<1> QED
  BY <1>1, <1>2, <1>3, <1>4 DEF WalkInv

LEMMA ReadStep ==
  ASSUME WalkInv, ReadManifest
  PROVE  WalkInv'
<1>1. pkg' = pkg /\ packed' = packed
  BY DEF ReadManifest, Fail
<1>2. Known'
  BY <1>1 DEF WalkInv, Known
<1>3. /\ Files' = Files /\ Published' = Published
      /\ (\A p : Pruned(p)' <=> Pruned(p)) /\ (\A p : Selected(p)' <=> Selected(p))
  BY <1>1, Stable
<1>4. CASE phase' = "failed"
  <2>1. todo' = todo
    BY <1>4 DEF ReadManifest, Fail
  <2> QED
    BY <1>1, <1>2, <1>3, <1>4, <2>1 DEF WalkInv
<1>5. CASE phase' = "walking"
  <2>1. todo' = {Root} /\ Manifest \in DOMAIN pkg.tree /\ Kind(Manifest) # "dir"
    BY <1>5 DEF ReadManifest, Fail
  <2>2. Ancestors(Root) = {}
    BY DEF Ancestors, Root
  <2>3. Kind(Manifest) = pkg.tree[Manifest]
    BY <2>1, TreeIs DEF WalkInv
  <2> QED
    BY <1>1, <1>2, <1>3, <1>5, <2>1, <2>2, <2>3 DEF WalkInv, Leads
<1> QED
  BY <1>4, <1>5 DEF ReadManifest, Fail

(* Nothing published is where the walk may not stand.                      *)
LEMMA LeadsIs ==
  ASSUME WalkInv, NEW p \in Published, NEW q \in todo, q # Root, Leads(q, p)
  PROVE  /\ p \in Files /\ q \in DOMAIN pkg.tree /\ q \in Ancestors(p) \cup {p}
         /\ ~isHardReserved(q)
         /\ q # p => pkg.tree[q] = "dir"
<1>1. p \in Files /\ ~isHardReserved(q) /\ q \in Ancestors(p) \cup {p}
  BY DEF Published, Leads
<1> QED
  BY <1>1, FileIs DEF WalkInv

LEMMA SkipStep ==
  ASSUME WalkInv, SkipUnreadable
  PROVE  WalkInv'
<1>1. /\ phase = "walking" /\ Here \in todo /\ unreadableDirIsExcluded(Here)
      /\ todo' = todo \ {Here} /\ pkg' = pkg /\ packed' = packed /\ phase' = phase
      /\ Here # Root
      /\ Len(Here) > 1 \/ (Kind(Here) = "dir" /\ Here \notin pkg.unstat)
  <2>1. Visiting /\ Broken /\ Answerable
    BY DEF SkipUnreadable
  <2>2. phase = "walking" /\ Here \in todo
    BY <2>1 DEF Visiting, Here
  <2>3. Len(Root) = 0
    BY DEF Root
  <2> QED
    BY <2>1, <2>2, <2>3 DEF SkipUnreadable, Broken, Answerable, Unlistable
<1>2. ASSUME NEW p \in Published, Leads(Here, p)
      PROVE  FALSE
  <2>1. p \in Files /\ Here \in DOMAIN pkg.tree /\ Here \in Ancestors(p) \cup {p}
    BY <1>1, <1>2, LeadsIs
  <2>2. p \in Seq(Name) /\ p # <<>> /\ pkg.tree[p] = "file"
    BY <2>1, FileIs DEF WalkInv
  <2>3. Len(p) > 1
    <3>1. CASE Here = p
      <4>1. Kind(Here) # "dir"
        BY <1>1, <2>1, <2>2, <3>1, TreeIs DEF WalkInv
      <4> QED
        BY <1>1, <3>1, <4>1
    <3>2. CASE Here \in Ancestors(p)
      BY <2>2, <3>2, AncestorIs
    <3> QED
      BY <2>1, <3>1, <3>2
  <2> QED
    BY <1>1, <2>1, <2>3, NothingBelow DEF WalkInv
<1> QED
  BY <1>1, <1>2, Unwalked

LEMMA PruneStep ==
  ASSUME WalkInv, Prune
  PROVE  WalkInv'
<1>1. /\ phase = "walking" /\ Here \in todo /\ Here # Root
      /\ Kind(Here) = "link" \/ isHardReserved(Here) \/ Pruned(Here)
      /\ todo' = todo \ {Here} /\ pkg' = pkg /\ packed' = packed /\ phase' = phase
  BY DEF Prune, Visiting, Here
<1>2. ASSUME NEW p \in Published, Leads(Here, p)
      PROVE  FALSE
  <2>1. /\ p \in Files /\ Here \in DOMAIN pkg.tree /\ Here \in Ancestors(p) \cup {p}
        /\ ~isHardReserved(Here) /\ (Here # p => pkg.tree[Here] = "dir")
    BY <1>1, <1>2, LeadsIs
  <2>2. Kind(Here) # "link"
    BY <2>1, TreeIs, FileIs DEF WalkInv
  <2>3. ~Whitelist /\ Here # Manifest /\ excludes(Here)
    BY <1>1, <2>1, <2>2 DEF Pruned
  <2>4. p = Manifest
    BY <2>1, <2>3 DEF Published
  <2>5. Ancestors(Manifest) = {}
    BY DEF Ancestors, Manifest
  <2> QED
    BY <2>1, <2>3, <2>4, <2>5
<1> QED
  BY <1>1, <1>2, Unwalked

LEMMA DescendStep ==
  ASSUME WalkInv, Descend
  PROVE  WalkInv'
<1> DEFINE d == Here
<1>1. /\ phase = "walking" /\ d \in todo /\ Kind(d) = "dir"
      /\ d # Root => ~isHardReserved(d) /\ ~Pruned(d)
      /\ todo' = (todo \ {d}) \cup Children(d) /\ pkg' = pkg /\ packed' = packed /\ phase' = phase
  BY DEF Descend, Visiting, Here
<1> HIDE DEF d
<1>2. /\ Files' = Files /\ Published' = Published
      /\ (\A p : Pruned(p)' <=> Pruned(p)) /\ (\A p : Selected(p)' <=> Selected(p))
  BY <1>1, Stable
<1>3. Children(d) \subseteq DOMAIN pkg.tree /\ \A c \in Children(d) : Front(c) = d
  BY DEF Children, Below
<1>4. d \in Seq(Name) /\ (d # Root => d \in DOMAIN pkg.tree)
  <2>1. Root \in Seq(Name)
    BY DEF Root
  <2> QED
    BY <1>1, <2>1, TreeIs DEF WalkInv
<1>5. ASSUME NEW c \in Children(d), NEW q \in Ancestors(c)
      PROVE  ~isHardReserved(q) /\ ~Pruned(q)
  <2>1. c \in Seq(Name) /\ c # <<>>
    BY <1>3, TreeIs DEF WalkInv
  <2>2. q = d \/ q \in Ancestors(d)
    BY <1>3, <1>5, <2>1, ChildAncestors
  <2>3. q # Root
    <3>1. PICK k \in 1 .. Len(c) - 1 : q = SubSeq(c, 1, k)
      BY <2>1, <1>5, AncestorIs
    <3>2. Len(q) = k /\ k # 0
      BY <2>1, <3>1, Cut
    <3> QED
      BY <3>2 DEF Root
  <2> QED
    BY <1>1, <2>2, <2>3 DEF WalkInv
<1>6. ASSUME NEW p \in Published, p \notin packed
      PROVE  \E q \in todo' : Leads(q, p)
  <2>1. PICK q \in todo : Leads(q, p)
    BY <1>1, <1>6 DEF WalkInv
  <2>2. CASE q # d
    BY <1>1, <2>1, <2>2
  <2>3. CASE q = d
    <3>1. p \in Files
      BY DEF Published
    <3>2. p \in Seq(Name) /\ p # <<>> /\ p \in DOMAIN pkg.tree /\ pkg.tree[p] = "file" /\ Kind(p) = "file"
      BY <3>1, FileIs, TreeIs DEF WalkInv
    <3>3. d = Root \/ d \in Ancestors(p)
      BY <1>1, <2>1, <2>3, <3>2 DEF Leads
    <3>4. PICK k \in 0 .. Len(p) - 1 : d = SubSeq(p, 1, k)
      <4>1. SubSeq(p, 1, 0) = Root /\ 0 \in 0 .. Len(p) - 1
        BY <3>2 DEF Root
      <4>2. d \in Ancestors(p) => \E k \in 1 .. Len(p) - 1 : d = SubSeq(p, 1, k)
        BY <3>2, AncestorIs
      <4>3. 1 .. Len(p) - 1 \subseteq 0 .. Len(p) - 1
        BY <3>2
      <4> QED
        BY <3>3, <4>1, <4>2, <4>3
    <3> DEFINE c == SubSeq(p, 1, k + 1)
    <3>5. k \in 0 .. Len(p) /\ k + 1 \in 1 .. Len(p) /\ k + 1 \in 0 .. Len(p)
      BY <3>2
    <3>6. Len(c) = k + 1 /\ \A m \in 0 .. k + 1 : SubSeq(c, 1, m) = SubSeq(p, 1, m)
      BY <3>2, <3>5, Cut
    <3>7. Front(c) = d
      BY <3>4, <3>5, <3>6 DEF Front
    <3>8. c \in Ancestors(p) \cup {p}
      BY <3>2, <3>5, AncestorIs
    <3>9. c \in DOMAIN pkg.tree
      BY <3>1, <3>2, <3>8, FileIs DEF WalkInv
    <3>10. c \in Children(d)
      BY <3>7, <3>9 DEF Children, Below
    <3> QED
      BY <1>1, <3>8, <3>10 DEF Leads
  <2> QED
    BY <2>2, <2>3
<1>7. Known'
  BY <1>1 DEF WalkInv, Known
<1> QED
  BY <1>1, <1>2, <1>3, <1>5, <1>6, <1>7 DEF WalkInv

LEMMA CollectStep ==
  ASSUME WalkInv, Collect
  PROVE  WalkInv'
<1> DEFINE f == Here
<1>1. /\ phase = "walking" /\ f \in todo /\ Kind(f) = "file"
      /\ ~isHardReserved(f) /\ ~Pruned(f)
      /\ packed' = IF Selected(f) THEN packed \cup {f} ELSE packed
      /\ todo' = todo \ {f} /\ pkg' = pkg /\ phase' = phase
  BY DEF Collect, Visiting, Here
<1> HIDE DEF f
<1>2. /\ Files' = Files /\ Published' = Published
      /\ (\A p : Pruned(p)' <=> Pruned(p)) /\ (\A p : Selected(p)' <=> Selected(p))
  BY <1>1, Stable
<1>3. f # Root /\ f \in DOMAIN pkg.tree /\ pkg.tree[f] = "file" /\ f \in Files
  BY <1>1 DEF WalkInv, Kind, Files
<1>4. ASSUME NEW p \in Published, Leads(f, p)
      PROVE  p \in packed'
  <2>1. f = p
    BY <1>1, <1>3, <1>4, LeadsIs
  <2> QED
    BY <1>1, <2>1 DEF Published
<1>5. ASSUME NEW p \in Published, p \notin packed'
      PROVE  \E q \in todo' : Leads(q, p)
  <2>1. p \notin packed
    BY <1>1, <1>5
  <2>2. PICK q \in todo : Leads(q, p)
    BY <1>1, <2>1 DEF WalkInv
  <2> QED
    BY <1>1, <1>4, <1>5, <2>2
<1>6. Known'
  BY <1>1 DEF WalkInv, Known
<1> QED
  BY <1>1, <1>2, <1>3, <1>5, <1>6 DEF WalkInv

LEMMA LastSteps ==
  ASSUME WalkInv, Abort \/ Walked \/ Finish
  PROVE  WalkInv'
<1>1. pkg' = pkg /\ todo' = todo
  BY DEF Abort, Walked, Finish, Fail
<1>2. /\ Files' = Files /\ Published' = Published
      /\ (\A p : Pruned(p)' <=> Pruned(p)) /\ (\A p : Selected(p)' <=> Selected(p))
  BY <1>1, Stable
<1>3. Known'
  BY <1>1 DEF WalkInv, Known
<1>4. CASE phase' = "failed" /\ packed' = packed
  BY <1>1, <1>2, <1>3, <1>4 DEF WalkInv
<1>5. CASE Walked
  BY <1>1, <1>2, <1>3, <1>5 DEF WalkInv, Walked
<1>6. CASE Finish /\ phase' = "packed"
  <2> DEFINE kept == {p \in packed : ~isGitRelatedPath(p)}
  <2>1. phase = "hashing" /\ packed' = kept /\ Manifest \in kept
    BY <1>6 DEF Finish, Fail
  <2>2. ASSUME NEW p \in Published
        PROVE  p \in kept
    <3>1. p \in packed
      BY <2>1 DEF WalkInv
    <3>2. ~isGitRelatedPath(p)
      <4>1. p \in Files /\ \A q \in Ancestors(p) \cup {p} : ~isHardReserved(q)
        BY DEF Published
      <4> QED
        BY <4>1, FileIs, GitIsReserved DEF WalkInv
    <3> QED
      BY <3>1, <3>2
  <2>3. kept \subseteq packed
    OBVIOUS
  <2> HIDE DEF kept
  <2>4. Published \subseteq kept
    BY <2>2
  <2> QED
    BY <1>1, <1>2, <1>3, <1>6, <2>1, <2>3, <2>4 DEF WalkInv
<1> QED
  BY <1>4, <1>5, <1>6 DEF Abort, Finish, Fail

LEMMA WalkIsInvariant == Spec => []WalkInv
<1>1. ASSUME WalkInv, [Next]_vars
      PROVE  WalkInv'
  <2>1. CASE UNCHANGED vars
    <3>1. pkg' = pkg /\ todo' = todo \ {} /\ packed' = packed /\ phase' = phase
      BY <2>1 DEF vars
    <3> QED
      BY <1>1, <3>1, Unwalked
  <2> QED
    BY <1>1, <2>1, ReadStep, SkipStep, PruneStep, DescendStep, CollectStep, LastSteps DEF Next
<1> QED
  BY WalkInit, <1>1, PTL DEF Spec

-----------------------------------------------------------------------------
(* What is published.                                                      *)

LEMMA PackedIsPublished ==
  ASSUME WalkInv, phase = "packed"
  PROVE  packed = Published /\ Manifest \in packed
<1>1. ASSUME NEW p \in packed
      PROVE  p \in Published
  <2>1. p \in Files /\ Selected(p) /\ ~isHardReserved(p) /\ ~Pruned(p)
    BY DEF WalkInv
  <2>2. \A q \in Ancestors(p) : ~isHardReserved(q) /\ ~Pruned(q)
    BY DEF WalkInv
  <2>3. \A q \in Ancestors(p) : q # Manifest
    BY <2>1, FileIs DEF WalkInv
  <2>4. p # Manifest /\ ~Whitelist => \A q \in Ancestors(p) \cup {p} : ~excludes(q)
    BY <2>1, <2>2, <2>3 DEF Pruned
  <2> QED
    BY <2>1, <2>2, <2>4 DEF Published
<1> QED
  BY <1>1 DEF WalkInv

(* collectFiles: a pack that succeeds has every file that the rules        *)
(* publish and no other, whatever the walk pruned, and whatever it skipped *)
(* because it could not be read.                                           *)
THEOREM PacksWhatTheRulesSay == Spec => []NothingIsLost
<1>1. WalkInv => NothingIsLost
  BY PackedIsPublished DEF NothingIsLost
<1> QED
  BY <1>1, WalkIsInvariant, PTL

(* isHardReserved: no segment of a published path, in any case, at any     *)
(* depth and by any route, is a name of the list with no override.         *)
THEOREM NeverReserved == Spec => []NothingReserved
<1>1. ASSUME WalkInv, phase = "packed", NEW p \in packed, NEW k \in 1 .. Len(p),
             NEW n \in ReservedTrees \cup ReservedFiles
      PROVE  ~SegmentMatches(n, Lower[p[k]])
  <2>1. p \in Seq(Name) /\ p # <<>>
    BY <1>1, FileIs DEF WalkInv
  <2> DEFINE q == SubSeq(p, 1, k)
  <2>2. q \in Seq(Name) /\ Len(q) = k /\ q[k] = p[k]
    BY <2>1, Cut
  <2>3. q # <<>>
    BY <2>2
  <2>4. ~isHardReserved(q)
    <3>1. q \in Ancestors(p) \cup {p}
      BY <2>1, AncestorIs
    <3> QED
      BY <1>1, <3>1 DEF WalkInv
  <2> QED
    BY <2>2, <2>3, <2>4, ReservedName
<1>2. WalkInv => NothingReserved
  BY <1>1 DEF NothingReserved
<1> QED
  BY <1>2, WalkIsInvariant, PTL

(* What an entry that selects a path directly says of it.                  *)
LEMMA DirectIsConsent ==
  ASSUME Known, NEW p, isIncludedDirectly(p)
  PROVE  \E e \in ToSet(pkg.files) :
            e.segs = p \/ (e.segs # <<>> /\ ~isBareWildcard(Last(e.segs)) /\ Match(e.segs, p))
<1>1. PICK e \in ToSet(pkg.files) : MatchDirect(normalizeFilesEntry(e), p)
  BY DEF isIncludedDirectly, Entries
<1>2. normalizeFilesEntry(e) = e \/ normalizeFilesEntry(e) = [e EXCEPT !.slash = FALSE]
  BY DEF normalizeFilesEntry
<1>3. normalizeFilesEntry(e).segs = e.segs
  <2>1. pkg.files \in Seq(FilesEntry)
    BY PackAssumption DEF Known
  <2>2. e \in FilesEntry
    BY <2>1 DEF ToSet
  <2> QED
    BY <1>2, <2>2 DEF FilesEntry
<1> QED
  BY <1>1, <1>3 DEF MatchDirect

(* isDefaultExcluded: a path with a segment that the default list names    *)
(* is published only if an entry of "files" says something of that very    *)
(* path, or a line with a "!" names it.                                    *)
THEOREM SecretsByConsent == Spec => []SecretsNeedConsent
<1>1. ASSUME WalkInv, phase = "packed", NEW p \in packed, NEW k \in 1 .. Len(p),
             NEW n \in DefaultNames, SegmentMatches(n, Lower[p[k]])
      PROVE  \/ \E e \in ToSet(pkg.files) :
                   e.segs = p \/ (e.segs # <<>> /\ ~isBareWildcard(Last(e.segs)) /\ Match(e.segs, p))
             \/ /\ ~Whitelist \/ Len(p) = 1
                /\ \E j \in 0 .. k - 1 :
                     \E l \in ToSet(loadIgnorePatterns(SubSeq(p, 1, j))) :
                       l.neg /\ IgnoreMatch(l, SubSeq(p, j + 1, k))
  <2>1. Known /\ p \in Files /\ p \in Published
    BY <1>1, PackedIsPublished DEF WalkInv
  <2>2. p \in Seq(Name) /\ p # <<>> /\ Len(p) \in Nat
    BY <2>1, FileIs
  <2> DEFINE q == SubSeq(p, 1, k)
  <2>3. /\ q \in Seq(Name) /\ Len(q) = k /\ q[k] = p[k]
        /\ \A m \in 0 .. k : SubSeq(q, 1, m) = SubSeq(p, 1, m)
        /\ \A j \in 1 .. k : SubSeq(q, j, k) = SubSeq(p, j, k)
    BY <2>2, Cut
  <2>4. q # <<>>
    BY <2>3
  <2>5. isDefaultExcluded(q)
    BY <1>1, <2>3, <2>4, DefaultName
  <2>6. q \in Ancestors(p) \cup {p}
    BY <2>2, AncestorIs
  <2> HIDE DEF q
  <2>7. ASSUME ~excludes(q)
        PROVE  \E j \in 0 .. k - 1 :
                  \E l \in ToSet(loadIgnorePatterns(SubSeq(p, 1, j))) :
                     l.neg /\ IgnoreMatch(l, SubSeq(p, j + 1, k))
    <3>1. PICK j \in 0 .. k - 1 :
             \E l \in ToSet(loadIgnorePatterns(SubSeq(q, 1, j))) :
                l.neg /\ IgnoreMatch(l, SubSeq(q, j + 1, k))
      BY <2>1, <2>3, <2>4, <2>5, <2>7, OnlyByNegation
    <3>2. SubSeq(q, 1, j) = SubSeq(p, 1, j) /\ SubSeq(q, j + 1, k) = SubSeq(p, j + 1, k)
      BY <2>3
    <3> QED
      BY <3>1, <3>2
  <2>8. p # Manifest
    <3> SUFFICES ASSUME p = Manifest PROVE FALSE
      OBVIOUS
    <3>1. k = 1 /\ p[k] = "package.json"
      BY DEF Manifest
    <3> QED
      BY <1>1, <3>1, PackAssumption
  <2>9. CASE ~Whitelist
    BY <2>1, <2>6, <2>7, <2>8, <2>9 DEF Published
  <2>10. CASE Whitelist
    <3>1. Selected(p)
      BY <2>1 DEF Published
    <3>2. defaultExcludedTree(p)
      BY <2>5, <2>6 DEF defaultExcludedTree
    <3>3. isIncludedDirectly(p) \/ (isDefaultInclude(p) /\ ~excludes(p))
      BY <2>8, <2>10, <3>1, <3>2 DEF Selected
    <3>4. CASE isIncludedDirectly(p)
      BY <2>1, <3>4, DirectIsConsent
    <3>5. CASE isDefaultInclude(p) /\ ~excludes(p)
      <4>1. Len(p) = 1
        BY <3>5 DEF isDefaultInclude
      <4>2. q = p
        BY <2>2, <4>1, Cut DEF q
      <4> QED
        BY <2>7, <3>5, <4>1, <4>2
    <3> QED
      BY <3>3, <3>4, <3>5
  <2> QED
    BY <2>9, <2>10
<1>2. WalkInv => SecretsNeedConsent
  BY <1>1 DEF SecretsNeedConsent
<1> QED
  BY <1>2, WalkIsInvariant, PTL

(* ExcludedByProjectRules: `lnpm check` and the pack agree on the files of *)
(* the root that the project's own rules decide about.                     *)
THEOREM CheckSaysWhatPackDoes == Spec => []CheckAgreesWithPack
<1>1. ASSUME WalkInv, phase = "packed", NEW p \in Files, Len(p) = 1,
             p \notin {Manifest, mainEntryPath(pkg.main)},
             ~isHardReserved(p), ~isDefaultExcluded(p)
      PROVE  ExcludedByProjectRules(p) <=> p \notin packed
  <2>1. Known /\ packed = Published
    BY <1>1, PackedIsPublished DEF WalkInv
  <2>2. p \in Seq(Name)
    BY <2>1, FileIs
  <2>3. Ancestors(p) = {}
    BY <1>1 DEF Ancestors
  <2> DEFINE said == applyIgnorePatterns(p, loadIgnorePatterns(Root), FALSE)
  <2>4. isDefaultExcluded(p) = FALSE
    BY <1>1 DEF isDefaultExcluded, isExcludedBy
  <2>5. excludes(p) <=> said
    BY <1>1, <2>1, <2>2, <2>4, ExcludesInRoot
  <2>6. ~defaultExcludedTree(p)
    BY <1>1, <2>3 DEF defaultExcludedTree
  <2>7. p \in Published <=> (~Whitelist => ~excludes(p)) /\ Selected(p)
    BY <1>1, <2>3 DEF Published
  <2>8. Selected(p) <=> ~Whitelist \/ isIncluded(p) \/ (isDefaultInclude(p) /\ ~excludes(p))
    BY <1>1, <2>6 DEF Selected
  <2> QED
    BY <2>1, <2>5, <2>7, <2>8 DEF ExcludedByProjectRules
<1>2. WalkInv => CheckAgreesWithPack
  BY <1>1 DEF CheckAgreesWithPack
<1> QED
  BY <1>2, WalkIsInvariant, PTL

-----------------------------------------------------------------------------
(* The replacement of the binary.                                          *)

Pcs == {"idle", "check", "download", "verify", "backup", "stage", "copy", "install",
        "restore", "cleanup"}

Updates == [pc : Pcs, running : Releases \cup {None}, force : BOOLEAN,
            latest : Releases \cup {None}, archive : Releases \cup {Foreign, None}]

Typed ==
    /\ staged \in [Updater -> Releases \cup {Foreign, Part, None}]
    /\ up \in [Updater -> Updates]

(* From the verification on, what update u carries is what it was after.   *)
Verified(u) ==
    /\ up[u].pc \in {"download", "verify"} => up[u].latest \in Releases
    /\ up[u].pc = "backup" \/ InSwap(u) =>
          up[u].latest \in Releases /\ up[u].archive = up[u].latest
    /\ up[u].pc = "install" => staged[u] = up[u].archive

Sound ==
    /\ Typed
    /\ bin \in Releases \cup {None} /\ bak \in Releases \cup {None}
    /\ \A u \in Updater : Verified(u)

(* Where the binary is while no two updates have met: at bin, except from  *)
(* a backup to what answers it, when it is the backup.                     *)
Swapping(u) == up[u].pc \in {"stage", "copy", "install", "restore"}

Placed ==
    ~crossed =>
        /\ \A u, v \in Updater : InSwap(u) /\ InSwap(v) => u = v
        /\ bin # None \/ bak # None
        /\ \A u \in Updater : Swapping(u) => bin = None
        /\ \A u \in Updater : up[u].pc = "cleanup" => bin # None
        /\ ~torn /\ (\A u \in Updater : ~InSwap(u)) => bin # None

LEMMA NoneIsNoRelease == None \notin Releases /\ Foreign \notin Releases /\ Part \notin Releases
  BY UpdateAssumption

LEMMA InitSound == UpdateInit => Sound /\ Placed
  BY NoneIsNoRelease DEF UpdateInit, Sound, Placed, Typed, Updates, Verified, Idle, Pcs, InSwap, Swapping

(* One step of one update.                                                 *)
LEMMA StepSound ==
  ASSUME Sound, UpdateNext
  PROVE  Sound'
<1> USE NoneIsNoRelease DEF Sound, Typed, Updates, Pcs, Idle, At, GoOn, End
<1>0. PICK u \in Updater :
        \/ Start(u) \/ RunUpdate(u) \/ downloadToFile(u) \/ verifyRelease(u) \/ GiveUp(u)
        \/ Backup(u) \/ CreateTemp(u) \/ Copy(u) \/ Install(u) \/ installFails(u)
        \/ Restore(u) \/ RestoreFails(u) \/ Cleanup(u) \/ Kill(u)
  BY DEF UpdateNext
<1>1. CASE Start(u)
  <2>1. PICK force \in BOOLEAN :
          up' = [up EXCEPT ![u] = [Idle EXCEPT !.pc = "check", !.running = bin, !.force = force]]
    BY <1>1 DEF Start
  <2> DEFINE r == [Idle EXCEPT !.pc = "check"]
  <2> DEFINE q == [r EXCEPT !.running = bin]
  <2>2. up' = [up EXCEPT ![u] = [q EXCEPT !.force = force]]
    BY <2>1
  <2>3. r \in Updates /\ r.pc = "check"
    OBVIOUS
  <2> HIDE DEF r
  <2>4. q \in Updates /\ q.pc = "check"
    BY <2>3
  <2> HIDE DEF q
  <2> QED
    BY <1>1, <2>2, <2>4 DEF Start, Verified, InSwap
<1>2. CASE RunUpdate(u)
  <2>1. PICK latest \in Releases :
          \/ up' = [up EXCEPT ![u] = [up[u] EXCEPT !.pc = "download", !.latest = latest]]
          \/ up' = [up EXCEPT ![u] = Idle]
    BY <1>2 DEF RunUpdate
  <2>2. CASE up' = [up EXCEPT ![u] = [up[u] EXCEPT !.pc = "download", !.latest = latest]]
    <3> DEFINE r == [up[u] EXCEPT !.pc = "download"]
    <3>1. up' = [up EXCEPT ![u] = [r EXCEPT !.latest = latest]]
      BY <2>2
    <3>2. r \in Updates
      OBVIOUS
    <3>3. r.pc = "download"
      OBVIOUS
    <3> HIDE DEF r
    <3> QED
      BY <1>2, <3>1, <3>2, <3>3 DEF RunUpdate, Verified, InSwap
  <2>3. CASE up' = [up EXCEPT ![u] = Idle]
    BY <1>2, <2>3 DEF RunUpdate, Verified, InSwap
  <2> QED
    BY <2>1, <2>2, <2>3
<1>3. CASE downloadToFile(u)
  <2>1. PICK a \in Releases \cup {Foreign} :
          up' = [up EXCEPT ![u] = [up[u] EXCEPT !.pc = "verify", !.archive = a]]
    BY <1>3 DEF downloadToFile
  <2> DEFINE r == [up[u] EXCEPT !.pc = "verify"]
  <2>2. up' = [up EXCEPT ![u] = [r EXCEPT !.archive = a]]
    BY <2>1
  <2>3. r \in Updates
    OBVIOUS
  <2>4. r.pc = "verify" /\ r.latest = up[u].latest
    OBVIOUS
  <2> HIDE DEF r
  <2> QED
    BY <1>3, <2>2, <2>3, <2>4 DEF downloadToFile, At, Verified, InSwap
<1>4. CASE verifyRelease(u)
  <2>1. \/ /\ up[u].archive = up[u].latest
           /\ up' = [up EXCEPT ![u] = [up[u] EXCEPT !.pc = "backup"]]
        \/ up' = [up EXCEPT ![u] = Idle]
    BY <1>4 DEF verifyRelease
  <2>2. CASE up' = [up EXCEPT ![u] = Idle]
    BY <1>4, <2>2 DEF verifyRelease, Verified, InSwap
  <2>3. CASE /\ up[u].archive = up[u].latest
             /\ up' = [up EXCEPT ![u] = [up[u] EXCEPT !.pc = "backup"]]
    BY <1>4, <2>3 DEF verifyRelease, Verified, InSwap
  <2> QED
    BY <2>1, <2>2, <2>3
<1>5. CASE GiveUp(u)
  BY <1>5 DEF GiveUp, Verified, InSwap
<1>6. CASE Backup(u)
  BY <1>6 DEF Backup, Verified, InSwap
<1>7. CASE CreateTemp(u)
  BY <1>7 DEF CreateTemp, Verified, InSwap
<1>8. CASE Copy(u)
  BY <1>8 DEF Copy, Verified, InSwap
<1>9. CASE Install(u)
  BY <1>9 DEF Install, Verified, InSwap
<1>10. CASE installFails(u)
  BY <1>10 DEF installFails, Verified, InSwap
<1>11. CASE Restore(u)
  BY <1>11 DEF Restore, Verified, InSwap
<1>12. CASE RestoreFails(u)
  BY <1>12 DEF RestoreFails, Verified, InSwap
<1>13. CASE Cleanup(u)
  BY <1>13 DEF Cleanup, Verified, InSwap
<1>14. CASE Kill(u)
  BY <1>14 DEF Kill, Verified, InSwap
<1> QED
  BY <1>0, <1>1, <1>2, <1>3, <1>4, <1>5, <1>6, <1>7, <1>8, <1>9, <1>10, <1>11, <1>12,
     <1>13, <1>14

LEMMA StepPlaced ==
  ASSUME Sound, Placed, UpdateNext
  PROVE  Placed'
<1> USE NoneIsNoRelease DEF Sound, Typed, Updates, Idle, At, GoOn, End, Placed, InSwap, Swapping
<1>0. PICK u \in Updater :
        \/ Start(u) \/ RunUpdate(u) \/ downloadToFile(u) \/ verifyRelease(u) \/ GiveUp(u)
        \/ Backup(u) \/ CreateTemp(u) \/ Copy(u) \/ Install(u) \/ installFails(u)
        \/ Restore(u) \/ RestoreFails(u) \/ Cleanup(u) \/ Kill(u)
  BY DEF UpdateNext
<1>1. CASE Start(u)
  BY <1>1 DEF Start, history
<1>2. CASE RunUpdate(u)
  BY <1>2 DEF RunUpdate, history
<1>3. CASE downloadToFile(u)
  BY <1>3 DEF downloadToFile, history
<1>4. CASE verifyRelease(u)
  <2>1. \/ up' = [up EXCEPT ![u] = [up[u] EXCEPT !.pc = "backup"]]
        \/ up' = [up EXCEPT ![u] = Idle]
    BY <1>4 DEF verifyRelease
  <2> QED
    BY <1>4, <2>1 DEF verifyRelease, history
<1>5. CASE GiveUp(u)
  BY <1>5 DEF GiveUp, history
<1>6. CASE Backup(u)
  BY <1>6 DEF Backup
<1>7. CASE CreateTemp(u)
  BY <1>7 DEF CreateTemp, history
<1>8. CASE Copy(u)
  BY <1>8 DEF Copy, history
<1>9. CASE Install(u)
  BY <1>9 DEF Install, Verified, history
<1>10. CASE installFails(u)
  BY <1>10 DEF installFails, history
<1>11. CASE Restore(u)
  BY <1>11 DEF Restore, history
<1>12. CASE RestoreFails(u)
  BY <1>12 DEF RestoreFails
<1>13. CASE Cleanup(u)
  BY <1>13 DEF Cleanup, history
<1>14. CASE Kill(u)
  BY <1>14 DEF Kill
<1> QED
  BY <1>0, <1>1, <1>2, <1>3, <1>4, <1>5, <1>6, <1>7, <1>8, <1>9, <1>10, <1>11, <1>12,
     <1>13, <1>14

LEMMA Invariance == UpdateSpec => [](Sound /\ Placed)
<1>1. Sound /\ Placed /\ [UpdateNext]_updateVars => Sound' /\ Placed'
  <2> SUFFICES ASSUME Sound, Placed, [UpdateNext]_updateVars
               PROVE  Sound' /\ Placed'
    OBVIOUS
  <2>1. CASE UpdateNext
    BY <2>1, StepSound, StepPlaced
  <2>2. CASE UNCHANGED updateVars
    BY <2>2 DEF updateVars, history, Sound, Typed, Verified, InSwap, Placed, Swapping
  <2> QED
    BY <2>1, <2>2
<1> QED
  BY InitSound, <1>1, PTL DEF UpdateSpec

(* verifyRelease: whatever the server sends, and however updates overlap   *)
(* and end, what users run is a binary of a release, the one installed.    *)
THEOREM Genuine == UpdateSpec => []OnlyReleasesRun
<1>1. Sound => OnlyReleasesRun
  BY DEF Sound, OnlyReleasesRun, Verified
<1> QED
  BY <1>1, Invariance, PTL

(* replaceBinary: unless two updates swap at once, a binary is at bin or   *)
(* at bin.bak at every moment, and at bin once every update has returned.  *)
THEOREM Kept == UpdateSpec => []BinaryKept
<1>1. Placed => BinaryKept
  BY DEF Placed, BinaryKept
<1> QED
  BY <1>1, Invariance, PTL
=============================================================================
