------------------------- MODULE ModuleLoaderProofs -------------------------
(***************************************************************************)
(* Proofs that the module loaders of ModuleLoader choose and type files   *)
(* as spec 4.1 says, on every file tree: the core loader wherever no      *)
(* inference is needed, the legacy loader on every extensionless import   *)
(* as long as no directory carries an extension.                          *)
(***************************************************************************)
EXTENDS ModuleLoader, SequenceTheorems, TLAPS

(* The candidate lists of the reference are concatenations of tuples. *)
LEMMA ConcatOne ==
  ASSUME NEW p
  PROVE  << >> \o << p >> = << p >>
<1>1. << p >> \in Seq({p})
  OBVIOUS
<1>2. QED
  BY <1>1, ConcatEmptySeq

LEMMA ConcatTwoOne ==
  ASSUME NEW a, NEW b, NEW c
  PROVE  << a, b >> \o << c >> = << a, b, c >>
<1> DEFINE S == {a, b, c}
<1>1. << a, b >> \in Seq(S) /\ << c >> \in Seq(S) /\ << a, b, c >> \in Seq(S)
  OBVIOUS
<1>2. /\ << a, b >> \o << c >> \in Seq(S)
      /\ Len(<< a, b >> \o << c >>) = 3
      /\ \A i \in 1 .. 3 : (<< a, b >> \o << c >>)[i] =
                             IF i <= 2 THEN << a, b >>[i] ELSE << c >>[i - 2]
  BY <1>1, ConcatProperties
<1>3. \A i \in 1 .. 3 : (<< a, b >> \o << c >>)[i] = << a, b, c >>[i]
  BY <1>2
<1>4. QED
  BY <1>1, <1>2, <1>3, SeqEqual

LEMMA ConcatTwoTwo ==
  ASSUME NEW a, NEW b, NEW c, NEW d
  PROVE  << a, b >> \o << c, d >> = << a, b, c, d >>
<1> DEFINE S == {a, b, c, d}
<1>1. << a, b >> \in Seq(S) /\ << c, d >> \in Seq(S) /\ << a, b, c, d >> \in Seq(S)
  OBVIOUS
<1>2. /\ << a, b >> \o << c, d >> \in Seq(S)
      /\ Len(<< a, b >> \o << c, d >>) = 4
      /\ \A i \in 1 .. 4 : (<< a, b >> \o << c, d >>)[i] =
                             IF i <= 2 THEN << a, b >>[i] ELSE << c, d >>[i - 2]
  BY <1>1, ConcatProperties
<1>3. \A i \in 1 .. 4 : (<< a, b >> \o << c, d >>)[i] = << a, b, c, d >>[i]
  BY <1>2
<1>4. QED
  BY <1>1, <1>2, <1>3, SeqEqual

(* The match of load and the table of spec 4.1 give every media type the
   same module type and transpile flag. *)
LEMMA KindsAgree ==
  ASSUME NEW mt
  PROVE  ModuleKind(mt) = SpecKind(mt)
BY DEF ModuleKind, SpecKind, Unsupported

(* The reference reads the first candidate that is a file. *)
LEMMA SpecLoadFileFirst ==
  ASSUME NEW p, NEW k \in 1 .. Len(SpecCandidates(p)),
         IsFile(SpecCandidates(p)[k]),
         \A i \in 1 .. k - 1 : ~IsFile(SpecCandidates(p)[i])
  PROVE  SpecLoadFile(p) =
           IF SpecKind(MediaOf(SpecCandidates(p)[k])) = Unsupported THEN Fail
           ELSE Loaded(SpecCandidates(p)[k], SpecKind(MediaOf(SpecCandidates(p)[k])))
<1> DEFINE C == SpecCandidates(p)
           found == {i \in 1 .. Len(C) : IsFile(C[i])}
           first == CHOOSE i \in found : \A j \in found : i <= j
<1>1. k \in found /\ \A j \in found : k <= j
  OBVIOUS
<1>2. first \in found /\ \A j \in found : first <= j
  BY <1>1
<1>3. first = k
  BY <1>1, <1>2
<1>4. QED
  BY <1>1, <1>3 DEF SpecLoadFile

(* With no candidate a file, the reference fails. *)
LEMMA SpecLoadFileNone ==
  ASSUME NEW p, \A i \in 1 .. Len(SpecCandidates(p)) : ~IsFile(SpecCandidates(p)[i])
  PROVE  SpecLoadFile(p) = Fail
BY DEF SpecLoadFile

(* A file: specifier is one of the load paths. *)
LEMMA FileSpecifier ==
  ASSUME NEW s \in Specifiers, s.scheme = "file"
  PROVE  \E p \in LoadPaths : s = FileSpec(p)
<1>1. OtherSpec.scheme = "data"
  BY DEF OtherSpec
<1>2. \A h \in HttpSpecs : h.scheme = "https"
  BY DEF HttpSpecs
<1>3. QED
  BY <1>1, <1>2 DEF Specifiers

(* A path with an extension that is not a directory is its own only
   candidate. *)
LEMMA OwnCandidate ==
  ASSUME NEW p, Ext(p) # "", ~IsDir(p)
  PROVE  SpecCandidates(p) = << p >>
<1>1. (IF Ext(p) = "" THEN << WithExt(p, "ts"), WithExt(p, "js") >> ELSE << >>) = << >>
  OBVIOUS
<1>2. (IF IsDir(p) THEN << Join(p, Seg("index", "ts")), Join(p, Seg("index", "js")) >>
       ELSE << p >>) = << p >>
  OBVIOUS
<1>3. QED
  BY <1>1, <1>2, ConcatOne DEF SpecCandidates

(* A path that is its own only candidate is read by the reference as load
   reads it. *)
LEMMA CoreFileAgrees ==
  ASSUME NEW p, SpecCandidates(p) = << p >>
  PROVE  LoadFile(p) = SpecLoadFile(p)
<1>1. CASE IsFile(p)
  <2>1. 1 \in 1 .. Len(SpecCandidates(p)) /\ SpecCandidates(p)[1] = p
    OBVIOUS
  <2>2. \A i \in 1 .. 1 - 1 : ~IsFile(SpecCandidates(p)[i])
    OBVIOUS
  <2>3. SpecLoadFile(p) = IF SpecKind(MediaOf(p)) = Unsupported THEN Fail
                          ELSE Loaded(p, SpecKind(MediaOf(p)))
    BY <1>1, <2>1, <2>2, SpecLoadFileFirst
  <2>4. QED
    BY <1>1, <2>3, KindsAgree DEF LoadFile
<1>2. CASE ~IsFile(p)
  <2>1. \A i \in 1 .. Len(SpecCandidates(p)) : SpecCandidates(p)[i] = p
    OBVIOUS
  <2>2. SpecLoadFile(p) = Fail
    BY <1>2, <2>1, SpecLoadFileNone
  <2>3. QED
    BY <1>2, <2>2 DEF LoadFile
<1>3. QED
  BY <1>1, <1>2

(* Core agreement holds of every file tree. *)
LEMMA CoreAgreesValid == CoreAgreesWithoutInference
<1> SUFFICES ASSUME NEW s \in Specifiers,
                    s.scheme # "file" \/ (Ext(s.path) # "" /\ ~IsDir(s.path))
             PROVE  CoreLoad(s) = SpecLoad(s)
  BY DEF CoreAgreesWithoutInference
<1>1. CASE s.scheme = "file"
  <2>1. PICK p \in LoadPaths : s = FileSpec(p)
    BY <1>1, FileSpecifier
  <2>2. s.path = p /\ Ext(p) # "" /\ ~IsDir(p)
    BY <1>1, <2>1 DEF FileSpec
  <2>3. CoreLoad(s) = LoadFile(p) /\ SpecLoad(s) = SpecLoadFile(p)
    BY <1>1, <2>2 DEF CoreLoad, SpecLoad
  <2>4. QED
    BY <2>2, <2>3, OwnCandidate, CoreFileAgrees
<1>2. CASE s.scheme \in {"http", "https"}
  BY <1>2, KindsAgree DEF CoreLoad, SpecLoad
<1>3. CASE s.scheme \notin {"file", "http", "https"}
  BY <1>3 DEF CoreLoad, SpecLoad
<1>4. QED
  BY <1>1, <1>2, <1>3

(* On every file tree the environment grows, the core loader loads what
   spec 4.1 says for every specifier that needs no inference (checked by
   loader_pass). *)
THEOREM CoreAgreesCorrect == Spec => []CoreAgreesWithoutInference
BY CoreAgreesValid, PTL
-----------------------------------------------------------------------------
(* The legacy loader on an extensionless path.  Its candidates are the
   siblings .ts and .js and, in a directory, index.ts and index.js; each
   carries an extension, so none of them is a directory. *)
LEMMA WithExtFacts ==
  ASSUME NEW p \in Seq(Segment), p # << >>, NEW e
  PROVE  Ext(WithExt(p, e)) = e /\ Ext(Join(p, Seg("index", e))) = e
<1> DEFINE n == Len(p)
           last == [p[n] EXCEPT !.ext = e]
           idx == Seg("index", e)
<1>1. n \in 1 .. Len(p)
  BY EmptySeq, LenProperties
<1>2. p[n] \in Segment
  BY <1>1, ElementOfSeq
<1>3. last.ext = e
  BY <1>2 DEF Segment
<1>4. WithExt(p, e) = [p EXCEPT ![n] = last]
  BY DEF WithExt
<1>5. p \in Seq(Segment \cup {last, idx})
  BY SeqMonotonic
<1>6. Len([p EXCEPT ![n] = last]) = n /\ [p EXCEPT ![n] = last][n] = last
  BY <1>1, <1>5, ExceptSeq
<1>7. Ext(WithExt(p, e)) = e
  BY <1>3, <1>4, <1>6 DEF Ext
<1>8. Len(Join(p, idx)) = n + 1 /\ Join(p, idx)[n + 1] = idx
  BY <1>5, AppendProperties DEF Join
<1>9. QED
  BY <1>7, <1>8 DEF Ext, Seg

LEMMA NotDirs ==
  ASSUME LoaderAssumption, dirs \subseteq DirPaths, NEW x, Ext(x) # ""
  PROVE  ~IsDir(x)
BY DEF IsDir

(* What LegacyPath picks, once no candidate is a directory. *)
LEMMA LegacyPathCases ==
  ASSUME NEW p, Ext(p) = "",
         ~IsDir(WithExt(p, "ts")), ~IsDir(WithExt(p, "js")),
         ~IsDir(Join(p, Seg("index", "ts"))), ~IsDir(Join(p, Seg("index", "js")))
  PROVE  LegacyPath(p) =
           IF IsFile(WithExt(p, "ts")) THEN WithExt(p, "ts")
           ELSE IF IsFile(WithExt(p, "js")) THEN WithExt(p, "js")
           ELSE IF IsDir(p)
                  THEN IF IsFile(Join(p, Seg("index", "ts"))) THEN Join(p, Seg("index", "ts"))
                       ELSE Join(p, Seg("index", "js"))
           ELSE p
BY Zenon DEF LegacyPath, Exists

(* Where no candidate is a file, both loaders fail; where the k-th is the
   first file, both read it. *)
LEMMA AgreeOnFirst ==
  ASSUME NEW p, NEW k \in 1 .. Len(SpecCandidates(p)),
         IsFile(SpecCandidates(p)[k]),
         \A i \in 1 .. k - 1 : ~IsFile(SpecCandidates(p)[i])
  PROVE  LoadFile(SpecCandidates(p)[k]) = SpecLoadFile(p)
BY SpecLoadFileFirst, KindsAgree DEF LoadFile

LEMMA AgreeOnNone ==
  ASSUME NEW p, NEW q, ~IsFile(q),
         \A i \in 1 .. Len(SpecCandidates(p)) : ~IsFile(SpecCandidates(p)[i])
  PROVE  LoadFile(q) = SpecLoadFile(p)
BY SpecLoadFileNone DEF LoadFile

(* A directory: four candidates, each read by both loaders in turn. *)
LEMMA FourCandidates ==
  ASSUME NEW p, NEW a, NEW b, NEW c, NEW d,
         SpecCandidates(p) = << a, b, c, d >>
  PROVE  LoadFile(IF IsFile(a) THEN a ELSE IF IsFile(b) THEN b
                  ELSE IF IsFile(c) THEN c ELSE d) = SpecLoadFile(p)
<1>1. CASE IsFile(a)
  <2>1. 1 \in 1 .. Len(SpecCandidates(p)) /\ SpecCandidates(p)[1] = a
        /\ \A i \in 1 .. 1 - 1 : ~IsFile(SpecCandidates(p)[i])
    OBVIOUS
  <2>2. QED
    BY <1>1, <2>1, AgreeOnFirst
<1>2. CASE ~IsFile(a) /\ IsFile(b)
  <2>1. 2 \in 1 .. Len(SpecCandidates(p)) /\ SpecCandidates(p)[2] = b
        /\ \A i \in 1 .. 2 - 1 : ~IsFile(SpecCandidates(p)[i])
    BY <1>2
  <2>2. QED
    BY <1>2, <2>1, AgreeOnFirst
<1>3. CASE ~IsFile(a) /\ ~IsFile(b) /\ IsFile(c)
  <2>1. 3 \in 1 .. Len(SpecCandidates(p)) /\ SpecCandidates(p)[3] = c
        /\ \A i \in 1 .. 3 - 1 : ~IsFile(SpecCandidates(p)[i])
    BY <1>3
  <2>2. QED
    BY <1>3, <2>1, AgreeOnFirst
<1>4. CASE ~IsFile(a) /\ ~IsFile(b) /\ ~IsFile(c) /\ IsFile(d)
  <2>1. 4 \in 1 .. Len(SpecCandidates(p)) /\ SpecCandidates(p)[4] = d
        /\ \A i \in 1 .. 4 - 1 : ~IsFile(SpecCandidates(p)[i])
    BY <1>4
  <2>2. QED
    BY <1>4, <2>1, AgreeOnFirst
<1>5. CASE ~IsFile(a) /\ ~IsFile(b) /\ ~IsFile(c) /\ ~IsFile(d)
  <2>1. \A i \in 1 .. Len(SpecCandidates(p)) : ~IsFile(SpecCandidates(p)[i])
    BY <1>5
  <2>2. QED
    BY <1>5, <2>1, AgreeOnNone
<1>6. QED
  BY <1>1, <1>2, <1>3, <1>4, <1>5

(* Not a directory: the two siblings, then the path itself. *)
LEMMA ThreeCandidates ==
  ASSUME NEW p, NEW a, NEW b,
         SpecCandidates(p) = << a, b, p >>
  PROVE  LoadFile(IF IsFile(a) THEN a ELSE IF IsFile(b) THEN b ELSE p) = SpecLoadFile(p)
<1>1. CASE IsFile(a)
  <2>1. 1 \in 1 .. Len(SpecCandidates(p)) /\ SpecCandidates(p)[1] = a
        /\ \A i \in 1 .. 1 - 1 : ~IsFile(SpecCandidates(p)[i])
    OBVIOUS
  <2>2. QED
    BY <1>1, <2>1, AgreeOnFirst
<1>2. CASE ~IsFile(a) /\ IsFile(b)
  <2>1. 2 \in 1 .. Len(SpecCandidates(p)) /\ SpecCandidates(p)[2] = b
        /\ \A i \in 1 .. 2 - 1 : ~IsFile(SpecCandidates(p)[i])
    BY <1>2
  <2>2. QED
    BY <1>2, <2>1, AgreeOnFirst
<1>3. CASE ~IsFile(a) /\ ~IsFile(b) /\ IsFile(p)
  <2>1. 3 \in 1 .. Len(SpecCandidates(p)) /\ SpecCandidates(p)[3] = p
        /\ \A i \in 1 .. 3 - 1 : ~IsFile(SpecCandidates(p)[i])
    BY <1>3
  <2>2. LoadFile(p) = SpecLoadFile(p)
    BY <1>3, <2>1, AgreeOnFirst
  <2>3. QED
    BY <1>3, <2>2
<1>4. CASE ~IsFile(a) /\ ~IsFile(b) /\ ~IsFile(p)
  <2>1. \A i \in 1 .. Len(SpecCandidates(p)) : ~IsFile(SpecCandidates(p)[i])
    BY <1>4
  <2>2. QED
    BY <1>4, <2>1, AgreeOnNone
<1>5. QED
  BY <1>1, <1>2, <1>3, <1>4

(* The dirs the environment creates are among DirPaths. *)
DirsKnown == dirs \subseteq DirPaths

LEMMA DirsKnownInvariant == Spec => []DirsKnown
<1>1. Init => DirsKnown
  BY DEF Init, DirsKnown
<1>2. DirsKnown /\ [Next]_vars => DirsKnown'
  BY DEF DirsKnown, Next, vars, CreateFile, CreateDir
<1>3. QED
  BY <1>1, <1>2, PTL DEF Spec

(* On an extensionless path, the legacy loader's choice is the first
   candidate of spec 4.1 that is a file. *)
LEMMA LegacyAgreesOn ==
  ASSUME DirsKnown, NEW p \in LoadPaths, Ext(p) = ""
  PROVE  LegacyLoad(FileSpec(p)) = SpecLoad(FileSpec(p))
<1> DEFINE ts == WithExt(p, "ts")
           js == WithExt(p, "js")
           its == Join(p, Seg("index", "ts"))
           ijs == Join(p, Seg("index", "js"))
<1>1. p \in Seq(Segment) /\ p # << >>
  BY LoaderAssumption
<1>2. Ext(ts) = "ts" /\ Ext(js) = "js" /\ Ext(its) = "ts" /\ Ext(ijs) = "js"
  BY <1>1, WithExtFacts
<1>3. ~IsDir(ts) /\ ~IsDir(js) /\ ~IsDir(its) /\ ~IsDir(ijs)
  BY <1>2, LoaderAssumption, NotDirs DEF DirsKnown
<1>4. LegacyPath(p) = IF IsFile(ts) THEN ts
                      ELSE IF IsFile(js) THEN js
                      ELSE IF IsDir(p) THEN (IF IsFile(its) THEN its ELSE ijs)
                      ELSE p
  BY <1>3, LegacyPathCases, Zenon
<1>5. LegacyLoad(FileSpec(p)) = LoadFile(LegacyPath(p))
      /\ SpecLoad(FileSpec(p)) = SpecLoadFile(p)
  BY DEF LegacyLoad, SpecLoad, FileSpec
<1>6. CASE IsDir(p)
  <2>1. SpecCandidates(p) = << ts, js, its, ijs >>
    BY <1>6, ConcatTwoTwo DEF SpecCandidates
  <2>2. QED
    BY <1>4, <1>5, <1>6, <2>1, FourCandidates
<1>7. CASE ~IsDir(p)
  <2>1. SpecCandidates(p) = << ts, js, p >>
    BY <1>7, ConcatTwoOne DEF SpecCandidates
  <2>2. QED
    BY <1>4, <1>5, <1>7, <2>1, ThreeCandidates
<1>8. QED
  BY <1>6, <1>7

(* On every file tree the environment grows, the legacy loader loads what
   spec 4.1 says for every extensionless file: import (checked by
   loader_pass). *)
THEOREM LegacyAgreesCorrect == Spec => []LegacyAgreesWhenExtensionless
<1>1. DirsKnown => LegacyAgreesWhenExtensionless
  BY LegacyAgreesOn DEF LegacyAgreesWhenExtensionless
<1>2. QED
  BY <1>1, DirsKnownInvariant, PTL

=============================================================================
