-------------------------- MODULE StaticFsProofs --------------------------
(***************************************************************************)
(* Theorems about StaticFs, for any list of mountpoints, any file names and *)
(* any number of changes of the file system while a request is handled.     *)
(***************************************************************************)
EXTENDS StaticFs, SequenceTheorems, WellFoundedInduction, TLAPS

---------------------------------------------------------------------------
(* What the two searches find.                                             *)

\* A set of numbers that is not empty has a least one ...
LEMMA MinFound ==
    ASSUME NEW T, T \subseteq Nat, T # {}
    PROVE  Min(T) \in T /\ \A y \in T : Min(T) <= y
<1>1. PICK x \in T : \A y \in T : ~ (<<y, x>> \in OpToRel(<, Nat))
  BY WFMin, NatLessThanWellFounded
<1>2. \A y \in T : ~ (y < x)
  BY <1>1 DEF OpToRel
<1>3. \E z \in T : \A y \in T : z <= y
  BY <1>2
<1> QED BY <1>3 DEF Min

\* ... and, where it is bounded, a greatest one.
LEMMA MaxFound ==
    ASSUME NEW n \in Nat, NEW T, T \subseteq 1 .. n, T # {}
    PROVE  Max(T) \in T /\ \A y \in T : y <= Max(T)
<1> DEFINE U == {n - y : y \in T}
<1>1. U \subseteq Nat /\ U # {}
  <2>1. PICK y \in T : TRUE
    OBVIOUS
  <2>2. n - y \in U
    OBVIOUS
  <2>3. \A z \in T : n - z \in Nat
    OBVIOUS
  <2> QED BY <2>2, <2>3
<1>2. Min(U) \in U /\ \A v \in U : Min(U) <= v
  BY <1>1, MinFound
<1>3. PICK x \in T : Min(U) = n - x
  BY <1>2
<1>4. ASSUME NEW y \in T PROVE y <= x
  <2>1. n - x <= n - y
    BY <1>2, <1>3
  <2> QED BY <2>1
<1>5. \E z \in T : \A y \in T : y <= z
  BY <1>4
<1> QED BY <1>5 DEF Max

\* generic_route() finds the first mountpoint that serves the URI.
LEMMA MatchFirst ==
    ASSUME mountpoints \in Seq(Mountpoint)
    PROVE  Match = FirstServing /\ Match \in 0 .. Len(mountpoints)
<1> DEFINE I == {k \in 1 .. Len(mountpoints) : Serves(k)}
           P(k) == /\ \A j \in 1 .. k - 1 : ~Serves(j)
                   /\ k # 0 => Serves(k)
                   /\ k = 0 => \A j \in DOMAIN mountpoints : ~Serves(j)
<1>1. Match = IF I # {} THEN Min(I) ELSE 0
  BY DEF Match, SelectInSeq, Serves
<1>2. Len(mountpoints) \in Nat /\ DOMAIN mountpoints = 1 .. Len(mountpoints)
  OBVIOUS
<1>3. Match \in 0 .. Len(mountpoints) /\ P(Match)
  <2>1. CASE I = {}
    BY <1>1, <1>2, <2>1
  <2>2. CASE I # {}
    <3>1. Min(I) \in I /\ \A y \in I : Min(I) <= y
      <4>1. I \subseteq Nat
        OBVIOUS
      <4> HIDE DEF I
      <4> QED BY <2>2, <4>1, MinFound
    <3> DEFINE m == Min(I)
    <3>2. Match = m /\ m \in I /\ \A y \in I : m <= y
      BY <1>1, <2>2, <3>1
    <3> HIDE DEF m
    <3> QED BY <1>2, <3>2
  <2> QED BY <2>1, <2>2
<1>4. ASSUME NEW a \in 0 .. Len(mountpoints), NEW b \in 0 .. Len(mountpoints), P(a), P(b)
      PROVE  a = b
  BY <1>2, <1>4
<1>5. FirstServing = CHOOSE k \in 0 .. Len(mountpoints) : P(k)
  BY DEF FirstServing
<1> HIDE DEF P, I
<1>6. FirstServing \in 0 .. Len(mountpoints) /\ P(FirstServing)
  BY <1>3, <1>5
<1> QED BY <1>3, <1>4, <1>6

\* The last place of v in a path.
LastIndex(s, v) == SelectLastInSeq(s, LAMBDA c : c = v)

\* It is found, and it is 0 if there is none.
LEMMA LastFound ==
    ASSUME NEW s \in Seq(STRING), NEW v
    PROVE  \/ LastIndex(s, v) = 0 /\ \A k \in 1 .. Len(s) : s[k] # v
           \/ /\ LastIndex(s, v) \in 1 .. Len(s) /\ s[LastIndex(s, v)] = v
              /\ \A k \in LastIndex(s, v) + 1 .. Len(s) : s[k] # v
<1> DEFINE I == {k \in 1 .. Len(s) : s[k] = v}
           last == LastIndex(s, v)
<1>1. last = IF I # {} THEN Max(I) ELSE 0
  BY DEF LastIndex, SelectLastInSeq
<1> HIDE DEF last
<1>2. Len(s) \in Nat
  OBVIOUS
<1>3. CASE I = {}
  BY <1>1, <1>3 DEF last
<1>4. CASE I # {}
  <2>1. Max(I) \in I /\ \A y \in I : y <= Max(I)
    <3>1. I \subseteq 1 .. Len(s)
      OBVIOUS
    <3> HIDE DEF I
    <3> QED BY <1>2, <1>4, <3>1, MaxFound
  <2>2. last \in I /\ \A y \in I : y <= last
    BY <1>1, <1>4, <2>1
  <2> QED BY <1>2, <2>2 DEF last
<1> QED BY <1>3, <1>4

\* The shortest sequences by their elements.
LEMMA SingleItem ==
    ASSUME NEW S, NEW s \in Seq(S), NEW u \in S
    PROVE  s = <<u>> <=> Len(s) = 1 /\ s[1] = u
<1>1. <<u>> \in Seq(S) /\ Len(<<u>>) = 1 /\ <<u>>[1] = u
  OBVIOUS
<1>2. ASSUME Len(s) = 1, s[1] = u PROVE s = <<u>>
  <2>1. \A k \in 1 .. Len(s) : s[k] = <<u>>[k]
    BY <1>2
  <2> QED BY <1>1, <1>2, <2>1, SeqEqual, Zenon
<1> QED BY <1>1, <1>2

LEMMA ItemPair ==
    ASSUME NEW S, NEW s \in Seq(S), NEW u \in S, NEW v \in S
    PROVE  s = <<u, v>> <=> Len(s) = 2 /\ s[1] = u /\ s[2] = v
<1>1. <<u, v>> \in Seq(S) /\ Len(<<u, v>>) = 2 /\ <<u, v>>[1] = u /\ <<u, v>>[2] = v
  OBVIOUS
<1>2. ASSUME Len(s) = 2, s[1] = u, s[2] = v PROVE s = <<u, v>>
  <2>1. \A k \in 1 .. Len(s) : s[k] = <<u, v>>[k]
    BY <1>2
  <2> QED BY <1>1, <1>2, <2>1, SeqEqual, Zenon
<1> QED BY <1>1, <1>2

\* ahttpd_mime_guess() looks at the last dot of the whole path, and is right all
\* the same: what follows a dot of a directory is not an extension it knows.
LEMMA GuessRight ==
    ASSUME name \in Seq(STRING)
    PROVE  MimeGuess = TypeOf(name)
<1> DEFINE n == Len(name)
           dot == LastIndex(name, ".")
           slash == LastIndex(name, "/")
           html == n >= 2 /\ name[n - 1] = "." /\ name[n] = "html"
<1>1. n \in Nat
  OBVIOUS
<1>2. \/ dot = 0 /\ \A k \in 1 .. n : name[k] # "."
      \/ /\ dot \in 1 .. n /\ name[dot] = "."
         /\ \A k \in dot + 1 .. n : name[k] # "."
  BY LastFound
<1>3. \/ slash = 0 /\ \A k \in 1 .. n : name[k] # "/"
      \/ /\ slash \in 1 .. n /\ name[slash] = "/"
         /\ \A k \in slash + 1 .. n : name[k] # "/"
  BY LastFound
<1>4. /\ LastDot = dot
      /\ LastComponent(name) = SubSeq(name, slash + 1, n)
  BY DEF LastDot, LastComponent, LastIndex
<1> HIDE DEF dot, slash
<1>5. (dot # 0 /\ SubSeq(name, dot + 1, n) = <<"html">>) <=> html
  <2> DEFINE rest == SubSeq(name, dot + 1, n)
  <2>1. /\ rest \in Seq(STRING) /\ Len(rest) = n - dot
        /\ dot < n => rest[1] = name[dot + 1]
    BY <1>1, <1>2
  <2> HIDE DEF rest
  <2>2. rest = <<"html">> <=> Len(rest) = 1 /\ rest[1] = "html"
    BY <2>1, SingleItem
  <2>3. ASSUME html PROVE dot = n - 1
    <3>1. name[n - 1] = "." /\ n - 1 \in 1 .. n
      BY <1>1, <2>3
    <3>2. dot \in 1 .. n /\ dot >= n - 1
      BY <1>1, <1>2, <3>1
    <3>3. dot # n
      BY <1>2, <2>3, <3>2
    <3> QED BY <1>1, <3>2, <3>3
  <2>4. ASSUME dot # 0, rest = <<"html">> PROVE html
    <3>1. Len(rest) = 1 /\ rest[1] = "html"
      BY <2>2, <2>4, Zenon
    <3>2. dot \in 1 .. n /\ name[dot] = "."
      BY <1>2, <2>4
    <3>3. n - dot = 1
      BY <2>1, <3>1
    <3>4. dot = n - 1 /\ dot < n /\ dot + 1 = n
      BY <1>1, <3>2, <3>3
    <3>5. name[n] = "html"
      BY <2>1, <3>1, <3>4
    <3> QED BY <1>1, <3>2, <3>4, <3>5
  <2>5. html => dot # 0 /\ rest = <<"html">>
    BY <1>1, <2>1, <2>2, <2>3
  <2> QED BY <2>4, <2>5 DEF rest
<1>6. LET file == SubSeq(name, slash + 1, n)
      IN  (Len(file) >= 2 /\ SubSeq(file, Len(file) - 1, Len(file)) = <<".", "html">>)
          <=> html
  <2> DEFINE file == SubSeq(name, slash + 1, n)
             l == Len(file)
             end == SubSeq(file, l - 1, l)
  <2>1. /\ file \in Seq(STRING) /\ l = n - slash /\ l \in Nat
        /\ \A k \in 1 .. l : file[k] = name[slash + k]
    BY <1>1, <1>3
  <2> HIDE DEF file
  <2>2. ASSUME l >= 2 PROVE end = <<".", "html">> <=> html
    <3>1. /\ end \in Seq(STRING) /\ Len(end) = 2
          /\ end[1] = file[l - 1] /\ end[2] = file[l]
      BY <2>1, <2>2
    <3>2. file[l - 1] = name[n - 1] /\ file[l] = name[n]
      BY <1>1, <1>3, <2>1, <2>2
    <3> HIDE DEF end
    <3>3. end = <<".", "html">> <=> Len(end) = 2 /\ end[1] = "." /\ end[2] = "html"
      BY <3>1, ItemPair
    <3>4. n >= 2
      BY <1>1, <1>3, <2>1, <2>2
    <3> QED BY <3>1, <3>2, <3>3, <3>4
  <2>3. html => l >= 2
    BY <1>1, <1>3, <2>1
  <2>4. (l >= 2 /\ end = <<".", "html">>) <=> html
    BY <2>2, <2>3
  <2> QED BY <2>4 DEF file
<1> HIDE DEF html
<1> QED BY <1>4, <1>5, <1>6 DEF MimeGuess, TypeOf
---------------------------------------------------------------------------
(* The inductive invariant.                                                *)

Shape ==
    /\ mountpoints \in Seq(Mountpoint)
    /\ object \in {Absent} \cup Files \cup Directories
    /\ indexfile \in {Absent} \cup Files
    /\ changes \in Nat
    /\ pc \in {"arrived", "routed", "index", "index_open", "list", "file",
               "file_open", "end"}

\* There is no answer before the end, and one mountpoint for the whole way.
Unanswered ==
    /\ pc # "end" => answers = <<>>
    /\ pc \notin {"arrived", "end"} => target = Match /\ Match # 0

\* As long as nothing has changed, the place in router() tells what stat() and
\* fopen() have found.
SeenByNow ==
    changes = 0 =>
        /\ pc \in {"index", "index_open", "list"} => object.kind = "dir"
        /\ pc \in {"index", "index_open"} => Fsd.index
        /\ pc = "index_open" => sz = indexfile.size
        /\ pc = "list" => ~(Fsd.index /\ indexfile.readable)
        /\ pc \in {"file", "file_open"} => object.kind = "file" /\ name \in Paths
        /\ pc = "file_open" => sz = object.size

IInv ==
    /\ Shape
    /\ Unanswered
    /\ SeenByNow
    /\ AnsweredOnce
    /\ AnswerRight

\* A request comes in with no answer.
LEMMA IInvInit == Init => IInv
<1> SUFFICES ASSUME Init PROVE IInv
  OBVIOUS
<1>1. mountpoints \in Seq(Mountpoint)
  <2>1. PICK m \in 0 .. MaxMounts : mountpoints \in [1 .. m -> Mountpoint]
    BY DEF Init, BoundedSeq, SeqOf
  <2>2. m \in Nat
    BY <2>1, BoundsAssumption
  <2> QED BY <2>1, <2>2
<1>2. Shape /\ Unanswered /\ SeenByNow
  BY <1>1 DEF Init, Shape, Unanswered, SeenByNow
<1>3. Len(answers) = 0 /\ pc # "end" /\ answers = <<>>
  BY DEF Init
<1> QED BY <1>2, <1>3 DEF IInv, AnsweredOnce, AnswerRight

\* A step that answers is one to the end, and the answer is to be right.
LEMMA AnswerStep ==
    ASSUME IInv, pc # "end", pc' = "end",
           UNCHANGED <<mountpoints, disk, name>>,
           NEW r, answers' = Append(answers, r),
           changes = 0 /\ r.code # 500 => Documented(Match, r)
    PROVE  IInv'
<1>1. answers' = <<r>>
  BY DEF IInv, Unanswered
<1>2. Len(answers') = 1 /\ answers'[1] = r /\ answers' # <<>>
  BY <1>1
<1>3. /\ FirstServing' = FirstServing /\ Match = FirstServing
      /\ TypeOf(name)' = TypeOf(name)
      /\ UNCHANGED <<object, indexfile, changes, mountpoints>>
  <2>1. FirstServing' = FirstServing
    BY DEF FirstServing, Serves
  <2>2. Match = FirstServing
    BY MatchFirst DEF IInv, Shape
  <2>3. TypeOf(name)' = TypeOf(name)
    BY DEF TypeOf, LastComponent, SelectLastInSeq
  <2> QED BY <2>1, <2>2, <2>3 DEF disk
<1>4. AnswerRight'
  BY <1>2, <1>3 DEF AnswerRight, Documented
<1> QED BY <1>2, <1>3, <1>4 DEF IInv, Shape, Unanswered, SeenByNow, AnsweredOnce

\* A step that does not answer and is not the last.
LEMMA SilentStep ==
    ASSUME IInv, pc # "end", pc' # "end", UNCHANGED <<mountpoints, answers>>,
           Shape', SeenByNow',
           pc' # "arrived" => target' = Match /\ Match # 0
    PROVE  IInv'
<1>1. answers' = <<>> /\ Len(answers') = 0
  BY DEF IInv, Unanswered
<1>2. Match' = Match
  BY DEF Match, SelectInSeq
<1> QED BY <1>1, <1>2 DEF IInv, Unanswered, AnsweredOnce, AnswerRight

\* generic_route()
LEMMA RouteStep == IInv /\ Route => IInv'
<1> SUFFICES ASSUME IInv, Route PROVE IInv'
  OBVIOUS
<1>1. CASE Match = 0
  <2>1. Documented(Match, [code |-> 404, content |-> "error", length |-> 0,
                           type |-> "text/html"])
    BY <1>1 DEF Documented
  <2> QED BY <1>1, <2>1, AnswerStep DEF Route, Error, Answer
<1>2. CASE Match # 0
  <2>1. Shape' /\ SeenByNow'
    BY <1>2 DEF Route, disk, IInv, Shape, SeenByNow, Fsd
  <2> QED BY <1>2, <2>1, SilentStep DEF Route
<1> QED BY <1>1, <1>2

\* The steps of router() in front of an answer.
LEMMA LookStep ==
    ASSUME IInv,
           \/ StatDirectory \/ (\E n \in Paths : StatFile(n))
           \/ Measure(indexfile, "index", "index_open")
           \/ Unreadable(indexfile, {"index", "index_open"}, "list")
           \/ Measure(object, "file", "file_open")
    PROVE  IInv'
<1>1. /\ pc \notin {"arrived", "end"} /\ pc' \notin {"arrived", "end"}
      /\ UNCHANGED <<mountpoints, object, indexfile, changes, target, answers>>
  BY DEF StatDirectory, StatFile, Measure, Unreadable, disk
<1>2. Shape'
  BY <1>1 DEF StatDirectory, StatFile, Measure, Unreadable, IInv, Shape
<1>3. Fsd' = Fsd
  BY <1>1 DEF Fsd
<1>4. SeenByNow'
  <2> USE DEF IInv, SeenByNow
  <2>1. CASE StatDirectory
    BY <1>1, <1>3, <2>1 DEF StatDirectory
  <2>2. ASSUME NEW n \in Paths, StatFile(n) PROVE SeenByNow'
    BY <1>1, <1>3, <2>2 DEF StatFile
  <2>3. CASE Measure(indexfile, "index", "index_open")
    <3>1. indexfile.kind = "file"
      BY <2>3 DEF Measure, Shape, Absent, Files
    <3> QED BY <1>1, <1>3, <2>3, <3>1 DEF Measure
  <2>4. CASE Unreadable(indexfile, {"index", "index_open"}, "list")
    BY <1>1, <1>3, <2>4 DEF Unreadable
  <2>5. CASE Measure(object, "file", "file_open")
    BY <1>1, <1>3, <2>5 DEF Measure
  <2> QED BY <2>1, <2>2, <2>3, <2>4, <2>5
<1> QED BY <1>1, <1>2, <1>4, SilentStep DEF IInv, Unanswered

\* The answers of router().
LEMMA RouterAnswers ==
    ASSUME IInv, NoMemory \/ StatFails \/ ServeIndex \/ ServeFile \/ ListNone \/ List
    PROVE  IInv'
<1>1. /\ pc \notin {"arrived", "end"} /\ pc' = "end"
      /\ UNCHANGED <<mountpoints, disk, name>>
  BY DEF NoMemory, StatFails, ServeIndex, ServeFile, ListNone, List
<1>2. Match # 0 /\ Fsd = mountpoints[Match]
  BY <1>1 DEF IInv, Unanswered, Fsd
<1> DEFINE A(code, content, length, mimetype) ==
        [code |-> code, content |-> content, length |-> length, type |-> mimetype]
<1>3. ASSUME NEW r, answers' = Append(answers, r),
             changes = 0 /\ r.code # 500 => Documented(Match, r)
      PROVE  IInv'
  BY <1>1, <1>3, AnswerStep
<1>4. CASE NoMemory
  <2>1. answers' = Append(answers, A(500, "error", 0, "text/html"))
    BY <1>4 DEF NoMemory, Error, Answer
  <2> QED BY <1>3, <2>1
<1>5. CASE StatFails
  <2>1. /\ answers' = Append(answers, A(404, "error", 0, "text/html"))
        /\ object.kind = "absent"
    BY <1>5 DEF StatFails, Error, Answer
  <2>2. Documented(Match, A(404, "error", 0, "text/html"))
    BY <2>1 DEF Documented
  <2> QED BY <1>3, <2>1, <2>2
<1>6. CASE ServeIndex
  <2>1. /\ answers' = Append(answers, A(200, "index", sz, "text/html"))
        /\ pc = "index_open" /\ indexfile.readable
    BY <1>6 DEF ServeIndex, Answer
  <2>2. changes = 0 => Documented(Match, A(200, "index", sz, "text/html"))
    BY <1>2, <2>1 DEF Documented, IInv, SeenByNow
  <2> QED BY <1>3, <2>1, <2>2
<1>7. CASE ServeFile
  <2>1. /\ answers' = Append(answers, A(200, "file", sz, MimeGuess))
        /\ pc = "file_open"
    BY <1>7 DEF ServeFile, Answer
  <2>2. ASSUME changes = 0 PROVE Documented(Match, A(200, "file", sz, MimeGuess))
    <3>1. object.kind = "file" /\ name \in Paths /\ sz = object.size
      BY <2>1, <2>2 DEF IInv, SeenByNow
    <3>2. MimeGuess = TypeOf(name)
      BY <3>1, PathsAssumption, GuessRight
    <3> QED BY <1>2, <3>1, <3>2 DEF Documented
  <2> QED BY <1>3, <2>1, <2>2
<1>8. CASE ListNone
  <2>1. /\ answers' = Append(answers, A(403, "error", 0, "text/html"))
        /\ pc = "list" /\ Fsd.dirindexfunc = "none"
    BY <1>8 DEF ListNone, Error, Answer
  <2>2. changes = 0 => Documented(Match, A(403, "error", 0, "text/html"))
    BY <1>2, <2>1 DEF Documented, IInv, SeenByNow
  <2> QED BY <1>3, <2>1, <2>2
<1>9. CASE List
  <2>1. /\ answers' = Append(answers, A(200, Fsd.dirindexfunc, 0, "listing"))
        /\ pc = "list" /\ Fsd.dirindexfunc # "none"
    BY <1>9 DEF List, Answer
  <2>2. changes = 0 => Documented(Match, A(200, Fsd.dirindexfunc, 0, "listing"))
    BY <1>2, <2>1 DEF Documented, IInv, SeenByNow
  <2> QED BY <1>3, <2>1, <2>2
<1> QED BY <1>4, <1>5, <1>6, <1>7, <1>8, <1>9

\* serve_file() or a listing function returns without an answer: something could
\* not be read.
LEMMA RouterSilent ==
    ASSUME IInv, Unreadable(object, {"file", "file_open"}, "end") \/ ListFails
    PROVE  IInv'
<1>1. /\ pc \in {"list", "file", "file_open"} /\ pc' = "end"
      /\ UNCHANGED <<mountpoints, object, indexfile, changes, answers>>
      /\ ~object.readable \/ (pc = "list" /\ object.kind # "dir")
  BY DEF Unreadable, ListFails, disk
<1>2. answers' = <<>> /\ Len(answers') = 0
  BY <1>1 DEF IInv, Unanswered
<1>3. changes = 0 => object.kind # "absent" /\ ~object.readable
  BY <1>1 DEF IInv, SeenByNow
<1> QED
  BY <1>1, <1>2, <1>3
  DEF IInv, Shape, Unanswered, SeenByNow, AnsweredOnce, AnswerRight

\* Another process changes the file system: from then on nothing is promised but
\* that there is one answer at the most.
LEMMA ChangeStep == IInv /\ Change => IInv'
<1> SUFFICES ASSUME IInv, Change PROVE IInv'
  OBVIOUS
<1>1. /\ pc # "end" /\ UNCHANGED <<mountpoints, pc, target, answers>>
      /\ changes' \in Nat /\ changes' # 0
  BY DEF Change, IInv, Shape
<1>2. Shape' /\ SeenByNow'
  BY <1>1 DEF Change, IInv, Shape, SeenByNow
<1> QED BY <1>1, <1>2, SilentStep DEF IInv, Unanswered

\* A step that changes nothing.
LEMMA Stutter == IInv /\ UNCHANGED vars => IInv'
<1> SUFFICES ASSUME IInv, UNCHANGED vars PROVE IInv'
  OBVIOUS
<1>1. UNCHANGED <<mountpoints, object, indexfile, changes, pc, target, name, sz, answers>>
  BY DEF vars, disk
<1>2. FirstServing' = FirstServing
  BY <1>1 DEF FirstServing, Serves
<1>3. TypeOf(name)' = TypeOf(name)
  BY <1>1 DEF TypeOf, LastComponent, SelectLastInSeq
<1>4. Match' = Match /\ Fsd' = Fsd
  BY <1>1 DEF Match, SelectInSeq, Fsd
<1>5. AnswerRight'
  BY <1>1, <1>2, <1>3 DEF IInv, AnswerRight, Documented
<1> QED BY <1>1, <1>4, <1>5 DEF IInv, Shape, Unanswered, SeenByNow, AnsweredOnce

\* The invariant is inductive.
LEMMA Inductive == Spec => []IInv
<1>1. IInv /\ [Next]_vars => IInv'
  BY RouteStep, LookStep, RouterAnswers, RouterSilent, ChangeStep, Stutter DEF Next
<1> QED BY <1>1, IInvInit, PTL DEF Spec

---------------------------------------------------------------------------
\* A request that generic_route() takes is answered once at the most, and only
\* goes without an answer if something could not be read, or changed meanwhile.
THEOREM AlwaysAnsweredOnce == Spec => []AnsweredOnce
BY Inductive, PTL DEF IInv

\* Whatever mountpoints there are and whatever the path names, router() gives
\* the answer README.md describes if it is left alone.
THEOREM AnswerAlwaysRight == Spec => []AnswerRight
BY Inductive, PTL DEF IInv
===========================================================================
