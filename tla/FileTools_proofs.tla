--------------------------- MODULE FileTools_proofs ---------------------------
(***************************************************************************)
(* Proofs about the data of the file tools: no path leads out of the root, *)
(* a patch does what its hunks say, and every operation of the file system *)
(* makes a tree of a tree.  Last, what two trees have in common for a call *)
(* that touches some places of them (Agree), and what leaves that so.      *)
(*                                                                         *)
(* Paths and patches are followed by recursive functions.  That such a     *)
(* function exists, and what holds at every place of it, is induction over *)
(* the numbers, which comes first.                                         *)
(***************************************************************************)
EXTENDS FileTools, Integers, FiniteSetTheorems, SequenceTheorems, TLAPS

\* Induction over the numbers, for a set of them.
LEMMA Induction ==
  ASSUME NEW S \in SUBSET Nat, 0 \in S, \A n \in S : n + 1 \in S
  PROVE  S = Nat
<1> SUFFICES ASSUME NEW b \in Nat, b \notin S
             PROVE  FALSE
  OBVIOUS
<1> DEFINE R == StrictSubsetOrdering(0..b)
           F == {I \in SUBSET (0..b) : \E k \in Nat \ S : I = 0..k}
<1>1. IsWellFoundedOn(R, SUBSET (0..b))
  <2>1. IsFiniteSet(0..b)
    BY FS_Interval
  <2> QED
    BY <2>1, FS_StrictSubsetOrderingWellFounded, FS_FiniteSubsetsOfFinite
<1>2. F \subseteq SUBSET (0..b) /\ (0..b) \in F
  OBVIOUS
<1>3. PICK I \in F : \A J \in F : <<J, I>> \notin R
  <2> HIDE DEF R, F
  <2>1. F # {}
    BY <1>2
  <2> QED
    BY <1>1, <1>2, <2>1, WFMin
<1>4. PICK m \in Nat \ S : I = 0..m
  BY <1>3
<1>5. m # 0 /\ m - 1 \in Nat /\ (m - 1) + 1 = m
  BY <1>4
<1>6. m - 1 \notin S
  BY <1>4, <1>5
<1>7. 0..(m - 1) \in F
  <2>1. m \in 0..m /\ 0..m \subseteq 0..b
    BY <1>2, <1>3, <1>4
  <2> QED
    BY <2>1, <1>5, <1>6
<1>8. <<0..(m - 1), 0..m>> \in R
  <2>1. 0..(m - 1) \subseteq 0..m /\ m \notin 0..(m - 1) /\ m \in 0..m
    BY <1>5
  <2> QED
    BY <2>1, <1>7, <1>3, <1>4, <1>2 DEF StrictSubsetOrdering
<1> QED
  BY <1>3, <1>4, <1>7, <1>8

\* What holds at 0, and at every number up to n if at the one before, holds up to n.
LEMMA UpTo ==
  ASSUME NEW n \in Nat, NEW Good, 0 \in Good, \A k \in 1..n : k - 1 \in Good => k \in Good
  PROVE  \A k \in 0..n : k \in Good
<1> DEFINE S == {k \in Nat : k <= n => k \in Good}
<1>1. 0 \in S
  OBVIOUS
<1>2. ASSUME NEW k \in S
      PROVE  k + 1 \in S
  <2>1. k + 1 \in Nat /\ (k + 1) - 1 = k /\ (k + 1 <= n => k + 1 \in 1..n /\ k <= n)
    OBVIOUS
  <2> QED
    BY <2>1
<1>3. S = Nat
  <2> HIDE DEF S
  <2>1. S \in SUBSET Nat
    BY DEF S
  <2> QED
    BY <1>1, <1>2, <2>1, Induction
<1> QED
  BY <1>3

\* A recursive function whose values stay in a set exists: g[k] leads from the value
\* at k - 1 to that at k.
Steps(X, n) == [1..n -> [X -> X]]

\* A function that takes each of its values from the one before exists, in X.
LEMMA Recursion ==
    ASSUME NEW X, NEW a \in X, NEW n \in Nat, NEW g \in Steps(X, n)
    PROVE  \E f \in [0..n -> X] :
              /\ f = [k \in 0..n |-> IF k = 0 THEN a ELSE g[k][f[k - 1]]]
              /\ \A k \in 1..n : f[k] = g[k][f[k - 1]] /\ f[k - 1] \in X
<1> DEFINE Is(f, m) == f \in [0..m -> X] /\ f[0] = a /\ \A k \in 1..m : f[k] = g[k][f[k - 1]]
           Good == {m \in 0..n : \E f : Is(f, m)}
<1>1. 0 \in Good
  <2> DEFINE f == [k \in 0..0 |-> a]
  <2>1. Is(f, 0)
    OBVIOUS
  <2> HIDE DEF Is, f
  <2> QED
    BY <2>1
<1>2. ASSUME NEW m \in 1..n, m - 1 \in Good
      PROVE  m \in Good
  <2>1. PICK f : Is(f, m - 1)
    BY <1>2
  <2> DEFINE h == [k \in 0..m |-> IF k = m THEN g[m][f[m - 1]] ELSE f[k]]
  <2>2. /\ m \in Nat \ {0} /\ m - 1 \in Nat /\ m - 1 \in 0..(m - 1) /\ m \in 0..m
        /\ \A k \in 1..m : k - 1 \in 0..(m - 1) /\ k - 1 # m /\ k \in 0..m /\ k - 1 \in 0..m
                           /\ (k # m => k \in 1..(m - 1) /\ k \in 0..(m - 1))
        /\ \A k \in 0..m : k # m => k \in 0..(m - 1)
    OBVIOUS
  <2>3. g[m][f[m - 1]] \in X
    BY <2>1, <2>2 DEF Steps
  <2>4. h \in [0..m -> X]
    BY <2>1, <2>2, <2>3
  <2>5. h[0] = a
    BY <2>1, <2>2
  <2>6. ASSUME NEW k \in 1..m
        PROVE  h[k] = g[k][h[k - 1]]
    <3>1. h[k - 1] = f[k - 1]
      BY <2>2
    <3>2. CASE k = m
      BY <3>1, <3>2, <2>2
    <3>3. CASE k # m
      BY <3>1, <3>3, <2>1, <2>2
    <3> QED
      BY <3>2, <3>3
  <2>7. Is(h, m)
    BY <2>4, <2>5, <2>6
  <2> HIDE DEF Is, h
  <2> QED
    BY <2>7
<1>3. \A m \in 0..n : m \in Good
  <2> HIDE DEF Good
  <2> QED
    BY <1>1, <1>2, UpTo
<1>4. PICK f : Is(f, n)
  BY <1>3
<1>5. \A k \in 1..n : f[k] = g[k][f[k - 1]] /\ f[k - 1] \in X
  <2>1. \A k \in 1..n : k - 1 \in 0..n
    OBVIOUS
  <2> QED
    BY <1>4, <2>1
<1>6. f = [k \in 0..n |-> IF k = 0 THEN a ELSE g[k][f[k - 1]]]
  <2>1. \A k \in 0..n : k # 0 => k \in 1..n
    OBVIOUS
  <2> QED
    BY <1>4, <1>5, <2>1
<1> QED
  BY <1>4, <1>5, <1>6

\* The values of a recursive function are in a set that its steps do not leave.
LEMMA RecursionStays ==
    ASSUME NEW X, NEW n \in Nat, NEW f, f = [k \in 0..n |-> f[k]], f[0] \in X,
           \A k \in 1..n : f[k - 1] \in X => f[k] \in X
    PROVE  f \in [0..n -> X]
<1> DEFINE Good == {k \in 0..n : f[k] \in X}
<1>1. 0 \in Good /\ \A k \in 1..n : k - 1 \in Good => k \in Good
  OBVIOUS
<1>2. \A k \in 0..n : k \in Good
  <2> HIDE DEF Good
  <2> QED
    BY <1>1, UpTo
<1> QED
  BY <1>2

\* What an element appended makes of a sequence.
LEMMA Appended ==
    ASSUME NEW S, NEW s \in Seq(S), NEW e \in S
    PROVE  /\ Append(s, e) \in Seq(S)
           /\ Len(Append(s, e)) = Len(s) + 1
           /\ DOMAIN Append(s, e) = 1..(Len(s) + 1)
           /\ Append(s, e)[Len(s) + 1] = e
           /\ \A k \in 1..Len(s) : Append(s, e)[k] = s[k] /\ k \in DOMAIN s
  OBVIOUS

\* The same of texts.
LEMMA TextAppended ==
    \A s \in Seq(STRING), e \in STRING :
       /\ Append(s, e) \in Seq(STRING)
       /\ Len(Append(s, e)) = Len(s) + 1
       /\ DOMAIN Append(s, e) = 1..(Len(s) + 1)
       /\ Append(s, e)[Len(s) + 1] = e
       /\ \A k \in 1..Len(s) : Append(s, e)[k] = s[k] /\ k \in DOMAIN s
<1> DEFINE S == STRING
<1> HIDE DEF S
<1>1. \A s \in Seq(S), e \in S :
       /\ Append(s, e) \in Seq(S)
       /\ Len(Append(s, e)) = Len(s) + 1
       /\ DOMAIN Append(s, e) = 1..(Len(s) + 1)
       /\ Append(s, e)[Len(s) + 1] = e
       /\ \A k \in 1..Len(s) : Append(s, e)[k] = s[k] /\ k \in DOMAIN s
  OBVIOUS
<1> QED
  BY <1>1 DEF S

\* The beginning of a sequence.
LEMMA Shortened ==
    ASSUME NEW S, NEW s \in Seq(S), NEW n \in 0..Len(s)
    PROVE  /\ SubSeq(s, 1, n) \in Seq(S) /\ Len(SubSeq(s, 1, n)) = n
           /\ \A k \in 1..n : SubSeq(s, 1, n)[k] = s[k]
  OBVIOUS

\* The way a path takes, component by component, exists.
LEMMA Way ==
    ASSUME NEW path \in Seq(STRING)
    PROVE  \E at \in [0..Len(path) -> Seq(STRING)] :
              /\ at[0] = Root
              /\ \A k \in 1..Len(path) : at[k] = Enter(at[k - 1], path[k])
              /\ Resolve(path) = at[Len(path)]
<1> DEFINE X == Seq(STRING)
           n == Len(path)
           g == [k \in 1..n |-> [x \in X |-> Enter(x, path[k])]]
           Is(f) == f = [k \in 0..n |-> IF k = 0 THEN Root ELSE Enter(f[k - 1], path[k])]
<1>1. ASSUME NEW x \in X, NEW c \in STRING
      PROVE  Enter(x, c) \in X
  <2>1. Append(x, c) \in X
    BY Appended
  <2>2. x # Root => Parent(x) \in X
    <3>1. x # <<>> => Len(x) - 1 \in 0..Len(x)
      OBVIOUS
    <3> QED
      BY <3>1, Shortened DEF Parent, Front, Root
  <2>3. Root \in X
    BY DEF Root
  <2> QED
    BY <2>1, <2>2, <2>3 DEF Enter
<1>2. Root \in X /\ n \in Nat /\ \A k \in 1..n : path[k] \in STRING
  BY DEF Root
<1> HIDE DEF X, n
<1>3. g \in Steps(X, n)
  BY <1>1, <1>2 DEF Steps
<1>4. PICK f \in [0..n -> X] : /\ f = [k \in 0..n |-> IF k = 0 THEN Root ELSE g[k][f[k - 1]]]
                               /\ \A k \in 1..n : f[k] = g[k][f[k - 1]] /\ f[k - 1] \in X
  <2>1. \A b \in X, h \in Steps(X, n) :
           \E f \in [0..n -> X] : /\ f = [k \in 0..n |-> IF k = 0 THEN b ELSE h[k][f[k - 1]]]
                                  /\ \A k \in 1..n : f[k] = h[k][f[k - 1]] /\ f[k - 1] \in X
    BY <1>2, Recursion
  <2> HIDE DEF g
  <2> QED
    BY <1>2, <1>3, <2>1
<1>5. Is(f)
  <2>1. \A k \in 1..n : g[k][f[k - 1]] = Enter(f[k - 1], path[k])
    BY <1>4
  <2>2. \A k \in 0..n : k # 0 => k \in 1..n
    BY <1>2
  <2> HIDE DEF g
  <2> QED
    BY <1>4, <2>1, <2>2
<1> DEFINE at == CHOOSE h : Is(h)
<1>6. Is(at)
  BY <1>5
<1> HIDE DEF at
<1>7. at[0] = Root /\ \A k \in 1..n : at[k] = Enter(at[k - 1], path[k])
  BY <1>2, <1>6
<1>8. at \in [0..n -> X]
  <2>1. at = [k \in 0..n |-> at[k]]
    BY <1>6
  <2>2. \A k \in 1..n : at[k - 1] \in X => at[k] \in X
    BY <1>1, <1>2, <1>7
  <2> QED
    BY <1>2, <1>7, <2>1, <2>2, RecursionStays
<1>9. Resolve(path) = at[n]
  BY DEF Resolve, at, n
<1> QED
  BY <1>7, <1>8, <1>9 DEF X, n

\* Going one component further from a place leads to a place.
LEMMA EnterIsPlace ==
    ASSUME NEW p \in Seq(STRING), IsPlace(p), NEW component \in STRING
    PROVE  Enter(p, component) \in Seq(STRING) /\ IsPlace(Enter(p, component))
<1>1. CASE component \in {".", ""}
  BY <1>1 DEF Enter
<1>2. CASE component \notin {".", "", ".."}
  <2>1. Enter(p, component) = Append(p, component)
    BY <1>2 DEF Enter
  <2>2. /\ Append(p, component) \in Seq(STRING)
        /\ DOMAIN Append(p, component) = 1..(Len(p) + 1)
        /\ Append(p, component)[Len(p) + 1] = component
        /\ \A k \in 1..Len(p) : Append(p, component)[k] = p[k] /\ k \in DOMAIN p
    BY Zenon, TextAppended
  <2>3. \A k \in 1..(Len(p) + 1) : k \in 1..Len(p) \/ k = Len(p) + 1
    OBVIOUS
  <2>4. ASSUME NEW k \in 1..(Len(p) + 1)
        PROVE  Append(p, component)[k] \notin {"", ".", ".."}
    <3>1. CASE k = Len(p) + 1
      BY <1>2, <2>2, <3>1
    <3>2. CASE k \in 1..Len(p)
      BY <2>2, <3>2 DEF IsPlace
    <3> QED
      BY <2>3, <3>1, <3>2
  <2> QED
    BY <2>1, <2>2, <2>4 DEF IsPlace
<1>3. CASE component = ".."
  <2>1. CASE p = Root
    BY <1>3, <2>1 DEF Enter, Root
  <2>2. CASE p # Root
    <3>1. Enter(p, component) = SubSeq(p, 1, Len(p) - 1)
      BY <1>3, <2>2 DEF Enter, Parent, Front
    <3>2. Len(p) \in Nat \ {0}
      BY <2>2 DEF Root
    <3>3. /\ SubSeq(p, 1, Len(p) - 1) \in Seq(STRING)
          /\ DOMAIN SubSeq(p, 1, Len(p) - 1) = 1..(Len(p) - 1)
          /\ \A k \in 1..(Len(p) - 1) : SubSeq(p, 1, Len(p) - 1)[k] = p[k] /\ k \in DOMAIN p
      BY <3>2
    <3> QED
      BY <3>1, <3>3 DEF IsPlace
  <2> QED
    BY <2>1, <2>2
<1> QED
  BY <1>1, <1>2, <1>3

\* Whatever a tool is asked for is a place below the root: no path, however many ".." it
\* has and wherever they are, leads out of it (chroot_fs.go 97-134).
THEOREM PathsStayInside ==
    ASSUME NEW path \in Seq(STRING)
    PROVE  Resolve(path) \in Seq(STRING) /\ IsPlace(Resolve(path))
<1>1. PICK at : /\ at = [k \in 0..Len(path) |->
                            IF k = 0 THEN Root ELSE Enter(at[k - 1], path[k])]
                /\ Resolve(path) = at[Len(path)]
  BY Way
<1> DEFINE Good(n) == at[n] \in Seq(STRING) /\ IsPlace(at[n])
           S == {n \in Nat : n <= Len(path) => Good(n)}
<1>2. 0 \in S
  <2>1. at[0] = Root
    BY <1>1
  <2>2. Root \in Seq(STRING) /\ IsPlace(Root)
    BY DEF Root, IsPlace
  <2> QED
    BY <2>1, <2>2
<1>3. ASSUME NEW n \in S
      PROVE  n + 1 \in S
  <2> SUFFICES ASSUME n + 1 <= Len(path)
               PROVE  Good(n + 1)
    OBVIOUS
  <2>1. n + 1 \in 1..Len(path) /\ n + 1 \in 0..Len(path) /\ (n + 1) - 1 = n /\ n + 1 # 0
        /\ n <= Len(path) /\ path[n + 1] \in STRING
    OBVIOUS
  <2>2. at[n + 1] = Enter(at[n], path[n + 1])
    BY <1>1, <2>1
  <2>3. Good(n)
    BY <2>1
  <2> QED
    BY <2>1, <2>2, <2>3, EnterIsPlace
<1>4. S = Nat
  <2> HIDE DEF S
  <2>1. S \in SUBSET Nat
    BY DEF S
  <2> QED
    BY <1>2, <1>3, <2>1, Induction
<1>5. Len(path) \in S
  BY <1>4
<1> QED
  BY <1>1, <1>5

-----------------------------------------------------------------------------
(* Patches. *)

\* The state of a patch: the lines written, and those of the original used up.
Patching == [ok : BOOLEAN, out : Seq(STRING), cursor : Nat]

\* The part of a text after line c is b.
Fit(text, c, b) == c + Len(b) <= Len(text) /\ \A j \in 1..Len(b) : text[c + j] = b[j]

\* Line for line, or as a whole.
LEMMA FitIsSubSeq ==
    ASSUME NEW S, NEW text \in Seq(S), NEW b \in Seq(S), NEW c \in Nat
    PROVE  Fit(text, c, b) <=>
              c + Len(b) <= Len(text) /\ SubSeq(text, c + 1, c + Len(b)) = b
<1> SUFFICES ASSUME c + Len(b) <= Len(text)
             PROVE  (\A j \in 1..Len(b) : text[c + j] = b[j])
                       <=> SubSeq(text, c + 1, c + Len(b)) = b
  BY DEF Fit
<1> DEFINE m == Len(b)
           w == SubSeq(text, c + 1, c + m)
<1>1. m \in Nat
  OBVIOUS
<1>2. w \in Seq(S) /\ Len(w) = m /\ \A j \in 1..m : w[j] = text[c + j]
  <2>1. /\ c + 1 \in 1..(Len(text) + 1) /\ c + m \in (c + 1) - 1..Len(text)
        /\ (c + m) - (c + 1) + 1 = m /\ \A j \in 1..m : (c + 1) + j - 1 = c + j
    OBVIOUS
  <2> HIDE DEF m
  <2> QED
    BY <1>1, <2>1, SubSeqProperties
<1> HIDE DEF w
<1>3. (\A j \in 1..m : w[j] = b[j]) <=> w = b
  BY <1>1, <1>2, SeqEqual
<1> QED
  BY <1>2, <1>3 DEF w

\* One line more fits if the lines before it do and it is the next one.
LEMMA FitLonger ==
    ASSUME NEW S, NEW text \in Seq(S), NEW b \in Seq(S), NEW e \in S, NEW c \in Nat
    PROVE  Fit(text, c, Append(b, e)) <=>
              Fit(text, c, b) /\ c + Len(b) < Len(text) /\ text[c + Len(b) + 1] = e
<1> DEFINE m == Len(b)
           d == Append(b, e)
<1>1. m \in Nat /\ Len(text) \in Nat
  OBVIOUS
<1>2. Len(d) = m + 1 /\ d[m + 1] = e /\ \A j \in 1..m : d[j] = b[j]
  BY Appended
<1> HIDE DEF m, d
<1>3. \A j \in 1..(m + 1) : j \in 1..m \/ j = m + 1
  BY <1>1
<1>4. m + 1 \in 1..(m + 1) /\ 1..m \subseteq 1..(m + 1) /\ c + (m + 1) = c + m + 1
      /\ (c + (m + 1) <= Len(text) <=> c + m < Len(text))
      /\ (c + m < Len(text) => c + m <= Len(text))
  BY <1>1
<1>5. Fit(text, c, d) <=> c + (m + 1) <= Len(text) /\ \A j \in 1..(m + 1) : text[c + j] = d[j]
  BY <1>2 DEF Fit
<1>6. Fit(text, c, b) <=> c + m <= Len(text) /\ \A j \in 1..m : text[c + j] = b[j]
  BY DEF Fit, m
<1>7. (\A j \in 1..(m + 1) : text[c + j] = d[j]) <=>
         (\A j \in 1..m : text[c + j] = b[j]) /\ text[c + m + 1] = e
  <2>1. ASSUME \A j \in 1..(m + 1) : text[c + j] = d[j]
        PROVE  (\A j \in 1..m : text[c + j] = b[j]) /\ text[c + m + 1] = e
    BY <2>1, <1>2, <1>4
  <2>2. ASSUME \A j \in 1..m : text[c + j] = b[j], text[c + m + 1] = e, NEW j \in 1..(m + 1)
        PROVE  text[c + j] = d[j]
    <3>1. CASE j = m + 1
      BY <2>2, <3>1, <1>2, <1>4
    <3>2. CASE j \in 1..m
      BY <2>2, <3>2, <1>2
    <3> QED
      BY <1>3, <3>1, <3>2
  <2> QED
    BY <2>1, <2>2
<1> QED
  BY <1>4, <1>5, <1>6, <1>7 DEF m, d

-----------------------------------------------------------------------------
\* What a line makes of what was patched so far is of the same type.
LEMMA PatchLineType ==
    ASSUME NEW text \in Seq(STRING), NEW v \in Patching, NEW line \in HunkLines
    PROVE  PatchLine(text, v, line) \in Patching
<1>1. /\ Append(v.out, line.text) \in Seq(STRING)
      /\ v.cursor + 1 \in Nat
  <2>1. v.out \in Seq(STRING) /\ line.text \in STRING
    BY DEF Patching, HunkLines
  <2>2. Append(v.out, line.text) \in Seq(STRING)
    BY <2>1, Appended
  <2> QED
    BY <2>2 DEF Patching
<1>2. \A o \in Seq(STRING), n \in Nat :
         /\ [v EXCEPT !.out = o] \in Patching
         /\ [v EXCEPT !.ok = FALSE] \in Patching
         /\ [v EXCEPT !.cursor = n] \in Patching
         /\ [v EXCEPT !.cursor = n, !.out = o] \in Patching
  BY DEF Patching
<1> QED
  BY <1>1, <1>2 DEF PatchLine

\* The lines of one side, one after the other.
LEMMA SideSteps ==
    ASSUME NEW lines \in Seq(HunkLines), NEW op
    PROVE  \E at \in [0..Len(lines) -> Seq(STRING)] :
              /\ at[0] = <<>>
              /\ \A k \in 1..Len(lines) :
                    at[k] = IF lines[k].op = op THEN at[k - 1]
                            ELSE Append(at[k - 1], lines[k].text)
              /\ Side(lines, op) = at[Len(lines)]
<1> DEFINE X == Seq(STRING)
           n == Len(lines)
           Next1(x, k) == IF lines[k].op = op THEN x ELSE Append(x, lines[k].text)
           g == [k \in 1..n |-> [x \in X |-> Next1(x, k)]]
           Is(f) == f = [k \in 0..n |-> IF k = 0 THEN <<>>
                                        ELSE IF lines[k].op = op THEN f[k - 1]
                                        ELSE Append(f[k - 1], lines[k].text)]
<1>1. ASSUME NEW x \in X, NEW k \in 1..n
      PROVE  Next1(x, k) \in X
  <2>1. lines[k] \in HunkLines
    OBVIOUS
  <2>3. lines[k].text \in STRING
    BY <2>1 DEF HunkLines
  <2>2. Append(x, lines[k].text) \in X
    BY <2>3, Appended
  <2> QED
    BY <2>2
<1>2. <<>> \in X /\ n \in Nat
  OBVIOUS
<1> HIDE DEF X, n
<1>3. g \in Steps(X, n)
  <2> HIDE DEF Next1
  <2> QED
    BY <1>1 DEF Steps
<1>4. PICK f \in [0..n -> X] : /\ f = [k \in 0..n |-> IF k = 0 THEN <<>> ELSE g[k][f[k - 1]]]
                               /\ \A k \in 1..n : f[k] = g[k][f[k - 1]] /\ f[k - 1] \in X
  <2>1. \A b \in X, h \in Steps(X, n) :
           \E f \in [0..n -> X] : /\ f = [k \in 0..n |-> IF k = 0 THEN b ELSE h[k][f[k - 1]]]
                                  /\ \A k \in 1..n : f[k] = h[k][f[k - 1]] /\ f[k - 1] \in X
    BY <1>2, Recursion
  <2> HIDE DEF g
  <2> QED
    BY <1>2, <1>3, <2>1
<1>5. Is(f)
  <2>1. \A k \in 1..n : g[k][f[k - 1]] = Next1(f[k - 1], k)
    BY <1>4
  <2>2. \A k \in 0..n : k # 0 => k \in 1..n
    BY <1>2
  <2> HIDE DEF g
  <2> QED
    BY <1>4, <2>1, <2>2
<1> DEFINE at == CHOOSE h : Is(h)
<1>6. Is(at)
  BY <1>5
<1> HIDE DEF at
<1>7. at[0] = <<>> /\ \A k \in 1..n : at[k] = Next1(at[k - 1], k)
  <2>1. \A k \in 1..n : k \in 0..n /\ k # 0
    BY <1>2
  <2>2. 0 \in 0..n
    BY <1>2
  <2> QED
    BY <1>6, <2>1, <2>2
<1>8. at \in [0..n -> X]
  <2>1. at = [k \in 0..n |-> at[k]]
    BY <1>6
  <2>2. \A k \in 1..n : at[k - 1] \in X => at[k] \in X
    <3> HIDE DEF Next1
    <3> QED
      BY <1>1, <1>7
  <2> QED
    BY <1>2, <1>7, <2>1, <2>2, RecursionStays
<1>9. Side(lines, op) = at[n]
  BY DEF Side, at, n
<1> QED
  BY <1>7, <1>8, <1>9 DEF X, n

\* A hunk's lines, one after the other.
LEMMA PatchLinesSteps ==
    ASSUME NEW text \in Seq(STRING), NEW v \in Patching, NEW lines \in Seq(HunkLines)
    PROVE  \E at \in [0..Len(lines) -> Patching] :
              /\ at[0] = v
              /\ \A k \in 1..Len(lines) :
                    at[k] = IF at[k - 1].ok THEN PatchLine(text, at[k - 1], lines[k])
                            ELSE at[k - 1]
              /\ PatchLines(text, v, lines) = at[Len(lines)]
<1> DEFINE X == Patching
           n == Len(lines)
           Next1(x, k) == IF x.ok THEN PatchLine(text, x, lines[k]) ELSE x
           g == [k \in 1..n |-> [x \in X |-> Next1(x, k)]]
           Is(f) == f = [k \in 0..n |-> IF k = 0 THEN v
                                        ELSE IF f[k - 1].ok THEN PatchLine(text, f[k - 1], lines[k])
                                        ELSE f[k - 1]]
<1>1. ASSUME NEW x \in X, NEW k \in 1..n
      PROVE  Next1(x, k) \in X
  BY PatchLineType
<1>2. v \in X /\ n \in Nat
  OBVIOUS
<1> HIDE DEF X, n
<1>3. g \in Steps(X, n)
  <2> HIDE DEF Next1
  <2> QED
    BY <1>1 DEF Steps
<1>4. PICK f \in [0..n -> X] : /\ f = [k \in 0..n |-> IF k = 0 THEN v ELSE g[k][f[k - 1]]]
                               /\ \A k \in 1..n : f[k] = g[k][f[k - 1]] /\ f[k - 1] \in X
  <2>1. \A b \in X, h \in Steps(X, n) :
           \E f \in [0..n -> X] : /\ f = [k \in 0..n |-> IF k = 0 THEN b ELSE h[k][f[k - 1]]]
                                  /\ \A k \in 1..n : f[k] = h[k][f[k - 1]] /\ f[k - 1] \in X
    BY <1>2, Recursion
  <2> HIDE DEF g
  <2> QED
    BY <1>2, <1>3, <2>1
<1>5. Is(f)
  <2>1. \A k \in 1..n : g[k][f[k - 1]] = Next1(f[k - 1], k)
    BY <1>4
  <2>2. \A k \in 0..n : k # 0 => k \in 1..n
    BY <1>2
  <2> HIDE DEF g
  <2> QED
    BY <1>4, <2>1, <2>2
<1> DEFINE at == CHOOSE h : Is(h)
<1>6. Is(at)
  BY <1>5
<1> HIDE DEF at
<1>7. at[0] = v /\ \A k \in 1..n : at[k] = Next1(at[k - 1], k)
  <2>1. \A k \in 1..n : k \in 0..n /\ k # 0
    BY <1>2
  <2>2. 0 \in 0..n
    BY <1>2
  <2> QED
    BY <1>6, <2>1, <2>2
<1>8. at \in [0..n -> X]
  <2>1. at = [k \in 0..n |-> at[k]]
    BY <1>6
  <2>2. \A k \in 1..n : at[k - 1] \in X => at[k] \in X
    <3> HIDE DEF Next1
    <3> QED
      BY <1>1, <1>7
  <2> QED
    BY <1>2, <1>7, <2>1, <2>2, RecursionStays
<1>9. PatchLines(text, v, lines) = at[n]
  BY DEF PatchLines, at, n
<1> QED
  BY <1>7, <1>8, <1>9 DEF X, n

\* A line at the end of two texts is at the end of the second.
LEMMA TextConcat ==
    \A s \in Seq(STRING), t \in Seq(STRING), e \in STRING :
        Append(s \o t, e) = s \o Append(t, e)
<1> DEFINE S == STRING
<1> HIDE DEF S
<1>1. \A s \in Seq(S), t \in Seq(S), e \in S : Append(s \o t, e) = s \o Append(t, e)
  OBVIOUS
<1> QED
  BY <1>1 DEF S

FitFurther(text, c, b, e) ==
    Fit(text, c, b) /\ c + Len(b) < Len(text) /\ text[c + Len(b) + 1] = e

\* FitLonger, of texts.
LEMMA TextFit ==
    \A text \in Seq(STRING), b \in Seq(STRING), e \in STRING, c \in Nat :
        Fit(text, c, Append(b, e)) <=> FitFurther(text, c, b, e)
<1> DEFINE S == STRING
<1> HIDE DEF S
<1>1. \A text \in Seq(S), b \in Seq(S), e \in S, c \in Nat :
        Fit(text, c, Append(b, e)) <=>
           Fit(text, c, b) /\ c + Len(b) < Len(text) /\ text[c + Len(b) + 1] = e
  BY FitLonger
<1> QED
  BY <1>1 DEF S, FitFurther

\* One line further: what has been seen, fitted (ok) up to line k and written (x).
Seen(text, c, o, b, a, k, x, ok) ==
    (ok <=> Fit(text, c, b)) /\ (ok => k = c + Len(b) /\ x = o \o a)
Differs(text, k, e) == k >= Len(text) \/ text[k + 1] # e
SeenFurther(text, c, o, b, a, k, x, ok, e) ==
    /\ ok => Append(x, e) = o \o Append(a, e)
    /\ ~ok => ~Fit(text, c, b) /\ ~Fit(text, c, Append(b, e))
    /\ ok /\ Differs(text, k, e) => ~Fit(text, c, Append(b, e))
    /\ ok /\ ~Differs(text, k, e) =>
          Fit(text, c, Append(b, e)) /\ k + 1 = c + Len(Append(b, e))

\* Their types.
SeenTexts(text, c, o, b, a, k, x, ok, e) ==
    /\ text \in Seq(STRING) /\ b \in Seq(STRING) /\ a \in Seq(STRING) /\ o \in Seq(STRING)
    /\ x \in Seq(STRING) /\ e \in STRING /\ c \in Nat /\ k \in Nat /\ ok \in BOOLEAN

\* What was seen after one line more, for the three kinds of lines.
LEMMA Further ==
    \A text, b, a, o, x, e, c, k, ok :
        SeenTexts(text, c, o, b, a, k, x, ok, e) =>
           (Seen(text, c, o, b, a, k, x, ok) => SeenFurther(text, c, o, b, a, k, x, ok, e))
<1> TAKE text, b, a, o, x, e, c, k, ok
<1>a. SUFFICES ASSUME SeenTexts(text, c, o, b, a, k, x, ok, e)
               PROVE  Seen(text, c, o, b, a, k, x, ok) => SeenFurther(text, c, o, b, a, k, x, ok, e)
  OBVIOUS
<1>b. /\ text \in Seq(STRING) /\ b \in Seq(STRING) /\ a \in Seq(STRING) /\ o \in Seq(STRING)
      /\ x \in Seq(STRING) /\ e \in STRING /\ c \in Nat /\ k \in Nat /\ ok \in BOOLEAN
  BY <1>a DEF SeenTexts
<1> USE <1>b
<1> DEFINE n == Len(text)
           m == Len(b)
           F == Fit(text, c, b)
           G == Fit(text, c, Append(b, e))
<1>1. m \in Nat /\ n \in Nat
  OBVIOUS
<1>2. Len(Append(b, e)) = m + 1
  BY TextAppended
<1>3. Append(o \o a, e) = o \o Append(a, e)
  BY TextConcat
<1>4. G <=> F /\ c + m < n /\ text[c + m + 1] = e
  <2>1. G <=> FitFurther(text, c, b, e)
    BY TextFit, Zenon
  <2> QED
    BY <2>1 DEF FitFurther
<1>5. SUFFICES ASSUME ok <=> F, ok => k = c + m /\ x = o \o a
               PROVE  /\ ok => Append(x, e) = o \o Append(a, e)
                      /\ ~ok => ~F /\ ~G
                      /\ ok /\ (k >= n \/ text[k + 1] # e) => ~G
                      /\ ok /\ ~(k >= n \/ text[k + 1] # e) => G /\ k + 1 = c + (m + 1)
  BY <1>2 DEF Seen, SeenFurther, Differs
<1> HIDE DEF m, n, F, G
<1>6. (k >= n <=> ~(k < n)) /\ (k = c + m => k + 1 = c + (m + 1))
  BY <1>1
<1>7. /\ ~ok => ~F /\ ~G
      /\ ok /\ (k >= n \/ text[k + 1] # e) => ~G
      /\ ok /\ ~(k >= n \/ text[k + 1] # e) => G /\ k + 1 = c + (m + 1)
  BY <1>4, <1>5, <1>6
<1> QED
  BY <1>3, <1>5, <1>7

\* The fields of a record, one changed after the other.
LEMMA PatchingChanged ==
    \A w \in Patching : \A y, n, no :
        /\ [w EXCEPT !.out = y] = [ok |-> w.ok, out |-> y, cursor |-> w.cursor]
        /\ [w EXCEPT !.ok = no] = [ok |-> no, out |-> w.out, cursor |-> w.cursor]
        /\ [w EXCEPT !.cursor = n] = [ok |-> w.ok, out |-> w.out, cursor |-> n]
        /\ [w EXCEPT !.cursor = n, !.out = y] = [ok |-> w.ok, out |-> y, cursor |-> n]
<1> TAKE w \in Patching
<1> TAKE y, n, no
<1> DEFINE ok == w.ok
           x == w.out
           k == w.cursor
<1>0. w = [ok |-> ok, out |-> x, cursor |-> k]
  BY DEF Patching
<1> HIDE DEF ok, x, k
<1>1. [w EXCEPT !.out = y] = [ok |-> ok, out |-> y, cursor |-> k]
  BY <1>0
<1>2. [w EXCEPT !.ok = no] = [ok |-> no, out |-> x, cursor |-> k]
  BY <1>0
<1>3. [w EXCEPT !.cursor = n] = [ok |-> ok, out |-> x, cursor |-> n]
  BY <1>0
<1>4. [w EXCEPT !.cursor = n, !.out = y] = [ok |-> ok, out |-> y, cursor |-> n]
  <2>1. [w EXCEPT !.cursor = n, !.out = y] = [[w EXCEPT !.cursor = n] EXCEPT !.out = y]
    OBVIOUS
  <2> DEFINE v == [w EXCEPT !.cursor = n]
  <2>2. v = [ok |-> ok, out |-> x, cursor |-> n]
    BY <1>3
  <2> HIDE DEF v
  <2>3. [v EXCEPT !.out = y] = [ok |-> ok, out |-> y, cursor |-> n]
    BY <2>2
  <2> QED
    BY <2>1, <2>3 DEF v
<1> QED
  BY <1>1, <1>2, <1>3, <1>4, Zenon DEF ok, x, k

\* The types of what one line is about.
OneLineTexts(text, c, o, w, line, b, a) ==
    /\ text \in Seq(STRING) /\ c \in Nat /\ o \in Seq(STRING) /\ w \in Patching
    /\ line \in HunkLines /\ b \in Seq(STRING) /\ a \in Seq(STRING)

\* A line of a hunk does to the patched text what it does to the two sides.
LEMMA OneLine ==
    \A text, c, o, w, line, b, a :
        OneLineTexts(text, c, o, w, line, b, a) =>
           \A w1, b2, a2 :
              /\ Seen(text, c, o, b, a, w.cursor, w.out, w.ok)
              /\ w1 = IF w.ok THEN PatchLine(text, w, line) ELSE w
              /\ b2 = IF line.op = "+" THEN b ELSE Append(b, line.text)
              /\ a2 = IF line.op = "-" THEN a ELSE Append(a, line.text)
              => Seen(text, c, o, b2, a2, w1.cursor, w1.out, w1.ok)
<1> TAKE text, c, o, w, line, b, a
<1>a. SUFFICES
        ASSUME OneLineTexts(text, c, o, w, line, b, a),
               NEW w1, NEW b2, NEW a2
        PROVE  /\ Seen(text, c, o, b, a, w.cursor, w.out, w.ok)
               /\ w1 = IF w.ok THEN PatchLine(text, w, line) ELSE w
               /\ b2 = IF line.op = "+" THEN b ELSE Append(b, line.text)
               /\ a2 = IF line.op = "-" THEN a ELSE Append(a, line.text)
               => Seen(text, c, o, b2, a2, w1.cursor, w1.out, w1.ok)
  OBVIOUS
<1>b. /\ text \in Seq(STRING) /\ w \in Patching /\ b \in Seq(STRING) /\ a \in Seq(STRING)
      /\ o \in Seq(STRING) /\ c \in Nat /\ line \in HunkLines
  BY <1>a DEF OneLineTexts
<1> USE <1>b
<1> DEFINE e == line.text
           k == w.cursor
           x == w.out
           ok == w.ok
           bad == Differs(text, k, e)
<1>1. line.op \in {" ", "-", "+"} /\ e \in STRING
  BY DEF HunkLines
<1>2. ok \in BOOLEAN /\ x \in Seq(STRING) /\ k \in Nat /\ w = [ok |-> ok, out |-> x, cursor |-> k]
  BY DEF Patching
<1>3. text \in Seq(STRING) /\ b \in Seq(STRING) /\ a \in Seq(STRING) /\ o \in Seq(STRING)
  OBVIOUS
<1> DEFINE plus == [ok |-> ok, out |-> Append(x, e), cursor |-> k]
           minus == [ok |-> ok, out |-> x, cursor |-> k + 1]
           keep == [ok |-> ok, out |-> Append(x, e), cursor |-> k + 1]
           fail == [ok |-> FALSE, out |-> x, cursor |-> k]
<1>4. PatchLine(text, w, line) =
         IF line.op = "+" THEN plus
         ELSE IF bad THEN fail
         ELSE IF line.op = "-" THEN minus ELSE keep
  <2>1. \A y, n, no :
           /\ [w EXCEPT !.out = y] = [ok |-> ok, out |-> y, cursor |-> k]
           /\ [w EXCEPT !.ok = no] = [ok |-> no, out |-> x, cursor |-> k]
           /\ [w EXCEPT !.cursor = n] = [ok |-> ok, out |-> x, cursor |-> n]
           /\ [w EXCEPT !.cursor = n, !.out = y] = [ok |-> ok, out |-> y, cursor |-> n]
    BY PatchingChanged, Zenon
  <2>2. /\ [w EXCEPT !.out = Append(w.out, line.text)] = plus
        /\ [w EXCEPT !.ok = FALSE] = fail
        /\ [w EXCEPT !.cursor = w.cursor + 1] = minus
        /\ [w EXCEPT !.cursor = w.cursor + 1, !.out = Append(w.out, line.text)] = keep
    BY <2>1
  <2> HIDE DEF plus, minus, keep, fail
  <2> QED
    BY <2>2 DEF PatchLine, Differs
<1>5. /\ plus.ok = ok /\ plus.out = Append(x, e) /\ plus.cursor = k
      /\ minus.ok = ok /\ minus.out = x /\ minus.cursor = k + 1
      /\ keep.ok = ok /\ keep.out = Append(x, e) /\ keep.cursor = k + 1
      /\ fail.ok = FALSE
  OBVIOUS
<1>6. SUFFICES
        ASSUME Seen(text, c, o, b, a, k, x, ok),
               w1 = (IF ok THEN PatchLine(text, w, line) ELSE w),
               b2 = (IF line.op = "+" THEN b ELSE Append(b, e)),
               a2 = (IF line.op = "-" THEN a ELSE Append(a, e))
        PROVE  Seen(text, c, o, b2, a2, w1.cursor, w1.out, w1.ok)
  OBVIOUS
<1> HIDE DEF e, k, x, ok, plus, minus, keep, fail
<1>7. SeenFurther(text, c, o, b, a, k, x, ok, e)
  <2>1. SeenTexts(text, c, o, b, a, k, x, ok, e)
    BY <1>1, <1>2, <1>3 DEF SeenTexts
  <2>2. Seen(text, c, o, b, a, k, x, ok) => SeenFurther(text, c, o, b, a, k, x, ok, e)
    BY <2>1, Further, Zenon
  <2> QED
    BY <2>2, <1>6, Zenon
<1> HIDE DEF bad
<1>8. /\ ok => Append(x, e) = o \o Append(a, e)
      /\ ~ok => ~Fit(text, c, b) /\ ~Fit(text, c, Append(b, e))
      /\ ok /\ bad => ~Fit(text, c, Append(b, e))
      /\ ok /\ ~bad => Fit(text, c, Append(b, e)) /\ k + 1 = c + Len(Append(b, e))
  BY <1>7 DEF SeenFurther, bad
<1>9. (ok <=> Fit(text, c, b)) /\ (ok => k = c + Len(b) /\ x = o \o a)
  BY <1>6 DEF Seen
<1>10. SUFFICES /\ w1.ok <=> Fit(text, c, b2)
                /\ w1.ok => w1.cursor = c + Len(b2) /\ w1.out = o \o a2
  BY DEF Seen
<1>11. CASE ~ok
  BY <1>6, <1>8, <1>9, <1>11 DEF ok
<1>12. CASE ok /\ line.op = "+"
  BY <1>4, <1>5, <1>6, <1>8, <1>9, <1>12
<1>13. CASE ok /\ line.op # "+" /\ bad
  BY <1>4, <1>5, <1>6, <1>8, <1>9, <1>13
<1>14. CASE ok /\ line.op # "+" /\ ~bad /\ line.op = "-"
  BY <1>4, <1>5, <1>6, <1>8, <1>9, <1>14
<1>15. CASE ok /\ line.op # "+" /\ ~bad /\ line.op # "-"
  BY <1>4, <1>5, <1>6, <1>8, <1>9, <1>15
<1> QED
  BY <1>2, <1>11, <1>12, <1>13, <1>14, <1>15

\* What the lines of a hunk do: they fit if the old ones are there, and are replaced
\* by the new ones.
LEMMA PatchLinesMeaning ==
    ASSUME NEW text \in Seq(STRING), NEW v \in Patching, NEW lines \in Seq(HunkLines),
           v.ok, v.cursor <= Len(text)
    PROVE  /\ PatchLines(text, v, lines) \in Patching
           /\ Side(lines, "+") \in Seq(STRING) /\ Side(lines, "-") \in Seq(STRING)
           /\ Seen(text, v.cursor, v.out, Side(lines, "+"), Side(lines, "-"),
                   PatchLines(text, v, lines).cursor, PatchLines(text, v, lines).out,
                   PatchLines(text, v, lines).ok)
<1> DEFINE n == Len(lines)
           c == v.cursor
           o == v.out
<1>1. PICK at \in [0..n -> Patching] :
         /\ at[0] = v
         /\ \A k \in 1..n : at[k] = IF at[k - 1].ok THEN PatchLine(text, at[k - 1], lines[k])
                                    ELSE at[k - 1]
         /\ PatchLines(text, v, lines) = at[n]
  BY PatchLinesSteps
<1>2. PICK bs \in [0..n -> Seq(STRING)] :
         /\ bs[0] = <<>>
         /\ \A k \in 1..n : bs[k] = IF lines[k].op = "+" THEN bs[k - 1]
                                    ELSE Append(bs[k - 1], lines[k].text)
         /\ Side(lines, "+") = bs[n]
  BY SideSteps
<1>3. PICK as \in [0..n -> Seq(STRING)] :
         /\ as[0] = <<>>
         /\ \A k \in 1..n : as[k] = IF lines[k].op = "-" THEN as[k - 1]
                                    ELSE Append(as[k - 1], lines[k].text)
         /\ Side(lines, "-") = as[n]
  BY SideSteps
<1>4. c \in Nat /\ o \in Seq(STRING) /\ n \in Nat /\ \A k \in 1..n : lines[k] \in HunkLines
  BY DEF Patching
<1> DEFINE Seen1(k) == Seen(text, c, o, bs[k], as[k], at[k].cursor, at[k].out, at[k].ok)
           Good == {k \in 0..n : Seen1(k)}
<1>5. 0 \in Good
  <2>1. Fit(text, c, <<>>)
    BY <1>4 DEF Fit
  <2>2. c + Len(<<>>) = c /\ o \o <<>> = o
    BY <1>4
  <2> HIDE DEF c, o
  <2>3. Seen(text, c, o, <<>>, <<>>, v.cursor, v.out, v.ok)
    BY <2>1, <2>2 DEF Seen, c, o
  <2>4. 0 \in 0..n
    BY <1>4
  <2>5. Seen1(0)
    BY <2>3, <1>1, <1>2, <1>3
  <2> HIDE DEF Seen1
  <2> QED
    BY <2>4, <2>5
<1>6. ASSUME NEW k \in 1..n, k - 1 \in Good
      PROVE  k \in Good
  <2>1. k - 1 \in 0..n /\ k \in 0..n /\ k \in 1..n
    BY <1>4
  <2>2. at[k - 1] \in Patching /\ bs[k - 1] \in Seq(STRING) /\ as[k - 1] \in Seq(STRING)
    BY <2>1
  <2>3. Seen1(k - 1)
    BY <1>6
  <2>4. lines[k] \in HunkLines
    BY <2>1, <1>4
  <2> HIDE DEF n, c, o
  <2>5. Seen1(k)
    <3> DEFINE w == at[k - 1]
               b == bs[k - 1]
               a == as[k - 1]
               line == lines[k]
    <3>1. Seen(text, c, o, b, a, w.cursor, w.out, w.ok)
      BY <2>3
    <3>2. /\ at[k] = IF w.ok THEN PatchLine(text, w, line) ELSE w
          /\ bs[k] = IF line.op = "+" THEN b ELSE Append(b, line.text)
          /\ as[k] = IF line.op = "-" THEN a ELSE Append(a, line.text)
      BY <1>1, <1>2, <1>3, <2>1
    <3>3. w \in Patching /\ b \in Seq(STRING) /\ a \in Seq(STRING) /\ line \in HunkLines
      BY <2>2, <2>4
    <3> HIDE DEF w, b, a, line
    <3>4. OneLineTexts(text, c, o, w, line, b, a)
      BY <3>3, <1>4 DEF OneLineTexts
    <3>5. \A w1, b2, a2 :
             /\ Seen(text, c, o, b, a, w.cursor, w.out, w.ok)
             /\ w1 = IF w.ok THEN PatchLine(text, w, line) ELSE w
             /\ b2 = IF line.op = "+" THEN b ELSE Append(b, line.text)
             /\ a2 = IF line.op = "-" THEN a ELSE Append(a, line.text)
             => Seen(text, c, o, b2, a2, w1.cursor, w1.out, w1.ok)
      BY <3>4, OneLine, Zenon
    <3>6. Seen(text, c, o, bs[k], as[k], at[k].cursor, at[k].out, at[k].ok)
      BY <3>1, <3>2, <3>5
    <3> QED
      BY <3>6
  <2> HIDE DEF Seen1
  <2> QED
    BY <2>1, <2>5
<1>7. n \in Good
  <2>1. \A k \in 0..n : k \in Good
    <3> HIDE DEF Good, n
    <3> QED
      BY <1>4, <1>5, <1>6, UpTo
  <2>2. n \in 0..n
    BY <1>4
  <2> HIDE DEF Good, n
  <2> QED
    BY <2>1, <2>2
<1> HIDE DEF n, c, o
<1>8. n \in 0..n
  BY <1>4
<1>9. at[n] \in Patching /\ bs[n] \in Seq(STRING) /\ as[n] \in Seq(STRING)
  BY <1>8
<1>10. Seen(text, c, o, bs[n], as[n], at[n].cursor, at[n].out, at[n].ok)
  BY <1>7
<1> DEFINE b == Side(lines, "+")
           a == Side(lines, "-")
           w == PatchLines(text, v, lines)
<1>11. w = at[n] /\ b = bs[n] /\ a = as[n]
  BY <1>1, <1>2, <1>3
<1> HIDE DEF b, a, w
<1>12. Seen(text, c, o, b, a, w.cursor, w.out, w.ok)
  BY <1>10, <1>11
<1> QED
  BY <1>9, <1>11, <1>12 DEF c, o, b, a, w

\* A part of a text is one.
LEMMA TextPart ==
    \A text \in Seq(STRING), m, n \in Nat :
        m + 1 >= 1 /\ n <= Len(text) => SubSeq(text, m + 1, n) \in Seq(STRING)
<1> DEFINE S == STRING
<1> HIDE DEF S
<1>1. ASSUME NEW text \in Seq(S), NEW m \in Nat, NEW n \in Nat, n <= Len(text)
      PROVE  SubSeq(text, m + 1, n) \in Seq(S)
  BY <1>1
<1> QED
  BY <1>1 DEF S

\* Texts one after the other.
LEMMA TextJoined ==
    \A s \in Seq(STRING), t \in Seq(STRING) : s \o t \in Seq(STRING)
<1> DEFINE S == STRING
<1> HIDE DEF S
<1>1. \A s \in Seq(S), t \in Seq(S) : s \o t \in Seq(S)
  OBVIOUS
<1> QED
  BY <1>1 DEF S

\* The lines after line c of a text, as many as b has, are those of b.
Matched(text, c, b) == c + Len(b) <= Len(text) /\ SubSeq(text, c + 1, c + Len(b)) = b

\* FitIsSubSeq, of texts.
LEMMA TextMatched ==
    \A text \in Seq(STRING), b \in Seq(STRING), c \in Nat : Fit(text, c, b) <=> Matched(text, c, b)
<1> DEFINE S == STRING
<1> HIDE DEF S
<1>1. \A text \in Seq(S), b \in Seq(S), c \in Nat :
         Fit(text, c, b) <=> c + Len(b) <= Len(text) /\ SubSeq(text, c + 1, c + Len(b)) = b
  BY FitIsSubSeq
<1> QED
  BY <1>1 DEF S, Matched

\* What a hunk starts from: the lines up to it are kept.
LEMMA PatchingMoved ==
    \A w \in Patching : \A y, n :
        [w EXCEPT !.out = y, !.cursor = n] = [ok |-> w.ok, out |-> y, cursor |-> n]
<1> TAKE w \in Patching
<1> TAKE y, n
<1> DEFINE v == [w EXCEPT !.out = y]
<1>1. v = [ok |-> w.ok, out |-> y, cursor |-> w.cursor]
  BY PatchingChanged
<1>2. [w EXCEPT !.out = y, !.cursor = n] = [v EXCEPT !.cursor = n]
  OBVIOUS
<1> DEFINE ok == w.ok
           k == w.cursor
<1> HIDE DEF v, ok, k
<1>3. v = [ok |-> ok, out |-> y, cursor |-> k]
  BY <1>1 DEF ok, k
<1>4. [v EXCEPT !.cursor = n] = [ok |-> ok, out |-> y, cursor |-> n]
  BY <1>3
<1> QED
  BY <1>2, <1>4 DEF ok

\* The two sides of a hunk's lines are texts.
LEMMA SidesAreTexts ==
    ASSUME NEW lines \in Seq(HunkLines), NEW op
    PROVE  Side(lines, op) \in Seq(STRING)
<1>1. lines \in Seq(HunkLines) /\ Len(lines) \in Nat
  OBVIOUS
<1>2. PICK at \in [0..Len(lines) -> Seq(STRING)] : Side(lines, op) = at[Len(lines)]
  BY SideSteps
<1>3. Len(lines) \in 0..Len(lines)
  BY <1>1
<1> QED
  BY <1>2, <1>3

\* A hunk fits on what is left of the text after line c.
HunkFits(text, c, hunk) ==
    /\ hunk.start > c
    /\ hunk.start + Len(Before(hunk)) - 1 <= Len(text)
    /\ SubSeq(text, hunk.start, hunk.start + Len(Before(hunk)) - 1) = Before(hunk)

\* What a hunk does.
LEMMA PatchHunkMeaning ==
    ASSUME NEW text \in Seq(STRING), NEW v \in Patching, NEW hunk \in Hunks,
           v.ok => v.cursor <= Len(text)
    PROVE  LET w == PatchHunk(text, v, hunk) IN
           /\ w \in Patching
           /\ w.ok <=> v.ok /\ HunkFits(text, v.cursor, hunk)
           /\ w.ok =>
                 /\ w.cursor = hunk.start + Len(Before(hunk)) - 1 /\ w.cursor <= Len(text)
                 /\ w.out = v.out \o SubSeq(text, v.cursor + 1, hunk.start - 1) \o After(hunk)
<1> DEFINE ok == v.ok
           c == v.cursor
           o == v.out
           h == hunk.start
           n == Len(text)
           b == Before(hunk)
           a == After(hunk)
           m == Len(b)
           w == PatchHunk(text, v, hunk)
           gap == SubSeq(text, c + 1, h - 1)
           u == [ok |-> ok, out |-> o \o gap, cursor |-> h - 1]
           bad == ~ok \/ h = 0 \/ h - 1 > n \/ h - 1 < c
<1>1. h \in Nat /\ hunk.lines \in Seq(HunkLines)
  BY DEF Hunks, HunkLines
<1>2. ok \in BOOLEAN /\ o \in Seq(STRING) /\ c \in Nat
  BY DEF Patching
<1>3. n \in Nat
  OBVIOUS
<1>4. ok => c <= n
  OBVIOUS
<1>5. b \in Seq(STRING) /\ a \in Seq(STRING)
  BY <1>1, SidesAreTexts DEF Before, After
<1>6. m \in Nat
  BY <1>5
<1>7. w = IF bad THEN [v EXCEPT !.ok = FALSE] ELSE PatchLines(text, u, hunk.lines)
  <2>1. [v EXCEPT !.out = v.out \o SubSeq(text, v.cursor + 1, hunk.start - 1),
                  !.cursor = hunk.start - 1] = u
    BY PatchingMoved, Zenon
  <2> HIDE DEF u
  <2> QED
    BY <2>1 DEF PatchHunk
<1> HIDE DEF ok, c, o, h, n, b, a, m, w, gap
<1>8. CASE bad
  <2>1. w = [ok |-> FALSE, out |-> o, cursor |-> c]
    BY <1>7, <1>8, PatchingChanged, Zenon DEF o, c
  <2>2. w \in Patching /\ w.ok = FALSE
    BY <2>1, <1>2 DEF Patching
  <2>3. ~(ok /\ h > c /\ h + m - 1 <= n)
    BY <1>1, <1>2, <1>3, <1>6, <1>8
  <2>4. ~(v.ok /\ HunkFits(text, v.cursor, hunk))
    BY <2>3 DEF HunkFits, ok, h, c, m, b, n
  <2> QED
    BY <2>2, <2>4 DEF w
<1>9. CASE ~bad
  <2>1. ok /\ h - 1 \in Nat /\ h - 1 <= n /\ h - 1 >= c /\ h > c
        /\ (h - 1) + 1 = h /\ (h - 1) + m = h + m - 1
    BY <1>1, <1>2, <1>3, <1>6, <1>9
  <2>2. gap \in Seq(STRING)
    <3>1. text \in Seq(STRING) /\ h - 1 \in Nat /\ h - 1 <= Len(text) /\ c + 1 >= 1
      BY <2>1, <1>2 DEF n
    <3> QED
      BY <3>1, <1>2, TextPart DEF gap
  <2>3. o \o gap \in Seq(STRING)
    BY <2>2, <1>2, TextJoined
  <2>4. u \in Patching
    BY <2>1, <2>3, <1>2 DEF Patching
  <2>5. u.ok = ok /\ u.cursor = h - 1 /\ u.out = o \o gap
    OBVIOUS
  <2>6. w = PatchLines(text, u, hunk.lines)
    BY <1>7, <1>9
  <2> HIDE DEF u
  <2>7. w \in Patching /\ Seen(text, u.cursor, u.out, b, a, w.cursor, w.out, w.ok)
    <3>1. u.ok /\ u.cursor <= Len(text)
      BY <2>1, <2>5 DEF n
    <3> QED
      BY <3>1, <2>4, <2>6, <1>1, PatchLinesMeaning DEF Before, After, a, b
  <2>8. /\ w.ok <=> Fit(text, h - 1, b)
        /\ w.ok => w.cursor = (h - 1) + m /\ w.out = (o \o gap) \o a
    BY <2>5, <2>7 DEF Seen, m
  <2>9. Fit(text, h - 1, b) <=> Matched(text, h - 1, b)
    BY <2>1, <1>5, TextMatched, Zenon
  <2>10. Matched(text, h - 1, b) <=> (h - 1) + m <= n /\ SubSeq(text, (h - 1) + 1, (h - 1) + m) = b
    BY DEF Matched, m, n
  <2>11. Matched(text, h - 1, b) <=> h + m - 1 <= n /\ SubSeq(text, h, h + m - 1) = b
    BY <2>1, <2>10
  <2>12. w.ok <=> v.ok /\ HunkFits(text, v.cursor, hunk)
    BY <2>1, <2>8, <2>9, <2>11 DEF HunkFits, ok, h, c, m, b, n
  <2>13. w.ok => w.cursor = h + m - 1 /\ w.cursor <= n
    BY <2>1, <2>8, <2>9, <2>11
  <2> QED
    BY <2>7, <2>8, <2>12, <2>13 DEF w, h, m, b, n, o, gap, c, a
<1> QED
  BY <1>8, <1>9

\* The states of a patch of a text: the cursor is in it.
PatchingOf(text) == {w \in Patching : w.ok => w.cursor <= Len(text)}

\* The hunks of a patch, one after the other.
LEMMA PatchHunksSteps ==
    ASSUME NEW text \in Seq(STRING), NEW hunks \in Seq(Hunks)
    PROVE  \E at \in [0..Len(hunks) -> PatchingOf(text)] :
              /\ at[0] = [ok |-> hunks # <<>>, out |-> <<>>, cursor |-> 0]
              /\ \A k \in 1..Len(hunks) : at[k] = PatchHunk(text, at[k - 1], hunks[k])
              /\ PatchHunks(text, hunks) = at[Len(hunks)]
<1> DEFINE X == PatchingOf(text)
           n == Len(hunks)
           v == [ok |-> hunks # <<>>, out |-> <<>>, cursor |-> 0]
           Next1(x, k) == PatchHunk(text, x, hunks[k])
           g == [k \in 1..n |-> [x \in X |-> Next1(x, k)]]
           Is(f) == f = [k \in 0..n |-> IF k = 0 THEN v ELSE PatchHunk(text, f[k - 1], hunks[k])]
<1>1. ASSUME NEW x \in X, NEW k \in 1..n
      PROVE  Next1(x, k) \in X
  <2>1. hunks[k] \in Hunks
    OBVIOUS
  <2>2. x \in Patching /\ (x.ok => x.cursor <= Len(text))
    BY DEF PatchingOf
  <2> DEFINE hunk == hunks[k]
             w == PatchHunk(text, x, hunk)
  <2> HIDE DEF hunk
  <2>3. w \in Patching /\ (w.ok => w.cursor <= Len(text))
    BY <2>1, <2>2, PatchHunkMeaning DEF hunk
  <2> HIDE DEF w
  <2>4. w \in X
    BY <2>3 DEF PatchingOf
  <2> QED
    BY <2>4 DEF w, hunk
<1>2. v \in X /\ n \in Nat
  <2>1. v.ok \in BOOLEAN /\ <<>> \in Seq(STRING) /\ 0 \in Nat
    OBVIOUS
  <2>2. v \in Patching
    BY <2>1 DEF Patching
  <2>3. v.cursor <= Len(text)
    OBVIOUS
  <2> QED
    BY <2>2, <2>3 DEF PatchingOf
<1> HIDE DEF X, n, v
<1>3. g \in Steps(X, n)
  <2> HIDE DEF Next1
  <2> QED
    BY <1>1 DEF Steps
<1>4. PICK f \in [0..n -> X] : /\ f = [k \in 0..n |-> IF k = 0 THEN v ELSE g[k][f[k - 1]]]
                               /\ \A k \in 1..n : f[k] = g[k][f[k - 1]] /\ f[k - 1] \in X
  <2>1. \A b \in X, h \in Steps(X, n) :
           \E f \in [0..n -> X] : /\ f = [k \in 0..n |-> IF k = 0 THEN b ELSE h[k][f[k - 1]]]
                                  /\ \A k \in 1..n : f[k] = h[k][f[k - 1]] /\ f[k - 1] \in X
    BY <1>2, Recursion
  <2> HIDE DEF g
  <2> QED
    BY <1>2, <1>3, <2>1
<1>5. Is(f)
  <2>1. \A k \in 1..n : g[k][f[k - 1]] = Next1(f[k - 1], k)
    BY <1>4
  <2>2. \A k \in 0..n : k # 0 => k \in 1..n
    BY <1>2
  <2> HIDE DEF g
  <2> QED
    BY <1>4, <2>1, <2>2
<1> DEFINE at == CHOOSE h : Is(h)
<1>6. Is(at)
  BY <1>5
<1> HIDE DEF at
<1>7. at[0] = v /\ \A k \in 1..n : at[k] = Next1(at[k - 1], k)
  <2>1. \A k \in 1..n : k \in 0..n /\ k # 0
    BY <1>2
  <2>2. 0 \in 0..n
    BY <1>2
  <2> QED
    BY <1>6, <2>1, <2>2
<1>8. at \in [0..n -> X]
  <2>1. at = [k \in 0..n |-> at[k]]
    BY <1>6
  <2>2. \A k \in 1..n : at[k - 1] \in X => at[k] \in X
    <3> HIDE DEF Next1
    <3> QED
      BY <1>1, <1>7
  <2> QED
    BY <1>2, <1>7, <2>1, <2>2, RecursionStays
<1>9. PatchHunks(text, hunks) = at[n]
  BY DEF PatchHunks, at, n, v
<1> QED
  BY <1>7, <1>8, <1>9 DEF X, n, v

\* What is between the hunks is there.
GapsAre(text, hunks) ==
    \A k \in 1..Len(hunks) :
        /\ SubSeq(text, End(hunks, k - 1) + 1, hunks[k].start - 1) \in Seq(STRING)
        /\ After(hunks[k]) \in Seq(STRING)

\* The parts of a patched text, one after the other.
LEMMA PartsSteps ==
    ASSUME NEW text \in Seq(STRING), NEW hunks \in Seq(Hunks),
           GapsAre(text, hunks)
    PROVE  \E at \in [0..Len(hunks) -> Seq(STRING)] :
              /\ at[0] = <<>>
              /\ \A k \in 1..Len(hunks) :
                    at[k] = at[k - 1] \o SubSeq(text, End(hunks, k - 1) + 1, hunks[k].start - 1)
                                      \o After(hunks[k])
              /\ Parts(text, hunks) = at[Len(hunks)]
<1> DEFINE X == Seq(STRING)
           n == Len(hunks)
           Gap(k) == SubSeq(text, End(hunks, k - 1) + 1, hunks[k].start - 1)
           New(k) == After(hunks[k])
           Next1(x, k) == x \o Gap(k) \o New(k)
           g == [k \in 1..n |-> [x \in X |-> Next1(x, k)]]
           Is(f) == f = [k \in 0..n |-> IF k = 0 THEN <<>> ELSE f[k - 1] \o Gap(k) \o New(k)]
<1>a. \A k \in 1..n : Gap(k) \in X /\ New(k) \in X
  BY DEF GapsAre
<1>2. <<>> \in X /\ n \in Nat
  OBVIOUS
<1> HIDE DEF Gap, New
<1>1. ASSUME NEW x \in X, NEW k \in 1..n
      PROVE  Next1(x, k) \in X
  <2>1. x \o Gap(k) \in X
    BY <1>a, TextJoined
  <2> QED
    BY <2>1, <1>a, TextJoined
<1> HIDE DEF X, n
<1>3. g \in Steps(X, n)
  <2> HIDE DEF Next1
  <2> QED
    BY <1>1 DEF Steps
<1>4. PICK f \in [0..n -> X] : /\ f = [k \in 0..n |-> IF k = 0 THEN <<>> ELSE g[k][f[k - 1]]]
                               /\ \A k \in 1..n : f[k] = g[k][f[k - 1]] /\ f[k - 1] \in X
  <2>1. \A b \in X, h \in Steps(X, n) :
           \E f \in [0..n -> X] : /\ f = [k \in 0..n |-> IF k = 0 THEN b ELSE h[k][f[k - 1]]]
                                  /\ \A k \in 1..n : f[k] = h[k][f[k - 1]] /\ f[k - 1] \in X
    BY <1>2, Recursion
  <2> HIDE DEF g
  <2> QED
    BY <1>2, <1>3, <2>1
<1>5. Is(f)
  <2>1. \A k \in 1..n : g[k][f[k - 1]] = Next1(f[k - 1], k)
    BY <1>4
  <2>2. \A k \in 0..n : k # 0 => k \in 1..n
    BY <1>2
  <2> HIDE DEF g
  <2> QED
    BY <1>4, <2>1, <2>2
<1> DEFINE at == CHOOSE h : Is(h)
<1>6. Is(at)
  BY <1>5
<1> HIDE DEF at
<1>7. at[0] = <<>> /\ \A k \in 1..n : at[k] = Next1(at[k - 1], k)
  <2>1. \A k \in 1..n : k \in 0..n /\ k # 0
    BY <1>2
  <2>2. 0 \in 0..n
    BY <1>2
  <2> QED
    BY <1>6, <2>1, <2>2
<1>8. at \in [0..n -> X]
  <2>1. at = [k \in 0..n |-> at[k]]
    BY <1>6
  <2>2. \A k \in 1..n : at[k - 1] \in X => at[k] \in X
    <3> HIDE DEF Next1
    <3> QED
      BY <1>1, <1>7
  <2>3. n \in Nat /\ at[0] \in X
    BY <1>2, <1>7
  <2> QED
    BY <2>1, <2>2, <2>3, RecursionStays
<1>9. Parts(text, hunks) = at[n]
  BY DEF Parts, at, n, Gap, New
<1> QED
  BY <1>7, <1>8, <1>9 DEF X, n, Gap, New

\* A patch is applied exactly if its hunks fit - each old side is in the text at the line
\* its hunk names, after the hunks before it -, and then the result is the text with each
\* old side replaced by the new one, for any text and any hunks (tool_patch.go 182-233).
THEOREM PatchesMeanWhatTheySay ==
    ASSUME NEW text \in Seq(STRING), NEW hunks \in Seq(Hunks)
    PROVE  /\ ApplyUnifiedPatch(text, hunks).ok <=> Fits(text, hunks)
           /\ Fits(text, hunks) => ApplyUnifiedPatch(text, hunks).text = Patched(text, hunks)
<1> DEFINE n == Len(hunks)
           X == PatchingOf(text)
           Hunk(k) == hunks[k]
           e(k) == End(hunks, k)
           Does(k) == HunkFits(text, e(k - 1), Hunk(k))
           gap(k) == SubSeq(text, e(k - 1) + 1, Hunk(k).start - 1)
<1>1. n \in Nat /\ Len(text) \in Nat /\ \A k \in 1..n : Hunk(k) \in Hunks
  OBVIOUS
<1>2. PICK at \in [0..n -> X] :
         /\ at[0] = [ok |-> hunks # <<>>, out |-> <<>>, cursor |-> 0]
         /\ \A k \in 1..n : at[k] = PatchHunk(text, at[k - 1], Hunk(k))
         /\ PatchHunks(text, hunks) = at[n]
  BY PatchHunksSteps
<1>3. e(0) = 0 /\ \A k \in 1..n : e(k) = Hunk(k).start + Len(Before(Hunk(k))) - 1
  BY DEF End
<1> HIDE DEF n, X, Hunk, e
<1>4. \A k \in 1..n : k - 1 \in 0..n /\ k \in 0..n /\ 1..k \subseteq 1..n
                      /\ 1..k = 1..(k - 1) \cup {k}
  BY <1>1
<1>5. ASSUME NEW k \in 1..n
      PROVE  /\ at[k].ok <=> at[k - 1].ok /\ HunkFits(text, at[k - 1].cursor, Hunk(k))
             /\ at[k].ok => /\ at[k].cursor = e(k)
                            /\ at[k].out = at[k - 1].out
                                           \o SubSeq(text, at[k - 1].cursor + 1, Hunk(k).start - 1)
                                           \o After(Hunk(k))
  <2> DEFINE v == at[k - 1]
             h == Hunk(k)
  <2>1. v \in X /\ h \in Hunks
    BY <1>1, <1>4
  <2>2. v \in Patching /\ (v.ok => v.cursor <= Len(text))
    BY <2>1 DEF X, PatchingOf
  <2>3. at[k] = PatchHunk(text, v, h) /\ e(k) = h.start + Len(Before(h)) - 1
    BY <1>2, <1>3
  <2> HIDE DEF v, h
  <2>4. LET w == PatchHunk(text, v, h) IN
        /\ w.ok <=> v.ok /\ HunkFits(text, v.cursor, h)
        /\ w.ok => /\ w.cursor = h.start + Len(Before(h)) - 1
                   /\ w.out = v.out \o SubSeq(text, v.cursor + 1, h.start - 1) \o After(h)
    BY <2>1, <2>2, PatchHunkMeaning
  <2> QED
    BY <2>3, <2>4 DEF v, h
<1> DEFINE So(k) == hunks # <<>> /\ \A j \in 1..k : Does(j)
           Good == {k \in 0..n : /\ at[k].ok <=> So(k)
                                 /\ at[k].ok => at[k].cursor = e(k)}
<1>6. 0 \in Good
  <2>1. 1..0 = {} /\ 0 \in 0..n
    BY <1>1
  <2>2. at[0].ok = (hunks # <<>>) /\ at[0].cursor = 0
    BY <1>2
  <2> HIDE DEF Does
  <2> QED
    BY <2>1, <2>2, <1>3
<1>7. ASSUME NEW k \in 1..n, k - 1 \in Good
      PROVE  k \in Good
  <2>1. /\ at[k - 1].ok <=> So(k - 1)
        /\ at[k - 1].ok => at[k - 1].cursor = e(k - 1)
    BY <1>7
  <2>2. So(k) <=> So(k - 1) /\ Does(k)
    <3> HIDE DEF Does
    <3> QED
      BY <1>4
  <2> HIDE DEF So
  <2>3. at[k].ok <=> So(k)
    BY <1>5, <2>1, <2>2
  <2>4. at[k].ok => at[k].cursor = e(k)
    BY <1>5
  <2> QED
    BY <1>4, <2>3, <2>4
<1>8. \A k \in 0..n : k \in Good
  <2> HIDE DEF Good
  <2> QED
    BY <1>1, <1>6, <1>7, UpTo
<1>9. So(n) <=> Fits(text, hunks)
  <2>1. DOMAIN hunks = 1..n
    BY DEF n
  <2>2. \A k \in 1..n : Does(k) <=>
           /\ hunks[k].start > End(hunks, k - 1)
           /\ End(hunks, k) <= Len(text)
           /\ SubSeq(text, hunks[k].start, End(hunks, k)) = Before(hunks[k])
    BY <1>3 DEF HunkFits, e, Hunk
  <2> HIDE DEF Does
  <2> QED
    BY <2>1, <2>2 DEF Fits
<1>10. n \in 0..n
  BY <1>1
<1>11. at[n].ok <=> Fits(text, hunks)
  <2> HIDE DEF So
  <2> QED
    BY <1>8, <1>9, <1>10
<1>12. ApplyUnifiedPatch(text, hunks)
         = [ok |-> at[n].ok,
            text |-> TextOf(at[n].out \o SubSeq(text, at[n].cursor + 1, Len(text)))]
  BY <1>2 DEF ApplyUnifiedPatch
<1>13. ASSUME Fits(text, hunks)
       PROVE  at[n].out = Parts(text, hunks) /\ at[n].cursor = e(n)
  <2>1. \A k \in 0..n : at[k].ok /\ at[k].cursor = e(k)
    <3>1. So(n)
      BY <1>9, <1>13
    <3>2. \A k \in 0..n : So(k)
      <4>1. \A k \in 0..n : 1..k \subseteq 1..n
        BY <1>1
      <4> HIDE DEF Does
      <4> QED
        BY <3>1, <4>1
    <3> HIDE DEF So
    <3> QED
      BY <3>2, <1>8
  <2>2. ASSUME NEW k \in 1..n
        PROVE  at[k].out = at[k - 1].out \o gap(k) \o After(Hunk(k))
    <3>1. at[k].ok /\ at[k - 1].cursor = e(k - 1)
      BY <1>4, <2>1
    <3> QED
      BY <3>1, <1>5
  <2>3. \A k \in 0..n : e(k) \in Nat /\ e(k) <= Len(text)
    <3>1. ASSUME NEW k \in 0..n
          PROVE  e(k) \in Nat /\ e(k) <= Len(text)
      <4>1. at[k] \in X /\ at[k].ok /\ at[k].cursor = e(k)
        BY <2>1
      <4> DEFINE w == at[k]
      <4> HIDE DEF w
      <4>2. w.cursor \in Nat /\ (w.ok => w.cursor <= Len(text))
        <5>1. w \in X
          BY <4>1 DEF w
        <5> QED
          BY <5>1 DEF X, PatchingOf, Patching
      <4> QED
        BY <4>1, <4>2 DEF w
    <3> QED
      BY <3>1
  <2>4. GapsAre(text, hunks)
    <3>1. ASSUME NEW k \in 1..n
          PROVE  gap(k) \in Seq(STRING) /\ After(Hunk(k)) \in Seq(STRING)
      <4>1. Hunk(k).lines \in Seq(HunkLines) /\ Hunk(k).start \in Nat
        BY <1>1 DEF Hunks, HunkLines
      <4> DEFINE h == Hunk(k)
                 s == h.start
                 b == Before(h)
      <4>2. b \in Seq(STRING) /\ After(h) \in Seq(STRING)
        BY <4>1, SidesAreTexts DEF Before, After
      <4>3. Len(b) \in Nat
        BY <4>2
      <4>4. Does(k)
        BY <1>9, <1>13
      <4>5. s > e(k - 1) /\ s + Len(b) - 1 <= Len(text)
        BY <4>4 DEF HunkFits
      <4>6. e(k - 1) \in Nat
        BY <1>4, <2>3
      <4> HIDE DEF h, s, b
      <4>7. s - 1 \in Nat /\ s - 1 <= Len(text) /\ e(k - 1) + 1 >= 1
        <5>1. s \in Nat
          BY <4>1 DEF s, h
        <5> QED
          BY <5>1, <4>3, <4>5, <4>6, <1>1
      <4>8. text \in Seq(STRING)
        OBVIOUS
      <4>9. SubSeq(text, e(k - 1) + 1, s - 1) \in Seq(STRING)
        BY <4>6, <4>7, <4>8, TextPart
      <4> QED
        BY <4>2, <4>9 DEF s, h
    <3> QED
      BY <3>1 DEF GapsAre, e, n, Hunk
  <2>5. PICK parts \in [0..n -> Seq(STRING)] :
           /\ parts[0] = <<>>
           /\ \A k \in 1..n : parts[k] = parts[k - 1] \o gap(k) \o After(Hunk(k))
           /\ Parts(text, hunks) = parts[n]
    BY <2>4, PartsSteps DEF e, n, Hunk
  <2> DEFINE Same == {k \in 0..n : at[k].out = parts[k]}
  <2>6. 0 \in Same
    BY <1>1, <1>2, <2>5
  <2>7. ASSUME NEW k \in 1..n, k - 1 \in Same
        PROVE  k \in Same
    <3> HIDE DEF gap
    <3> QED
      BY <1>4, <2>2, <2>5, <2>7
  <2>8. \A k \in 0..n : k \in Same
    <3> HIDE DEF Same
    <3> QED
      BY <1>1, <2>6, <2>7, UpTo
  <2> QED
    BY <1>10, <2>1, <2>5, <2>8
<1>14. Fits(text, hunks) => ApplyUnifiedPatch(text, hunks).text = Patched(text, hunks)
  BY <1>12, <1>13 DEF Patched, e, n
<1> QED
  BY <1>11, <1>12, <1>14

-----------------------------------------------------------------------------
(* Trees. *)

\* The three kinds of nodes and their fields.
LEMMA NodesAreKinds ==
    /\ Absent \in Nodes /\ Directory \in Nodes
    /\ Absent.kind = "absent" /\ Directory.kind = "dir"
    /\ \A text \in Texts, ino \in Nat : File(text, ino) \in Nodes
    /\ \A text, ino : /\ File(text, ino).kind = "file" /\ File(text, ino).text = text
                      /\ File(text, ino).ino = ino
    /\ \A x \in Nodes : x.kind = "file" =>
          x = File(x.text, x.ino) /\ x.text \in Texts /\ x.ino \in Nat
<1>1. Absent \in Nodes /\ Directory \in Nodes
  BY DEF Nodes
<1>2. Absent.kind = "absent" /\ Directory.kind = "dir"
  BY DEF Absent, Directory
<1>3. \A text \in Texts, ino \in Nat : File(text, ino) \in Nodes
  BY DEF Nodes, File
<1>4. \A text, ino : /\ File(text, ino).kind = "file" /\ File(text, ino).text = text
                    /\ File(text, ino).ino = ino
  BY DEF File
<1>5. ASSUME NEW x \in Nodes, x.kind = "file"
      PROVE  x = File(x.text, x.ino) /\ x.text \in Texts /\ x.ino \in Nat
  <2>1. x \in [kind : {"file"}, text : Texts, ino : Nat]
    BY <1>2, <1>5 DEF Nodes
  <2> QED
    BY <2>1 DEF File
<1> QED
  BY <1>1, <1>2, <1>3, <1>4, <1>5

\* What is written over a text is one.
LEMMA OverlayIsText ==
    ASSUME NEW text \in Texts, NEW below \in Texts
    PROVE  Overlay(text, below) \in Texts
<1> DEFINE S == STRING
<1>1. text \in Seq(S) /\ text # <<>> /\ below \in Seq(S) /\ below # <<>>
  BY DEF Texts
<1> HIDE DEF S
<1>2. CASE text = <<"">>
  BY <1>2 DEF Overlay
<1>3. CASE text # <<"">>
  <2> DEFINE rest == SubSeq(below, Len(text) + 1, Len(below))
  <2>1. rest \in Seq(S)
    BY <1>1
  <2> HIDE DEF rest
  <2>2. text \o rest \in Seq(S) /\ text \o rest # <<>>
    BY <1>1, <2>1
  <2>3. Overlay(text, below) = text \o rest
    BY <1>3 DEF Overlay, rest
  <2> QED
    BY <2>2, <2>3 DEF Texts, S
<1> QED
  BY <1>2, <1>3

\* The text of a file that is just made, or of no lines.
LEMMA TextOfIsText ==
    /\ <<"">> \in Texts
    /\ \A lines \in Seq(STRING) : TextOf(lines) \in Texts
<1>1. <<"">> \in Seq(STRING) /\ <<"">> # <<>>
  <2> DEFINE S == STRING
             e == ""
  <2>1. e \in S
    BY Zenon, EmptyLineAssumption DEF S, e
  <2> HIDE DEF S, e
  <2>2. <<e>> \in Seq(S) /\ <<e>> # <<>>
    BY <2>1
  <2> QED
    BY <2>2 DEF S, e
<1>2. <<"">> \in Texts
  BY <1>1 DEF Texts
<1> QED
  BY <1>2 DEF TextOf, Texts

\* A patch that fits makes a text of a text.
LEMMA PatchMakesText ==
    ASSUME NEW text \in Seq(STRING), NEW hunks \in Seq(Hunks),
           ApplyUnifiedPatch(text, hunks).ok
    PROVE  ApplyUnifiedPatch(text, hunks).text \in Texts
<1>1. PICK at \in [0..Len(hunks) -> PatchingOf(text)] : PatchHunks(text, hunks) = at[Len(hunks)]
  BY PatchHunksSteps
<1> DEFINE v == PatchHunks(text, hunks)
           rest == SubSeq(text, v.cursor + 1, Len(text))
<1>2. v \in PatchingOf(text)
  <2>1. Len(hunks) \in 0..Len(hunks)
    OBVIOUS
  <2> QED
    BY <1>1, <2>1
<1>3. ApplyUnifiedPatch(text, hunks) = [ok |-> v.ok, text |-> TextOf(v.out \o rest)]
  BY DEF ApplyUnifiedPatch
<1> HIDE DEF v
<1>4. v.out \in Seq(STRING) /\ v.cursor \in Nat
  BY <1>2 DEF PatchingOf, Patching
<1>5. Len(text) \in Nat /\ Len(text) <= Len(text) /\ v.cursor + 1 >= 1 /\ text \in Seq(STRING)
  BY <1>4
<1>6. rest \in Seq(STRING)
  BY <1>4, <1>5, TextPart
<1> HIDE DEF rest
<1>7. v.out \o rest \in Seq(STRING)
  BY <1>4, <1>6, TextJoined
<1>8. TextOf(v.out \o rest) \in Texts
  BY <1>7, TextOfIsText
<1>9. ApplyUnifiedPatch(text, hunks).text = TextOf(v.out \o rest)
  BY <1>3
<1> QED
  BY <1>8, <1>9

\* The tree is one, of nodes, and its files have inodes up to n.
TreeOK(t, n) ==
    /\ t \in [Places -> Nodes] /\ IsTree(t) /\ OwnInodes(t)
    /\ \A p \in Places : IsFile(t, p) => t[p].ino \in 0..n

\* What a place is in has a shorter path.
LEMMA ParentIsAbove ==
    ASSUME NEW p \in Places, p # Root
    PROVE  /\ Parent(p) \in Places /\ IsStrictPrefix(Parent(p), p) /\ Parent(p) # p
           /\ \A q \in Places : IsStrictPrefix(p, q) => IsStrictPrefix(Parent(p), q)
<1>1. p \in Seq(STRING) /\ Places \subseteq Seq(STRING) /\ Parent(p) \in Places
  BY PlacesAssumption
<1>2. Len(p) \in Nat \ {0}
  BY <1>1 DEF Root
<1>3. Parent(p) = SubSeq(p, 1, Len(p) - 1)
  BY DEF Parent, Front
<1>4. Len(Parent(p)) = Len(p) - 1 /\ \A k \in 1..(Len(p) - 1) : Parent(p)[k] = p[k]
  <2>1. Len(p) - 1 \in 0..Len(p)
    BY <1>2
  <2> QED
    BY <1>1, <1>3, <2>1, Shortened
<1>5. ASSUME NEW q \in Seq(STRING), Len(q) >= Len(p),
             SubSeq(p, 1, Len(p)) = SubSeq(q, 1, Len(p))
      PROVE  IsStrictPrefix(Parent(p), q)
  <2>1. ASSUME NEW k \in 1..Len(p) PROVE p[k] = q[k]
    <3>1. SubSeq(p, 1, Len(p))[k] = p[k] /\ SubSeq(q, 1, Len(p))[k] = q[k]
      BY <1>1, <1>2, <1>5
    <3> QED
      BY <1>5, <3>1
  <2>2. \A k \in 1..(Len(p) - 1) : Parent(p)[k] = q[k]
    <3>1. \A k \in 1..(Len(p) - 1) : k \in 1..Len(p)
      BY <1>2
    <3> QED
      BY <1>4, <2>1, <3>1
  <2>3. SubSeq(Parent(p), 1, Len(p) - 1) = SubSeq(q, 1, Len(p) - 1)
    <3> DEFINE m == Len(p) - 1
    <3>1. m \in Nat /\ Len(Parent(p)) = m /\ m <= Len(q) /\ Parent(p) \in Seq(STRING)
          /\ \A k \in 1..m : Parent(p)[k] = q[k]
      BY <1>1, <1>2, <1>4, <1>5, <2>2
    <3>2. SubSeq(Parent(p), 1, m) = [k \in 1..m |-> Parent(p)[k]]
          /\ SubSeq(q, 1, m) = [k \in 1..m |-> q[k]]
      <4> HIDE DEF m
      <4> QED
        BY <3>1
    <3> QED
      BY <3>1, <3>2
  <2>4. Parent(p) # q
    BY <1>2, <1>4, <1>5
  <2> QED
    BY <1>2, <1>4, <1>5, <2>3, <2>4 DEF IsStrictPrefix, IsPrefix
<1>6. IsStrictPrefix(Parent(p), p)
  BY <1>1, <1>2, <1>5
<1>7. \A q \in Places : IsStrictPrefix(p, q) => IsStrictPrefix(Parent(p), q)
  BY <1>1, <1>2, <1>5 DEF IsStrictPrefix, IsPrefix
<1> QED
  BY <1>1, <1>6, <1>7 DEF IsStrictPrefix

\* Directories with those they are in.
Climbs(dirs) == dirs \subseteq Places /\ \A a \in dirs \ {Root} : Parent(a) \in dirs

LEMMA AboveClimbs == \A p \in Places : Climbs(Above(p)) /\ Climbs(Above(p) \cup {p})
  BY ParentIsAbove DEF Climbs, Above

\* os.MkdirAll makes a tree of a tree.
LEMMA MkdirAllOK ==
    ASSUME NEW t, NEW n \in Nat, TreeOK(t, n), NEW new, Climbs(new)
    PROVE  TreeOK(MkdirAll(t, new), n)
<1> DEFINE made == MkdirAll(t, new)
<1>1. /\ made = [a \in Places |-> IF a \in new THEN Directory ELSE t[a]] /\ new \subseteq Places
      /\ \A a \in new : made[a] = Directory
      /\ \A a \in Places \ new : made[a] = t[a]
  BY DEF MkdirAll, Climbs
<1>2. Directory \in Nodes /\ Directory.kind = "dir" /\ t \in [Places -> Nodes]
  BY NodesAreKinds DEF TreeOK
<1> HIDE DEF made
<1>3. made \in [Places -> Nodes]
  BY <1>1, <1>2
<1>4. \A a \in Places : IsFile(made, a) => IsFile(t, a) /\ made[a] = t[a]
  BY <1>1, <1>2 DEF IsFile
<1>5. \A a \in Places : IsDir(t, a) => IsDir(made, a)
  BY <1>1, <1>2 DEF IsDir
<1>6. ASSUME NEW a \in Places \ {Root}, Exists(made, a)
      PROVE  IsDir(made, Parent(a))
  <2>1. CASE a \in new
    <3>1. Parent(a) \in new
      BY <1>6, <2>1 DEF Climbs
    <3> QED
      BY <3>1, <1>1, <1>2 DEF IsDir
  <2>2. CASE a \notin new
    <3>1. Exists(t, a) /\ Parent(a) \in Places
      BY <2>2, <1>1, <1>6, PlacesAssumption DEF Exists
    <3> QED
      BY <3>1, <1>5 DEF TreeOK, IsTree
  <2> QED
    BY <2>1, <2>2
<1>7. IsTree(made) /\ OwnInodes(made)
  BY <1>4, <1>6 DEF IsTree, OwnInodes, TreeOK
<1>8. \A a \in Places : IsFile(made, a) => made[a].ino \in 0..n
  BY <1>4 DEF TreeOK
<1> QED
  BY <1>3, <1>7, <1>8 DEF TreeOK, made

\* So does opening a file, new or not.
LEMMA OpenOK ==
    ASSUME NEW t, NEW n \in Nat, TreeOK(t, n), NEW p \in Places, CanOpen(t, p)
    PROVE  TreeOK(Open(t, p, n + 1), IF IsFile(t, p) THEN n ELSE n + 1)
<1> DEFINE ino == IF IsFile(t, p) THEN t[p].ino ELSE n + 1
           m == IF IsFile(t, p) THEN n ELSE n + 1
           node == File(<<"">>, ino)
           new == Open(t, p, n + 1)
<1>1. t \in [Places -> Nodes]
  BY DEF TreeOK
<1>2. /\ new = [t EXCEPT ![p] = node] /\ new[p] = node
      /\ \A a \in Places \ {p} : new[a] = t[a]
  BY <1>1 DEF Open
<1>3. /\ ino \in 0..m /\ m \in Nat /\ n <= m
      /\ \A a \in Places \ {p} : IsFile(t, a) => t[a].ino \in 0..n /\ t[a].ino # ino
  BY DEF TreeOK, OwnInodes
<1>4. node \in Nodes /\ node.kind = "file" /\ node.ino = ino
  <2> HIDE DEF ino, m
  <2>1. ino \in Nat
    BY <1>3
  <2> HIDE DEF node
  <2>2. <<"">> \in Texts
    BY TextOfIsText
  <2> QED
    BY <2>1, <2>2, NodesAreKinds DEF node
<1>5. ~IsDir(t, p) /\ (p # Root => IsDir(t, Parent(p)) /\ Parent(p) \in Places)
  BY PlacesAssumption DEF CanOpen
<1> HIDE DEF new, node, ino, m
<1>6. new \in [Places -> Nodes]
  BY <1>1, <1>2, <1>4
<1>7. ASSUME NEW a \in Places, IsDir(t, a)
      PROVE  IsDir(new, a)
  BY <1>2, <1>5, <1>7 DEF IsDir
<1>8. ASSUME NEW a \in Places \ {Root}, Exists(new, a)
      PROVE  IsDir(new, Parent(a))
  <2>1. CASE a = p
    BY <2>1, <1>5, <1>7, <1>8
  <2>2. CASE a # p
    <3>1. Exists(t, a) /\ Parent(a) \in Places
      BY <2>2, <1>2, <1>8, PlacesAssumption DEF Exists
    <3> QED
      BY <3>1, <1>7 DEF TreeOK, IsTree
  <2> QED
    BY <2>1, <2>2
<1>9. ASSUME NEW a \in Places, NEW b \in Places, IsFile(new, a), IsFile(new, b), a # b
       PROVE  new[a].ino # new[b].ino
  <2>1. ASSUME NEW c \in Places \ {p}, IsFile(new, c)
        PROVE  new[c] = t[c] /\ IsFile(t, c) /\ t[c].ino # ino
    BY <2>1, <1>2, <1>3 DEF IsFile
  <2>2. new[p].ino = ino
    BY <1>2, <1>4
  <2>3. CASE a = p
    BY <2>3, <1>9, <2>1, <2>2
  <2>4. CASE b = p
    BY <2>4, <1>9, <2>1, <2>2
  <2>5. CASE a # p /\ b # p
    BY <2>5, <1>9, <2>1 DEF TreeOK, OwnInodes
  <2> QED
    BY <2>3, <2>4, <2>5
<1>10. IsTree(new) /\ OwnInodes(new)
  BY <1>8, <1>9 DEF IsTree, OwnInodes
<1>11. ASSUME NEW a \in Places, IsFile(new, a)
       PROVE  new[a].ino \in 0..m
  <2>1. CASE a = p
    BY <2>1, <1>2, <1>3, <1>4
  <2>2. CASE a # p
    <3>1. new[a] = t[a] /\ IsFile(t, a)
      BY <2>2, <1>2, <1>11 DEF IsFile
    <3>2. t[a].ino \in 0..n /\ 0..n \subseteq 0..m
      BY <3>1, <1>3 DEF TreeOK
    <3> QED
      BY <3>1, <3>2
  <2> QED
    BY <2>1, <2>2
<1> QED
  BY <1>6, <1>10, <1>11 DEF TreeOK, new, m

\* So does writing a text.
LEMMA WriteDataOK ==
    ASSUME NEW t, NEW n \in Nat, TreeOK(t, n), NEW p \in Places, NEW ino, NEW text \in Texts
    PROVE  TreeOK(WriteData(t, p, ino, text), n)
<1> DEFINE new == WriteData(t, p, ino, text)
<1>1. CASE ~(IsFile(t, p) /\ t[p].ino = ino)
  BY <1>1 DEF WriteData
<1>2. CASE IsFile(t, p) /\ t[p].ino = ino
  <2> DEFINE over == Overlay(text, t[p].text)
             node == File(over, t[p].ino)
  <2>1. t \in [Places -> Nodes]
    BY DEF TreeOK
  <2>2. t[p] = File(t[p].text, t[p].ino) /\ t[p].text \in Texts /\ t[p].ino \in Nat
    BY <1>2, <2>1, NodesAreKinds DEF IsFile
  <2>3. over \in Texts
    BY <2>2, OverlayIsText
  <2>4. new = [t EXCEPT ![p] = node]
    <3>1. new = [t EXCEPT ![p].text = over]
      BY <1>2 DEF WriteData
    <3> HIDE DEF over, new
    <3>2. [t[p] EXCEPT !.text = over] = node
      <4> DEFINE x == t[p].text
                 k == t[p].ino
                 y == t[p]
      <4>1. y = [kind |-> "file", text |-> x, ino |-> k]
        BY <2>2 DEF File
      <4> HIDE DEF x, k, y
      <4>2. [y EXCEPT !.text = over] = [kind |-> "file", text |-> over, ino |-> k]
        BY <4>1
      <4> QED
        BY <4>2 DEF File, y, k
    <3> QED
      BY <3>1, <3>2
  <2> HIDE DEF over
  <2>5. node \in Nodes /\ node.kind = "file" /\ node.ino = t[p].ino
    BY <2>2, <2>3, NodesAreKinds
  <2> HIDE DEF new, node
  <2>6. new \in [Places -> Nodes] /\ new[p] = node /\ \A a \in Places \ {p} : new[a] = t[a]
    BY <2>1, <2>4, <2>5
  <2>7. \A a \in Places : new[a].kind = t[a].kind /\ (IsFile(t, a) => new[a].ino = t[a].ino)
    BY <1>2, <2>5, <2>6 DEF IsFile
  <2>8. \A a \in Places : /\ IsFile(new, a) = IsFile(t, a) /\ IsDir(new, a) = IsDir(t, a)
                          /\ Exists(new, a) = Exists(t, a)
    BY <2>7 DEF IsFile, IsDir, Exists
  <2>9. IsTree(new) /\ OwnInodes(new)
    BY <2>7, <2>8, PlacesAssumption DEF TreeOK, IsTree, OwnInodes
  <2>10. \A a \in Places : IsFile(new, a) => new[a].ino \in 0..n
    BY <2>7, <2>8 DEF TreeOK
  <2> QED
    BY <2>6, <2>9, <2>10 DEF TreeOK, new
<1> QED
  BY <1>1, <1>2

\* os.Remove takes nothing from under a node that stays.
LEMMA UnlinkedOK ==
    ASSUME NEW t, NEW n \in Nat, TreeOK(t, n), NEW p \in Places, CanRemove(t, p)
    PROVE  TreeOK(Unlinked(t, p), n)
<1> DEFINE new == Unlinked(t, p)
<1>1. t \in [Places -> Nodes] /\ Absent \in Nodes /\ Absent.kind = "absent"
  BY NodesAreKinds DEF TreeOK
<1>2. new \in [Places -> Nodes] /\ new[p] = Absent /\ \A a \in Places \ {p} : new[a] = t[a]
  BY <1>1 DEF Unlinked
<1> HIDE DEF new
<1>3. \A c \in Places \ {Root} : Parent(c) = p => ~Exists(t, c)
  BY DEF CanRemove, Children
<1>4. \A a \in Places : /\ IsFile(new, a) => a # p /\ IsFile(t, a) /\ new[a] = t[a]
                        /\ Exists(new, a) => a # p /\ Exists(t, a)
                        /\ IsDir(t, a) /\ a # p => IsDir(new, a)
  BY <1>1, <1>2 DEF IsFile, Exists, IsDir
<1>5. ASSUME NEW a \in Places \ {Root}, Exists(new, a)
      PROVE  IsDir(new, Parent(a))
  <2>1. Exists(t, a) /\ Parent(a) # p /\ Parent(a) \in Places
    BY <1>3, <1>4, <1>5, PlacesAssumption
  <2> QED
    BY <2>1, <1>4 DEF TreeOK, IsTree
<1>6. IsTree(new) /\ OwnInodes(new)
  BY <1>4, <1>5 DEF TreeOK, IsTree, OwnInodes
<1>7. \A a \in Places : IsFile(new, a) => new[a].ino \in 0..n
  BY <1>4 DEF TreeOK
<1> QED
  BY <1>2, <1>6, <1>7 DEF TreeOK, new

-----------------------------------------------------------------------------
(* Where one place is to another, and what two trees have in common there. *)

\* One path begins with the other, component by component.
LEMMA PrefixByComponent ==
    \A p, q \in Seq(STRING) :
        IsPrefix(p, q) <=> Len(p) <= Len(q) /\ \A k \in 1..Len(p) : p[k] = q[k]
<1> DEFINE S == STRING
<1> HIDE DEF S
<1>1. ASSUME NEW p \in Seq(S), NEW q \in Seq(S), Len(p) <= Len(q)
      PROVE  SubSeq(p, 1, Len(p)) = SubSeq(q, 1, Len(p)) <=> \A k \in 1..Len(p) : p[k] = q[k]
  <2> DEFINE n == Len(p)
  <2>1. n \in 0..Len(p) /\ n \in 0..Len(q)
    BY <1>1
  <2>2. /\ Len(SubSeq(p, 1, n)) = n /\ \A k \in 1..n : SubSeq(p, 1, n)[k] = p[k]
        /\ Len(SubSeq(q, 1, n)) = n /\ \A k \in 1..n : SubSeq(q, 1, n)[k] = q[k]
        /\ SubSeq(p, 1, n) \in Seq(S) /\ SubSeq(q, 1, n) \in Seq(S)
    BY <2>1, Shortened
  <2> DEFINE x == SubSeq(p, 1, n)
             y == SubSeq(q, 1, n)
  <2> HIDE DEF x, y, n
  <2>3. x = y <=> \A k \in 1..n : x[k] = y[k]
    BY <2>2 DEF x, y
  <2> QED
    BY <2>2, <2>3 DEF x, y, n
<1>2. \A p, q \in Seq(S) :
        IsPrefix(p, q) <=> Len(p) <= Len(q) /\ \A k \in 1..Len(p) : p[k] = q[k]
  BY <1>1 DEF IsPrefix
<1> QED
  BY <1>2 DEF S

\* Being at or below.
LEMMA PrefixOrder ==
    /\ \A p \in Seq(STRING) : IsPrefix(p, p) /\ IsPrefix(Root, p)
    /\ \A p, q, r \in Seq(STRING) : IsPrefix(p, q) /\ IsPrefix(q, r) => IsPrefix(p, r)
    /\ \A p, q, r \in Seq(STRING) :
          IsPrefix(p, r) /\ IsPrefix(q, r) => IsPrefix(p, q) \/ IsPrefix(q, p)
    /\ \A p, q \in Seq(STRING) : IsPrefix(p, q) /\ IsPrefix(q, p) => p = q
<1> DEFINE S == STRING
           Starts(p, q) == Len(p) <= Len(q) /\ \A k \in 1..Len(p) : p[k] = q[k]
<1>1. \A p, q \in Seq(S) : IsPrefix(p, q) <=> Starts(p, q)
  BY PrefixByComponent
<1>2. Root \in Seq(S) /\ Len(Root) = 0
  BY DEF Root
<1> HIDE DEF S
<1>3. \A p \in Seq(S) : Starts(p, p) /\ Starts(Root, p)
  BY <1>2
<1>4. \A p, q, r \in Seq(S) : Starts(p, q) /\ Starts(q, r) => Starts(p, r)
  OBVIOUS
<1>5. \A p, q, r \in Seq(S) : Starts(p, r) /\ Starts(q, r) => Starts(p, q) \/ Starts(q, p)
  OBVIOUS
<1>6. \A p, q \in Seq(S) : Starts(p, q) /\ Starts(q, p) => p = q
  OBVIOUS
<1> HIDE DEF Starts
<1>7. \A p \in Seq(S) : IsPrefix(p, p) /\ IsPrefix(Root, p)
  BY <1>1, <1>2, <1>3
<1>8. \A p, q, r \in Seq(S) : IsPrefix(p, q) /\ IsPrefix(q, r) => IsPrefix(p, r)
  BY <1>1, <1>4
<1>9. \A p, q, r \in Seq(S) :
          IsPrefix(p, r) /\ IsPrefix(q, r) => IsPrefix(p, q) \/ IsPrefix(q, p)
  BY <1>1, <1>5
<1>10. \A p, q \in Seq(S) : IsPrefix(p, q) /\ IsPrefix(q, p) => p = q
  BY <1>1, <1>6
<1> QED
  BY <1>7, <1>8, <1>9, <1>10 DEF S

\* What begins a path and is not the path begins its parent.
LEMMA PrefixOfParent ==
    \A p, q \in Seq(STRING) : p # Root =>
        /\ Parent(p) \in Seq(STRING) /\ IsPrefix(Parent(p), p) /\ Parent(p) # p
        /\ Len(Parent(p)) = Len(p) - 1
        /\ IsPrefix(q, p) <=> q = p \/ IsPrefix(q, Parent(p))
<1> DEFINE S == STRING
           Starts(p, q) == Len(p) <= Len(q) /\ \A k \in 1..Len(p) : p[k] = q[k]
<1>1. \A p, q \in Seq(S) : IsPrefix(p, q) <=> Starts(p, q)
  BY PrefixByComponent
<1> HIDE DEF S
<1>2. ASSUME NEW p \in Seq(S), NEW q \in Seq(S), p # Root
      PROVE  /\ Parent(p) \in Seq(S) /\ Starts(Parent(p), p) /\ Parent(p) # p
             /\ Len(Parent(p)) = Len(p) - 1
             /\ Starts(q, p) <=> q = p \/ Starts(q, Parent(p))
  <2> DEFINE n == Len(p) - 1
             up == Parent(p)
  <2>1. n \in Nat /\ Len(p) = n + 1 /\ n \in 0..Len(p)
    BY <1>2 DEF Root
  <2>2. up \in Seq(S) /\ Len(up) = n /\ \A k \in 1..n : up[k] = p[k]
    BY <2>1, Shortened DEF Parent, Front
  <2> HIDE DEF n, up
  <2>3. up # p /\ Starts(up, p)
    BY <2>1, <2>2
  <2>4. ASSUME Starts(q, p), q # p PROVE Starts(q, up)
    <3>1. Len(q) # n + 1
      BY <2>1, <2>4
    <3>2. Len(q) \in 0..n
      BY <2>1, <2>4, <3>1
    <3>3. \A k \in 1..Len(q) : q[k] = p[k] /\ k \in 1..n
      BY <2>1, <2>4, <3>2
    <3> QED
      BY <2>1, <2>2, <3>2, <3>3
  <2>5. ASSUME q = p \/ Starts(q, up) PROVE Starts(q, p)
    BY <2>1, <2>2, <2>5
  <2> HIDE DEF Starts
  <2> QED
    BY <2>2, <2>3, <2>4, <2>5, <2>1 DEF up, n
<1> HIDE DEF Starts
<1> QED
  BY <1>1, <1>2 DEF S

\* A place below another is in or below one of its children; in a tree, what is
\* above a place that exists is a directory.
LEMMA ChildToward ==
    \A p \in Places, d \in Seq(STRING) : IsStrictPrefix(d, p) =>
        \E c \in Places \ {Root} :
            /\ Parent(c) = d /\ IsPrefix(c, p)
            /\ \A t : IsTree(t) /\ Exists(t, p) => Exists(t, c) /\ IsDir(t, d)
<1> DEFINE Toward(p, d, c) ==
               /\ Parent(c) = d /\ IsPrefix(c, p)
               /\ \A t : IsTree(t) /\ Exists(t, p) => Exists(t, c) /\ IsDir(t, d)
           Good(p) == \A d \in Seq(STRING) : IsStrictPrefix(d, p) =>
                          \E c \in Places \ {Root} : Toward(p, d, c)
           S == {n \in Nat : \A p \in Places : Len(p) <= n => Good(p)}
<1>1. Places \subseteq Seq(STRING)
  BY PlacesAssumption
<1>2. \A p \in Places : Len(p) = 0 => Good(p)
  <2> SUFFICES ASSUME NEW p \in Places, Len(p) = 0, NEW d \in Seq(STRING), IsStrictPrefix(d, p)
               PROVE  FALSE
    OBVIOUS
  <2>1. p = Root
    <3>1. p \in Seq(STRING)
      BY <1>1
    <3> QED
      BY <3>1 DEF Root
  <2>2. IsPrefix(p, d) /\ IsPrefix(d, p) /\ d # p
    BY <2>1, PrefixOrder DEF IsStrictPrefix
  <2> QED
    BY <1>1, <2>2, PrefixOrder
<1>3. ASSUME NEW n \in S, NEW p \in Places, Len(p) <= n + 1, p # Root
      PROVE  Good(p)
  <2> SUFFICES ASSUME NEW d \in Seq(STRING), IsStrictPrefix(d, p)
               PROVE  \E c \in Places \ {Root} : Toward(p, d, c)
    OBVIOUS
  <2>1. Parent(p) \in Places
    BY <1>3, PlacesAssumption
  <2>2. Len(Parent(p)) = Len(p) - 1 /\ (d = p \/ IsPrefix(d, Parent(p))) /\ IsPrefix(Parent(p), p)
    BY <1>1, <1>3, PrefixOfParent DEF IsStrictPrefix
  <2>3. IsPrefix(d, Parent(p)) /\ IsPrefix(p, p)
    BY <1>1, <2>2, PrefixOrder DEF IsStrictPrefix
  <2>4. \A t : IsTree(t) /\ Exists(t, p) => IsDir(t, Parent(p)) /\ Exists(t, Parent(p))
    BY <1>3 DEF IsTree, IsDir, Exists
  <2>5. CASE d = Parent(p)
    <3>1. Toward(p, d, p)
      BY <2>3, <2>4, <2>5
    <3> HIDE DEF Toward
    <3> QED
      BY <1>3, <3>1
  <2>6. CASE d # Parent(p)
    <3>1. Len(Parent(p)) <= n
      <4>1. p \in Seq(STRING) /\ Len(p) \in Nat /\ n \in Nat
        BY <1>1
      <4> QED
        BY <1>3, <2>2, <4>1
    <3>2. Good(Parent(p))
      BY <2>1, <3>1
    <3>3. PICK c \in Places \ {Root} : Toward(Parent(p), d, c)
      BY <2>3, <2>6, <3>2 DEF IsStrictPrefix
    <3>4. IsPrefix(c, p)
      BY <1>1, <2>1, <2>2, <3>3, PrefixOrder
    <3>5. Toward(p, d, c)
      BY <2>4, <3>3, <3>4
    <3> HIDE DEF Toward
    <3> QED
      BY <3>5
  <2> QED
    BY <2>5, <2>6
<1>4. 0 \in S
  <2>1. \A p \in Places : Len(p) <= 0 => Len(p) = 0
    BY <1>1
  <2> HIDE DEF Good
  <2> QED
    BY <1>2, <2>1
<1>5. ASSUME NEW n \in S
      PROVE  n + 1 \in S
  <2>1. \A p \in Places : p = Root => Len(p) = 0
    BY DEF Root
  <2>2. \A p \in Places : Len(p) <= n + 1 => Good(p)
    <3> HIDE DEF Good
    <3> QED
      BY <1>2, <1>3, <2>1
  <2> HIDE DEF Good
  <2> QED
    BY <2>2
<1>6. S = Nat
  <2>1. S \in SUBSET Nat
    OBVIOUS
  <2> HIDE DEF S
  <2> QED
    BY <1>4, <1>5, <2>1, Induction
<1>7. \A p \in Places : Good(p)
  <2>1. \A p \in Places : Len(p) \in Nat /\ Len(p) <= Len(p)
    BY <1>1
  <2> HIDE DEF Good
  <2>2. \A p \in Places : Len(p) \in S
    BY <1>6, <2>1
  <2> QED
    BY <2>1, <2>2
<1> QED
  BY <1>7

\* The places at or below those that are touched, and those on the way to them.
Under(T) == {q \in Places : \E p \in T : IsPrefix(p, q)}
OnTheWay(T) == {q \in Places : \E p \in T : IsPrefix(q, p)} \ Under(T)

\* Two trees are alike for who touches T: the same at and below it, and the same files
\* on the way; one may have more directories there.
Agree(T, t, u) ==
    /\ \A q \in Under(T) : SameNode(t[q], u[q])
    /\ \A q \in OnTheWay(T) : (IsFile(t, q) <=> IsFile(u, q)) /\ (IsDir(u, q) => IsDir(t, q))

\* What others may do to a tree.
Keeps(T, t, t2) ==
    /\ \A q \in Under(T) : t2[q] = t[q]
    /\ \A q \in OnTheWay(T) : (IsFile(t2, q) <=> IsFile(t, q)) /\ (IsDir(t, q) => IsDir(t2, q))

\* What is alike stays alike if what is touched is kept.
LEMMA AgreeKept ==
    ASSUME NEW T, NEW t, NEW t2, NEW u, Agree(T, t, u), Keeps(T, t, t2)
    PROVE  Agree(T, t2, u)
  BY DEF Agree, Keeps, SameNode

\* What is above a place, and the place, and what is above its parent.
LEMMA AboveParent ==
    /\ \A p \in Places : Above(p) \cup {p} = {a \in Places : IsPrefix(a, p)}
    /\ \A p \in Places \ {Root} : Above(p) = {a \in Places : IsPrefix(a, Parent(p))}
    /\ \A p \in Places : p # Root => Parent(p) \in Places
    /\ Above(Root) = {}
<1>1. Places \subseteq Seq(STRING) /\ Root \in Places
      /\ \A p \in Places \ {Root} : Parent(p) \in Places
  BY PlacesAssumption
<1>2. \A p \in Places : Above(p) \cup {p} = {a \in Places : IsPrefix(a, p)}
  BY <1>1, PrefixOrder DEF Above, IsStrictPrefix
<1>3. ASSUME NEW p \in Places, p # Root, NEW a \in Places
      PROVE  IsStrictPrefix(a, p) <=> IsPrefix(a, Parent(p))
  <2>1. /\ IsPrefix(a, p) <=> a = p \/ IsPrefix(a, Parent(p))
        /\ Parent(p) \in Seq(STRING) /\ IsPrefix(Parent(p), p) /\ Parent(p) # p
    BY <1>1, <1>3, PrefixOfParent
  <2>2. ~IsPrefix(p, Parent(p))
    BY <1>1, <2>1, PrefixOrder
  <2> QED
    BY <2>1, <2>2 DEF IsStrictPrefix
<1>4. \A p \in Places \ {Root} : Above(p) = {a \in Places : IsPrefix(a, Parent(p))}
  BY <1>3 DEF Above
<1>5. Above(Root) = {}
  BY <1>1, PrefixOrder DEF Above, IsStrictPrefix
<1> QED
  BY <1>1, <1>2, <1>4, <1>5

\* Whose place is touched sees the same.
LEMMA AgreeSeen ==
    ASSUME NEW T \in SUBSET Places, NEW t, NEW u, Agree(T, t, u), NEW p \in T
    PROVE  /\ SameNode(t[p], u[p])
           /\ IsFile(t, p) <=> IsFile(u, p)
           /\ IsDir(t, p) <=> IsDir(u, p)
           /\ Exists(t, p) <=> Exists(u, p)
           /\ Children(t, p) = Children(u, p)
           /\ CanRemove(t, p) <=> CanRemove(u, p)
           /\ CanMkdirAll(t, Above(p)) <=> CanMkdirAll(u, Above(p))
<1>1. Places \subseteq Seq(STRING) /\ p \in Places
  BY PlacesAssumption
<1>2. p \in Under(T)
  BY <1>1, PrefixOrder DEF Under
<1>3. SameNode(t[p], u[p])
  BY <1>2 DEF Agree
<1>4. ASSUME NEW c \in Places \ {Root}, Parent(c) = p
      PROVE  Exists(t, c) <=> Exists(u, c)
  <2>1. IsPrefix(p, c)
    BY <1>1, <1>4, PrefixOfParent
  <2>2. c \in Under(T)
    BY <1>4, <2>1 DEF Under
  <2> QED
    BY <2>2 DEF Agree, SameNode, Exists
<1>5. Children(t, p) = Children(u, p)
  BY <1>4 DEF Children
<1>6. ASSUME NEW a \in Places, IsPrefix(a, p)
      PROVE  IsFile(t, a) <=> IsFile(u, a)
  <2>1. a \in Under(T) \cup OnTheWay(T)
    BY <1>6 DEF OnTheWay
  <2> QED
    BY <2>1 DEF Agree, SameNode, IsFile
<1>7. CanMkdirAll(t, Above(p)) <=> CanMkdirAll(u, Above(p))
  BY <1>6 DEF CanMkdirAll, Above, IsStrictPrefix
<1> QED
  BY <1>3, <1>5, <1>7 DEF SameNode, IsFile, IsDir, Exists, CanRemove

\* The same directories made in both, and the same node put in both.
LEMMA AgreeMade ==
    ASSUME NEW T \in SUBSET Places, NEW t, NEW u, Agree(T, t, u), NEW new
    PROVE  Agree(T, MkdirAll(t, new), MkdirAll(u, new))
<1> DEFINE t2 == MkdirAll(t, new)
           u2 == MkdirAll(u, new)
<1>1. \A q \in Places : /\ q \in new => t2[q] = Directory /\ u2[q] = Directory
                        /\ q \notin new => t2[q] = t[q] /\ u2[q] = u[q]
  BY DEF MkdirAll
<1> HIDE DEF t2, u2
<1>2. ASSUME NEW q \in Under(T) PROVE SameNode(t2[q], u2[q])
  BY <1>1 DEF Agree, SameNode, Under
<1>3. ASSUME NEW q \in OnTheWay(T)
      PROVE  (IsFile(t2, q) <=> IsFile(u2, q)) /\ (IsDir(u2, q) => IsDir(t2, q))
  BY <1>1 DEF Agree, OnTheWay, IsFile, IsDir
<1> QED
  BY <1>2, <1>3 DEF Agree, t2, u2

\* The same node put at a touched place.
LEMMA AgreePut ==
    ASSUME NEW T \in SUBSET Places, NEW t, NEW u, Agree(T, t, u), NEW p \in T,
           DOMAIN t = Places, DOMAIN u = Places, NEW x, NEW y, SameNode(x, y)
    PROVE  Agree(T, [t EXCEPT ![p] = x], [u EXCEPT ![p] = y])
<1> DEFINE t2 == [t EXCEPT ![p] = x]
           u2 == [u EXCEPT ![p] = y]
<1>1. /\ t2[p] = x /\ u2[p] = y
      /\ \A q \in Places \ {p} : t2[q] = t[q] /\ u2[q] = u[q]
  OBVIOUS
<1>2. p \in Under(T)
  BY PlacesAssumption, PrefixOrder DEF Under
<1> HIDE DEF t2, u2
<1>3. ASSUME NEW q \in Under(T) PROVE SameNode(t2[q], u2[q])
  BY <1>1 DEF Agree, Under
<1>4. ASSUME NEW q \in OnTheWay(T)
      PROVE  (IsFile(t2, q) <=> IsFile(u2, q)) /\ (IsDir(u2, q) => IsDir(t2, q))
  BY <1>1, <1>2 DEF Agree, OnTheWay, IsFile, IsDir
<1> QED
  BY <1>3, <1>4 DEF Agree, t2, u2

\* In a tree, what is above a directory is there already.
LEMMA NothingMade ==
    ASSUME NEW t \in [Places -> Nodes], IsTree(t), NEW p \in Places, IsDir(t, p)
    PROVE  CanMkdirAll(t, Above(p)) /\ MkdirAll(t, Above(p)) = t
<1>1. Places \subseteq Seq(STRING)
  BY PlacesAssumption
<1>2. ASSUME NEW a \in Above(p)
      PROVE  a \in Places /\ IsDir(t, a)
  <2>1. a \in Places /\ IsStrictPrefix(a, p) /\ Exists(t, p)
    BY <1>2 DEF Above, Exists, IsDir
  <2> QED
    BY <1>1, <2>1, ChildToward
<1>3. \A x \in Nodes : x.kind = "dir" => x = Directory
  BY DEF Nodes, Absent
<1>4. \A a \in Above(p) : t[a] = Directory /\ ~IsFile(t, a)
  BY <1>2, <1>3 DEF IsDir, IsFile
<1> QED
  BY <1>4 DEF MkdirAll, CanMkdirAll

\* A file can be put where its directory was made, unless there is a directory.
LEMMA OpenedIfMade ==
    ASSUME NEW t, NEW p \in Places
    PROVE  CanOpen(MkdirAll(t, Above(p)), p) <=> ~IsDir(t, p)
<1> DEFINE made == MkdirAll(t, Above(p))
<1>1. made[p] = t[p]
  BY DEF MkdirAll, Above, IsStrictPrefix
<1>2. p # Root => made[Parent(p)] = Directory
  BY ParentIsAbove DEF MkdirAll, Above
<1> HIDE DEF made
<1>3. CanOpen(made, p) <=> ~IsDir(t, p)
  BY <1>1, <1>2 DEF CanOpen, IsDir, Directory
<1> QED
  BY <1>3 DEF made

-----------------------------------------------------------------------------
(* What a call should do. *)

Outcomes == [ok : BOOLEAN, tree : [Places -> Nodes], text : {<<>>}, paths : {{}}]

\* An operation of a patch in the small world.
OpInPlaces(op) == op \in PatchOps /\ Resolve(op.path) \in Places /\ Resolve(op.moveTo) \in Places

\* Putting a text somewhere comes to a tree, as far as types go.
LEMMA PutTyped ==
    ASSUME NEW t \in [Places -> Nodes], NEW path, Resolve(path) \in Places, NEW text \in Texts
    PROVE  Put(t, path, text) \in Outcomes
<1> DEFINE p == Resolve(path)
           made == MkdirAll(t, Above(p))
           node == File(text, 0)
<1>1. node \in Nodes /\ Directory \in Nodes
  BY NodesAreKinds
<1>2. made \in [Places -> Nodes]
  BY <1>1 DEF MkdirAll
<1> HIDE DEF node, made
<1>3. [made EXCEPT ![p] = node] \in [Places -> Nodes]
  BY <1>1, <1>2
<1>4. \/ Put(t, path, text) = Outcome(TRUE, [made EXCEPT ![p] = node], <<>>, {})
      \/ Put(t, path, text) = Outcome(FALSE, t, <<>>, {})
  BY DEF Put, made, node
<1>5. \A u \in [Places -> Nodes], b \in BOOLEAN : Outcome(b, u, <<>>, {}) \in Outcomes
  BY DEF Outcome, Outcomes
<1> QED
  BY <1>3, <1>4, <1>5, Zenon

\* So does taking a file away, ...
LEMMA TakeTyped ==
    ASSUME NEW t \in [Places -> Nodes], NEW path
    PROVE  Take(t, path) \in Outcomes
<1>1. Unlinked(t, Resolve(path)) \in [Places -> Nodes]
  BY NodesAreKinds DEF Unlinked
<1> QED
  BY <1>1 DEF Take, Outcome, Outcomes

\* What a patch that fits makes of a file.
LEMMA PatchedIsText ==
    ASSUME NEW t \in [Places -> Nodes], NEW p \in Places, IsFile(t, p), NEW hunks \in Seq(Hunks),
           Fits(t[p].text, hunks)
    PROVE  Patched(t[p].text, hunks) \in Texts
<1>1. t[p].text \in Seq(STRING)
  BY NodesAreKinds DEF IsFile, Texts
<1> QED
  BY <1>1, PatchMakesText, PatchesMeanWhatTheySay

\* ... and an operation of a patch.
LEMMA PerformTyped ==
    ASSUME NEW t \in [Places -> Nodes], NEW op, OpInPlaces(op)
    PROVE  Perform(t, op) \in Outcomes
<1> DEFINE p == Resolve(op.path)
           put == Put(t, TargetOf(op), Patched(t[p].text, op.hunks))
<1>1. /\ p \in Places /\ Resolve(TargetOf(op)) \in Places
      /\ op.body \in Seq(STRING) /\ op.hunks \in Seq(Hunks)
  BY DEF OpInPlaces, PatchOps, TargetOf
<1>2. Outcome(FALSE, t, <<>>, {}) \in Outcomes
  BY DEF Outcome, Outcomes
<1>3. Put(t, op.path, TextOf(op.body)) \in Outcomes
  BY <1>1, TextOfIsText, PutTyped
<1>4. Take(t, op.path) \in Outcomes
  BY TakeTyped
<1>5. ASSUME IsFile(t, p), Fits(t[p].text, op.hunks)
      PROVE  put \in Outcomes /\ Take(put.tree, op.path) \in Outcomes
  <2>1. put \in Outcomes
    BY <1>1, <1>5, PatchedIsText, PutTyped
  <2> HIDE DEF put
  <2>2. put.tree \in [Places -> Nodes]
    BY <2>1 DEF Outcomes
  <2> QED
    BY <2>1, <2>2, TakeTyped
<1>6. \/ Perform(t, op) = Outcome(FALSE, t, <<>>, {})
      \/ Perform(t, op) = Put(t, op.path, TextOf(op.body))
      \/ Perform(t, op) = Take(t, op.path)
      \/ /\ IsFile(t, p) /\ Fits(t[p].text, op.hunks)
         /\ Perform(t, op) = put \/ Perform(t, op) = Take(put.tree, op.path)
  BY Zenon DEF Perform
<1> QED
  BY <1>2, <1>3, <1>4, <1>5, <1>6, Zenon

\* What the operations of a patch should come to, one after the other.
Performed(t, ops) ==
    LET at[k \in 0..Len(ops)] ==
            IF k = 0 THEN Outcome(ops # <<>>, t, <<>>, {})
            ELSE IF at[k - 1].ok THEN Perform(at[k - 1].tree, ops[k]) ELSE at[k - 1]
    IN at

\* Each operation starts from what the one before it came to (PerformAll, step by step).
LEMMA PerformedSteps ==
    ASSUME NEW t \in [Places -> Nodes], NEW ops \in Seq(PatchOps),
           \A k \in 1..Len(ops) : OpInPlaces(ops[k])
    PROVE  /\ Performed(t, ops) \in [0..Len(ops) -> Outcomes]
           /\ Performed(t, ops)[0] = Outcome(ops # <<>>, t, <<>>, {})
           /\ \A k \in 1..Len(ops) : Performed(t, ops)[k] =
                 IF Performed(t, ops)[k - 1].ok THEN Perform(Performed(t, ops)[k - 1].tree, ops[k])
                 ELSE Performed(t, ops)[k - 1]
           /\ PerformAll(t, ops) = Performed(t, ops)[Len(ops)]
<1> DEFINE X == Outcomes
           n == Len(ops)
           v == Outcome(ops # <<>>, t, <<>>, {})
           Next1(x, k) == IF x.ok THEN Perform(x.tree, ops[k]) ELSE x
           g == [k \in 1..n |-> [x \in X |-> Next1(x, k)]]
           Is(f) == f = [k \in 0..n |-> IF k = 0 THEN v ELSE Next1(f[k - 1], k)]
<1>1. ASSUME NEW x \in X, NEW k \in 1..n
      PROVE  Next1(x, k) \in X
  <2>1. x.tree \in [Places -> Nodes]
    BY DEF Outcomes
  <2> QED
    BY <2>1, PerformTyped
<1>2. v \in X /\ n \in Nat
  BY DEF Outcomes, Outcome
<1> HIDE DEF X, n, v
<1>3. g \in Steps(X, n)
  <2> HIDE DEF Next1
  <2> QED
    BY <1>1 DEF Steps
<1>4. PICK f \in [0..n -> X] : /\ f = [k \in 0..n |-> IF k = 0 THEN v ELSE g[k][f[k - 1]]]
                               /\ \A k \in 1..n : f[k] = g[k][f[k - 1]] /\ f[k - 1] \in X
  <2>1. \A b \in X, h \in Steps(X, n) :
           \E f \in [0..n -> X] : /\ f = [k \in 0..n |-> IF k = 0 THEN b ELSE h[k][f[k - 1]]]
                                  /\ \A k \in 1..n : f[k] = h[k][f[k - 1]] /\ f[k - 1] \in X
    BY <1>2, Recursion
  <2> HIDE DEF g
  <2> QED
    BY <1>2, <1>3, <2>1
<1>5. Is(f)
  <2>1. \A k \in 1..n : g[k][f[k - 1]] = Next1(f[k - 1], k)
    BY <1>4
  <2>2. \A k \in 0..n : k # 0 => k \in 1..n
    BY <1>2
  <2> HIDE DEF g
  <2> QED
    BY <1>4, <2>1, <2>2
<1> DEFINE at == CHOOSE h : Is(h)
<1>6. Is(at)
  BY <1>5
<1> HIDE DEF at
<1>7. at[0] = v /\ \A k \in 1..n : at[k] = Next1(at[k - 1], k)
  <2>1. \A k \in 1..n : k \in 0..n /\ k # 0
    BY <1>2
  <2>2. 0 \in 0..n
    BY <1>2
  <2> QED
    BY <1>6, <2>1, <2>2
<1>8. at \in [0..n -> X]
  <2>1. at = [k \in 0..n |-> at[k]]
    BY <1>6
  <2>2. \A k \in 1..n : at[k - 1] \in X => at[k] \in X
    <3> HIDE DEF Next1
    <3> QED
      BY <1>1, <1>7
  <2> QED
    BY <1>2, <1>7, <2>1, <2>2, RecursionStays
<1>9. Performed(t, ops) = at /\ PerformAll(t, ops) = at[n]
  BY DEF Performed, PerformAll, at, n, v
<1> QED
  BY <1>7, <1>8, <1>9 DEF X, n, v

\* After an operation that fails there is no other.
LEMMA PerformedStops ==
    ASSUME NEW t \in [Places -> Nodes], NEW ops \in Seq(PatchOps),
           \A k \in 1..Len(ops) : OpInPlaces(ops[k]),
           NEW m \in 0..Len(ops), ~Performed(t, ops)[m].ok
    PROVE  PerformAll(t, ops) = Performed(t, ops)[m]
<1> DEFINE at == Performed(t, ops)
           n == Len(ops)
           Good == {k \in 0..n : k >= m => at[k] = at[m]}
<1>1. /\ \A k \in 1..n : at[k] = IF at[k - 1].ok THEN Perform(at[k - 1].tree, ops[k]) ELSE at[k - 1]
      /\ PerformAll(t, ops) = at[n] /\ n \in Nat /\ m \in 0..n /\ ~at[m].ok
  BY PerformedSteps
<1> HIDE DEF at, n
<1>2. 0 \in Good
  BY <1>1
<1>3. ASSUME NEW k \in 1..n, k - 1 \in Good
      PROVE  k \in Good
  <2>1. CASE k <= m
    BY <1>1, <2>1
  <2>2. CASE k > m
    <3>1. at[k - 1] = at[m] /\ k \in 0..n
      BY <1>1, <1>3, <2>2
    <3> QED
      BY <1>1, <3>1
  <2> QED
    BY <1>1, <2>1, <2>2
<1>4. \A k \in 0..n : k \in Good
  <2> HIDE DEF Good
  <2> QED
    BY <1>1, <1>2, <1>3, UpTo
<1>5. n \in 0..n /\ n >= m
  BY <1>1
<1> QED
  BY <1>1, <1>4, <1>5 DEF at

\* The last component of a path is entered last.
LEMMA LastEntered ==
    ASSUME NEW path \in Seq(STRING), path # <<>>
    PROVE  /\ Front(path) \in Seq(STRING) /\ path[Len(path)] \in STRING
           /\ Resolve(path) = Enter(Resolve(Front(path)), path[Len(path)])
<1> DEFINE S == STRING
           front == Front(path)
           n == Len(path)
<1>1. path \in Seq(S)
  OBVIOUS
<1> HIDE DEF S
<1>2. n \in Nat /\ n - 1 \in Nat /\ n \in 1..n /\ n - 1 \in 0..n /\ path[n] \in S
  BY <1>1
<1>3. front \in Seq(S) /\ Len(front) = n - 1 /\ \A k \in 1..(n - 1) : front[k] = path[k]
  BY <1>1, <1>2, Shortened DEF Front
<1>4. PICK at \in [0..n -> Seq(STRING)] :
         /\ at[0] = Root
         /\ \A k \in 1..n : at[k] = Enter(at[k - 1], path[k])
         /\ Resolve(path) = at[n]
  BY Way
<1>5. PICK bt : /\ bt[0] = Root
                /\ \A k \in 1..(n - 1) : bt[k] = Enter(bt[k - 1], front[k])
                /\ Resolve(front) = bt[n - 1]
  <2>1. front \in Seq(STRING)
    BY <1>3 DEF S
  <2> QED
    BY <1>3, <2>1, Way
<1> DEFINE m == n - 1
           Good == {k \in 0..m : at[k] = bt[k]}
<1> HIDE DEF n, front
<1>6. m \in Nat /\ \A k \in 1..m : k \in 1..n /\ k \in 0..m
  BY <1>2
<1>7. 0 \in Good /\ \A k \in 1..m : k - 1 \in Good => k \in Good
  BY <1>3, <1>4, <1>5, <1>6
<1>8. \A k \in 0..m : k \in Good
  <2> HIDE DEF Good, m
  <2> QED
    BY <1>6, <1>7, UpTo
<1>9. at[m] = bt[m]
  BY <1>6, <1>8
<1> QED
  BY <1>2, <1>3, <1>4, <1>5, <1>9 DEF S, n, front

\* The directory write makes first: the parent of the file, if the last component is a
\* name, and in any case one the file is in, or one in it.
LEMMA ParentMade ==
    ASSUME NEW path \in Seq(STRING), path # <<>>
    PROVE  /\ Resolve(path) \in Seq(STRING) /\ Resolve(Front(path)) \in Seq(STRING)
           /\ \/ IsPrefix(Resolve(Front(path)), Resolve(path))
              \/ IsPrefix(Resolve(path), Resolve(Front(path)))
           /\ Last(path) \notin {"", ".", ".."} =>
                 Resolve(path) # Root /\ Parent(Resolve(path)) = Resolve(Front(path))
<1> DEFINE d == Resolve(Front(path))
           c == path[Len(path)]
           p == Resolve(path)
<1>1. Front(path) \in Seq(STRING) /\ c \in STRING /\ p = Enter(d, c)
  BY LastEntered
<1>2. d \in Seq(STRING) /\ p \in Seq(STRING)
  BY <1>1, PathsStayInside
<1> HIDE DEF d, c, p
<1>3. CASE c \in {".", ""}
  <2>1. IsPrefix(d, p)
    BY <1>1, <1>2, <1>3, PrefixOrder DEF Enter
  <2> QED
    BY <1>2, <1>3, <2>1 DEF d, p, c, Last
<1>4. CASE c \notin {".", "", ".."}
  <2>1. p = Append(d, c)
    BY <1>1, <1>4 DEF Enter
  <2>2. p # Root /\ Parent(p) = d
    <3>1. Append(d, c) # Root /\ Parent(Append(d, c)) = d
      <4> DEFINE S == STRING
      <4>1. d \in Seq(S) /\ c \in S
        BY <1>1, <1>2
      <4> HIDE DEF S
      <4> DEFINE s == Append(d, c)
      <4>2. s \in Seq(S) /\ Len(s) = Len(d) + 1 /\ \A k \in 1..Len(d) : s[k] = d[k]
        BY <4>1, Appended
      <4> HIDE DEF s
      <4>3. Len(s) - 1 = Len(d) /\ Len(d) \in 0..Len(s) /\ s # <<>>
        BY <4>1, <4>2
      <4> DEFINE u == SubSeq(s, 1, Len(d))
      <4>4. u \in Seq(S) /\ Len(u) = Len(d) /\ \A k \in 1..Len(d) : u[k] = s[k]
        BY <4>2, <4>3, Shortened
      <4> HIDE DEF u
      <4>5. u = d
        BY <4>1, <4>2, <4>4
      <4> QED
        BY <4>3, <4>5 DEF u, s, Parent, Front, Root
    <3> QED
      BY <2>1, <3>1
  <2>3. IsPrefix(d, p)
    BY <1>2, <2>2, PrefixOfParent
  <2> QED
    BY <1>2, <2>2, <2>3 DEF d, p
<1>5. CASE c = ".."
  <2>1. p = Root \/ (d # Root /\ p = Parent(d))
    BY <1>1, <1>5 DEF Enter
  <2>2. IsPrefix(p, d)
    BY <1>2, <2>1, PrefixOrder, PrefixOfParent
  <2> QED
    BY <1>2, <1>5, <2>2 DEF d, p, c, Last
<1>6. c \in {".", ""} => Last(path) \in {"", ".", ".."}
  BY DEF Last, c
<1> QED
  BY <1>2, <1>3, <1>4, <1>5, <1>6 DEF d, p

-----------------------------------------------------------------------------
(* What a call does to what another touches. *)

Apart(T, q) == \A p \in T : ~IsPrefix(p, q) /\ ~IsPrefix(q, p)

\* Directories made towards a place apart from what is touched.
LEMMA KeepsMade ==
    ASSUME NEW T \in SUBSET Places, NEW q \in Places, Apart(T, q), NEW t, NEW d \in Places,
           IsPrefix(d, q) \/ IsPrefix(q, d), NEW new \in SUBSET {a \in Places : IsPrefix(a, d)},
           CanMkdirAll(t, new)
    PROVE  Keeps(T, t, MkdirAll(t, new))
<1> DEFINE u == MkdirAll(t, new)
<1>1. Places \subseteq Seq(STRING)
  BY PlacesAssumption
<1>2. /\ \A a \in new : a \in Places /\ IsPrefix(a, d) /\ ~IsFile(t, a)
      /\ \A a \in Places : u[a] = IF a \in new THEN Directory ELSE t[a]
  BY DEF CanMkdirAll, MkdirAll
<1>3. ASSUME NEW a \in new, NEW p \in T, IsPrefix(p, a)
      PROVE  FALSE
  <2>1. IsPrefix(p, d)
    BY <1>1, <1>2, <1>3, PrefixOrder
  <2>2. IsPrefix(p, q) \/ IsPrefix(q, p)
    BY <1>1, <2>1, PrefixOrder
  <2> QED
    BY <2>2 DEF Apart
<1> HIDE DEF u
<1>4. \A a \in Under(T) : u[a] = t[a]
  BY <1>2, <1>3 DEF Under
<1>5. ASSUME NEW a \in OnTheWay(T)
      PROVE  (IsFile(u, a) <=> IsFile(t, a)) /\ (IsDir(t, a) => IsDir(u, a))
  <2>1. a \in Places
    BY DEF OnTheWay
  <2>2. u[a] = t[a] \/ (u[a] = Directory /\ ~IsFile(t, a))
    BY <1>2, <2>1
  <2> QED
    BY <2>2, NodesAreKinds DEF IsFile, IsDir
<1> QED
  BY <1>4, <1>5 DEF Keeps, u

\* A change at one place apart from what is touched.
LEMMA KeepsOther ==
    ASSUME NEW T \in SUBSET Places, NEW q \in Places, Apart(T, q), NEW t, NEW u,
           \A a \in Places \ {q} : u[a] = t[a]
    PROVE  Keeps(T, t, u)
<1>1. ASSUME NEW a \in Under(T) \cup OnTheWay(T)
      PROVE  a \in Places \ {q}
  BY DEF Under, OnTheWay, Apart
<1> QED
  BY <1>1 DEF Keeps, IsFile, IsDir

\* No change at all.
LEMMA KeepsSame == \A T, t : Keeps(T, t, t)
  BY DEF Keeps
===============================================================================
