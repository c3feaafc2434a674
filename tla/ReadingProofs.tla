--------------------------- MODULE ReadingProofs ---------------------------
(***************************************************************************)
(* What is read of a file is what is in it.                                 *)
(* A page, for any operators: the path that the code keeps and the subpath  *)
(* that is open on the page are the same strokes, between the same points,  *)
(* in the same pen.                                                         *)
(* A vector file, for any trees: every position ends up in the layer, in    *)
(* the order of the file.  What a function computes of a tree is shown of   *)
(* trees of every depth: such functions exist, because they can be built    *)
(* level by level, and what holds of a tree if it holds of the trees in it  *)
(* holds of all (AllTrees).  A layer is a chain: each element of a sequence *)
(* is replaced by a sequence, and the proof is about chains of chains.      *)
(***************************************************************************)
EXTENDS Algorithms, FiniteSetTheorems, FunctionTheorems, SequenceTheorems, TLAPS

-----------------------------------------------------------------------------
(* Pages. *)

AllStrokes == SUBSET Points
Marks == [pen: Pens, stroke: AllStrokes]
Page ==
    [at: Points \cup {NoPoint}, from: Points \cup {NoPoint}, outline: SUBSET AllStrokes,
     looped: BOOLEAN, earlier: SUBSET AllStrokes,
     pens: Seq(Pens) \ {<<>>}, told: Seq(Pens) \ {<<>>}, ink: SUBSET Marks,
     last: SUBSET Marks, strays: SUBSET Marks, loops: SUBSET Marks, steps: Int]
Path == [points: Seq(Points), pen: Pens, closed: BOOLEAN]

TypeInv ==
    /\ state \in Pens /\ stack \in Seq(Pens)
    /\ path \in Seq(Points) /\ start \in Points \cup {NoPoint} /\ closed \in BOOLEAN
    /\ paths \in Seq(Path)
    /\ page \in Page

(* The open subpath of the page and the path under construction. *)
Beside ==
    /\ path = <<>> => page.at = NoPoint /\ page.outline = {} /\ ~page.looped
    /\ path # <<>> => /\ start = page.from /\ start \in Points
                      /\ page.at = LastOf(path)
                      /\ page.outline = Strokes(path)
                      /\ path[1] = start
    /\ closed = page.looped

PensAgree == page.told = Append(stack, state)

IInv == TypeInv /\ Beside /\ PensAgree /\ PagesAreReadAsDrawn

-----------------------------------------------------------------------------
LEMMA StrokeOf ==
    ASSUME NEW s, NEW i \in 1..(Len(s) - 1)
    PROVE  Stroke(s[i], s[i + 1]) \in Strokes(s)
  BY DEF Strokes

LEMMA StrokesWithin ==
    ASSUME NEW s, NEW T, \A i \in 1..(Len(s) - 1) : Stroke(s[i], s[i + 1]) \in T
    PROVE  Strokes(s) \subseteq T
  BY DEF Strokes

(* Strokes of a sequence that goes on: the old ones and those of the rest   *)
(* from the last point of the old.                                          *)
LEMMA StrokesOfConcat ==
    ASSUME NEW S, NEW s \in Seq(S), s # <<>>, NEW t \in Seq(S), t # <<>>
    PROVE  /\ Strokes(s \o t) = Strokes(s) \cup Strokes(<<LastOf(s)>> \o t)
           /\ s \o t \in Seq(S) /\ s \o t # <<>> /\ LastOf(s \o t) = LastOf(t)
           /\ Len(s \o t) = Len(s) + Len(t)
  <1> DEFINE st == s \o t
             u == <<LastOf(s)>> \o t
             n == Len(s)
             m == Len(t)
  <1>1. n \in Nat \ {0} /\ m \in Nat \ {0} /\ Len(st) = n + m /\ Len(u) = m + 1
    OBVIOUS
  <1>2. LastOf(s) = s[n]
    BY DEF LastOf
  <1>3. \A i \in 1..n : st[i] = s[i]
    OBVIOUS
  <1>4. \A j \in 1..m : st[n + j] = t[j] /\ u[j + 1] = t[j]
    OBVIOUS
  <1>5. u[1] = s[n]
    BY <1>2
  <1>6. LastOf(st) = LastOf(t) /\ st \in Seq(S) /\ st # <<>>
    BY <1>1 DEF LastOf
  <1> HIDE DEF st, u, n, m
  <1>7. \A j \in 1..m : st[n + j - 1] = u[j] /\ st[n + j] = u[j + 1]
    <2>1. TAKE j \in 1..m
    <2>2. CASE j = 1
      <3>1. n + j - 1 = n /\ n \in 1..n
        BY <1>1, <2>2
      <3> QED BY <1>3, <1>4, <1>5, <2>2, <3>1
    <2>3. CASE j # 1
      <3>1. j - 1 \in 1..m /\ n + (j - 1) = n + j - 1 /\ (j - 1) + 1 = j
        BY <1>1, <2>3
      <3>2. st[n + (j - 1)] = t[j - 1] /\ u[(j - 1) + 1] = t[j - 1]
        BY <1>4, <3>1
      <3> QED BY <1>4, <3>1, <3>2
    <2> QED BY <2>2, <2>3
  <1>8. Strokes(st) \subseteq Strokes(s) \cup Strokes(u)
    <2>1. SUFFICES ASSUME NEW i \in 1..(Len(st) - 1)
                   PROVE  Stroke(st[i], st[i + 1]) \in Strokes(s) \cup Strokes(u)
      BY StrokesWithin
    <2>2. CASE i < n
      <3>1. i \in 1..(Len(s) - 1) /\ i \in 1..n /\ i + 1 \in 1..n
        BY <1>1, <2>1, <2>2 DEF n
      <3> QED BY <1>3, <3>1, StrokeOf
    <2>3. CASE i >= n
      <3>1. i - n + 1 \in 1..m /\ n + (i - n + 1) - 1 = i /\ n + (i - n + 1) = i + 1
        BY <1>1, <2>1, <2>3
      <3>2. st[i] = u[i - n + 1] /\ st[i + 1] = u[(i - n + 1) + 1]
        BY <1>7, <3>1
      <3>3. i - n + 1 \in 1..(Len(u) - 1)
        BY <1>1, <3>1
      <3> QED BY <3>2, <3>3, StrokeOf
    <2> QED BY <1>1, <2>1, <2>2, <2>3
  <1>9. Strokes(s) \subseteq Strokes(st)
    <2>1. SUFFICES ASSUME NEW i \in 1..(Len(s) - 1)
                   PROVE  Stroke(s[i], s[i + 1]) \in Strokes(st)
      BY StrokesWithin
    <2>2. i \in 1..n /\ i + 1 \in 1..n /\ i \in 1..(Len(st) - 1)
      BY <1>1, <2>1 DEF n
    <2> QED BY <1>3, <2>2, StrokeOf
  <1>10. Strokes(u) \subseteq Strokes(st)
    <2>1. SUFFICES ASSUME NEW j \in 1..(Len(u) - 1)
                   PROVE  Stroke(u[j], u[j + 1]) \in Strokes(st)
      BY StrokesWithin
    <2>2. j \in 1..m /\ n + j - 1 \in 1..(Len(st) - 1) /\ (n + j - 1) + 1 = n + j
      BY <1>1, <2>1
    <2> QED BY <1>7, <2>2, StrokeOf
  <1> QED BY <1>1, <1>6, <1>8, <1>9, <1>10 DEF st, u, n, m

LEMMA StrokesOfAppend ==
    ASSUME NEW S, NEW s \in Seq(S), s # <<>>, NEW p \in S
    PROVE  /\ Strokes(Append(s, p)) = Strokes(s) \cup {Stroke(LastOf(s), p)}
           /\ Append(s, p) \in Seq(S) /\ Append(s, p) # <<>>
           /\ LastOf(Append(s, p)) = p /\ Len(Append(s, p)) = Len(s) + 1
  <1>1. Append(s, p) = s \o <<p>> /\ <<p>> \in Seq(S) /\ <<p>> # <<>> /\ Len(<<p>>) = 1
    OBVIOUS
  <1>2. LastOf(s) \in S
    BY DEF LastOf
  <1>3. ASSUME NEW x \in S
        PROVE  Strokes(<<x>> \o <<p>>) = {Stroke(x, p)}
    <2> DEFINE u == <<x>> \o <<p>>
    <2>1. Len(u) = 2 /\ u[1] = x /\ u[2] = p
      OBVIOUS
    <2> HIDE DEF u
    <2>2. Strokes(u) = {Stroke(x, p)}
      BY <2>1 DEF Strokes
    <2> QED BY <2>2 DEF u
  <1>4. LastOf(<<p>>) = p
    BY DEF LastOf
  <1>5. Strokes(<<LastOf(s)>> \o <<p>>) = {Stroke(LastOf(s), p)}
    BY <1>2, <1>3
  <1>6. /\ Strokes(s \o <<p>>) = Strokes(s) \cup Strokes(<<LastOf(s)>> \o <<p>>)
        /\ s \o <<p>> \in Seq(S) /\ s \o <<p>> # <<>> /\ LastOf(s \o <<p>>) = LastOf(<<p>>)
        /\ Len(s \o <<p>>) = Len(s) + Len(<<p>>)
    BY ONLY <1>1, s \in Seq(S), s # <<>>, StrokesOfConcat
  <1> QED BY ONLY <1>1, <1>4, <1>5, <1>6

LEMMA StrokesAreSets ==
    ASSUME NEW s \in Seq(Points)
    PROVE  Strokes(s) \in SUBSET AllStrokes
  BY DEF Strokes, Stroke, AllStrokes

LEMMA FewPointsNoStrokes ==
    ASSUME NEW s, Len(s) \in Nat, Len(s) <= 1
    PROVE  Strokes(s) = {}
  BY DEF Strokes

LEMMA FirstPage == BlankPage \in Page /\ FirstPen \in Pens
  <1>1. FirstPen \in Pens
    BY DrawingAssumption DEF DrawingAssumption, FirstPen, Pens
  <1>2. <<FirstPen>> \in Seq(Pens) \ {<<>>}
    BY <1>1
  <1> QED BY <1>1, <1>2 DEF BlankPage, Page, Marks, AllStrokes

LEMMA FrontOfAppend ==
    ASSUME NEW S, NEW s \in Seq(S), NEW x \in S
    PROVE  /\ FrontOf(Append(s, x)) = s /\ LastOf(Append(s, x)) = x
           /\ Append(s, x) \in Seq(S) /\ Append(s, x) # <<>>
           /\ Len(Append(s, x)) = Len(s) + 1 /\ Len(s) \in Nat
  <1> DEFINE a == Append(s, x)
  <1>1. /\ a \in Seq(S) /\ a # <<>> /\ Len(a) = Len(s) + 1 /\ Len(s) \in Nat
        /\ a[Len(s) + 1] = x /\ \A i \in 1..Len(s) : a[i] = s[i]
    OBVIOUS
  <1> HIDE DEF a
  <1>2. SubSeq(a, 1, Len(s)) = s
    <2>1. SubSeq(a, 1, Len(s)) \in Seq(S) /\ Len(SubSeq(a, 1, Len(s))) = Len(s)
      BY <1>1
    <2>2. \A i \in 1..Len(s) : SubSeq(a, 1, Len(s))[i] = s[i]
      BY <1>1
    <2> QED BY <2>1, <2>2, SeqEqual
  <1> QED BY <1>1, <1>2 DEF FrontOf, LastOf, a

LEMMA AppendOfFront ==
    ASSUME NEW S, NEW s \in Seq(S), s # <<>>
    PROVE  /\ Append(FrontOf(s), LastOf(s)) = s
           /\ FrontOf(s) \in Seq(S) /\ LastOf(s) \in S /\ Len(FrontOf(s)) = Len(s) - 1
  <1>1. Len(s) \in Nat \ {0}
    OBVIOUS
  <1>2. /\ FrontOf(s) \in Seq(S) /\ Len(FrontOf(s)) = Len(s) - 1 /\ LastOf(s) \in S
        /\ \A i \in 1..(Len(s) - 1) : FrontOf(s)[i] = s[i]
    <2> DEFINE n == Len(s) - 1
    <2>1. n \in Nat /\ n + 1 = Len(s)
      BY <1>1
    <2>2. SubSeq(s, 1, n) \in Seq(S)
      BY <2>1
    <2>3. Len(SubSeq(s, 1, n)) = n
      BY <2>1
    <2>4. \A i \in 1..n : SubSeq(s, 1, n)[i] = s[i]
      BY <2>1
    <2>5. LastOf(s) \in S
      BY <1>1 DEF LastOf
    <2> QED BY <2>2, <2>3, <2>4, <2>5 DEF FrontOf
  <1> DEFINE a == Append(FrontOf(s), LastOf(s))
  <1>3. a \in Seq(S) /\ Len(a) = Len(s)
    BY <1>1, <1>2
  <1>4. \A i \in 1..Len(s) : a[i] = s[i]
    BY <1>1, <1>2 DEF LastOf
  <1> HIDE DEF a
  <1>5. a = s
    BY <1>3, <1>4, SeqEqual
  <1> QED BY <1>2, <1>5 DEF a

(* One pen for each open q, and the pen in force. *)
LEMMA PensInForce ==
    ASSUME NEW s \in Seq(Pens) \ {<<>>}, NEW pen \in Pens
    PROVE  /\ LastOf(s) \in Pens /\ FrontOf(s) \in Seq(Pens)
           /\ Append(s, LastOf(s)) \in Seq(Pens) \ {<<>>}
           /\ Renewed(s, pen) \in Seq(Pens) \ {<<>>} /\ Renewed(s, pen) = Append(FrontOf(s), pen)
           /\ Under(s) \in Seq(Pens) \ {<<>>}
  <1>1. s \in Seq(Pens) /\ s # <<>> /\ Len(s) \in Nat /\ Len(s) # 0
    OBVIOUS
  <1>2. LastOf(s) \in Pens
    BY <1>1 DEF LastOf
  <1>3. /\ FrontOf(s) \in Seq(Pens) /\ Len(FrontOf(s)) = Len(s) - 1
    BY <1>1, AppendOfFront
  <1>4. Append(s, LastOf(s)) \in Seq(Pens) /\ Append(s, LastOf(s)) # <<>>
    BY <1>1, <1>2
  <1>5. Append(FrontOf(s), pen) \in Seq(Pens) /\ Append(FrontOf(s), pen) # <<>>
    BY <1>3
  <1>6. Len(s) # 1 => FrontOf(s) # <<>>
    BY <1>1, <1>3
  <1> QED BY <1>1, <1>2, <1>3, <1>4, <1>5, <1>6 DEF Renewed, Under

-----------------------------------------------------------------------------
(* The rules of the page keep its type, and say what they change.           *)
LEMMA PageSetRule ==
    ASSUME NEW g \in Page, NEW pen \in Pens, NEW told \in Pens
    PROVE  LET h == PageSet(g, pen, told) IN
           /\ h \in Page /\ h.told = Append(FrontOf(g.told), told)
           /\ h.at = g.at /\ h.from = g.from /\ h.outline = g.outline /\ h.looped = g.looped
           /\ h.ink = g.ink /\ h.last = g.last /\ h.strays = g.strays /\ h.loops = g.loops
  <1>1. g.pens \in Seq(Pens) \ {<<>>} /\ g.told \in Seq(Pens) \ {<<>>}
    BY DEF Page
  <1>2. /\ Renewed(g.pens, pen) \in Seq(Pens) \ {<<>>}
        /\ Renewed(g.told, told) \in Seq(Pens) \ {<<>>}
        /\ Renewed(g.told, told) = Append(FrontOf(g.told), told)
    BY <1>1, PensInForce
  <1> QED BY <1>2 DEF PageSet, Page

LEMMA PageSaveRule ==
    ASSUME NEW g \in Page
    PROVE  LET h == PageSave(g) IN
           /\ h \in Page /\ h.told = Append(g.told, LastOf(g.told))
           /\ h.at = g.at /\ h.from = g.from /\ h.outline = g.outline /\ h.looped = g.looped
           /\ h.ink = g.ink /\ h.last = g.last /\ h.strays = g.strays /\ h.loops = g.loops
  <1>1. g.pens \in Seq(Pens) \ {<<>>} /\ g.told \in Seq(Pens) \ {<<>>}
    BY DEF Page
  <1>2. /\ Append(g.pens, LastOf(g.pens)) \in Seq(Pens) \ {<<>>}
        /\ Append(g.told, LastOf(g.told)) \in Seq(Pens) \ {<<>>}
    BY <1>1, FirstPage, PensInForce
  <1> QED BY <1>2 DEF PageSave, Page

LEMMA PageRestoreRule ==
    ASSUME NEW g \in Page
    PROVE  LET h == PageRestore(g) IN
           /\ h \in Page /\ h.told = Under(g.told)
           /\ h.at = g.at /\ h.from = g.from /\ h.outline = g.outline /\ h.looped = g.looped
           /\ h.ink = g.ink /\ h.last = g.last /\ h.strays = g.strays /\ h.loops = g.loops
  <1>1. g.pens \in Seq(Pens) \ {<<>>} /\ g.told \in Seq(Pens) \ {<<>>}
    BY DEF Page
  <1>2. Under(g.pens) \in Seq(Pens) \ {<<>>} /\ Under(g.told) \in Seq(Pens) \ {<<>>}
    BY <1>1, FirstPage, PensInForce
  <1> QED BY <1>2 DEF PageRestore, Page

LEMMA PageMoveRule ==
    ASSUME NEW g \in Page, NEW p \in Points
    PROVE  LET h == PageMove(g, p) IN
           /\ h \in Page
           /\ h.at = p /\ h.from = p /\ h.outline = {} /\ h.looped = FALSE
           /\ h.told = g.told /\ h.ink = g.ink /\ h.last = g.last
           /\ h.strays = g.strays /\ h.loops = g.loops
  <1>1. g.earlier \cup g.outline \in SUBSET AllStrokes /\ g.steps + 1 \in Int
    BY DEF Page
  <1>2. PageMove(g, p) \in Page
    BY <1>1 DEF PageMove, Page
  <1> QED BY <1>2 DEF PageMove, Page

LEMMA PageLinesRule ==
    ASSUME NEW g \in Page, g.at \in Points, NEW s \in Seq(Points), s # <<>>
    PROVE  LET h == PageLines(g, s) IN
           /\ h \in Page
           /\ h.at = LastOf(s) /\ h.outline = g.outline \cup Strokes(<<g.at>> \o s)
           /\ h.from = g.from /\ h.looped = g.looped
           /\ h.told = g.told /\ h.ink = g.ink /\ h.last = g.last
           /\ h.strays = g.strays /\ h.loops = g.loops
  <1>1. LastOf(s) \in Points /\ Len(s) \in Nat
    BY DEF LastOf
  <1>2. <<g.at>> \o s \in Seq(Points)
    OBVIOUS
  <1>3. Strokes(<<g.at>> \o s) \in SUBSET AllStrokes
    BY <1>2, StrokesAreSets
  <1>4. g.outline \cup Strokes(<<g.at>> \o s) \in SUBSET AllStrokes /\ g.steps + 1 \in Int
    <2>1. g.outline \in SUBSET AllStrokes /\ g.steps \in Int
      BY ONLY g \in Page DEF Page
    <2> QED BY <1>3, <2>1
  <1>5. PageLines(g, s) \in Page
    BY ONLY <1>1, <1>4, g \in Page DEF PageLines, Page
  <1> QED BY ONLY <1>5, g \in Page DEF PageLines, Page

LEMMA PageCloseRule ==
    ASSUME NEW g \in Page, g.at \in Points, g.from \in Points
    PROVE  LET h == PageClose(g) IN
           /\ h \in Page
           /\ h.at = g.from /\ h.from = g.from /\ h.looped = TRUE
           /\ h.outline = IF g.at = g.from THEN g.outline
                          ELSE g.outline \cup {Stroke(g.at, g.from)}
           /\ h.told = g.told /\ h.ink = g.ink /\ h.last = g.last
           /\ h.strays = g.strays /\ h.loops = g.loops
  <1>1. Stroke(g.at, g.from) \in AllStrokes
    BY DEF Stroke, AllStrokes
  <1> QED BY <1>1 DEF PageClose, Page

LEMMA PageEndRule ==
    ASSUME NEW g \in Page
    PROVE  LET h == PageEnd(g) IN
           /\ h \in Page
           /\ h.at = NoPoint /\ h.outline = {} /\ h.looped = FALSE
           /\ h.told = g.told /\ h.ink = g.ink /\ h.last = g.last
           /\ h.strays = g.strays /\ h.loops = g.loops
  BY DEF PageEnd, Page

LEMMA InMarks ==
    ASSUME NEW pen \in Pens, NEW T \in SUBSET AllStrokes
    PROVE  In(pen, T) \in SUBSET Marks
  BY DEF In, Marks

LEMMA InUnion ==
    ASSUME NEW pen, NEW T, NEW U
    PROVE  /\ In(pen, T \cup U) = In(pen, T) \cup In(pen, U)
           /\ T \subseteq U => In(pen, T) \subseteq In(pen, U)
           /\ In(pen, {}) = {}
  BY DEF In

LEMMA PagePaintRule ==
    ASSUME NEW g \in Page, NEW stroking \in BOOLEAN,
           g.looped => g.at \in Points /\ g.from \in Points
    PROVE  LET h == PagePaint(g, stroking)
               told == LastOf(g.told)
               heard == stroking /\ LastOf(g.pens) = told
           IN  /\ h \in Page /\ told \in Pens
               /\ h.at = NoPoint /\ h.outline = {} /\ h.looped = FALSE /\ h.told = g.told
               /\ g.ink \subseteq h.ink
               /\ heard => In(told, g.outline) \subseteq h.ink
               /\ h.last = IF heard THEN g.last \cup In(told, g.outline) ELSE g.last
               /\ h.strays = IF heard THEN g.strays ELSE g.strays \cup In(told, g.outline)
               /\ h.loops = IF g.looped THEN g.loops \cup In(told, {Stroke(g.at, g.from)})
                            ELSE g.loops
  <1> DEFINE pen == LastOf(g.pens)
             told == LastOf(g.told)
             heard == stroking /\ pen = told
             drawn == In(pen, g.earlier \cup g.outline)
             shown == In(told, g.outline)
             loop == In(told, {Stroke(g.at, g.from)})
             k == [g EXCEPT !.ink = IF stroking THEN @ \cup drawn ELSE @,
                            !.last = IF heard THEN @ \cup In(pen, g.outline) ELSE @,
                            !.strays = IF heard THEN @ ELSE @ \cup shown,
                            !.loops = IF g.looped THEN @ \cup loop ELSE @]
  <1>1. pen \in Pens /\ told \in Pens
    <2>1. g.pens \in Seq(Pens) \ {<<>>} /\ g.told \in Seq(Pens) \ {<<>>}
      BY DEF Page
    <2> QED BY <2>1, FirstPage, PensInForce
  <1>2. PagePaint(g, stroking) = PageEnd(k)
    BY DEF PagePaint
  <1> HIDE DEF pen, told
  <1>3. drawn \in SUBSET Marks /\ shown \in SUBSET Marks
    BY <1>1, InMarks DEF Page
  <1>4. ASSUME g.looped PROVE loop \in SUBSET Marks
    BY <1>1, <1>4, InMarks DEF Stroke, AllStrokes
  <1>5. heard => In(pen, g.outline) = shown /\ shown \subseteq drawn
    BY InUnion
  <1> HIDE DEF drawn, shown, loop
  <1>6. /\ k.ink = IF stroking THEN g.ink \cup drawn ELSE g.ink
        /\ k.last = IF heard THEN g.last \cup In(pen, g.outline) ELSE g.last
        /\ k.strays = IF heard THEN g.strays ELSE g.strays \cup shown
        /\ k.loops = IF g.looped THEN g.loops \cup loop ELSE g.loops
        /\ k.told = g.told
    BY DEF Page
  <1>7. /\ (IF stroking THEN g.ink \cup drawn ELSE g.ink) \in SUBSET Marks
        /\ (IF heard THEN g.last \cup In(pen, g.outline) ELSE g.last) \in SUBSET Marks
        /\ (IF heard THEN g.strays ELSE g.strays \cup shown) \in SUBSET Marks
        /\ (IF g.looped THEN g.loops \cup loop ELSE g.loops) \in SUBSET Marks
    BY <1>3, <1>4, <1>5 DEF Page
  <1>8. k \in Page
    BY <1>7 DEF Page
  <1> HIDE DEF k
  <1>9. /\ PageEnd(k) \in Page
        /\ PageEnd(k).at = NoPoint /\ PageEnd(k).outline = {} /\ PageEnd(k).looped = FALSE
        /\ PageEnd(k).told = k.told /\ PageEnd(k).ink = k.ink /\ PageEnd(k).last = k.last
        /\ PageEnd(k).strays = k.strays /\ PageEnd(k).loops = k.loops
    BY <1>8, PageEndRule
  <1> QED BY <1>1, <1>2, <1>5, <1>6, <1>9 DEF pen, told, shown, loop

-----------------------------------------------------------------------------
(* What is read off a page. *)
LEMMA MarksStay ==
    ASSUME PagesAreReadAsDrawn, paths' = paths,
           page'.ink = page.ink, page'.last = page.last,
           page'.strays = page.strays, page'.loops = page.loops
    PROVE  PagesAreReadAsDrawn'
  BY DEF PagesAreReadAsDrawn, ReadMarks

LEMMA MarksOfOneMore ==
    ASSUME paths \in Seq(Path), NEW r \in Path, paths' = Append(paths, r)
    PROVE  ReadMarks' = ReadMarks \cup In(r.pen, Strokes(r.points))
  <1>1. /\ DOMAIN paths' = DOMAIN paths \cup {Len(paths) + 1}
        /\ paths'[Len(paths) + 1] = r
        /\ \A i \in DOMAIN paths : paths'[i] = paths[i]
    OBVIOUS
  <1> QED BY <1>1 DEF ReadMarks

-----------------------------------------------------------------------------
LEMMA InitIInv == DrawingInit => IInv
  <1> SUFFICES ASSUME DrawingInit PROVE IInv
    OBVIOUS
  <1> USE DEF DrawingInit
  <1>1. TypeInv
    <2>1. <<>> \in Seq(Pens) /\ <<>> \in Seq(Points) /\ <<>> \in Seq(Path)
      OBVIOUS
    <2>2. start \in Points \cup {NoPoint} /\ closed \in BOOLEAN
      OBVIOUS
    <2>3. state \in Pens /\ page \in Page
      BY FirstPage
    <2> QED BY <2>1, <2>2, <2>3 DEF TypeInv
  <1>2. Beside
    BY DEF Beside, BlankPage
  <1>3. PensAgree
    BY DEF PensAgree, BlankPage
  <1>4. PagesAreReadAsDrawn
    BY DEF PagesAreReadAsDrawn, ReadMarks, BlankPage
  <1> QED BY <1>1, <1>2, <1>3, <1>4 DEF IInv

(* The steps of the graphics state: the pens that the code keeps are those  *)
(* that the page was told of.                                               *)
LEMMA PensKeep ==
    ASSUME IInv, UNCHANGED <<path, start, closed, paths>>,
           state' \in Pens, stack' \in Seq(Pens),
           page' \in Page, page'.told = Append(stack', state'),
           page'.at = page.at, page'.from = page.from, page'.outline = page.outline,
           page'.looped = page.looped, page'.ink = page.ink, page'.last = page.last,
           page'.strays = page.strays, page'.loops = page.loops
    PROVE  IInv'
  <1>1. TypeInv /\ Beside /\ PagesAreReadAsDrawn
    BY DEF IInv
  <1>2. TypeInv'
    BY <1>1 DEF TypeInv
  <1>3. Beside'
    BY <1>1 DEF Beside
  <1>4. PensAgree'
    BY DEF PensAgree
  <1>5. PagesAreReadAsDrawn'
    BY <1>1, MarksStay
  <1> QED BY <1>2, <1>3, <1>4, <1>5 DEF IInv

LEMMA ToldPen ==
    ASSUME IInv
    PROVE  /\ page \in Page /\ state \in Pens /\ stack \in Seq(Pens)
           /\ page.told = Append(stack, state) /\ LastOf(page.told) = state
           /\ FrontOf(page.told) = stack /\ Len(page.told) = Len(stack) + 1
           /\ LastOf(page.pens) \in Pens
  <1>1. /\ page \in Page /\ state \in Pens /\ stack \in Seq(Pens)
        /\ page.told = Append(stack, state)
    BY DEF IInv, TypeInv, PensAgree
  <1>2. page.pens \in Seq(Pens) \ {<<>>}
    BY <1>1 DEF Page
  <1>3. LastOf(page.pens) \in Pens
    BY <1>1, <1>2, PensInForce
  <1> QED BY <1>1, <1>3, FrontOfAppend

LEMMA PushKeeps == IInv /\ Push => IInv'
  <1> SUFFICES ASSUME IInv, Push PROVE IInv'
    OBVIOUS
  <1>1. /\ stack' = Append(stack, state) /\ page' = PageSave(page)
        /\ UNCHANGED <<state, path, start, closed, paths>>
    BY DEF Push
  <1>2. /\ page \in Page /\ state \in Pens /\ stack \in Seq(Pens)
        /\ page.told = Append(stack, state) /\ LastOf(page.told) = state
    BY ToldPen
  <1>3. stack' \in Seq(Pens) /\ state' \in Pens
    BY <1>1, <1>2
  <1>4. /\ page' \in Page /\ page'.told = Append(stack', state')
        /\ page'.at = page.at /\ page'.from = page.from /\ page'.outline = page.outline
        /\ page'.looped = page.looped /\ page'.ink = page.ink /\ page'.last = page.last
        /\ page'.strays = page.strays /\ page'.loops = page.loops
    BY <1>1, <1>2, PageSaveRule
  <1> QED BY <1>1, <1>3, <1>4, PensKeep

LEMMA PopKeeps == IInv /\ Pop => IInv'
  <1> SUFFICES ASSUME IInv, Pop PROVE IInv'
    OBVIOUS
  <1>1. page' = PageRestore(page) /\ UNCHANGED <<path, start, closed, paths>>
    BY DEF Pop
  <1>2. /\ page \in Page /\ state \in Pens /\ stack \in Seq(Pens)
        /\ page.told = Append(stack, state) /\ FrontOf(page.told) = stack
        /\ Len(page.told) = Len(stack) + 1
    BY ToldPen
  <1>3. /\ state' \in Pens /\ stack' \in Seq(Pens)
        /\ Under(page.told) = Append(stack', state')
    <2>1. CASE stack = <<>>
      <3>1. state' = state /\ stack' = stack /\ Len(page.told) = 1
        BY <1>2, <2>1 DEF Pop
      <3> QED BY <1>2, <3>1 DEF Under
    <2>2. CASE stack # <<>>
      <3>1. state' = LastOf(stack) /\ stack' = FrontOf(stack) /\ Len(page.told) # 1
        BY <1>2, <2>2 DEF Pop
      <3>2. /\ Append(stack', state') = stack /\ stack' \in Seq(Pens) /\ state' \in Pens
        BY <1>2, <2>2, <3>1, AppendOfFront
      <3> QED BY <1>2, <3>1, <3>2 DEF Under
    <2> QED BY <2>1, <2>2
  <1>4. /\ page' \in Page /\ page'.told = Append(stack', state')
        /\ page'.at = page.at /\ page'.from = page.from /\ page'.outline = page.outline
        /\ page'.looped = page.looped /\ page'.ink = page.ink /\ page'.last = page.last
        /\ page'.strays = page.strays /\ page'.loops = page.loops
    BY <1>1, <1>2, <1>3, PageRestoreRule
  <1> QED BY <1>1, <1>3, <1>4, PensKeep

(* A pen is set on the page and in the state, or on the page only. *)
LEMMA SetKeeps ==
    ASSUME IInv, UNCHANGED <<stack, path, start, closed, paths>>, state' \in Pens,
           NEW pen \in Pens, page' = PageSet(page, pen, state')
    PROVE  IInv'
  <1>1. page \in Page /\ stack \in Seq(Pens) /\ FrontOf(page.told) = stack
    BY ToldPen
  <1>2. /\ page' \in Page /\ page'.told = Append(stack', state')
        /\ page'.at = page.at /\ page'.from = page.from /\ page'.outline = page.outline
        /\ page'.looped = page.looped /\ page'.ink = page.ink /\ page'.last = page.last
        /\ page'.strays = page.strays /\ page'.loops = page.loops
    BY <1>1, PageSetRule
  <1> QED BY <1>1, <1>2, PensKeep

LEMMA PenSet ==
    ASSUME NEW pen \in Pens
    PROVE  /\ \A c \in Colours : Coloured(pen, c) \in Pens
           /\ \A w \in Widths : Widened(pen, w) \in Pens
  BY DEF Coloured, Widened, Pens

LEMMA SetColourKeeps == IInv /\ SetColour => IInv'
  <1> SUFFICES ASSUME IInv, SetColour PROVE IInv'
    OBVIOUS
  <1>1. UNCHANGED <<stack, path, start, closed, paths>>
    BY DEF SetColour
  <1>2. PICK c \in Colours :
            /\ state' = Coloured(state, c)
            /\ page' = PageSet(page, Coloured(LastOf(page.pens), c), Coloured(LastOf(page.told), c))
    BY DEF SetColour
  <1>3. state \in Pens /\ LastOf(page.pens) \in Pens /\ LastOf(page.told) = state
    BY ToldPen
  <1>4. state' \in Pens /\ Coloured(LastOf(page.pens), c) \in Pens
    BY <1>2, <1>3, PenSet
  <1> QED BY <1>1, <1>2, <1>3, <1>4, SetKeeps

LEMMA SetWidthKeeps == IInv /\ SetWidth => IInv'
  <1> SUFFICES ASSUME IInv, SetWidth PROVE IInv'
    OBVIOUS
  <1>1. UNCHANGED <<stack, path, start, closed, paths>>
    BY DEF SetWidth
  <1>2. PICK w \in Widths :
            /\ state' = Widened(state, w)
            /\ page' = PageSet(page, Widened(LastOf(page.pens), w), Widened(LastOf(page.told), w))
    BY DEF SetWidth
  <1>3. state \in Pens /\ LastOf(page.pens) \in Pens /\ LastOf(page.told) = state
    BY ToldPen
  <1>4. state' \in Pens /\ Widened(LastOf(page.pens), w) \in Pens
    BY <1>2, <1>3, PenSet
  <1> QED BY <1>1, <1>2, <1>3, <1>4, SetKeeps

LEMMA SetUnreadKeeps == IInv /\ SetUnread => IInv'
  <1> SUFFICES ASSUME IInv, SetUnread PROVE IInv'
    OBVIOUS
  <1>1. UNCHANGED <<state, stack, path, start, closed, paths>>
    BY DEF SetUnread
  <1>2. state \in Pens /\ LastOf(page.pens) \in Pens /\ LastOf(page.told) = state
    BY ToldPen
  <1>3. PICK pen \in Pens : page' = PageSet(page, pen, LastOf(page.told))
    BY <1>2, PenSet DEF SetUnread
  <1> QED BY <1>1, <1>2, <1>3, SetKeeps

-----------------------------------------------------------------------------
(* The steps that build a path. *)
LEMMA OpenPath ==
    ASSUME TypeInv, Beside, page.at # NoPoint
    PROVE  /\ path \in Seq(Points) /\ path # <<>> /\ page \in Page
           /\ page.at = LastOf(path) /\ page.at \in Points
           /\ start = page.from /\ start \in Points /\ path[1] = start
           /\ page.outline = Strokes(path) /\ closed = page.looped
  <1>1. path # <<>>
    BY DEF Beside
  <1>2. page.at \in Points
    BY DEF TypeInv, Page
  <1> QED BY <1>1, <1>2 DEF TypeInv, Beside

(* A path that goes on in step with the page keeps the invariant. *)
LEMMA PathKeeps ==
    ASSUME IInv, UNCHANGED <<state, stack, paths>>,
           path' \in Seq(Points), path' # <<>>, start' \in Points, path'[1] = start',
           page' \in Page, page'.told = page.told,
           page'.ink = page.ink, page'.last = page.last,
           page'.strays = page.strays, page'.loops = page.loops,
           page'.from = start', page'.at = LastOf(path'), page'.outline = Strokes(path'),
           closed' = page'.looped
    PROVE  IInv'
  <1>1. TypeInv /\ PensAgree /\ PagesAreReadAsDrawn
    BY DEF IInv
  <1>2. closed' \in BOOLEAN
    BY DEF Page
  <1>3. TypeInv'
    BY <1>1, <1>2 DEF TypeInv
  <1>4. Beside'
    BY DEF Beside
  <1>5. PensAgree'
    BY <1>1 DEF PensAgree
  <1>6. PagesAreReadAsDrawn'
    BY <1>1, MarksStay
  <1> QED BY <1>3, <1>4, <1>5, <1>6 DEF IInv

LEMMA MoveToKeeps == IInv /\ MoveTo => IInv'
  <1> SUFFICES ASSUME IInv, MoveTo PROVE IInv'
    OBVIOUS
  <1>1. page \in Page
    BY DEF IInv, TypeInv
  <1>2. PICK p \in Points : path' = <<p>> /\ start' = p /\ page' = PageMove(page, p)
    BY DEF MoveTo
  <1>3. closed' = FALSE /\ UNCHANGED <<state, stack, paths>>
    BY DEF MoveTo
  <1>4. /\ page' \in Page /\ page'.at = p /\ page'.from = p /\ page'.outline = {}
        /\ page'.looped = FALSE
        /\ page'.told = page.told /\ page'.ink = page.ink /\ page'.last = page.last
        /\ page'.strays = page.strays
        /\ page'.loops = page.loops
    BY <1>1, <1>2, PageMoveRule
  <1>5. path' \in Seq(Points) /\ path' # <<>> /\ Len(path') = 1 /\ path'[1] = p
    BY <1>2
  <1>6. Strokes(path') = {} /\ LastOf(path') = p
    <2>1. LastOf(path') = p
      BY <1>5 DEF LastOf
    <2> DEFINE s == path'
    <2>2. Len(s) \in Nat /\ Len(s) <= 1
      BY <1>5
    <2> HIDE DEF s
    <2>3. Strokes(s) = {}
      BY <2>2, FewPointsNoStrokes
    <2> QED BY <2>1, <2>3 DEF s
  <1> QED BY <1>2, <1>3, <1>4, <1>5, <1>6, PathKeeps

LEMMA LineToKeeps == IInv /\ LineTo => IInv'
  <1> SUFFICES ASSUME IInv, LineTo PROVE IInv'
    OBVIOUS
  <1>1. TypeInv /\ Beside /\ page.at # NoPoint
    BY DEF IInv, LineTo
  <1>2. PICK s \in {<<p>> : p \in Points} \cup Curves :
            path' = path \o s /\ page' = PageLines(page, s)
    BY DEF LineTo
  <1>3. UNCHANGED <<state, stack, start, closed, paths>>
    BY DEF LineTo
  <1>4. s \in Seq(Points) /\ s # <<>>
    <2>1. CASE s \in Curves
      BY <2>1, DrawingAssumption DEF DrawingAssumption
    <2>2. CASE s \in {<<p>> : p \in Points}
      <3>1. PICK p \in Points : s = <<p>>
        BY <2>2
      <3>2. <<p>> \in Seq(Points) /\ <<p>> # <<>>
        OBVIOUS
      <3> QED BY <3>1, <3>2
    <2> QED BY <2>1, <2>2
  <1>5. /\ path \in Seq(Points) /\ path # <<>> /\ page \in Page
        /\ page.at = LastOf(path) /\ page.at \in Points
        /\ start = page.from /\ start \in Points /\ path[1] = start
        /\ page.outline = Strokes(path) /\ closed = page.looped
    BY <1>1, OpenPath
  <1>6. /\ page' \in Page /\ page'.at = LastOf(s)
        /\ page'.outline = page.outline \cup Strokes(<<page.at>> \o s)
        /\ page'.from = page.from /\ page'.looped = page.looped
        /\ page'.told = page.told /\ page'.ink = page.ink /\ page'.last = page.last
        /\ page'.strays = page.strays
        /\ page'.loops = page.loops
    BY <1>2, <1>4, <1>5, PageLinesRule
  <1>7. /\ Strokes(path \o s) = Strokes(path) \cup Strokes(<<LastOf(path)>> \o s)
        /\ path \o s \in Seq(Points) /\ path \o s # <<>> /\ LastOf(path \o s) = LastOf(s)
    BY <1>4, <1>5, StrokesOfConcat
  <1>8. (path \o s)[1] = path[1]
    BY <1>4, <1>5
  <1> QED BY <1>2, <1>3, <1>5, <1>6, <1>7, <1>8, PathKeeps

LEMMA RectangleKeeps == IInv /\ Rectangle => IInv'
  <1> SUFFICES ASSUME IInv, Rectangle PROVE IInv'
    OBVIOUS
  <1>1. page \in Page
    BY DEF IInv, TypeInv
  <1>2. PICK c \in Corners :
            /\ path' = <<c[1], c[2], c[3], c[4], c[1]>> /\ start' = c[1]
            /\ page' = PageClose(PageLines(PageMove(page, c[1]), <<c[2], c[3], c[4], c[1]>>))
    BY DEF Rectangle
  <1>3. closed' = TRUE /\ UNCHANGED <<state, stack, paths>>
    BY DEF Rectangle
  <1>4. c[1] \in Points /\ c[2] \in Points /\ c[3] \in Points /\ c[4] \in Points
    BY DrawingAssumption DEF DrawingAssumption
  <1> DEFINE rest == <<c[2], c[3], c[4], c[1]>>
             g == PageMove(page, c[1])
             h == PageLines(g, rest)
  <1>5. rest \in Seq(Points) /\ rest # <<>> /\ LastOf(rest) = c[1]
    BY <1>4 DEF LastOf
  <1>6. /\ path' \in Seq(Points) /\ path' # <<>> /\ path'[1] = c[1] /\ LastOf(path') = c[1]
    BY <1>2, <1>4 DEF LastOf
  <1>7. <<c[1]>> \o rest = path'
    <2>1. /\ <<c[1]>> \o rest \in Seq(Points) /\ Len(<<c[1]>> \o rest) = 5
          /\ (<<c[1]>> \o rest)[1] = c[1] /\ (<<c[1]>> \o rest)[2] = c[2]
          /\ (<<c[1]>> \o rest)[3] = c[3] /\ (<<c[1]>> \o rest)[4] = c[4]
          /\ (<<c[1]>> \o rest)[5] = c[1]
      BY <1>4
    <2>2. /\ Len(path') = 5 /\ path'[1] = c[1] /\ path'[2] = c[2] /\ path'[3] = c[3]
          /\ path'[4] = c[4] /\ path'[5] = c[1]
      BY <1>2
    <2> HIDE DEF rest
    <2>3. \A i \in 1..5 : (<<c[1]>> \o rest)[i] = path'[i]
      BY <2>1, <2>2
    <2> QED BY <1>6, <2>1, <2>2, <2>3, SeqEqual
  <1> HIDE DEF rest, g, h
  <1>8. /\ g \in Page /\ g.at = c[1] /\ g.from = c[1] /\ g.outline = {}
        /\ g.told = page.told /\ g.ink = page.ink /\ g.last = page.last
        /\ g.strays = page.strays /\ g.loops = page.loops
    BY <1>1, <1>4, PageMoveRule DEF g
  <1>9. /\ h \in Page /\ h.at = c[1] /\ h.from = c[1] /\ h.outline = Strokes(path')
        /\ h.told = page.told /\ h.ink = page.ink /\ h.last = page.last
        /\ h.strays = page.strays /\ h.loops = page.loops
    BY <1>4, <1>5, <1>7, <1>8, PageLinesRule DEF h
  <1>10. /\ page' \in Page /\ page'.at = c[1] /\ page'.from = c[1] /\ page'.looped = TRUE
         /\ page'.outline = Strokes(path')
         /\ page'.told = page.told /\ page'.ink = page.ink /\ page'.last = page.last
         /\ page'.strays = page.strays
         /\ page'.loops = page.loops
    <2>1. page' = PageClose(h)
      BY <1>2 DEF h, g, rest
    <2>2. h.at \in Points /\ h.from \in Points /\ h.at = h.from
      BY <1>4, <1>9
    <2>3. /\ PageClose(h) \in Page /\ PageClose(h).at = h.from /\ PageClose(h).from = h.from
          /\ PageClose(h).looped = TRUE /\ PageClose(h).outline = h.outline
          /\ PageClose(h).told = h.told /\ PageClose(h).ink = h.ink
          /\ PageClose(h).last = h.last
          /\ PageClose(h).strays = h.strays /\ PageClose(h).loops = h.loops
      BY ONLY <1>9, <2>2, PageCloseRule
    <2> QED BY <1>9, <2>1, <2>3
  <1> QED BY <1>2, <1>3, <1>4, <1>6, <1>10, PathKeeps

LEMMA ClosePathKeeps == IInv /\ ClosePath => IInv'
  <1> SUFFICES ASSUME IInv, ClosePath PROVE IInv'
    OBVIOUS
  <1>1. TypeInv /\ Beside /\ page.at # NoPoint
    BY DEF IInv, ClosePath
  <1>2. /\ path' = IF LastOf(path) # start THEN Append(path, start) ELSE path
        /\ closed' = TRUE /\ page' = PageClose(page)
        /\ UNCHANGED <<state, stack, start, paths>>
    BY DEF ClosePath
  <1>3. /\ path \in Seq(Points) /\ path # <<>> /\ page \in Page
        /\ page.at = LastOf(path) /\ page.at \in Points
        /\ start = page.from /\ start \in Points /\ path[1] = start
        /\ page.outline = Strokes(path) /\ closed = page.looped
    BY <1>1, OpenPath
  <1>4. /\ page' \in Page /\ page'.at = start /\ page'.from = start /\ page'.looped = TRUE
        /\ page'.outline = IF LastOf(path) = start THEN Strokes(path)
                           ELSE Strokes(path) \cup {Stroke(LastOf(path), start)}
        /\ page'.told = page.told /\ page'.ink = page.ink /\ page'.last = page.last
        /\ page'.strays = page.strays
        /\ page'.loops = page.loops
    <2>1. /\ PageClose(page) \in Page /\ PageClose(page).at = page.from
          /\ PageClose(page).from = page.from /\ PageClose(page).looped = TRUE
          /\ PageClose(page).outline = IF page.at = page.from THEN page.outline
                                       ELSE page.outline \cup {Stroke(page.at, page.from)}
          /\ PageClose(page).told = page.told /\ PageClose(page).ink = page.ink
          /\ PageClose(page).last = page.last /\ PageClose(page).strays = page.strays
          /\ PageClose(page).loops = page.loops
      BY ONLY <1>3, PageCloseRule
    <2> QED BY <1>2, <1>3, <2>1
  <1>5. /\ path' \in Seq(Points) /\ path' # <<>> /\ path'[1] = start
        /\ LastOf(path') = start /\ page'.outline = Strokes(path')
    <2>1. CASE LastOf(path) = start
      BY <1>2, <1>3, <1>4, <2>1
    <2>2. CASE LastOf(path) # start
      <3>1. Append(path, start)[1] = path[1]
        BY <1>3
      <3>2. /\ Strokes(Append(path, start)) = Strokes(path) \cup {Stroke(LastOf(path), start)}
            /\ Append(path, start) \in Seq(Points) /\ Append(path, start) # <<>>
            /\ LastOf(Append(path, start)) = start
        BY <1>3, StrokesOfAppend
      <3> QED BY <1>2, <1>3, <1>4, <2>2, <3>1, <3>2
    <2> QED BY <2>1, <2>2
  <1> QED BY <1>2, <1>3, <1>4, <1>5, PathKeeps

-----------------------------------------------------------------------------
(* The steps that end a path. *)
LEMMA EndKeeps ==
    ASSUME IInv, UNCHANGED <<state, stack>>, ResetPath, paths' \in Seq(Path),
           page' \in Page, page'.told = page.told,
           page'.at = NoPoint, page'.outline = {}, page'.looped = FALSE,
           PagesAreReadAsDrawn'
    PROVE  IInv'
  <1>1. path' = <<>> /\ start' = NoPoint /\ closed' = FALSE
    BY DEF ResetPath
  <1>2. <<>> \in Seq(Points)
    OBVIOUS
  <1>3. TypeInv'
    BY <1>1, <1>2 DEF IInv, TypeInv
  <1>4. Beside'
    BY <1>1 DEF Beside
  <1>5. PensAgree'
    BY DEF IInv, PensAgree
  <1> QED BY <1>3, <1>4, <1>5 DEF IInv

LEMMA EndPathKeeps == IInv /\ EndPath => IInv'
  <1> SUFFICES ASSUME IInv, EndPath PROVE IInv'
    OBVIOUS
  <1>1. page \in Page /\ paths \in Seq(Path) /\ PagesAreReadAsDrawn
    BY DEF IInv, TypeInv
  <1>2. ResetPath /\ page' = PageEnd(page) /\ UNCHANGED <<state, stack, paths>>
    BY DEF EndPath
  <1>3. /\ page' \in Page /\ page'.at = NoPoint /\ page'.outline = {} /\ page'.looped = FALSE
        /\ page'.told = page.told /\ page'.ink = page.ink /\ page'.last = page.last
        /\ page'.strays = page.strays
        /\ page'.loops = page.loops
    BY <1>1, <1>2, PageEndRule
  <1>4. PagesAreReadAsDrawn'
    BY <1>1, <1>2, <1>3, MarksStay
  <1> QED BY <1>1, <1>2, <1>3, <1>4, EndKeeps

(* A path that is painted: what is recorded of it are its strokes on the    *)
(* page and, if it was closed before its end, the one that closes it again. *)
LEMMA PaintedPath ==
    ASSUME TypeInv, Beside, NEW closing \in BOOLEAN, NEW g,
           g = IF closing /\ page.at # NoPoint THEN PageClose(page) ELSE page
    PROVE  /\ g \in Page /\ g.told = page.told
           /\ g.ink = page.ink /\ g.last = page.last
           /\ g.strays = page.strays /\ g.loops = page.loops
           /\ g.looped => g.at \in Points /\ g.from \in Points
           /\ ~(Len(path) >= 2) => g.outline = {}
           /\ Len(path) >= 2 =>
                  LET r == Recorded(closing) IN
                  /\ r \in Path /\ r.pen = state
                  /\ g.outline \subseteq Strokes(r.points)
                  /\ Strokes(r.points) \subseteq
                         g.outline \cup (IF g.looped THEN {Stroke(g.at, g.from)} ELSE {})
  <1> DEFINE r == Recorded(closing)
  <1>1. page \in Page /\ state \in Pens /\ path \in Seq(Points) /\ closed \in BOOLEAN
    BY DEF TypeInv
  <1>2. CASE page.at = NoPoint
    <2>1. path = <<>>
      <3>1. ASSUME path # <<>> PROVE FALSE
        <4>1. page.at = LastOf(path)
          BY <3>1 DEF Beside
        <4>2. LastOf(path) \in Points
          BY <1>1, <3>1, AppendOfFront
        <4> QED BY <1>2, <4>1, <4>2, DrawingAssumption DEF DrawingAssumption
      <3> QED BY <3>1
    <2>2. g = page
      BY <1>2
    <2>3. page.outline = {} /\ ~page.looped
      BY <2>1 DEF Beside
    <2>4. Len(path) = 0
      BY <2>1
    <2> QED BY <1>1, <2>2, <2>3, <2>4
  <1>3. CASE page.at # NoPoint
    <2>1. /\ path # <<>> /\ page.at = LastOf(path) /\ page.at \in Points
          /\ start = page.from /\ start \in Points /\ path[1] = start
          /\ page.outline = Strokes(path) /\ closed = page.looped
      BY <1>3, OpenPath
    <2>2. start # NoPoint
      BY <2>1, DrawingAssumption DEF DrawingAssumption
    <2>3. /\ Strokes(Append(path, start)) = Strokes(path) \cup {Stroke(LastOf(path), start)}
          /\ Append(path, start) \in Seq(Points)
      BY <1>1, <2>1, StrokesOfAppend
    <2>4. /\ r.pen = state /\ r.closed = (closed \/ closing)
          /\ r.points = IF (closed \/ closing) /\ LastOf(path) # start
                        THEN Append(path, start) ELSE path
          /\ r \in [points: {r.points}, pen: {state}, closed: {r.closed}]
      BY <2>2 DEF Recorded
    <2> HIDE DEF r
    <2>5. r \in Path
      BY <1>1, <2>3, <2>4 DEF Path
    <2>6. ASSUME ~(Len(path) >= 2)
          PROVE  page.outline = {} /\ page.at = page.from
      <3>1. Len(path) = 1 /\ Len(path) \in Nat /\ Len(path) <= 1
        <4> DEFINE n == Len(path)
        <4>1. n \in Nat /\ n # 0
          BY <1>1, <2>1
        <4>2. ~(n >= 2)
          BY <2>6
        <4> HIDE DEF n
        <4>3. n = 1 /\ n \in Nat /\ n <= 1
          BY ONLY <4>1, <4>2
        <4> QED BY <4>3 DEF n
      <3>2. LastOf(path) = path[1]
        BY <3>1 DEF LastOf
      <3>3. Strokes(path) = {}
        BY ONLY <3>1, FewPointsNoStrokes
      <3> QED BY <2>1, <3>2, <3>3
    <2>7. CASE ~closing
      <3>1. g = page
        BY <2>7
      <3>2. /\ Strokes(path) \subseteq Strokes(r.points)
            /\ Strokes(r.points) \subseteq
                   Strokes(path) \cup (IF closed THEN {Stroke(LastOf(path), start)} ELSE {})
        BY <2>3, <2>4, <2>7
      <3>3. g.looped => g.at \in Points /\ g.from \in Points
        BY <2>1, <3>1
      <3>4. /\ g.outline \subseteq Strokes(r.points)
            /\ Strokes(r.points) \subseteq
                   g.outline \cup (IF g.looped THEN {Stroke(g.at, g.from)} ELSE {})
        BY <2>1, <3>1, <3>2
      <3> QED BY <1>1, <2>4, <2>5, <2>6, <3>1, <3>3, <3>4 DEF r
    <2>8. CASE closing
      <3>1. g = PageClose(page)
        BY <1>3, <2>8
      <3>2. /\ g \in Page /\ g.at = page.from /\ g.from = page.from /\ g.looped = TRUE
            /\ g.outline = IF page.at = page.from THEN page.outline
                           ELSE page.outline \cup {Stroke(page.at, page.from)}
            /\ g.told = page.told /\ g.ink = page.ink /\ g.last = page.last
            /\ g.strays = page.strays
            /\ g.loops = page.loops
        BY ONLY <1>1, <2>1, <3>1, PageCloseRule
      <3>3. Strokes(r.points) = g.outline
        BY <2>1, <2>3, <2>4, <2>8, <3>2
      <3>4. ~(Len(path) >= 2) => g.outline = {}
        BY <2>6, <3>2
      <3> QED BY <2>1, <2>4, <2>5, <3>2, <3>3, <3>4 DEF r
    <2> QED BY <2>7, <2>8
  <1> QED BY <1>2, <1>3

LEMMA PaintKeeps ==
    ASSUME IInv, NEW closing \in BOOLEAN, NEW stroking \in BOOLEAN, Paint(closing, stroking)
    PROVE  IInv'
  <1>1. TypeInv /\ Beside /\ PensAgree /\ PagesAreReadAsDrawn
    BY DEF IInv
  <1> DEFINE g == IF closing /\ page.at # NoPoint THEN PageClose(page) ELSE page
             r == Recorded(closing)
             heard == stroking /\ LastOf(g.pens) = LastOf(g.told)
  <1>2. /\ paths' = IF Len(path) >= 2 THEN Append(paths, r) ELSE paths
        /\ page' = PagePaint(g, stroking) /\ ResetPath /\ UNCHANGED <<state, stack>>
    BY DEF Paint
  <1> HIDE DEF g, r, heard
  <1>3. /\ g \in Page /\ g.told = page.told
        /\ g.ink = page.ink /\ g.last = page.last
        /\ g.strays = page.strays /\ g.loops = page.loops
        /\ g.looped => g.at \in Points /\ g.from \in Points
        /\ ~(Len(path) >= 2) => g.outline = {}
        /\ Len(path) >= 2 =>
               /\ r \in Path /\ r.pen = state
               /\ g.outline \subseteq Strokes(r.points)
               /\ Strokes(r.points) \subseteq
                      g.outline \cup (IF g.looped THEN {Stroke(g.at, g.from)} ELSE {})
    BY <1>1, PaintedPath DEF g, r
  <1>4. /\ page.told = Append(stack, state) /\ LastOf(page.told) = state /\ state \in Pens
        /\ paths \in Seq(Path)
    BY <1>1, ToldPen DEF TypeInv
  <1>5. LastOf(g.told) = state
    BY <1>3, <1>4
  <1>6. /\ page' \in Page /\ page'.at = NoPoint /\ page'.outline = {} /\ page'.looped = FALSE
        /\ page'.told = page.told
        /\ page.ink \subseteq page'.ink
        /\ heard => In(state, g.outline) \subseteq page'.ink
        /\ page'.last = IF heard THEN page.last \cup In(state, g.outline) ELSE page.last
        /\ page'.strays = IF heard THEN page.strays ELSE page.strays \cup In(state, g.outline)
        /\ page'.loops = IF g.looped THEN page.loops \cup In(state, {Stroke(g.at, g.from)})
                         ELSE page.loops
    <2> DEFINE h == PagePaint(g, stroking)
    <2>1. /\ h \in Page
          /\ h.at = NoPoint /\ h.outline = {} /\ h.looped = FALSE /\ h.told = g.told
          /\ g.ink \subseteq h.ink
          /\ heard => In(state, g.outline) \subseteq h.ink
          /\ h.last = IF heard THEN g.last \cup In(state, g.outline) ELSE g.last
          /\ h.strays = IF heard THEN g.strays ELSE g.strays \cup In(state, g.outline)
          /\ h.loops = IF g.looped THEN g.loops \cup In(state, {Stroke(g.at, g.from)}) ELSE g.loops
      BY ONLY <1>3, <1>5, PagePaintRule, stroking \in BOOLEAN DEF heard
    <2> HIDE DEF h
    <2>2. page' = h
      BY <1>2 DEF h
    <2> QED BY <1>3, <2>1, <2>2
  <1>7. paths' \in Seq(Path) /\ PagesAreReadAsDrawn'
    <2>1. /\ ReadMarks \subseteq page.ink \cup page.strays \cup page.loops
          /\ page.last \subseteq ReadMarks
          /\ page.ink \subseteq page'.ink /\ page.strays \subseteq page'.strays
          /\ page.loops \subseteq page'.loops
          /\ In(state, g.outline) \subseteq page'.ink \cup page'.strays
          /\ page'.last \subseteq page.last \cup In(state, g.outline)
      <3>1. ReadMarks \subseteq page.ink \cup page.strays \cup page.loops /\ page.last \subseteq ReadMarks
        BY <1>1 DEF PagesAreReadAsDrawn
      <3>2. page.strays \subseteq page'.strays /\ page.loops \subseteq page'.loops
        BY ONLY <1>6
      <3> DEFINE shown == In(state, g.outline)
      <3>3. /\ page.ink \subseteq page'.ink
            /\ heard => shown \subseteq page'.ink
            /\ page'.last = IF heard THEN page.last \cup shown ELSE page.last
            /\ page'.strays = IF heard THEN page.strays ELSE page.strays \cup shown
        BY ONLY <1>6
      <3> HIDE DEF shown
      <3>4. shown \subseteq page'.ink \cup page'.strays /\ page'.last \subseteq page.last \cup shown
        <4>1. CASE heard
          BY ONLY <3>3, <4>1
        <4>2. CASE ~heard
          BY ONLY <3>3, <4>2
        <4> QED BY <4>1, <4>2
      <3> QED BY <3>1, <3>2, <3>3, <3>4 DEF shown
    <2>2. CASE Len(path) >= 2
      <3>1. r \in Path /\ paths' = Append(paths, r) /\ r.pen = state
        BY <1>2, <1>3, <2>2
      <3>2. ReadMarks' = ReadMarks \cup In(state, Strokes(r.points))
        BY <1>4, <3>1, MarksOfOneMore
      <3>3. In(state, g.outline) \subseteq In(state, Strokes(r.points))
        BY <1>3, <2>2, InUnion
      <3>4. In(state, Strokes(r.points)) \subseteq
                In(state, g.outline) \cup
                (IF g.looped THEN In(state, {Stroke(g.at, g.from)}) ELSE {})
        <4> DEFINE T == IF g.looped THEN {Stroke(g.at, g.from)} ELSE {}
        <4>1. In(state, Strokes(r.points)) \subseteq In(state, g.outline \cup T)
          BY <1>3, <2>2, InUnion
        <4>2. In(state, g.outline \cup T) = In(state, g.outline) \cup In(state, T)
          BY InUnion
        <4>3. In(state, T) = IF g.looped THEN In(state, {Stroke(g.at, g.from)}) ELSE {}
          BY InUnion
        <4> QED BY <4>1, <4>2, <4>3
      <3>5. paths' \in Seq(Path)
        BY <1>4, <3>1
      <3> QED BY <1>6, <2>1, <3>2, <3>3, <3>4, <3>5 DEF PagesAreReadAsDrawn
    <2>3. CASE ~(Len(path) >= 2)
      <3>1. paths' = paths /\ ReadMarks' = ReadMarks
        BY <1>2, <2>3 DEF ReadMarks
      <3>2. In(state, g.outline) = {}
        BY <1>3, <2>3, InUnion
      <3> QED BY <1>4, <1>6, <2>1, <3>1, <3>2 DEF PagesAreReadAsDrawn
    <2> QED BY <2>2, <2>3
  <1> QED BY <1>2, <1>6, <1>7, EndKeeps

-----------------------------------------------------------------------------
(* Every stroke that is read is on the page in the colour and width in      *)
(* force there, but for the outline of a fill, for a colour or width set by *)
(* an operator that the code does not read, and for the stroke that closes  *)
(* again a path that went on after closing; and of every path stroked in a  *)
(* pen the code was told of all of the last subpath is read: for any        *)
(* points, pens, curves, rectangles, nesting and length of the page         *)
(* (pdf_native.py:147-241).                                                 *)
THEOREM PagesAreRead == Spec => []PagesAreReadAsDrawn
  <1>1. ASSUME IInv, [Operator]_drawing PROVE IInv'
    <2>1. CASE Push
      BY <1>1, <2>1, PushKeeps
    <2>2. CASE Pop
      BY <1>1, <2>2, PopKeeps
    <2>3. CASE SetColour
      BY <1>1, <2>3, SetColourKeeps
    <2>4. CASE SetWidth
      BY <1>1, <2>4, SetWidthKeeps
    <2>5. CASE SetUnread
      BY <1>1, <2>5, SetUnreadKeeps
    <2>6. CASE MoveTo
      BY <1>1, <2>6, MoveToKeeps
    <2>7. CASE LineTo
      BY <1>1, <2>7, LineToKeeps
    <2>8. CASE Rectangle
      BY <1>1, <2>8, RectangleKeeps
    <2>9. CASE ClosePath
      BY <1>1, <2>9, ClosePathKeeps
    <2>10. CASE \E closing \in BOOLEAN : Paint(closing, TRUE)
      BY <1>1, <2>10, PaintKeeps
    <2>11. CASE Paint(FALSE, FALSE)
      BY <1>1, <2>11, PaintKeeps
    <2>12. CASE EndPath
      BY <1>1, <2>12, EndPathKeeps
    <2>13. CASE UNCHANGED drawing
      BY <1>1, <2>13 DEF drawing, IInv, TypeInv, Beside, PensAgree, PagesAreReadAsDrawn, ReadMarks
    <2> QED BY <1>1, <2>1, <2>2, <2>3, <2>4, <2>5, <2>6, <2>7, <2>8, <2>9, <2>10, <2>11, <2>12,
                <2>13 DEF Operator
  <1>2. IInv => PagesAreReadAsDrawn
    BY DEF IInv
  <1>3. [Next]_<<calls, drawing>> => [Operator]_drawing
    BY Zenon DEF Next, Computation, Reading, Rest, drawing
  <1>4. Init => IInv
    BY InitIInv DEF Init
  <1> QED BY <1>1, <1>2, <1>3, <1>4, PTL DEF Spec

-----------------------------------------------------------------------------
(* Vector files. *)

LEMMA SmallestNumber ==
    ASSUME NEW Bad \in SUBSET Nat, Bad # {}
    PROVE  \E n \in Bad : \A m \in Bad : n <= m
<1> DEFINE R == OpToRel(<, Nat)
<1>1. IsWellFoundedOn(R, Nat)
  BY NatLessThanWellFounded
<1>2. \A m, n \in Nat : m < n => <<m, n>> \in R
  BY DEF OpToRel
<1> HIDE DEF R
<1>3. PICK n \in Bad : \A m \in Bad : ~(<<m, n>> \in R)
  BY <1>1, WFMin, Zenon
<1>4. ASSUME NEW m \in Bad PROVE n <= m
  <2>1. m \in Nat /\ n \in Nat
    OBVIOUS
  <2>2. ~(m < n)
    BY <1>2, <1>3, <2>1
  <2> QED
    BY <2>1, <2>2
<1> QED
  BY <1>4

LEMMA LargestIs ==
    ASSUME NEW S \in SUBSET Int, NEW x \in S, \A y \in S : x >= y PROVE Max(S) = x
<1>1. \A z \in S : (\A y \in S : z >= y) => z = x
  <2> SUFFICES ASSUME NEW z \in S, \A y \in S : z >= y PROVE z = x
    OBVIOUS
  <2>1. z \in Int /\ x \in Int /\ z >= x /\ x >= z
    OBVIOUS
  <2> QED
    BY <2>1
<1> QED
  BY <1>1 DEF Max

LEMMA SmallestIs ==
    ASSUME NEW S \in SUBSET Int, NEW x \in S, \A y \in S : x <= y PROVE Min(S) = x
<1>1. \A z \in S : (\A y \in S : z <= y) => z = x
  <2> SUFFICES ASSUME NEW z \in S, \A y \in S : z <= y PROVE z = x
    OBVIOUS
  <2>1. z \in Int /\ x \in Int /\ z <= x /\ x <= z
    OBVIOUS
  <2> QED
    BY <2>1
<1> QED
  BY <1>1 DEF Min

-----------------------------------------------------------------------------
(* Sequences of sequences. *)

(* What holds of the empty sequence, and of a sequence with one more        *)
(* element if it holds of the sequence, holds of all of them.               *)
LEMMA AllSequences ==
    ASSUME NEW S, NEW Good \in SUBSET Seq(S), <<>> \in Good,
           \A s \in Good : \A x \in S : Append(s, x) \in Good
    PROVE  \A s \in Seq(S) : s \in Good
<1> DEFINE Bad == {n \in Nat : \E s \in Seq(S) : Len(s) = n /\ s \notin Good}
<1>1. SUFFICES ASSUME Bad # {} PROVE FALSE
  <2>1. \A s \in Seq(S) : Len(s) \in Nat
    OBVIOUS
  <2> QED
    BY <1>1, <2>1
<1>2. PICK n \in Bad : \A m \in Bad : n <= m
  <2> HIDE DEF Bad
  <2>1. Bad \in SUBSET Nat
    BY DEF Bad
  <2> QED
    BY <1>1, <2>1, SmallestNumber
<1>3. PICK s \in Seq(S) : Len(s) = n /\ s \notin Good
  BY <1>2
<1>4. s # <<>>
  BY <1>3
<1>5. PICK t \in Seq(S), x \in S : s = Append(t, x)
  BY <1>3, <1>4, SequenceEmptyOrAppend
<1>6. Len(t) \in Nat /\ n = Len(t) + 1
  BY <1>3, <1>5, AppendProperties
<1>7. t \in Good
  <2>1. Len(t) \notin Bad
    <3>1. ~(n <= Len(t))
      BY <1>6
    <3> QED
      BY <1>2, <3>1
  <2> QED
    BY <1>5, <1>6, <2>1
<1> QED
  BY <1>3, <1>5, <1>7

(* f flattens each of the first k sequences of ss. *)
Flattens(ss, k, f) ==
    f = [i \in 1..k |-> IF i = 1 THEN ss[i] ELSE f[i - 1] \o ss[i]]

LEMMA FlattenUnfolds ==
    ASSUME NEW ss, Len(ss) # 0
    PROVE  FlattenSeq(ss) = (CHOOSE f : Flattens(ss, Len(ss), f))[Len(ss)]
  BY DEF FlattenSeq, Flattens

LEMMA FlattensGoesOn ==
    ASSUME NEW ss, NEW k \in Nat, NEW f, Flattens(ss, k, f)
    PROVE  \E g : Flattens(ss, k + 1, g)
<1> DEFINE Next1(i) == IF i = 1 THEN ss[i] ELSE f[i - 1] \o ss[i]
           g == [i \in 1..(k + 1) |-> Next1(i)]
<1>1. \A i \in 1..k : f[i] = g[i]
  <2>1. \A i \in 1..k : f[i] = Next1(i)
    BY DEF Flattens
  <2>2. \A i \in 1..k : i \in 1..(k + 1)
    OBVIOUS
  <2> HIDE DEF Next1
  <2> QED
    BY <2>1, <2>2
<1>2. \A i \in 1..(k + 1) : g[i] = IF i = 1 THEN ss[i] ELSE g[i - 1] \o ss[i]
  <2> SUFFICES ASSUME NEW i \in 1..(k + 1) PROVE g[i] = IF i = 1 THEN ss[i] ELSE g[i - 1] \o ss[i]
    OBVIOUS
  <2>1. CASE i = 1
    BY <2>1
  <2>2. CASE i # 1
    <3>1. i - 1 \in 1..k
      BY <2>2
    <3>2. g[i - 1] = f[i - 1]
      BY <1>1, <3>1
    <3> QED
      BY <2>2, <3>2
  <2> QED
    BY <2>1, <2>2
<1>3. g = [i \in 1..(k + 1) |-> g[i]]
  OBVIOUS
<1> HIDE DEF g
<1>4. g = [i \in 1..(k + 1) |-> IF i = 1 THEN ss[i] ELSE g[i - 1] \o ss[i]]
  BY <1>2, <1>3
<1> QED
  BY <1>4 DEF Flattens

LEMMA FlattensExists ==
    ASSUME NEW ss, NEW n \in Nat PROVE \E f : Flattens(ss, n, f)
<1> DEFINE Bad == {k \in Nat : ~\E f : Flattens(ss, k, f)}
<1>1. SUFFICES ASSUME Bad # {} PROVE FALSE
  BY <1>1
<1>2. PICK k \in Bad : \A m \in Bad : k <= m
  <2> HIDE DEF Bad
  <2>1. Bad \in SUBSET Nat
    BY DEF Bad
  <2> QED
    BY <1>1, <2>1, SmallestNumber
<1>3. k # 0
  <2>1. \A i \in 1..0 : FALSE
    OBVIOUS
  <2>2. Flattens(ss, 0, [i \in 1..0 |-> ss[i]])
    BY <2>1 DEF Flattens
  <2> QED
    BY <1>2, <2>2
<1>4. k - 1 \in Nat /\ k - 1 \notin Bad
  BY <1>2, <1>3
<1>5. PICK f : Flattens(ss, k - 1, f)
  BY <1>4
<1>6. \E g : Flattens(ss, (k - 1) + 1, g)
  BY <1>4, <1>5, FlattensGoesOn
<1>7. (k - 1) + 1 = k
  BY <1>2
<1> QED
  BY <1>2, <1>6, <1>7

LEMMA FlattensAgree ==
    ASSUME NEW S, NEW ss \in Seq(Seq(S)), NEW e \in Seq(S), NEW f, NEW g,
           Flattens(ss, Len(ss), f), Flattens(Append(ss, e), Len(ss) + 1, g), NEW k \in 1..Len(ss)
    PROVE  f[k] = g[k] /\ f[k] \in Seq(S)
<1> DEFINE tt == Append(ss, e)
           Good(i) == f[i] = g[i] /\ f[i] \in Seq(S)
           Bad == {i \in Nat : i \in 1..Len(ss) /\ ~Good(i)}
<1>1. SUFFICES ASSUME Bad # {} PROVE FALSE
  <2>1. k \in Nat
    OBVIOUS
  <2> QED
    BY <1>1, <2>1
<1>2. PICK n \in Bad : \A m \in Bad : n <= m
  <2> HIDE DEF Bad
  <2>1. Bad \in SUBSET Nat
    BY DEF Bad
  <2> QED
    BY <1>1, <2>1, SmallestNumber
<1>3. n \in 1..Len(ss) /\ n \in 1..(Len(ss) + 1) /\ Len(ss) \in Nat /\ ss[n] \in Seq(S) /\ tt[n] = ss[n]
  BY <1>2
<1>4. /\ f[n] = IF n = 1 THEN ss[n] ELSE f[n - 1] \o ss[n]
      /\ g[n] = IF n = 1 THEN tt[n] ELSE g[n - 1] \o tt[n]
  BY <1>3 DEF Flattens
<1>5. CASE n = 1
  BY <1>2, <1>3, <1>4, <1>5
<1>6. CASE n # 1
  <2>1. n - 1 \in Nat /\ n - 1 \in 1..Len(ss) /\ ~(n <= n - 1)
    BY <1>3, <1>6
  <2>2. Good(n - 1)
    BY <1>2, <2>1
  <2>3. f[n] = f[n - 1] \o ss[n] /\ g[n] = f[n - 1] \o ss[n] /\ f[n - 1] \in Seq(S)
    BY <1>3, <1>4, <1>6, <2>2
  <2>4. f[n] \in Seq(S)
    BY <1>3, <2>3, ConcatProperties
  <2> QED
    BY <1>2, <2>3, <2>4
<1> QED
  BY <1>5, <1>6

LEMMA FlattenEmpty == FlattenSeq(<<>>) = <<>>
  BY DEF FlattenSeq

LEMMA FlattenAppend ==
    ASSUME NEW S, NEW ss \in Seq(Seq(S)), NEW e \in Seq(S)
    PROVE  FlattenSeq(Append(ss, e)) = FlattenSeq(ss) \o e
<1> DEFINE tt == Append(ss, e)
           f == CHOOSE h : Flattens(ss, Len(ss), h)
           g == CHOOSE h : Flattens(tt, Len(tt), h)
<1>1. /\ tt \in Seq(Seq(S)) /\ Len(ss) \in Nat /\ Len(tt) = Len(ss) + 1 /\ tt[Len(tt)] = e
  BY AppendProperties
<1>2. Flattens(tt, Len(tt), g)
  <2>1. Len(tt) \in Nat
    BY <1>1
  <2> HIDE DEF tt
  <2>2. \E h : Flattens(tt, Len(tt), h)
    BY <2>1, FlattensExists
  <2> QED
    BY <2>2
<1>3. FlattenSeq(tt) = g[Len(tt)]
  <2>1. Len(tt) # 0
    BY <1>1
  <2> HIDE DEF tt
  <2> QED
    BY <2>1, FlattenUnfolds
<1>4. g[Len(tt)] = IF Len(tt) = 1 THEN tt[Len(tt)] ELSE g[Len(tt) - 1] \o tt[Len(tt)]
  <2> HIDE DEF g, tt
  <2>1. Len(tt) \in 1..Len(tt)
    BY <1>1
  <2> QED
    BY <1>2, <2>1 DEF Flattens
<1>5. CASE Len(ss) = 0
  <2>1. ss = <<>>
    BY <1>5, EmptySeq
  <2>2. FlattenSeq(ss) = <<>>
    BY <2>1, FlattenEmpty
  <2>3. g[Len(tt)] = e
    BY <1>1, <1>4, <1>5
  <2> QED
    BY <1>3, <2>2, <2>3, ConcatEmptySeq
<1>6. CASE Len(ss) # 0
  <2>1. Flattens(ss, Len(ss), f)
    <3>1. \E h : Flattens(ss, Len(ss), h)
      BY <1>1, FlattensExists
    <3> QED
      BY <3>1
  <2>2. FlattenSeq(ss) = f[Len(ss)]
    BY <1>6, FlattenUnfolds
  <2>3. Flattens(tt, Len(ss) + 1, g)
    BY <1>1, <1>2
  <2>4. Len(ss) \in 1..Len(ss)
    BY <1>1, <1>6
  <2>5. f[Len(ss)] = g[Len(ss)]
    <3> HIDE DEF f, g
    <3> QED
      BY <2>1, <2>3, <2>4, FlattensAgree
  <2>6. Len(tt) # 1 /\ Len(tt) - 1 = Len(ss)
    BY <1>1, <1>6
  <2> QED
    BY <1>1, <1>3, <1>4, <2>2, <2>5, <2>6
<1> QED
  BY <1>5, <1>6

LEMMA FlattenType ==
    ASSUME NEW S, NEW ss \in Seq(Seq(S)) PROVE FlattenSeq(ss) \in Seq(S)
<1> DEFINE Good == {s \in Seq(Seq(S)) : FlattenSeq(s) \in Seq(S)}
<1>1. <<>> \in Good
  <2>1. <<>> \in Seq(Seq(S)) /\ <<>> \in Seq(S)
    OBVIOUS
  <2> QED
    BY <2>1, FlattenEmpty
<1>2. ASSUME NEW s \in Good, NEW x \in Seq(S) PROVE Append(s, x) \in Good
  <2>1. s \in Seq(Seq(S)) /\ FlattenSeq(s) \in Seq(S)
    BY <1>2
  <2>2. FlattenSeq(Append(s, x)) = FlattenSeq(s) \o x
    BY <2>1, FlattenAppend
  <2>3. FlattenSeq(s) \o x \in Seq(S) /\ Append(s, x) \in Seq(Seq(S))
    BY <2>1, ConcatProperties, AppendProperties
  <2> QED
    BY <2>2, <2>3
<1>3. Good \in SUBSET Seq(Seq(S))
  OBVIOUS
<1> HIDE DEF Good
<1>4. \A s \in Seq(Seq(S)) : s \in Good
  BY <1>1, <1>2, <1>3, AllSequences
<1> QED
  BY <1>4 DEF Good

(* Each element of s is replaced by a sequence.                             *)
Chain(s, g) == FlattenSeq([i \in DOMAIN s |-> g[s[i]]])

LEMMA EachType ==
    ASSUME NEW S, NEW T, NEW s \in Seq(S), NEW g \in [S -> T]
    PROVE  [i \in DOMAIN s |-> g[s[i]]] \in Seq(T)
<1>1. DOMAIN s = 1..Len(s) /\ Len(s) \in Nat /\ \A i \in 1..Len(s) : s[i] \in S
  OBVIOUS
<1>2. [i \in DOMAIN s |-> g[s[i]]] \in [1..Len(s) -> T]
  BY <1>1
<1> QED
  BY <1>1, <1>2, IsASeq

LEMMA EachIsThere ==
    ASSUME NEW S, NEW T, NEW s \in Seq(S), NEW g \in [S -> T]
    PROVE  /\ Len([i \in DOMAIN s |-> g[s[i]]]) = Len(s)
           /\ \A x \in S : [i \in DOMAIN Append(s, x) |-> g[Append(s, x)[i]]] = Append([i \in DOMAIN s |-> g[s[i]]], g[x])
<1> DEFINE gs == [i \in DOMAIN s |-> g[s[i]]]
<1>1. DOMAIN s = 1..Len(s) /\ Len(s) \in Nat /\ \A i \in 1..Len(s) : s[i] \in S
  OBVIOUS
<1>2. gs \in Seq(T) /\ Len(gs) = Len(s)
  <2>1. gs \in [1..Len(s) -> T]
    BY <1>1
  <2> QED
    BY <1>1, <2>1, IsASeq
<1>3. ASSUME NEW x \in S
      PROVE  [i \in DOMAIN Append(s, x) |-> g[Append(s, x)[i]]] = Append(gs, g[x])
  <2> DEFINE sx == Append(s, x)
  <2>1. /\ sx \in Seq(S) /\ DOMAIN sx = 1..(Len(s) + 1) /\ sx[Len(s) + 1] = x
        /\ \A i \in 1..Len(s) : sx[i] = s[i]
    BY <1>1, AppendProperties, LenProperties
  <2>2. g[x] \in T
    OBVIOUS
  <2>3. /\ DOMAIN Append(gs, g[x]) = 1..(Len(s) + 1) /\ Append(gs, g[x])[Len(s) + 1] = g[x]
        /\ \A i \in 1..Len(s) : Append(gs, g[x])[i] = gs[i]
        /\ Append(gs, g[x]) \in Seq(T) /\ Len(Append(gs, g[x])) = Len(s) + 1
    <3> HIDE DEF gs
    <3> QED
      BY <1>2, <2>2, AppendProperties, LenProperties
  <2>4. [i \in DOMAIN sx |-> g[sx[i]]] \in Seq(T)
    <3>1. [i \in DOMAIN sx |-> g[sx[i]]] \in [1..(Len(s) + 1) -> T]
      BY <2>1
    <3> QED
      BY <1>1, <3>1, IsASeq
  <2>5. Len([i \in DOMAIN sx |-> g[sx[i]]]) = Len(s) + 1
    BY <1>1, <2>1, <2>4
  <2>6. \A i \in 1..(Len(s) + 1) : [j \in DOMAIN sx |-> g[sx[j]]][i] = Append(gs, g[x])[i]
    <3> SUFFICES ASSUME NEW i \in 1..(Len(s) + 1)
                 PROVE  g[sx[i]] = Append(gs, g[x])[i]
      BY <2>1
    <3>1. CASE i = Len(s) + 1
      BY <2>1, <2>3, <3>1
    <3>2. CASE i # Len(s) + 1
      <4>1. i \in 1..Len(s)
        BY <1>1, <3>2
      <4>2. gs[i] = g[s[i]]
        BY <1>1, <4>1
      <4> HIDE DEF gs, sx
      <4> QED
        BY <2>1, <2>3, <4>1, <4>2
    <3> QED
      BY <3>1, <3>2
  <2> HIDE DEF gs, sx
  <2>7. [i \in DOMAIN sx |-> g[sx[i]]] = Append(gs, g[x])
    BY <2>3, <2>4, <2>5, <2>6, SeqEqual
  <2> QED
    BY <2>7 DEF sx
<1> QED
  BY <1>2, <1>3

LEMMA ChainEmpty == ASSUME NEW g PROVE Chain(<<>>, g) = <<>>
<1>1. [i \in DOMAIN <<>> |-> g[<<>>[i]]] = <<>>
  OBVIOUS
<1> QED
  BY <1>1, FlattenEmpty DEF Chain

LEMMA ChainType ==
    ASSUME NEW S, NEW T, NEW s \in Seq(S), NEW g \in [S -> Seq(T)]
    PROVE  Chain(s, g) \in Seq(T)
<1>1. [i \in DOMAIN s |-> g[s[i]]] \in Seq(Seq(T))
  BY EachType
<1>2. \A ss \in Seq(Seq(T)) : FlattenSeq(ss) \in Seq(T)
  BY FlattenType
<1> QED
  BY <1>1, <1>2 DEF Chain

LEMMA ChainAppend ==
    ASSUME NEW S, NEW T, NEW s \in Seq(S), NEW x \in S, NEW g \in [S -> Seq(T)]
    PROVE  Chain(Append(s, x), g) = Chain(s, g) \o g[x]
<1>1. [i \in DOMAIN s |-> g[s[i]]] \in Seq(Seq(T)) /\ g[x] \in Seq(T)
  BY EachType
<1>2. [i \in DOMAIN Append(s, x) |-> g[Append(s, x)[i]]] = Append([i \in DOMAIN s |-> g[s[i]]], g[x])
  <2>1. \A y \in S : [i \in DOMAIN Append(s, y) |-> g[Append(s, y)[i]]] = Append([i \in DOMAIN s |-> g[s[i]]], g[y])
    BY EachIsThere
  <2> QED
    BY <2>1
<1> QED
  BY <1>1, <1>2, FlattenAppend DEF Chain

LEMMA ChainOne ==
    ASSUME NEW S, NEW T, NEW x \in S, NEW g \in [S -> Seq(T)]
    PROVE  Chain(<<x>>, g) = g[x]
<1>1. <<x>> = Append(<<>>, x) /\ <<>> \in Seq(S) /\ g[x] \in Seq(T)
  OBVIOUS
<1>2. Chain(Append(<<>>, x), g) = Chain(<<>>, g) \o g[x]
  <2>1. \A s \in Seq(S) : Chain(Append(s, x), g) = Chain(s, g) \o g[x]
    BY ChainAppend
  <2> QED
    BY <1>1, <2>1
<1> QED
  BY <1>1, <1>2, ChainEmpty, ConcatEmptySeq

LEMMA ChainConcat ==
    ASSUME NEW S, NEW T, NEW s \in Seq(S), NEW t \in Seq(S), NEW g \in [S -> Seq(T)]
    PROVE  Chain(s \o t, g) = Chain(s, g) \o Chain(t, g)
<1> DEFINE Good == {u \in Seq(S) : Chain(s \o u, g) = Chain(s, g) \o Chain(u, g)}
<1>1. <<>> \in Good
  <2>1. s \o <<>> = s /\ <<>> \in Seq(S)
    BY ConcatEmptySeq
  <2>2. Chain(s, g) \o <<>> = Chain(s, g)
    BY ChainType, ConcatEmptySeq
  <2> QED
    BY <2>1, <2>2, ChainEmpty
<1>2. ASSUME NEW u \in Good, NEW x \in S PROVE Append(u, x) \in Good
  <2>1. u \in Seq(S) /\ Chain(s \o u, g) = Chain(s, g) \o Chain(u, g)
    BY <1>2
  <2>2. /\ Append(u, x) = u \o <<x>> /\ <<x>> \in Seq(S) /\ Append(u, x) \in Seq(S)
        /\ s \o u \in Seq(S)
    BY <2>1, AppendIsConcat, ConcatProperties, AppendProperties
  <2>3. s \o Append(u, x) = Append(s \o u, x)
    <3>1. s \o (u \o <<x>>) = (s \o u) \o <<x>>
      BY <2>1, <2>2, ConcatAssociative
    <3>2. Append(s \o u, x) = (s \o u) \o <<x>>
      BY <2>2, AppendIsConcat
    <3> QED
      BY <2>2, <3>1, <3>2
  <2>4. Chain(Append(s \o u, x), g) = Chain(s \o u, g) \o g[x]
    <3>1. \A v \in Seq(S) : Chain(Append(v, x), g) = Chain(v, g) \o g[x]
      BY ChainAppend
    <3> QED
      BY <2>2, <3>1
  <2>5. Chain(Append(u, x), g) = Chain(u, g) \o g[x]
    BY <2>1, ChainAppend
  <2>6. Chain(s, g) \in Seq(T) /\ Chain(u, g) \in Seq(T) /\ g[x] \in Seq(T)
    BY <2>1, ChainType
  <2>7. (Chain(s, g) \o Chain(u, g)) \o g[x] = Chain(s, g) \o (Chain(u, g) \o g[x])
    BY <2>6, ConcatAssociative
  <2> QED
    BY <2>1, <2>2, <2>3, <2>4, <2>5, <2>7
<1>3. Good \in SUBSET Seq(S)
  OBVIOUS
<1> HIDE DEF Good
<1>4. t \in Good
  BY <1>1, <1>2, <1>3, AllSequences
<1> QED
  BY <1>4 DEF Good

LEMMA ChainSame ==
    ASSUME NEW S, NEW s \in Seq(S), NEW g, NEW h, \A x \in S : g[x] = h[x]
    PROVE  Chain(s, g) = Chain(s, h)
<1>1. \A i \in DOMAIN s : s[i] \in S
  OBVIOUS
<1>2. [i \in DOMAIN s |-> g[s[i]]] = [i \in DOMAIN s |-> h[s[i]]]
  BY <1>1
<1> QED
  BY <1>2 DEF Chain

(* What can be chained, opaque to the provers.                              *)
Chainable(S, T) == [S -> Seq(T)]

LEMMA ChainInChain ==
    ASSUME NEW S, NEW T, NEW U, NEW s, NEW g, NEW h, NEW both,
           s \in Seq(S), g \in Chainable(S, T), h \in Chainable(T, U), \A x \in S : both[x] = Chain(g[x], h)
    PROVE  Chain(Chain(s, g), h) = Chain(s, both)
<1>0. g \in [S -> Seq(T)] /\ h \in [T -> Seq(U)]
  BY DEF Chainable
<1> DEFINE gh == [x \in S |-> Chain(g[x], h)]
           Good == {u \in Seq(S) : Chain(Chain(u, g), h) = Chain(u, gh)}
<1>1. gh \in [S -> Seq(U)]
  BY <1>0, ChainType
<1>2. <<>> \in Good
  <2>1. <<>> \in Seq(S)
    OBVIOUS
  <2> QED
    BY <2>1, ChainEmpty
<1>3. ASSUME NEW u \in Good, NEW x \in S PROVE Append(u, x) \in Good
  <2>1. u \in Seq(S) /\ Chain(Chain(u, g), h) = Chain(u, gh)
    BY <1>3
  <2>2. Append(u, x) \in Seq(S) /\ g[x] \in Seq(T) /\ gh[x] = Chain(g[x], h)
    BY <1>0, <2>1, AppendProperties
  <2> HIDE DEF gh
  <2>3. Chain(Append(u, x), g) = Chain(u, g) \o g[x] /\ Chain(Append(u, x), gh) = Chain(u, gh) \o gh[x]
    <3>1. \A f \in [S -> Seq(T)] : Chain(Append(u, x), f) = Chain(u, f) \o f[x]
      BY <2>1, ChainAppend
    <3>2. \A f \in [S -> Seq(U)] : Chain(Append(u, x), f) = Chain(u, f) \o f[x]
      BY <2>1, ChainAppend
    <3> QED
      BY <1>0, <1>1, <3>1, <3>2
  <2>4. Chain(u, g) \in Seq(T)
    BY <1>0, <2>1, ChainType
  <2>5. Chain(Chain(u, g) \o g[x], h) = Chain(Chain(u, g), h) \o Chain(g[x], h)
    <3>1. \A v, w \in Seq(T) : Chain(v \o w, h) = Chain(v, h) \o Chain(w, h)
      BY <1>0, ChainConcat
    <3> QED
      BY <2>2, <2>4, <3>1
  <2> QED
    BY <2>1, <2>2, <2>3, <2>5
<1>4. Good \in SUBSET Seq(S)
  OBVIOUS
<1> HIDE DEF Good
<1>5. s \in Good
  BY <1>2, <1>3, <1>4, AllSequences
<1>6. \A x \in S : gh[x] = both[x]
  OBVIOUS
<1> HIDE DEF gh
<1>7. Chain(s, gh) = Chain(s, both)
  BY <1>6, ChainSame
<1> QED
  BY <1>5, <1>7 DEF Good

LEMMA ChainJoin ==
    ASSUME NEW S, NEW T, NEW s, NEW t, NEW g, s \in Seq(S), t \in Seq(S), g \in Chainable(S, T)
    PROVE  Chain(s \o t, g) = Chain(s, g) \o Chain(t, g) /\ Chain(s, g) \in Seq(T)
<1>1. g \in [S -> Seq(T)]
  BY DEF Chainable
<1> QED
  BY <1>1, ChainConcat, ChainType

(* A chain in which each element is replaced by one. *)
Ones(S, g) == [x \in S |-> <<g[x]>>]
Each(s, g) == [i \in DOMAIN s |-> g[s[i]]]
Maps(S, T) == [S -> T]

LEMMA ChainOfOnes ==
    ASSUME NEW S, NEW T, NEW s, NEW g, s \in Seq(S), g \in Maps(S, T)
    PROVE  Chain(s, Ones(S, g)) = Each(s, g)
<1> DEFINE Good == {u \in Seq(S) : Chain(u, Ones(S, g)) = Each(u, g)}
<1>1. g \in [S -> T]
  BY DEF Maps
<1>2. Ones(S, g) \in [S -> Seq(T)]
  BY <1>1 DEF Ones
<1>3. <<>> \in Good
  <2>1. <<>> \in Seq(S) /\ Each(<<>>, g) = <<>>
    BY DEF Each
  <2>2. Chain(<<>>, Ones(S, g)) = <<>>
    BY ChainEmpty
  <2> QED
    BY <2>1, <2>2
<1>4. ASSUME NEW u \in Good, NEW x \in S PROVE Append(u, x) \in Good
  <2>1. u \in Seq(S) /\ Chain(u, Ones(S, g)) = Each(u, g)
    BY <1>4
  <2>2. Append(u, x) \in Seq(S) /\ g[x] \in T /\ Ones(S, g)[x] = <<g[x]>>
    BY <1>1, <2>1, AppendProperties DEF Ones
  <2>3. Chain(Append(u, x), Ones(S, g)) = Chain(u, Ones(S, g)) \o Ones(S, g)[x]
    <3>1. \A f \in [S -> Seq(T)] : Chain(Append(u, x), f) = Chain(u, f) \o f[x]
      BY <2>1, ChainAppend
    <3> QED
      BY <1>2, <3>1
  <2>4. Each(u, g) \in Seq(T) /\ Each(Append(u, x), g) = Append(Each(u, g), g[x])
    <3>1. \A f \in [S -> T] : [i \in DOMAIN u |-> f[u[i]]] \in Seq(T)
      BY <2>1, EachType
    <3>2. \A f \in [S -> T] :
              [i \in DOMAIN Append(u, x) |-> f[Append(u, x)[i]]] = Append([i \in DOMAIN u |-> f[u[i]]], f[x])
      BY <2>1, EachIsThere
    <3> QED
      BY <1>1, <3>1, <3>2 DEF Each
  <2>5. Append(Each(u, g), g[x]) = Each(u, g) \o <<g[x]>>
    BY <2>2, <2>4, AppendIsConcat
  <2> QED
    BY <2>1, <2>2, <2>3, <2>4, <2>5
<1>5. Good \in SUBSET Seq(S)
  OBVIOUS
<1> HIDE DEF Good
<1>6. s \in Good
  BY <1>3, <1>4, <1>5, AllSequences
<1> QED
  BY <1>6 DEF Good

-----------------------------------------------------------------------------
(* Trees. *)

Level(below) ==
    [kind: {"position"}, at: Positions, rings: {<<>>}, items: {<<>>}]
    \cup [kind: Names, at: {At(None)}, rings: Seq(Seq(Tokens)), items: Seq(below)]

(* f is the function of the trees of up to k levels, for k up to n. *)
Builds(n, f) == f = [k \in 0..n |-> IF k = 0 THEN {} ELSE Level(f[k - 1])]

LEMMA BuildsGoesOn ==
    ASSUME NEW n \in Nat, NEW f, Builds(n, f) PROVE \E g : Builds(n + 1, g)
<1> DEFINE Next1(k) == IF k = 0 THEN {} ELSE Level(f[k - 1])
           g == [k \in 0..(n + 1) |-> Next1(k)]
<1>1. \A k \in 0..n : f[k] = g[k]
  <2>1. \A k \in 0..n : f[k] = Next1(k)
    BY DEF Builds
  <2>2. \A k \in 0..n : k \in 0..(n + 1)
    OBVIOUS
  <2> HIDE DEF Next1
  <2> QED
    BY <2>1, <2>2
<1>2. ASSUME NEW k \in 0..(n + 1) PROVE g[k] = IF k = 0 THEN {} ELSE Level(g[k - 1])
  <2>1. CASE k = 0
    BY <2>1
  <2>2. CASE k # 0
    <3>1. k - 1 \in 0..n
      BY <2>2
    <3>2. g[k - 1] = f[k - 1]
      BY <1>1, <3>1
    <3> QED
      BY <2>2, <3>2
  <2> QED
    BY <2>1, <2>2
<1>3. g = [k \in 0..(n + 1) |-> g[k]]
  OBVIOUS
<1> HIDE DEF g
<1>4. g = [k \in 0..(n + 1) |-> IF k = 0 THEN {} ELSE Level(g[k - 1])]
  BY <1>2, <1>3
<1> QED
  BY <1>4 DEF Builds

LEMMA BuildsExists ==
    ASSUME NEW n \in Nat PROVE \E f : Builds(n, f)
<1> DEFINE Bad == {k \in Nat : ~\E f : Builds(k, f)}
<1>1. SUFFICES ASSUME Bad # {} PROVE FALSE
  BY <1>1
<1>2. PICK k \in Bad : \A m \in Bad : k <= m
  <2> HIDE DEF Bad
  <2>1. Bad \in SUBSET Nat
    BY DEF Bad
  <2> QED
    BY <1>1, <2>1, SmallestNumber
<1>3. k # 0
  <2> DEFINE f == [i \in 0..0 |-> {}]
  <2>1. \A i \in 0..0 : i = 0
    OBVIOUS
  <2>2. f = [i \in 0..0 |-> IF i = 0 THEN {} ELSE Level(f[i - 1])]
    BY <2>1
  <2> HIDE DEF f
  <2>3. Builds(0, f)
    BY <2>2 DEF Builds
  <2> QED
    BY <1>2, <2>3
<1>4. k - 1 \in Nat /\ k - 1 \notin Bad
  BY <1>2, <1>3
<1>5. PICK f : Builds(k - 1, f)
  BY <1>4
<1>6. \E g : Builds((k - 1) + 1, g)
  BY <1>4, <1>5, BuildsGoesOn
<1>7. (k - 1) + 1 = k
  BY <1>2
<1> QED
  BY <1>2, <1>6, <1>7

LEMMA BuildsAgree ==
    ASSUME NEW n \in Nat, NEW m \in Nat, NEW f, NEW g, Builds(n, f), Builds(m, g),
           NEW k \in Nat, k <= n, k <= m
    PROVE  f[k] = g[k]
<1> DEFINE Bad == {i \in Nat : i <= k /\ f[i] # g[i]}
<1>1. SUFFICES ASSUME Bad # {} PROVE FALSE
  BY <1>1
<1>2. PICK i \in Bad : \A j \in Bad : i <= j
  <2> HIDE DEF Bad
  <2>1. Bad \in SUBSET Nat
    BY DEF Bad
  <2> QED
    BY <1>1, <2>1, SmallestNumber
<1>3. i \in 0..n /\ i \in 0..m
  BY <1>2
<1>4. /\ f[i] = IF i = 0 THEN {} ELSE Level(f[i - 1])
      /\ g[i] = IF i = 0 THEN {} ELSE Level(g[i - 1])
  BY <1>3 DEF Builds
<1>5. i # 0
  BY <1>2, <1>4
<1>6. i - 1 \in Nat /\ i - 1 <= k /\ ~(i <= i - 1)
  BY <1>2, <1>5
<1>7. f[i - 1] = g[i - 1]
  BY <1>2, <1>6
<1> QED
  BY <1>2, <1>4, <1>5, <1>7

LEMMA TreesUpToIs ==
    \A n \in Nat : TreesUpTo[n] = IF n = 0 THEN {} ELSE Level(TreesUpTo[n - 1])
<1> DEFINE built(n) == CHOOSE f : Builds(n, f)
           t == [n \in Nat |-> built(n)[n]]
<1>1. ASSUME NEW n \in Nat PROVE Builds(n, built(n))
  BY BuildsExists
<1>2. ASSUME NEW n \in Nat PROVE t[n] = IF n = 0 THEN {} ELSE Level(t[n - 1])
  <2>1. t[n] = built(n)[n]
    OBVIOUS
  <2>2. Builds(n, built(n))
    BY <1>1
  <2> DEFINE h == built(n)
  <2>3. h[n] = IF n = 0 THEN {} ELSE Level(h[n - 1])
    <3> HIDE DEF h
    <3>1. n \in 0..n
      OBVIOUS
    <3> QED
      BY <2>2, <3>1 DEF Builds, h
  <2>4. CASE n = 0
    BY <2>1, <2>3, <2>4
  <2>5. CASE n # 0
    <3>1. n - 1 \in Nat /\ n - 1 <= n /\ n - 1 <= n - 1
      BY <2>5
    <3>2. Builds(n - 1, built(n - 1))
      BY <1>1, <3>1
    <3>3. h[n - 1] = built(n - 1)[n - 1]
      <4> DEFINE f == built(n - 1)
      <4> HIDE DEF h, f
      <4> QED
        BY <2>2, <3>1, <3>2, BuildsAgree DEF h, f
    <3>4. t[n - 1] = built(n - 1)[n - 1]
      BY <3>1
    <3> HIDE DEF t, built
    <3> QED
      BY <2>1, <2>3, <2>5, <3>3, <3>4
  <2> QED
    BY <2>4, <2>5
<1>3. t = [n \in Nat |-> t[n]]
  OBVIOUS
<1> HIDE DEF t
<1>4. t = [n \in Nat |-> IF n = 0 THEN {} ELSE Level(t[n - 1])]
  BY <1>2, <1>3
<1>5. TreesUpTo = CHOOSE f : f = [n \in Nat |-> IF n = 0 THEN {} ELSE Level(f[n - 1])]
  BY Zenon DEF TreesUpTo, Level
<1>6. TreesUpTo = [n \in Nat |-> IF n = 0 THEN {} ELSE Level(TreesUpTo[n - 1])]
  BY <1>4, <1>5
<1> QED
  BY <1>6

LEMMA TreesNext ==
    /\ TreesUpTo[0] = {}
    /\ \A n \in Nat : TreesUpTo[n + 1] = Level(TreesUpTo[n])
<1>1. TreesUpTo[0] = {}
  BY TreesUpToIs
<1>2. ASSUME NEW n \in Nat PROVE TreesUpTo[n + 1] = Level(TreesUpTo[n])
  <2>1. n + 1 \in Nat /\ n + 1 # 0 /\ (n + 1) - 1 = n
    OBVIOUS
  <2> QED
    BY <2>1, TreesUpToIs
<1> QED
  BY <1>1, <1>2

LEMMA LevelsGrow ==
    ASSUME NEW S, NEW T, S \subseteq T PROVE Level(S) \subseteq Level(T)
<1>1. Seq(S) \subseteq Seq(T)
  <2>1. ASSUME NEW s \in Seq(S) PROVE s \in Seq(T)
    <3>1. Len(s) \in Nat /\ s \in [1..Len(s) -> T]
      OBVIOUS
    <3> QED
      BY <3>1, IsASeq
  <2> QED
    BY <2>1
<1> QED
  BY <1>1 DEF Level

LEMMA TreesGrow ==
    ASSUME NEW m \in Nat, NEW n \in Nat, m <= n PROVE TreesUpTo[m] \subseteq TreesUpTo[n]
<1> DEFINE Bad == {k \in Nat : ~(TreesUpTo[k] \subseteq TreesUpTo[k + 1])}
           Far == {k \in Nat : m <= k /\ ~(TreesUpTo[m] \subseteq TreesUpTo[k])}
<1>1. Bad = {}
  <2> SUFFICES ASSUME Bad # {} PROVE FALSE
    OBVIOUS
  <2>1. PICK k \in Bad : \A j \in Bad : k <= j
    <3> HIDE DEF Bad
    <3>1. Bad \in SUBSET Nat
      BY DEF Bad
    <3> QED
      BY <3>1, SmallestNumber
  <2>2. k # 0
    BY <2>1, TreesNext
  <2>3. k - 1 \in Nat /\ k - 1 \notin Bad /\ (k - 1) + 1 = k
    BY <2>1, <2>2
  <2>4. TreesUpTo[k - 1] \subseteq TreesUpTo[k]
    BY <2>3
  <2>5. Level(TreesUpTo[k - 1]) \subseteq Level(TreesUpTo[k])
    BY <2>4, LevelsGrow
  <2>6. TreesUpTo[k] = Level(TreesUpTo[k - 1]) /\ TreesUpTo[k + 1] = Level(TreesUpTo[k])
    <3>1. TreesUpTo[(k - 1) + 1] = Level(TreesUpTo[k - 1])
      BY <2>3, TreesNext
    <3> QED
      BY <2>1, <2>3, <3>1, TreesNext
  <2> QED
    BY <2>1, <2>5, <2>6
<1>2. SUFFICES ASSUME Far # {} PROVE FALSE
  BY <1>2
<1>3. PICK k \in Far : \A j \in Far : k <= j
  <2> HIDE DEF Far
  <2>1. Far \in SUBSET Nat
    BY DEF Far
  <2> QED
    BY <1>2, <2>1, SmallestNumber
<1>4. k # m
  BY <1>3
<1>5. k - 1 \in Nat /\ m <= k - 1 /\ k - 1 \notin Far /\ (k - 1) + 1 = k
  BY <1>3, <1>4
<1>6. TreesUpTo[m] \subseteq TreesUpTo[k - 1]
  BY <1>5
<1>7. TreesUpTo[k - 1] \subseteq TreesUpTo[k]
  BY <1>1, <1>5
<1> QED
  BY <1>3, <1>6, <1>7

(* A tree is a position, or a node with smaller trees.                      *)
LEMMA TreeIs ==
    ASSUME NEW n \in Nat, NEW v \in TreesUpTo[n]
    PROVE  /\ n # 0 /\ n - 1 \in Nat /\ v.items \in Seq(TreesUpTo[n - 1])
           /\ v.items \in Seq(TreesUpTo[n])
           /\ v.kind = "position" => v = Leaf(v.at) /\ v.at \in Positions /\ v.items = <<>>
           /\ v.kind # "position" =>
                  v = Element(v.kind, v.rings, v.items) /\ v.kind \in Names /\ v.rings \in Seq(Seq(Tokens))
<1>1. n # 0 /\ n - 1 \in Nat /\ (n - 1) + 1 = n /\ n - 1 <= n
  BY TreesNext
<1>2. v \in Level(TreesUpTo[n - 1])
  BY <1>1, TreesNext
<1>3. TreesUpTo[n - 1] \subseteq TreesUpTo[n]
  BY <1>1, TreesGrow
<1> DEFINE below == TreesUpTo[n - 1]
<1>4. CASE v \in [kind: {"position"}, at: Positions, rings: {<<>>}, items: {<<>>}]
  <2>1. v.kind = "position" /\ v.at \in Positions /\ v.rings = <<>> /\ v.items = <<>>
    BY <1>4
  <2>2. v = [kind |-> "position", at |-> v.at, rings |-> <<>>, items |-> <<>>]
    BY <1>4, <2>1
  <2>3. <<>> \in Seq(below) /\ <<>> \in Seq(TreesUpTo[n])
    OBVIOUS
  <2> QED
    BY <1>1, <2>1, <2>2, <2>3 DEF Leaf
<1>5. CASE v \in [kind: Names, at: {At(None)}, rings: Seq(Seq(Tokens)), items: Seq(below)]
  <2>1. /\ v.kind \in Names /\ v.kind # "position" /\ v.at = At(None)
        /\ v.rings \in Seq(Seq(Tokens)) /\ v.items \in Seq(below)
    BY <1>5, VectorsAssumption
  <2>2. v = [kind |-> v.kind, at |-> At(None), rings |-> v.rings, items |-> v.items]
    BY <1>5, <2>1
  <2>3. v.items \in Seq(TreesUpTo[n])
    <3>1. Len(v.items) \in Nat /\ v.items \in [1..Len(v.items) -> TreesUpTo[n]]
      BY <1>3, <2>1
    <3> QED
      BY <3>1, IsASeq
  <2> QED
    BY <1>1, <2>1, <2>2, <2>3 DEF Element
<1> QED
  BY <1>2, <1>4, <1>5 DEF Level

LEMMA LeafIsATree ==
    ASSUME NEW n \in Nat, n # 0, NEW position \in Positions
    PROVE  Leaf(position) \in TreesUpTo[n]
<1>1. n - 1 \in Nat /\ (n - 1) + 1 = n
  OBVIOUS
<1>2. TreesUpTo[n] = Level(TreesUpTo[n - 1])
  BY <1>1, TreesNext
<1> QED
  BY <1>2 DEF Level, Leaf

LEMMA NodeIsATree ==
    ASSUME NEW n \in Nat, NEW kind \in Names, NEW items \in Seq(TreesUpTo[n])
    PROVE  Node(kind, items) \in TreesUpTo[n + 1]
<1>1. TreesUpTo[n + 1] = Level(TreesUpTo[n])
  BY TreesNext
<1>2. <<>> \in Seq(Seq(Tokens))
  OBVIOUS
<1> QED
  BY <1>1, <1>2 DEF Level, Node, Element

(* What holds of a tree if it holds of the trees in it holds of all trees.  *)
LEMMA AllTrees ==
    ASSUME NEW n \in Nat, NEW Good \in SUBSET TreesUpTo[n],
           \A v \in TreesUpTo[n] : (\A i \in DOMAIN v.items : v.items[i] \in Good) => v \in Good
    PROVE  \A v \in TreesUpTo[n] : v \in Good
<1> DEFINE Bad == {k \in Nat : k <= n /\ ~(TreesUpTo[k] \subseteq Good)}
<1>1. SUFFICES ASSUME Bad # {} PROVE FALSE
  <2>1. n \in Nat /\ n <= n
    OBVIOUS
  <2> QED
    BY <1>1, <2>1
<1>2. PICK k \in Bad : \A j \in Bad : k <= j
  <2> HIDE DEF Bad
  <2>1. Bad \in SUBSET Nat
    BY DEF Bad
  <2> QED
    BY <1>1, <2>1, SmallestNumber
<1>3. PICK v \in TreesUpTo[k] : v \notin Good
  BY <1>2
<1>4. k - 1 \in Nat /\ k # 0 /\ v.items \in Seq(TreesUpTo[k - 1])
  BY <1>2, <1>3, TreeIs
<1>5. k - 1 \notin Bad /\ k - 1 <= n
  BY <1>2, <1>4
<1>6. TreesUpTo[k - 1] \subseteq Good
  BY <1>4, <1>5
<1>7. v \in TreesUpTo[n]
  <2>1. k \in Nat /\ k <= n
    BY <1>2
  <2> QED
    BY <1>3, <2>1, TreesGrow
<1>8. \A i \in DOMAIN v.items : v.items[i] \in Good
  BY <1>4, <1>6
<1> QED
  BY <1>3, <1>7, <1>8

(* The functions of a tree: each is found level by level. *)

PairsOf(v, below) == IF v.kind = "position" THEN <<v.at>> ELSE FlattenSeq(below)

LEMMA PairsExists ==
    ASSUME NEW n \in Nat
    PROVE  \E f : f = [v \in TreesUpTo[n] |-> PairsOf(v, [i \in DOMAIN v.items |-> f[v.items[i]]])]
<1> DEFINE Found(k, f) == f = [v \in TreesUpTo[k] |-> PairsOf(v, [i \in DOMAIN v.items |-> f[v.items[i]]])]
           Bad == {k \in Nat : ~\E f : Found(k, f)}
<1>1. SUFFICES ASSUME Bad # {} PROVE FALSE
  <2>1. \E f : Found(n, f)
    BY <1>1
  <2> QED
    BY <2>1
<1>2. PICK k \in Bad : \A j \in Bad : k <= j
  <2> HIDE DEF Bad
  <2>1. Bad \in SUBSET Nat
    BY DEF Bad
  <2> QED
    BY <1>1, <2>1, SmallestNumber
<1>3. k # 0
  <2> DEFINE f == [v \in TreesUpTo[0] |-> PairsOf(v, <<>>)]
  <2>1. \A v \in TreesUpTo[0] : FALSE
    BY TreesNext
  <2>2. Found(0, f)
    BY <2>1
  <2> QED
    BY <1>2, <2>2
<1>4. k - 1 \in Nat /\ k - 1 \notin Bad
  <2>1. k \in Nat
    BY <1>2
  <2>2. k - 1 \in Nat /\ ~(k <= k - 1)
    BY <1>3, <2>1
  <2> HIDE DEF Bad
  <2> QED
    BY <1>2, <2>2
<1>5. PICK f : Found(k - 1, f)
  BY <1>4
<1> DEFINE g == [v \in TreesUpTo[k] |-> PairsOf(v, [i \in DOMAIN v.items |-> f[v.items[i]]])]
<1>6. TreesUpTo[k - 1] \subseteq TreesUpTo[k]
  <2>1. k \in Nat /\ k - 1 <= k
    BY <1>2
  <2> QED
    BY <1>4, <2>1, TreesGrow
<1>7. ASSUME NEW v \in TreesUpTo[k - 1] PROVE g[v] = f[v]
  <2>1. g[v] = PairsOf(v, [i \in DOMAIN v.items |-> f[v.items[i]]])
    BY <1>6
  <2> HIDE DEF g
  <2> QED
    BY <1>5, <2>1
<1>8. ASSUME NEW v \in TreesUpTo[k]
      PROVE  [i \in DOMAIN v.items |-> g[v.items[i]]] = [i \in DOMAIN v.items |-> f[v.items[i]]]
  <2>1. \A i \in DOMAIN v.items : v.items[i] \in TreesUpTo[k - 1]
    <3>1. k \in Nat
      BY <1>2
    <3> QED
      BY <3>1, TreeIs
  <2> HIDE DEF g
  <2> QED
    BY <1>7, <2>1
<1>9. Found(k, g)
  <2>1. \A v \in TreesUpTo[k] : g[v] = PairsOf(v, [i \in DOMAIN v.items |-> g[v.items[i]]])
    <3>1. \A v \in TreesUpTo[k] : g[v] = PairsOf(v, [i \in DOMAIN v.items |-> f[v.items[i]]])
      OBVIOUS
    <3> HIDE DEF g
    <3> QED
      BY <1>8, <3>1
  <2>2. g = [v \in TreesUpTo[k] |-> g[v]]
    OBVIOUS
  <2> HIDE DEF g
  <2> QED
    BY <2>1, <2>2
<1> HIDE DEF g
<1> QED
  BY <1>2, <1>9

LEMMA GeometryPairsIs ==
    ASSUME NEW v \in Trees
    PROVE  GeometryPairs[v] = IF v.kind = "position" THEN <<v.at>> ELSE Chain(v.items, GeometryPairs)
<1>1. Depth + 3 \in Nat
  BY VectorsAssumption
<1>2. \E f : f = [w \in Trees |-> PairsOf(w, [i \in DOMAIN w.items |-> f[w.items[i]]])]
  BY <1>1, PairsExists DEF Trees
<1>3. GeometryPairs = CHOOSE f : f = [w \in Trees |-> PairsOf(w, [i \in DOMAIN w.items |-> f[w.items[i]]])]
  BY Zenon DEF GeometryPairs, PairsOf
<1>4. GeometryPairs = [w \in Trees |-> PairsOf(w, [i \in DOMAIN w.items |-> GeometryPairs[w.items[i]]])]
  BY <1>2, <1>3
<1>5. GeometryPairs[v] = PairsOf(v, [i \in DOMAIN v.items |-> GeometryPairs[v.items[i]]])
  BY <1>4
<1> QED
  BY <1>5 DEF PairsOf, Chain



LEMMA TransformExists ==
    ASSUME NEW crs, NEW n \in Nat
    PROVE  \E f : f = [v \in TreesUpTo[n] |-> TransformNode(v, [i \in DOMAIN v.items |-> f[v.items[i]]], crs)]
<1> DEFINE Found(k, f) == f = [v \in TreesUpTo[k] |-> TransformNode(v, [i \in DOMAIN v.items |-> f[v.items[i]]], crs)]
           Bad == {k \in Nat : ~\E f : Found(k, f)}
<1>1. SUFFICES ASSUME Bad # {} PROVE FALSE
  <2>1. \E f : Found(n, f)
    BY <1>1
  <2> QED
    BY <2>1
<1>2. PICK k \in Bad : \A j \in Bad : k <= j
  <2> HIDE DEF Bad
  <2>1. Bad \in SUBSET Nat
    BY DEF Bad
  <2> QED
    BY <1>1, <2>1, SmallestNumber
<1>3. k # 0
  <2> DEFINE f == [v \in TreesUpTo[0] |-> TransformNode(v, <<>>, crs)]
  <2>1. \A v \in TreesUpTo[0] : FALSE
    BY TreesNext
  <2>2. Found(0, f)
    BY <2>1
  <2> QED
    BY <1>2, <2>2
<1>4. k - 1 \in Nat /\ k - 1 \notin Bad
  <2>1. k \in Nat
    BY <1>2
  <2>2. k - 1 \in Nat /\ ~(k <= k - 1)
    BY <1>3, <2>1
  <2> HIDE DEF Bad
  <2> QED
    BY <1>2, <2>2
<1>5. PICK f : Found(k - 1, f)
  BY <1>4
<1> DEFINE g == [v \in TreesUpTo[k] |-> TransformNode(v, [i \in DOMAIN v.items |-> f[v.items[i]]], crs)]
<1>6. TreesUpTo[k - 1] \subseteq TreesUpTo[k]
  <2>1. k \in Nat /\ k - 1 <= k
    BY <1>2
  <2> QED
    BY <1>4, <2>1, TreesGrow
<1>7. ASSUME NEW v \in TreesUpTo[k - 1] PROVE g[v] = f[v]
  <2>1. g[v] = TransformNode(v, [i \in DOMAIN v.items |-> f[v.items[i]]], crs)
    BY <1>6
  <2> HIDE DEF g
  <2> QED
    BY <1>5, <2>1
<1>8. ASSUME NEW v \in TreesUpTo[k]
      PROVE  [i \in DOMAIN v.items |-> g[v.items[i]]] = [i \in DOMAIN v.items |-> f[v.items[i]]]
  <2>1. \A i \in DOMAIN v.items : v.items[i] \in TreesUpTo[k - 1]
    <3>1. k \in Nat
      BY <1>2
    <3> QED
      BY <3>1, TreeIs
  <2> HIDE DEF g
  <2> QED
    BY <1>7, <2>1
<1>9. Found(k, g)
  <2>1. \A v \in TreesUpTo[k] : g[v] = TransformNode(v, [i \in DOMAIN v.items |-> g[v.items[i]]], crs)
    <3>1. \A v \in TreesUpTo[k] : g[v] = TransformNode(v, [i \in DOMAIN v.items |-> f[v.items[i]]], crs)
      OBVIOUS
    <3> HIDE DEF g
    <3> QED
      BY <1>8, <3>1
  <2>2. g = [v \in TreesUpTo[k] |-> g[v]]
    OBVIOUS
  <2> HIDE DEF g
  <2> QED
    BY <2>1, <2>2
<1> HIDE DEF g
<1> QED
  BY <1>2, <1>9

LEMMA TransformIs ==
    ASSUME NEW v \in Trees, NEW crs
    PROVE  TransformGeometry(v, crs)
               = TransformNode(v, [i \in DOMAIN v.items |-> TransformGeometry(v.items[i], crs)], crs)
<1> DEFINE Is(f) == f = [w \in Trees |-> TransformNode(w, [i \in DOMAIN w.items |-> f[w.items[i]]], crs)]
           t == CHOOSE f : Is(f)
<1>1. Depth + 3 \in Nat
  BY VectorsAssumption
<1>2. \E f : Is(f)
  BY <1>1, TransformExists DEF Trees
<1>3. \A w : TransformGeometry(w, crs) = t[w]
  BY Zenon DEF TransformGeometry
<1>4. Is(t)
  BY <1>2
<1>5. t[v] = TransformNode(v, [i \in DOMAIN v.items |-> t[v.items[i]]], crs)
  <2> HIDE DEF t
  <2> QED
    BY <1>4
<1> HIDE DEF t
<1>6. [i \in DOMAIN v.items |-> TransformGeometry(v.items[i], crs)] = [i \in DOMAIN v.items |-> t[v.items[i]]]
  BY <1>3
<1> QED
  BY <1>3, <1>5, <1>6

WrittenBelow(v, below) ==
    Written(v) \o FlattenSeq([i \in DOMAIN v.items |-> Inside(v.kind, below[i])])

LEMMA WrittenExists ==
    ASSUME NEW n \in Nat
    PROVE  \E f : f = [v \in TreesUpTo[n] |-> WrittenBelow(v, [i \in DOMAIN v.items |-> f[v.items[i]]])]
<1> DEFINE Found(k, f) == f = [v \in TreesUpTo[k] |-> WrittenBelow(v, [i \in DOMAIN v.items |-> f[v.items[i]]])]
           Bad == {k \in Nat : ~\E f : Found(k, f)}
<1>1. SUFFICES ASSUME Bad # {} PROVE FALSE
  <2>1. \E f : Found(n, f)
    BY <1>1
  <2> QED
    BY <2>1
<1>2. PICK k \in Bad : \A j \in Bad : k <= j
  <2> HIDE DEF Bad
  <2>1. Bad \in SUBSET Nat
    BY DEF Bad
  <2> QED
    BY <1>1, <2>1, SmallestNumber
<1>3. k # 0
  <2> DEFINE f == [v \in TreesUpTo[0] |-> WrittenBelow(v, <<>>)]
  <2>1. \A v \in TreesUpTo[0] : FALSE
    BY TreesNext
  <2>2. Found(0, f)
    BY <2>1
  <2> QED
    BY <1>2, <2>2
<1>4. k - 1 \in Nat /\ k - 1 \notin Bad
  <2>1. k \in Nat
    BY <1>2
  <2>2. k - 1 \in Nat /\ ~(k <= k - 1)
    BY <1>3, <2>1
  <2> HIDE DEF Bad
  <2> QED
    BY <1>2, <2>2
<1>5. PICK f : Found(k - 1, f)
  BY <1>4
<1> DEFINE g == [v \in TreesUpTo[k] |-> WrittenBelow(v, [i \in DOMAIN v.items |-> f[v.items[i]]])]
<1>6. TreesUpTo[k - 1] \subseteq TreesUpTo[k]
  <2>1. k \in Nat /\ k - 1 <= k
    BY <1>2
  <2> QED
    BY <1>4, <2>1, TreesGrow
<1>7. ASSUME NEW v \in TreesUpTo[k - 1] PROVE g[v] = f[v]
  <2>1. g[v] = WrittenBelow(v, [i \in DOMAIN v.items |-> f[v.items[i]]])
    BY <1>6
  <2> HIDE DEF g
  <2> QED
    BY <1>5, <2>1
<1>8. ASSUME NEW v \in TreesUpTo[k]
      PROVE  [i \in DOMAIN v.items |-> g[v.items[i]]] = [i \in DOMAIN v.items |-> f[v.items[i]]]
  <2>1. \A i \in DOMAIN v.items : v.items[i] \in TreesUpTo[k - 1]
    <3>1. k \in Nat
      BY <1>2
    <3> QED
      BY <3>1, TreeIs
  <2> HIDE DEF g
  <2> QED
    BY <1>7, <2>1
<1>9. Found(k, g)
  <2>1. \A v \in TreesUpTo[k] : g[v] = WrittenBelow(v, [i \in DOMAIN v.items |-> g[v.items[i]]])
    <3>1. \A v \in TreesUpTo[k] : g[v] = WrittenBelow(v, [i \in DOMAIN v.items |-> f[v.items[i]]])
      OBVIOUS
    <3> HIDE DEF g
    <3> QED
      BY <1>8, <3>1
  <2>2. g = [v \in TreesUpTo[k] |-> g[v]]
    OBVIOUS
  <2> HIDE DEF g
  <2> QED
    BY <2>1, <2>2
<1> HIDE DEF g
<1> QED
  BY <1>2, <1>9

LEMMA WrittenInIs ==
    ASSUME NEW e \in Elements
    PROVE  WrittenIn[e] = Written(e) \o FlattenSeq([i \in DOMAIN e.items |-> Inside(e.kind, WrittenIn[e.items[i]])])
<1>1. Depth \in Nat
  BY VectorsAssumption
<1> DEFINE Is(f) == f = [w \in Elements |-> WrittenBelow(w, [i \in DOMAIN w.items |-> f[w.items[i]]])]
           Writes(f) == f = [w \in Elements |-> Written(w)
                                \o FlattenSeq([i \in DOMAIN w.items |-> Inside(w.kind, f[w.items[i]])])]
<1>2. \E f : Is(f)
  BY <1>1, WrittenExists DEF Elements
<1>3. ASSUME NEW f, NEW w PROVE WrittenBelow(w, [i \in DOMAIN w.items |-> f[w.items[i]]])
                     = Written(w) \o FlattenSeq([i \in DOMAIN w.items |-> Inside(w.kind, f[w.items[i]])])
  <2>1. [i \in DOMAIN w.items |-> Inside(w.kind, [j \in DOMAIN w.items |-> f[w.items[j]]][i])]
            = [i \in DOMAIN w.items |-> Inside(w.kind, f[w.items[i]])]
    OBVIOUS
  <2> QED
    BY <2>1 DEF WrittenBelow
<1>4. \E f : Writes(f)
  <2>1. PICK f : Is(f)
    BY <1>2
  <2>2. [w \in Elements |-> WrittenBelow(w, [i \in DOMAIN w.items |-> f[w.items[i]]])]
            = [w \in Elements |-> Written(w)
                  \o FlattenSeq([i \in DOMAIN w.items |-> Inside(w.kind, f[w.items[i]])])]
    BY <1>3
  <2>3. Writes(f)
    BY <2>1, <2>2, Zenon
  <2> QED
    BY <2>3, Zenon
<1>5. WrittenIn = CHOOSE f : Writes(f)
  BY Zenon DEF WrittenIn
<1>6. Writes(WrittenIn)
  BY <1>4, <1>5
<1> QED
  BY <1>6

IfSupported(S) == [c \in S |-> IF c.kind \in Supported THEN <<c>> ELSE <<>>]

LEMMA ChildrenAre ==
    ASSUME NEW S, NEW e, e.items \in Seq(S)
    PROVE  Children(e) = Chain(e.items, IfSupported(S)) /\ Children(e) \in Seq(S)
<1>1. \A i \in DOMAIN e.items : e.items[i] \in S
  OBVIOUS
<1>2. Children(e) = FlattenSeq([i \in DOMAIN e.items |->
                        IF e.items[i].kind \in Supported THEN <<e.items[i]>> ELSE <<>>])
  BY DEF Children, Only, Mapped
<1>3. [i \in DOMAIN e.items |-> IF e.items[i].kind \in Supported THEN <<e.items[i]>> ELSE <<>>]
          = [i \in DOMAIN e.items |-> IfSupported(S)[e.items[i]]]
  BY <1>1 DEF IfSupported
<1>4. Children(e) = Chain(e.items, IfSupported(S))
  BY <1>2, <1>3 DEF Chain
<1>5. IfSupported(S) \in [S -> Seq(S)]
  BY DEF IfSupported
<1>6. \A s \in Seq(S) : Chain(s, IfSupported(S)) \in Seq(S)
  BY <1>5, ChainType
<1> QED
  BY <1>4, <1>6

LEMMA KidsAreSmaller ==
    ASSUME NEW n \in Nat, NEW v \in TreesUpTo[n]
    PROVE  \A i \in DOMAIN Children(v) : Children(v)[i] \in TreesUpTo[n - 1]
<1>1. v.items \in Seq(TreesUpTo[n - 1])
  BY TreeIs
<1>2. Children(v) \in Seq(TreesUpTo[n - 1])
  BY <1>1, ChildrenAre
<1> QED
  BY <1>2

ParseBelow(element, below) ==
    IF element.kind # "MultiGeometry" THEN ParseSimple(element) ELSE Combined(below)

LEMMA ParseExists ==
    ASSUME NEW n \in Nat
    PROVE  \E f : f = [v \in TreesUpTo[n] |-> ParseBelow(v, [i \in DOMAIN Children(v) |-> f[Children(v)[i]]])]
<1> DEFINE Found(k, f) == f = [v \in TreesUpTo[k] |-> ParseBelow(v, [i \in DOMAIN Children(v) |-> f[Children(v)[i]]])]
           Bad == {k \in Nat : ~\E f : Found(k, f)}
<1>1. SUFFICES ASSUME Bad # {} PROVE FALSE
  <2>1. \E f : Found(n, f)
    BY <1>1
  <2> QED
    BY <2>1
<1>2. PICK k \in Bad : \A j \in Bad : k <= j
  <2> HIDE DEF Bad
  <2>1. Bad \in SUBSET Nat
    BY DEF Bad
  <2> QED
    BY <1>1, <2>1, SmallestNumber
<1>3. k # 0
  <2> DEFINE f == [v \in TreesUpTo[0] |-> ParseBelow(v, <<>>)]
  <2>1. \A v \in TreesUpTo[0] : FALSE
    BY TreesNext
  <2>2. Found(0, f)
    BY <2>1
  <2> QED
    BY <1>2, <2>2
<1>4. k - 1 \in Nat /\ k - 1 \notin Bad
  <2>1. k \in Nat
    BY <1>2
  <2>2. k - 1 \in Nat /\ ~(k <= k - 1)
    BY <1>3, <2>1
  <2> HIDE DEF Bad
  <2> QED
    BY <1>2, <2>2
<1>5. PICK f : Found(k - 1, f)
  BY <1>4
<1> DEFINE g == [v \in TreesUpTo[k] |-> ParseBelow(v, [i \in DOMAIN Children(v) |-> f[Children(v)[i]]])]
<1>6. TreesUpTo[k - 1] \subseteq TreesUpTo[k]
  <2>1. k \in Nat /\ k - 1 <= k
    BY <1>2
  <2> QED
    BY <1>4, <2>1, TreesGrow
<1>7. ASSUME NEW v \in TreesUpTo[k - 1] PROVE g[v] = f[v]
  <2>1. g[v] = ParseBelow(v, [i \in DOMAIN Children(v) |-> f[Children(v)[i]]])
    BY <1>6
  <2> HIDE DEF g
  <2> QED
    BY <1>5, <2>1
<1>8. ASSUME NEW v \in TreesUpTo[k]
      PROVE  [i \in DOMAIN Children(v) |-> g[Children(v)[i]]] = [i \in DOMAIN Children(v) |-> f[Children(v)[i]]]
  <2>1. \A i \in DOMAIN Children(v) : Children(v)[i] \in TreesUpTo[k - 1]
    <3>1. k \in Nat
      BY <1>2
    <3> QED
      BY <3>1, KidsAreSmaller
  <2> HIDE DEF g
  <2> QED
    BY <1>7, <2>1
<1>9. Found(k, g)
  <2>1. \A v \in TreesUpTo[k] : g[v] = ParseBelow(v, [i \in DOMAIN Children(v) |-> g[Children(v)[i]]])
    <3>1. \A v \in TreesUpTo[k] : g[v] = ParseBelow(v, [i \in DOMAIN Children(v) |-> f[Children(v)[i]]])
      OBVIOUS
    <3> HIDE DEF g
    <3> QED
      BY <1>8, <3>1
  <2>2. g = [v \in TreesUpTo[k] |-> g[v]]
    OBVIOUS
  <2> HIDE DEF g
  <2> QED
    BY <2>1, <2>2
<1> HIDE DEF g
<1> QED
  BY <1>2, <1>9

LEMMA ParseIs ==
    ASSUME NEW e \in Elements
    PROVE  ParseKmlGeometry[e] = ParseBelow(e, [i \in DOMAIN Children(e) |-> ParseKmlGeometry[Children(e)[i]]])
<1>1. Depth \in Nat
  BY VectorsAssumption
<1>2. \E f : f = [v \in Elements |-> ParseBelow(v, [i \in DOMAIN Children(v) |-> f[Children(v)[i]]])]
  BY <1>1, ParseExists DEF Elements
<1>3. ParseKmlGeometry = CHOOSE f : f = [v \in Elements |-> ParseBelow(v, [i \in DOMAIN Children(v) |-> f[Children(v)[i]]])]
  BY Zenon DEF ParseKmlGeometry, ParseBelow
<1>4. ParseKmlGeometry = [v \in Elements |-> ParseBelow(v, [i \in DOMAIN Children(v) |-> ParseKmlGeometry[Children(v)[i]]])]
  BY <1>2, <1>3
<1> QED
  BY <1>4

-----------------------------------------------------------------------------
(* What is in a sequence that is chained, and the worst of some answers.    *)

LEMMA ConcatSet ==
    ASSUME NEW T, NEW a \in Seq(T), NEW b \in Seq(T)
    PROVE  ToSet(a \o b) = ToSet(a) \cup ToSet(b)
<1>1. /\ DOMAIN a = 1..Len(a) /\ DOMAIN b = 1..Len(b) /\ Len(a) \in Nat /\ Len(b) \in Nat
      /\ DOMAIN (a \o b) = 1..(Len(a) + Len(b))
  BY ConcatProperties
<1>2. ASSUME NEW i \in DOMAIN a PROVE i \in DOMAIN (a \o b) /\ (a \o b)[i] = a[i]
  BY <1>1
<1>3. ASSUME NEW i \in DOMAIN b PROVE i + Len(a) \in DOMAIN (a \o b) /\ (a \o b)[i + Len(a)] = b[i]
  BY <1>1
<1>4. ASSUME NEW i \in DOMAIN (a \o b)
      PROVE  (a \o b)[i] \in ToSet(a) \cup ToSet(b)
  <2>1. CASE i <= Len(a)
    <3>1. i \in DOMAIN a
      BY <1>1, <2>1
    <3> QED
      BY <1>2, <3>1 DEF ToSet
  <2>2. CASE ~(i <= Len(a))
    <3>1. i - Len(a) \in DOMAIN b /\ (i - Len(a)) + Len(a) = i
      BY <1>1, <2>2
    <3>2. (a \o b)[i] = b[i - Len(a)]
      BY <1>3, <3>1
    <3> QED
      BY <3>1, <3>2 DEF ToSet
  <2> QED
    BY <2>1, <2>2
<1>5. ToSet(a) \subseteq ToSet(a \o b)
  BY <1>2 DEF ToSet
<1>6. ToSet(b) \subseteq ToSet(a \o b)
  BY <1>3 DEF ToSet
<1>7. ToSet(a \o b) \subseteq ToSet(a) \cup ToSet(b)
  <2> SUFFICES ASSUME NEW x \in ToSet(a \o b) PROVE x \in ToSet(a) \cup ToSet(b)
    OBVIOUS
  <2>1. PICK i \in DOMAIN (a \o b) : x = (a \o b)[i]
    BY DEF ToSet
  <2> QED
    BY <1>4, <2>1
<1> QED
  BY <1>5, <1>6, <1>7

LEMMA ChainSet ==
    ASSUME NEW S, NEW T, NEW s \in Seq(S), NEW g \in [S -> Seq(T)]
    PROVE  ToSet(Chain(s, g)) = UNION {ToSet(g[s[i]]) : i \in DOMAIN s}
<1> DEFINE All(u) == UNION {ToSet(g[u[i]]) : i \in DOMAIN u}
           Good == {u \in Seq(S) : ToSet(Chain(u, g)) = All(u)}
<1>1. <<>> \in Good
  <2>1. <<>> \in Seq(S) /\ ToSet(<<>>) = {} /\ All(<<>>) = {}
    BY DEF ToSet
  <2>2. Chain(<<>>, g) = <<>>
    BY ChainEmpty
  <2> HIDE DEF All
  <2> QED
    BY <2>1, <2>2
<1>2. ASSUME NEW u \in Good, NEW x \in S PROVE Append(u, x) \in Good
  <2>1. u \in Seq(S) /\ ToSet(Chain(u, g)) = All(u)
    BY <1>2
  <2>2. Chain(Append(u, x), g) = Chain(u, g) \o g[x]
    BY <2>1, ChainAppend
  <2>3. Chain(u, g) \in Seq(T) /\ g[x] \in Seq(T)
    BY <2>1, ChainType
  <2>4. ToSet(Chain(u, g) \o g[x]) = ToSet(Chain(u, g)) \cup ToSet(g[x])
    BY <2>3, ConcatSet
  <2>5. All(Append(u, x)) = All(u) \cup ToSet(g[x])
    <3>1. /\ Append(u, x) \in Seq(S) /\ Len(u) \in Nat /\ DOMAIN u = 1..Len(u)
          /\ DOMAIN Append(u, x) = 1..(Len(u) + 1) /\ Append(u, x)[Len(u) + 1] = x
          /\ \A i \in 1..Len(u) : Append(u, x)[i] = u[i]
      BY <2>1, AppendProperties, LenProperties
    <3>2. \A i \in 1..(Len(u) + 1) : i \in 1..Len(u) \/ i = Len(u) + 1
      BY <3>1
    <3>3. \A i \in 1..Len(u) : i \in 1..(Len(u) + 1)
      BY <3>1
    <3>4. Len(u) + 1 \in 1..(Len(u) + 1)
      BY <3>1
    <3> QED
      BY <3>1, <3>2, <3>3, <3>4
  <2>6. Append(u, x) \in Seq(S)
    BY <2>1, AppendProperties
  <2> HIDE DEF All
  <2> QED
    BY <2>1, <2>2, <2>4, <2>5, <2>6
<1>3. Good \in SUBSET Seq(S)
  OBVIOUS
<1> HIDE DEF Good
<1>4. s \in Good
  BY <1>1, <1>2, <1>3, AllSequences
<1> QED
  BY <1>4 DEF Good

LEMMA WorstIs ==
    ASSUME NEW n \in Nat, NEW answers, DOMAIN answers = 1..n, \A i \in 1..n : answers[i].error \in Nat
    PROVE  /\ Worst(answers) \in Nat
           /\ \A i \in 1..n : answers[i].error <= Worst(answers)
           /\ Worst(answers) = 0 \/ \E i \in 1..n : answers[i].error = Worst(answers)
<1> DEFINE errors(k) == {0} \cup {answers[i].error : i \in 1..k}
           Tops(k) == \E m \in errors(k) : \A e \in errors(k) : m >= e
           Bad == {k \in Nat : k <= n /\ ~Tops(k)}
<1>1. Bad = {}
  <2> SUFFICES ASSUME Bad # {} PROVE FALSE
    OBVIOUS
  <2>1. PICK k \in Bad : \A j \in Bad : k <= j
    <3> HIDE DEF Bad
    <3>1. Bad \in SUBSET Nat
      BY DEF Bad
    <3> QED
      BY <3>1, SmallestNumber
  <2>2. k \in Nat /\ k <= n /\ ~Tops(k)
    BY <2>1
  <2>3. k # 0
    <3>1. errors(0) = {0}
      OBVIOUS
    <3>2. Tops(0)
      BY <3>1
    <3> QED
      BY <2>2, <3>2
  <2>4. k - 1 \in Nat /\ k - 1 <= n /\ ~(k <= k - 1)
    BY <2>2, <2>3
  <2>5. Tops(k - 1)
    <3> HIDE DEF Tops
    <3> QED
      BY <2>1, <2>4
  <2>6. PICK m \in errors(k - 1) : \A e \in errors(k - 1) : m >= e
    BY <2>5
  <2> DEFINE new == answers[k].error
  <2>7. errors(k) = errors(k - 1) \cup {new} /\ new \in Nat
    <3>1. \A i : i \in 1..k <=> (i \in 1..(k - 1) \/ i = k)
      BY <2>2, <2>3
    <3>2. k \in 1..n
      BY <2>2, <2>3
    <3> QED
      BY <3>1, <3>2
  <2>8. errors(k - 1) \subseteq Nat
    <3>1. \A i \in 1..(k - 1) : i \in 1..n
      BY <2>4
    <3> QED
      BY <3>1
  <2> HIDE DEF errors, new
  <2>9. Tops(k)
    <3>1. CASE m >= new
      BY <2>6, <2>7, <2>8, <3>1
    <3>2. CASE ~(m >= new)
      <4>1. new \in errors(k)
        BY <2>7
      <4>2. \A e \in errors(k) : new >= e
        <5>1. \A e \in errors(k - 1) : m >= e /\ e \in Nat /\ m \in Nat
          BY <2>6, <2>8
        <5> QED
          BY <2>7, <3>2, <5>1
      <4> QED
        BY <4>1, <4>2
    <3> QED
      BY <3>1, <3>2
  <2> QED
    BY <2>2, <2>9
<1>2. Tops(n)
  <2>1. n \in Nat /\ n <= n
    OBVIOUS
  <2> HIDE DEF Tops
  <2> QED
    BY <1>1, <2>1
<1>3. PICK m \in errors(n) : \A e \in errors(n) : m >= e
  BY <1>2
<1>4. errors(n) \in SUBSET Int /\ m \in Nat
  OBVIOUS
<1>5. Max(errors(n)) = m
  <2> HIDE DEF errors
  <2> QED
    BY <1>3, <1>4, LargestIs
<1>6. Worst(answers) = m
  BY <1>5 DEF Worst
<1>7. \A i \in 1..n : answers[i].error \in errors(n) /\ m >= answers[i].error
  BY <1>3
<1> QED
  BY <1>3, <1>4, <1>6, <1>7

-----------------------------------------------------------------------------
(* The positions of a tree. *)

LEMMA TreesAre ==
    ASSUME NEW v \in Trees
    PROVE  /\ Depth + 3 \in Nat /\ v.items \in Seq(Trees)
           /\ v.kind = "position" => v = Leaf(v.at) /\ v.at \in Positions /\ v.items = <<>>
           /\ v.kind # "position" =>
                  v = Element(v.kind, v.rings, v.items) /\ v.kind \in Names
<1>1. Depth + 3 \in Nat
  BY VectorsAssumption
<1> QED
  BY <1>1, TreeIs DEF Trees

LEMMA GeometryPairsType == GeometryPairs \in [Trees -> Seq(Positions)]
<1>1. Depth + 3 \in Nat
  BY VectorsAssumption
<1>2. \E f : f = [w \in Trees |-> PairsOf(w, [i \in DOMAIN w.items |-> f[w.items[i]]])]
  BY <1>1, PairsExists DEF Trees
<1>3. GeometryPairs = CHOOSE f : f = [w \in Trees |-> PairsOf(w, [i \in DOMAIN w.items |-> f[w.items[i]]])]
  BY Zenon DEF GeometryPairs, PairsOf
<1>4. GeometryPairs = [w \in Trees |-> PairsOf(w, [i \in DOMAIN w.items |-> GeometryPairs[w.items[i]]])]
  BY <1>2, <1>3
<1>5. GeometryPairs = [w \in Trees |-> GeometryPairs[w]]
  BY <1>4
<1> DEFINE Good == {w \in Trees : GeometryPairs[w] \in Seq(Positions)}
<1>6. ASSUME NEW w \in Trees, \A i \in DOMAIN w.items : w.items[i] \in Good PROVE w \in Good
  <2>1. CASE w.kind = "position"
    <3>1. w.at \in Positions
      BY <2>1, TreesAre
    <3>2. GeometryPairs[w] = <<w.at>>
      BY <2>1, GeometryPairsIs
    <3>3. <<w.at>> \in Seq(Positions)
      BY <3>1
    <3> QED
      BY <3>2, <3>3
  <2>2. CASE w.kind # "position"
    <3>1. w.items \in Seq(Trees)
      BY TreesAre
    <3>2. w.items \in Seq(Good)
      <4>1. Len(w.items) \in Nat /\ DOMAIN w.items = 1..Len(w.items) /\ w.items = [i \in 1..Len(w.items) |-> w.items[i]]
        BY <3>1
      <4>2. w.items \in [1..Len(w.items) -> Good]
        BY <1>6, <4>1
      <4> QED
        BY <4>1, <4>2, IsASeq
    <3> DEFINE gp == [x \in Good |-> GeometryPairs[x]]
    <3>3. gp \in [Good -> Seq(Positions)]
      OBVIOUS
    <3>4. Chain(w.items, gp) \in Seq(Positions)
      <4> HIDE DEF gp, Good
      <4> QED
        BY <3>2, <3>3, ChainType
    <3>5. [i \in DOMAIN w.items |-> gp[w.items[i]]] = [i \in DOMAIN w.items |-> GeometryPairs[w.items[i]]]
      BY <1>6
    <3>6. Chain(w.items, gp) = Chain(w.items, GeometryPairs)
      <4> HIDE DEF gp
      <4> QED
        BY <3>5 DEF Chain
    <3>7. GeometryPairs[w] = Chain(w.items, GeometryPairs)
      BY <2>2, GeometryPairsIs
    <3> QED
      BY <3>4, <3>6, <3>7
  <2> QED
    BY <2>1, <2>2
<1>7. Good \in SUBSET TreesUpTo[Depth + 3]
  BY DEF Trees
<1>8. \A w \in Trees : w \in Good
  <2> HIDE DEF Good
  <2> QED
    BY <1>1, <1>6, <1>7, AllTrees DEF Trees
<1> QED
  BY <1>5, <1>8

-----------------------------------------------------------------------------
(* Projection. *)

Crses == {"source", "working", "wgs84"}
Values(v, crs) == [i \in DOMAIN v.items |-> TransformGeometry(v.items[i], crs).value]

LEMMA TransformUnfolds ==
    ASSUME NEW v \in Trees, NEW crs
    PROVE  /\ v.kind = "position" =>
                  /\ TransformGeometry(v, crs).value = Leaf(Project(v.at, crs))
                  /\ TransformGeometry(v, crs).error = Drift[v.at.place]
           /\ v.kind \in {"other", "missing", "raised"} => TransformGeometry(v, crs).value = Raised
           /\ v.kind \notin {"position", "other", "missing", "raised"} =>
                  TransformGeometry(v, crs).value =
                      IF "raised" \in Kinds(Values(v, crs)) THEN Raised
                      ELSE IF v.kind = "GeometryCollection"
                      THEN Collection(Only(Values(v, crs), LAMBDA g : g # Null))
                      ELSE Node(v.kind, Values(v, crs))
           /\ v.kind # "position" =>
                  TransformGeometry(v, crs).error
                      = Worst([i \in DOMAIN v.items |-> TransformGeometry(v.items[i], crs)])
<1> DEFINE answers == [i \in DOMAIN v.items |-> TransformGeometry(v.items[i], crs)]
<1>1. TransformGeometry(v, crs) = TransformNode(v, answers, crs)
  BY TransformIs
<1>2. Mapped(answers, LAMBDA a : a.value) = Values(v, crs)
  BY DEF Mapped, Values
<1> HIDE DEF answers
<1>3. TransformNode(v, answers, crs).error = IF v.kind = "position" THEN Drift[v.at.place] ELSE Worst(answers)
  BY DEF TransformNode
<1>4. TransformNode(v, answers, crs).value =
          CASE v.kind = "position" -> Leaf(Project(v.at, crs))
            [] v.kind \in {"other", "missing", "raised"} -> Raised
            [] OTHER ->
                   IF "raised" \in Kinds(Values(v, crs)) THEN Raised
                   ELSE IF v.kind = "GeometryCollection"
                   THEN Collection(Only(Values(v, crs), LAMBDA g : g # Null))
                   ELSE Node(v.kind, Values(v, crs))
  BY <1>2 DEF TransformNode
<1>5. v.kind = "position" => TransformNode(v, answers, crs).value = Leaf(Project(v.at, crs))
  BY <1>4
<1>6. v.kind \in {"other", "missing", "raised"} => TransformNode(v, answers, crs).value = Raised
  BY <1>4
<1>7. v.kind \notin {"position", "other", "missing", "raised"} =>
          TransformNode(v, answers, crs).value =
                   IF "raised" \in Kinds(Values(v, crs)) THEN Raised
                   ELSE IF v.kind = "GeometryCollection"
                   THEN Collection(Only(Values(v, crs), LAMBDA g : g # Null))
                   ELSE Node(v.kind, Values(v, crs))
  BY <1>4
<1> QED
  BY <1>1, <1>3, <1>5, <1>6, <1>7 DEF answers

IfThere(S) == [g \in S |-> IF g # Null THEN <<g>> ELSE <<>>]

LEMMA ThereAre ==
    ASSUME NEW S, NEW s \in Seq(S)
    PROVE  /\ Only(s, LAMBDA g : g # Null) = Chain(s, IfThere(S))
           /\ Chain(s, IfThere(S)) \in Seq(S)
           /\ IfThere(S) \in [S -> Seq(S)]
<1>1. \A i \in DOMAIN s : s[i] \in S
  OBVIOUS
<1>2. Only(s, LAMBDA g : g # Null) = FlattenSeq([i \in DOMAIN s |-> IF s[i] # Null THEN <<s[i]>> ELSE <<>>])
  BY DEF Only, Mapped
<1>3. [i \in DOMAIN s |-> IF s[i] # Null THEN <<s[i]>> ELSE <<>>] = [i \in DOMAIN s |-> IfThere(S)[s[i]]]
  BY <1>1 DEF IfThere
<1>4. IfThere(S) \in [S -> Seq(S)]
  BY DEF IfThere
<1>5. Chain(s, IfThere(S)) \in Seq(S)
  BY <1>4, ChainType
<1> QED
  BY <1>2, <1>3, <1>4, <1>5 DEF Chain

(* A projection keeps to the level of the tree: it is taken in once more.   *)
LEMMA ProjectionType ==
    ASSUME NEW crs \in Crses, NEW n \in Nat, NEW v \in TreesUpTo[n], n <= Depth + 3
    PROVE  TransformGeometry(v, crs).value \in TreesUpTo[n]
<1> DEFINE N == Depth + 3
           T(w) == TransformGeometry(w, crs).value
           Good == {w \in TreesUpTo[N] : \A k \in Nat : k <= N /\ w \in TreesUpTo[k] => T(w) \in TreesUpTo[k]}
<1>1. N \in Nat
  BY VectorsAssumption
<1>2. ASSUME NEW w \in TreesUpTo[N], \A i \in DOMAIN w.items : w.items[i] \in Good PROVE w \in Good
  <2> SUFFICES ASSUME NEW k \in Nat, k <= N, w \in TreesUpTo[k] PROVE T(w) \in TreesUpTo[k]
    OBVIOUS
  <2>1. w \in Trees
    BY DEF Trees
  <2>2. k # 0 /\ k - 1 \in Nat /\ w.items \in Seq(TreesUpTo[k - 1]) /\ (k - 1) + 1 = k /\ k - 1 <= N
    BY <1>1, TreeIs
  <2>3. CASE w.kind = "position"
    <3>1. T(w) = Leaf(Project(w.at, crs)) /\ w.at \in Positions
      BY <2>1, <2>3, TransformUnfolds, TreesAre
    <3>2. Project(w.at, crs) \in Positions
      BY <3>1 DEF Project, Positions, Crses
    <3> QED
      BY <2>2, <3>1, <3>2, LeafIsATree
  <2>4. Raised \in TreesUpTo[k]
    <3>1. <<>> \in Seq(TreesUpTo[k - 1])
      OBVIOUS
    <3>2. "raised" \in Names
      BY VectorsAssumption DEF Known
    <3>3. Node("raised", <<>>) \in TreesUpTo[(k - 1) + 1]
      BY <2>2, <3>1, <3>2, NodeIsATree
    <3> QED
      BY <2>2, <3>3 DEF Raised
  <2>5. CASE w.kind # "position"
    <3> DEFINE values == Values(w, crs)
    <3>1. values \in Seq(TreesUpTo[k - 1])
      <4>1. \A i \in DOMAIN w.items : w.items[i] \in TreesUpTo[k - 1] /\ w.items[i] \in Good
        BY <1>2, <2>2
      <4>2. \A i \in DOMAIN w.items : T(w.items[i]) \in TreesUpTo[k - 1]
        BY <2>2, <4>1
      <4>3. Len(w.items) \in Nat /\ DOMAIN w.items = 1..Len(w.items)
        BY <2>2
      <4>4. values \in [1..Len(w.items) -> TreesUpTo[k - 1]]
        BY <4>2, <4>3 DEF Values
      <4> QED
        BY <4>3, <4>4, IsASeq
    <3>2. Only(values, LAMBDA g : g # Null) \in Seq(TreesUpTo[k - 1])
      BY <3>1, ThereAre
    <3>3. w.kind \in Names
      BY <2>1, <2>5, TreesAre
    <3>4. Node(w.kind, values) \in TreesUpTo[k]
      <4> HIDE DEF values
      <4>1. Node(w.kind, values) \in TreesUpTo[(k - 1) + 1]
        BY <2>2, <3>1, <3>3, NodeIsATree
      <4> QED
        BY <2>2, <4>1
    <3>5. Collection(Only(values, LAMBDA g : g # Null)) \in TreesUpTo[k]
      <4> DEFINE there == Only(values, LAMBDA g : g # Null)
      <4> HIDE DEF there
      <4>1. "GeometryCollection" \in Names
        BY VectorsAssumption DEF Known
      <4>2. there \in Seq(TreesUpTo[k - 1])
        BY <3>2 DEF there
      <4>3. Node("GeometryCollection", there) \in TreesUpTo[(k - 1) + 1]
        BY <2>2, <4>1, <4>2, NodeIsATree
      <4> QED
        BY <2>2, <4>3 DEF Collection, there
    <3>6. \/ T(w) = Raised
          \/ T(w) = Collection(Only(values, LAMBDA g : g # Null))
          \/ T(w) = Node(w.kind, values)
      BY <2>1, <2>5, TransformUnfolds
    <3> QED
      BY <2>4, <3>4, <3>5, <3>6
  <2> QED
    BY <2>3, <2>5
<1>3. \A w \in TreesUpTo[N] : w \in Good
  <2>1. Good \in SUBSET TreesUpTo[N]
    OBVIOUS
  <2> HIDE DEF Good, N
  <2> QED
    BY <1>1, <1>2, <2>1, AllTrees
<1>4. v \in TreesUpTo[N]
  BY <1>1, TreesGrow
<1> QED
  BY <1>3, <1>4

LEMMA LeafIs ==
    \A p : Leaf(p).kind = "position" /\ Leaf(p).at = p /\ Leaf(p).items = <<>>
  BY DEF Leaf

LEMMA ProjectionStays ==
    ASSUME NEW crs \in Crses, NEW v \in Trees
    PROVE  TransformGeometry(v, crs).value \in Trees
<1>1. Depth + 3 \in Nat /\ Depth + 3 <= Depth + 3
  BY VectorsAssumption
<1> QED
  BY <1>1, ProjectionType DEF Trees

(* What is projected is the position or a node of the same kind, with what  *)
(* is made of its trees but for the nulls in a collection.                  *)
LEMMA ProjectionIs ==
    ASSUME NEW crs \in Crses, NEW v \in Trees, TransformGeometry(v, crs).value.kind # "raised"
    PROVE  /\ v.kind \notin {"other", "missing", "raised"}
           /\ TransformGeometry(v, crs).value.kind = v.kind
           /\ v.kind # "position" =>
                  /\ Values(v, crs) \in Seq(Trees)
                  /\ \A i \in DOMAIN v.items :
                         /\ v.items[i] \in Trees /\ Values(v, crs)[i] = TransformGeometry(v.items[i], crs).value
                         /\ TransformGeometry(v.items[i], crs).value.kind # "raised"
                  /\ TransformGeometry(v, crs).value = Node(v.kind, TransformGeometry(v, crs).value.items)
                  /\ \/ TransformGeometry(v, crs).value.items = Values(v, crs)
                     \/ TransformGeometry(v, crs).value.items = Chain(Values(v, crs), IfThere(Trees))
<1> DEFINE T(w) == TransformGeometry(w, crs).value
           values == Values(v, crs)
<1>1. Raised.kind = "raised"
  BY DEF Raised, Node, Element
<1>2. v.kind \notin {"other", "missing", "raised"}
  BY <1>1, TransformUnfolds
<1>3. CASE v.kind = "position"
  <2>1. T(v) = Leaf(Project(v.at, crs))
    BY <1>3, TransformUnfolds
  <2> QED
    BY <1>2, <1>3, <2>1, LeafIs
<1>4. CASE v.kind # "position"
  <2>1. v.items \in Seq(Trees)
    BY TreesAre
  <2>2. Len(v.items) \in Nat /\ DOMAIN v.items = 1..Len(v.items) /\ \A i \in DOMAIN v.items : v.items[i] \in Trees
    BY <2>1
  <2>3. \A i \in DOMAIN v.items : T(v.items[i]) \in Trees
    BY <2>2, ProjectionStays
  <2>4. values \in Seq(Trees) /\ DOMAIN values = DOMAIN v.items /\ \A i \in DOMAIN v.items : values[i] = T(v.items[i])
    <3>1. values \in [1..Len(v.items) -> Trees]
      BY <2>2, <2>3 DEF Values
    <3> QED
      BY <2>2, <3>1, IsASeq DEF Values
  <2> DEFINE there == Only(values, LAMBDA g : g # Null)
  <2>5. there = Chain(values, IfThere(Trees))
    BY <2>4, ThereAre
  <2>6. /\ "raised" \notin Kinds(values)
        /\ T(v) = IF v.kind = "GeometryCollection" THEN Collection(there) ELSE Node(v.kind, values)
    BY <1>1, <1>2, <1>4, TransformUnfolds
  <2>7. \A i \in DOMAIN v.items : T(v.items[i]).kind # "raised"
    BY <2>4, <2>6 DEF Kinds
  <2> HIDE DEF there, values
  <2>8. /\ T(v).kind = v.kind /\ T(v) = Node(v.kind, T(v).items)
        /\ T(v).items = values \/ T(v).items = there
    BY <2>6 DEF Collection, Node, Element
  <2> QED
    BY <1>2, <2>2, <2>4, <2>5, <2>7, <2>8 DEF values
<1> QED
  BY <1>3, <1>4

LEMMA NodeDoesNotRaise ==
    ASSUME NEW crs \in Crses, NEW v \in Trees, v.kind \notin {"other", "missing", "raised"},
           \A i \in DOMAIN v.items : TransformGeometry(v.items[i], crs).value.kind # "raised"
    PROVE  TransformGeometry(v, crs).value.kind # "raised"
<1>1. CASE v.kind = "position"
  <2>1. TransformGeometry(v, crs).value = Leaf(Project(v.at, crs))
    BY <1>1, TransformUnfolds
  <2> QED
    BY <2>1, LeafIs
<1>2. CASE v.kind # "position"
  <2> DEFINE values == Values(v, crs)
             there == Only(values, LAMBDA g : g # Null)
  <2>1. "raised" \notin Kinds(values)
    BY DEF Kinds, Values
  <2>2. TransformGeometry(v, crs).value
            = IF v.kind = "GeometryCollection" THEN Collection(there) ELSE Node(v.kind, values)
    BY <1>2, <2>1, TransformUnfolds
  <2> HIDE DEF values, there
  <2> QED
    BY <2>2 DEF Collection, Node, Element
<1> QED
  BY <1>1, <1>2

(* What was projected once can be projected again.                          *)
LEMMA ProjectsAgain ==
    ASSUME NEW crs \in Crses, NEW next \in Crses, NEW v \in Trees,
           TransformGeometry(v, crs).value.kind # "raised"
    PROVE  TransformGeometry(TransformGeometry(v, crs).value, next).value.kind # "raised"
<1> DEFINE T(w) == TransformGeometry(w, crs).value
           Sound == {w \in Trees : TransformGeometry(w, next).value.kind # "raised"}
           Good == {w \in Trees : T(w).kind # "raised" => T(w) \in Sound}
<1>1. ASSUME NEW w \in Trees, \A i \in DOMAIN w.items : w.items[i] \in Good PROVE w \in Good
  <2> SUFFICES ASSUME T(w).kind # "raised" PROVE T(w) \in Sound
    OBVIOUS
  <2>1. T(w) \in Trees /\ T(w).kind = w.kind /\ w.kind \notin {"other", "missing", "raised"}
    BY ProjectionStays, ProjectionIs
  <2>2. CASE w.kind = "position"
    <3>1. T(w).items = <<>>
      <4>1. T(w) = Leaf(Project(w.at, crs))
        BY <2>2, TransformUnfolds
      <4> QED
        BY <4>1, LeafIs
    <3>2. TransformGeometry(T(w), next).value.kind # "raised"
      BY <2>1, <3>1, NodeDoesNotRaise
    <3> QED
      BY <2>1, <3>2
  <2>3. CASE w.kind # "position"
    <3> DEFINE values == Values(w, crs)
    <3>1. /\ values \in Seq(Trees)
          /\ \A i \in DOMAIN w.items : w.items[i] \in Trees /\ values[i] = T(w.items[i]) /\ T(w.items[i]).kind # "raised"
          /\ T(w).items = values \/ T(w).items = Chain(values, IfThere(Trees))
      BY <2>3, ProjectionIs
    <3>2. DOMAIN values = DOMAIN w.items
      BY DEF Values
    <3>3. \A i \in DOMAIN values : values[i] \in Sound
      BY <1>1, <3>1, <3>2
    <3>4. values \in Seq(Sound)
      <4>1. Len(values) \in Nat /\ DOMAIN values = 1..Len(values) /\ values = [i \in 1..Len(values) |-> values[i]]
        BY <3>1
      <4>2. values \in [1..Len(values) -> Sound]
        BY <3>3, <4>1
      <4> QED
        BY <4>1, <4>2, IsASeq
    <3>5. Chain(values, IfThere(Trees)) \in Seq(Sound)
      <4>1. [i \in DOMAIN values |-> IfThere(Trees)[values[i]]] = [i \in DOMAIN values |-> IfThere(Sound)[values[i]]]
        BY <3>3 DEF IfThere
      <4>2. Chain(values, IfThere(Trees)) = Chain(values, IfThere(Sound))
        BY <4>1 DEF Chain
      <4> HIDE DEF Sound, values
      <4>3. Chain(values, IfThere(Sound)) \in Seq(Sound)
        BY <3>4, ThereAre
      <4> QED
        BY <4>2, <4>3
    <3>6. T(w).items \in Seq(Sound)
      BY <3>1, <3>4, <3>5
    <3>7. \A i \in DOMAIN T(w).items : TransformGeometry(T(w).items[i], next).value.kind # "raised"
      BY <3>6
    <3>8. TransformGeometry(T(w), next).value.kind # "raised"
      BY <2>1, <3>7, NodeDoesNotRaise
    <3> QED
      BY <2>1, <3>8
  <2> QED
    BY <2>2, <2>3
<1>2. Depth + 3 \in Nat
  BY VectorsAssumption
<1>3. \A w \in Trees : w \in Good
  <2>1. Good \in SUBSET TreesUpTo[Depth + 3]
    BY DEF Trees
  <2> HIDE DEF Good
  <2> QED
    BY <1>1, <1>2, <2>1, AllTrees DEF Trees
<1> QED
  BY <1>3

(* What becomes of a position.                                             *)
Shift(crs) == [p \in Positions |-> <<Project(p, crs)>>]

LEMMA ShiftType == ASSUME NEW crs \in Crses PROVE Shift(crs) \in [Positions -> Seq(Positions)]
<1>1. ASSUME NEW p \in Positions PROVE Project(p, crs) \in Positions
  BY DEF Project, Positions, Crses
<1> QED
  BY <1>1 DEF Shift

LEMMA NullHasNoPairs == ASSUME Null \in Trees PROVE GeometryPairs[Null] = <<>>
<1>1. Null.kind # "position" /\ Null.items = <<>>
  BY DEF Null, Node, Element
<1> QED
  BY <1>1, GeometryPairsIs, ChainEmpty

(* The positions of what is projected are those of the tree, in order.      *)
LEMMA PairsAreProjected ==
    ASSUME NEW crs \in Crses, NEW v \in Trees, TransformGeometry(v, crs).value.kind # "raised"
    PROVE  GeometryPairs[TransformGeometry(v, crs).value] = Chain(GeometryPairs[v], Shift(crs))
<1> DEFINE T(w) == TransformGeometry(w, crs).value
           Good == {w \in Trees : T(w).kind # "raised" => GeometryPairs[T(w)] = Chain(GeometryPairs[w], Shift(crs))}
<1>1. ASSUME NEW w \in Trees, \A i \in DOMAIN w.items : w.items[i] \in Good PROVE w \in Good
  <2> SUFFICES ASSUME T(w).kind # "raised" PROVE GeometryPairs[T(w)] = Chain(GeometryPairs[w], Shift(crs))
    OBVIOUS
  <2>1. T(w) \in Trees /\ T(w).kind = w.kind
    BY ProjectionStays, ProjectionIs
  <2>2. CASE w.kind = "position"
    <3>1. T(w).at = Project(w.at, crs) /\ w.at \in Positions
      <4>1. T(w) = Leaf(Project(w.at, crs)) /\ w.at \in Positions
        BY <2>2, TransformUnfolds, TreesAre
      <4> QED
        BY <4>1, LeafIs
    <3>2. GeometryPairs[T(w)] = <<Project(w.at, crs)>> /\ GeometryPairs[w] = <<w.at>>
      BY <2>1, <2>2, <3>1, GeometryPairsIs
    <3>3. Chain(<<w.at>>, Shift(crs)) = Shift(crs)[w.at]
      <4>1. \A p \in Positions : Chain(<<p>>, Shift(crs)) = Shift(crs)[p]
        BY ShiftType, ChainOne
      <4> QED
        BY <3>1, <4>1
    <3>4. Shift(crs)[w.at] = <<Project(w.at, crs)>>
      BY <3>1 DEF Shift
    <3> QED
      BY <3>2, <3>3, <3>4
  <2>3. CASE w.kind # "position"
    <3> DEFINE values == Values(w, crs)
               shifted == [x \in Trees |-> Chain(GeometryPairs[x], Shift(crs))]
    <3>1. /\ values \in Seq(Trees)
          /\ \A i \in DOMAIN w.items : w.items[i] \in Trees /\ values[i] = T(w.items[i]) /\ T(w.items[i]).kind # "raised"
          /\ T(w).items = values \/ T(w).items = Chain(values, IfThere(Trees))
      BY <2>3, ProjectionIs
    <3>2. DOMAIN values = DOMAIN w.items
      BY DEF Values
    <3>3. Chain(values, GeometryPairs) = Chain(w.items, shifted)
      <4>1. \A i \in DOMAIN w.items : GeometryPairs[values[i]] = shifted[w.items[i]]
        BY <1>1, <3>1
      <4>2. [i \in DOMAIN values |-> GeometryPairs[values[i]]] = [i \in DOMAIN w.items |-> shifted[w.items[i]]]
        BY <3>2, <4>1
      <4> HIDE DEF values, shifted
      <4> QED
        BY <4>2 DEF Chain
    <3>4. Chain(w.items, shifted) = Chain(Chain(w.items, GeometryPairs), Shift(crs))
      <4>1. GeometryPairs \in [Trees -> Seq(Positions)] /\ Shift(crs) \in [Positions -> Seq(Positions)]
        BY ShiftType, GeometryPairsType
      <4>2. w.items \in Seq(Trees)
        BY TreesAre
      <4>3. \A x \in Trees : shifted[x] = Chain(GeometryPairs[x], Shift(crs))
        OBVIOUS
      <4>4. GeometryPairs \in Chainable(Trees, Positions) /\ Shift(crs) \in Chainable(Positions, Positions)
        BY <4>1 DEF Chainable
      <4> HIDE DEF shifted
      <4> QED
        BY <4>2, <4>3, <4>4, ChainInChain
    <3>5. Chain(w.items, GeometryPairs) = GeometryPairs[w]
      BY <2>3, GeometryPairsIs
    <3>6. Chain(Chain(values, IfThere(Trees)), GeometryPairs) = Chain(values, GeometryPairs)
      <4> DEFINE both == [x \in Trees |-> Chain(IfThere(Trees)[x], GeometryPairs)]
      <4>1. \A x \in Trees : both[x] = GeometryPairs[x]
        <5> SUFFICES ASSUME NEW x \in Trees PROVE Chain(IfThere(Trees)[x], GeometryPairs) = GeometryPairs[x]
          OBVIOUS
        <5>1. CASE x = Null
          BY <5>1, NullHasNoPairs, ChainEmpty DEF IfThere
        <5>2. CASE x # Null
          BY <5>2, GeometryPairsType, ChainOne DEF IfThere
        <5> QED
          BY <5>1, <5>2
      <4>2. Chain(Chain(values, IfThere(Trees)), GeometryPairs) = Chain(values, both)
        <5>1. GeometryPairs \in [Trees -> Seq(Positions)] /\ IfThere(Trees) \in [Trees -> Seq(Trees)]
          BY <3>1, GeometryPairsType, ThereAre
        <5>2. \A x \in Trees : both[x] = Chain(IfThere(Trees)[x], GeometryPairs)
          OBVIOUS
        <5>3. GeometryPairs \in Chainable(Trees, Positions) /\ IfThere(Trees) \in Chainable(Trees, Trees)
          BY <5>1 DEF Chainable
        <5>4. values \in Seq(Trees)
          BY <3>1
        <5> HIDE DEF both, values
        <5> QED
          BY <5>2, <5>3, <5>4, ChainInChain
      <4>3. [i \in DOMAIN values |-> both[values[i]]] = [i \in DOMAIN values |-> GeometryPairs[values[i]]]
        <5> HIDE DEF values, both
        <5> QED
          BY <3>1, <4>1
      <4> HIDE DEF values, both
      <4> QED
        BY <4>2, <4>3 DEF Chain
    <3>7. GeometryPairs[T(w)] = Chain(T(w).items, GeometryPairs)
      BY <2>1, <2>3, GeometryPairsIs
    <3> HIDE DEF values, shifted
    <3> QED
      BY <3>1, <3>3, <3>4, <3>5, <3>6, <3>7
  <2> QED
    BY <2>2, <2>3
<1>2. Depth + 3 \in Nat
  BY VectorsAssumption
<1>3. \A w \in Trees : w \in Good
  <2>1. Good \in SUBSET TreesUpTo[Depth + 3]
    BY DEF Trees
  <2> HIDE DEF Good
  <2> QED
    BY <1>1, <1>2, <2>1, AllTrees DEF Trees
<1> QED
  BY <1>3

-----------------------------------------------------------------------------
(* The error is that of the position that loses most. *)
IsWorst(error, positions) ==
    /\ error \in Nat
    /\ \A p \in positions : Drift[p.place] <= error
    /\ error = 0 \/ \E p \in positions : Drift[p.place] = error

LEMMA WorstFits ==
    ASSUME NEW crs, NEW s \in Seq(Trees),
           \A i \in DOMAIN s : IsWorst(TransformGeometry(s[i], crs).error, ToSet(GeometryPairs[s[i]]))
    PROVE  IsWorst(Worst([i \in DOMAIN s |-> TransformGeometry(s[i], crs)]), ToSet(Chain(s, GeometryPairs)))
<1> DEFINE answers == [i \in DOMAIN s |-> TransformGeometry(s[i], crs)]
           all == ToSet(Chain(s, GeometryPairs))
<1>1. Len(s) \in Nat /\ DOMAIN s = 1..Len(s) /\ DOMAIN answers = 1..Len(s)
  OBVIOUS
<1>2. \A i \in 1..Len(s) : IsWorst(answers[i].error, ToSet(GeometryPairs[s[i]]))
  BY <1>1
<1>3. all = UNION {ToSet(GeometryPairs[s[i]]) : i \in DOMAIN s}
  BY GeometryPairsType, ChainSet
<1> HIDE DEF answers, all
<1>4. \A i \in 1..Len(s) : answers[i].error \in Nat
  BY <1>2 DEF IsWorst
<1>5. /\ Worst(answers) \in Nat
      /\ \A i \in 1..Len(s) : answers[i].error <= Worst(answers)
      /\ Worst(answers) = 0 \/ \E i \in 1..Len(s) : answers[i].error = Worst(answers)
  BY <1>1, <1>4, WorstIs
<1>6. ASSUME NEW p \in all PROVE Drift[p.place] <= Worst(answers)
  <2>1. PICK i \in 1..Len(s) : p \in ToSet(GeometryPairs[s[i]])
    BY <1>1, <1>3
  <2>2. Drift[p.place] <= answers[i].error /\ p \in Positions
    <3>1. s[i] \in Trees
      BY <1>1
    <3>2. GeometryPairs[s[i]] \in Seq(Positions)
      BY <3>1, GeometryPairsType
    <3>3. p \in Positions
      BY <2>1, <3>2 DEF ToSet
    <3> QED
      BY <1>2, <2>1, <3>3 DEF IsWorst
  <2>3. Drift[p.place] \in Nat
    BY <2>2, VectorsAssumption DEF Positions
  <2> QED
    BY <1>4, <1>5, <2>2, <2>3
<1>7. Worst(answers) = 0 \/ \E p \in all : Drift[p.place] = Worst(answers)
  <2>1. SUFFICES ASSUME Worst(answers) # 0 PROVE \E p \in all : Drift[p.place] = Worst(answers)
    OBVIOUS
  <2>2. PICK i \in 1..Len(s) : answers[i].error = Worst(answers)
    BY <1>5, <2>1
  <2>3. PICK p \in ToSet(GeometryPairs[s[i]]) : Drift[p.place] = Worst(answers)
    BY <1>2, <2>1, <2>2 DEF IsWorst
  <2> QED
    BY <1>1, <1>3, <2>3
<1>8. IsWorst(Worst(answers), all)
  BY <1>5, <1>6, <1>7 DEF IsWorst
<1> QED
  BY <1>8 DEF answers, all

LEMMA ErrorFits ==
    ASSUME NEW crs, NEW v \in Trees
    PROVE  IsWorst(TransformGeometry(v, crs).error, ToSet(GeometryPairs[v]))
<1> DEFINE Good == {w \in Trees : IsWorst(TransformGeometry(w, crs).error, ToSet(GeometryPairs[w]))}
<1>1. ASSUME NEW w \in Trees, \A i \in DOMAIN w.items : w.items[i] \in Good PROVE w \in Good
  <2>1. CASE w.kind = "position"
    <3>1. TransformGeometry(w, crs).error = Drift[w.at.place] /\ GeometryPairs[w] = <<w.at>> /\ w.at \in Positions
      BY <2>1, TransformUnfolds, GeometryPairsIs, TreesAre
    <3>2. ToSet(<<w.at>>) = {w.at}
      BY DEF ToSet
    <3>3. Drift[w.at.place] \in Nat
      BY <3>1, VectorsAssumption DEF Positions
    <3>4. IsWorst(Drift[w.at.place], {w.at})
      BY <3>3 DEF IsWorst
    <3> QED
      BY <3>1, <3>2, <3>4
  <2>2. CASE w.kind # "position"
    <3>1. w.items \in Seq(Trees)
      BY TreesAre
    <3>2. /\ TransformGeometry(w, crs).error = Worst([i \in DOMAIN w.items |-> TransformGeometry(w.items[i], crs)])
          /\ GeometryPairs[w] = Chain(w.items, GeometryPairs)
      BY <2>2, TransformUnfolds, GeometryPairsIs
    <3>3. IsWorst(Worst([i \in DOMAIN w.items |-> TransformGeometry(w.items[i], crs)]), ToSet(Chain(w.items, GeometryPairs)))
      BY <1>1, <3>1, WorstFits
    <3> QED
      BY <3>2, <3>3
  <2> QED
    BY <2>1, <2>2
<1>2. Depth + 3 \in Nat
  BY VectorsAssumption
<1>3. \A w \in Trees : w \in Good
  <2>1. Good \in SUBSET TreesUpTo[Depth + 3]
    BY DEF Trees
  <2> HIDE DEF Good
  <2> QED
    BY <1>1, <1>2, <2>1, AllTrees DEF Trees
<1> QED
  BY <1>3

(* The features are projected in order.                                     *)
LEMMA FeaturesAreProjected ==
    ASSUME NEW crs \in Crses, NEW s \in Seq(Trees), NEW t,
           t = [i \in DOMAIN s |-> TransformGeometry(s[i], crs).value],
           \A i \in DOMAIN s : TransformGeometry(s[i], crs).value.kind # "raised"
    PROVE  /\ t \in Seq(Trees)
           /\ Chain(t, GeometryPairs) = Chain(Chain(s, GeometryPairs), Shift(crs))
           /\ \A next \in Crses : \A i \in DOMAIN t : TransformGeometry(t[i], next).value.kind # "raised"
           /\ [i \in DOMAIN t |-> t[i].kind] = [i \in DOMAIN s |-> s[i].kind]
<1>1. Len(s) \in Nat /\ DOMAIN s = 1..Len(s) /\ DOMAIN t = DOMAIN s /\ \A i \in DOMAIN s : s[i] \in Trees
  OBVIOUS
<1>2. \A i \in DOMAIN s : t[i] = TransformGeometry(s[i], crs).value /\ t[i] \in Trees
  BY <1>1, ProjectionStays
<1>3. t \in Seq(Trees)
  <2>1. t \in [1..Len(s) -> Trees]
    BY <1>1, <1>2
  <2> QED
    BY <1>1, <2>1, IsASeq
<1> DEFINE shifted == [x \in Trees |-> Chain(GeometryPairs[x], Shift(crs))]
<1>4. Chain(t, GeometryPairs) = Chain(s, shifted)
  <2>1. \A i \in DOMAIN s : GeometryPairs[t[i]] = shifted[s[i]]
    BY <1>1, <1>2, PairsAreProjected
  <2>2. [i \in DOMAIN t |-> GeometryPairs[t[i]]] = [i \in DOMAIN s |-> shifted[s[i]]]
    BY <1>1, <2>1
  <2> HIDE DEF shifted
  <2> QED
    BY <2>2 DEF Chain
<1>5. Chain(Chain(s, GeometryPairs), Shift(crs)) = Chain(s, shifted)
  <2>1. GeometryPairs \in Chainable(Trees, Positions) /\ Shift(crs) \in Chainable(Positions, Positions)
    BY ShiftType, GeometryPairsType DEF Chainable
  <2>2. \A x \in Trees : shifted[x] = Chain(GeometryPairs[x], Shift(crs))
    OBVIOUS
  <2>3. s \in Seq(Trees)
    OBVIOUS
  <2> HIDE DEF shifted
  <2> QED
    BY <2>1, <2>2, <2>3, ChainInChain
<1>6. ASSUME NEW next \in Crses, NEW i \in DOMAIN t
      PROVE  TransformGeometry(t[i], next).value.kind # "raised"
  <2>1. i \in DOMAIN s /\ s[i] \in Trees /\ TransformGeometry(s[i], crs).value.kind # "raised"
    BY <1>1
  <2>2. TransformGeometry(TransformGeometry(s[i], crs).value, next).value.kind # "raised"
    BY <2>1, ProjectsAgain
  <2> QED
    BY <1>2, <2>1, <2>2
<1>7. \A i \in DOMAIN s : t[i].kind = s[i].kind
  BY <1>1, <1>2, ProjectionIs
<1>8. [i \in DOMAIN t |-> t[i].kind] = [i \in DOMAIN s |-> s[i].kind]
  BY <1>1, <1>7
<1> QED
  BY <1>3, <1>4, <1>5, <1>6, <1>8

-----------------------------------------------------------------------------
(* Chainable of which only some count. *)

LEMMA ChainNothing ==
    ASSUME NEW S, NEW s \in Seq(S), NEW g, \A x \in S : g[x] = <<>>
    PROVE  Chain(s, g) = <<>>
<1> DEFINE none == [x \in S |-> <<>>]
           Good == {u \in Seq(S) : Chain(u, none) = <<>>}
<1>1. <<>> \in Good
  <2>1. <<>> \in Seq(S)
    OBVIOUS
  <2> QED
    BY <2>1, ChainEmpty
<1>2. ASSUME NEW u \in Good, NEW x \in S PROVE Append(u, x) \in Good
  <2>1. u \in Seq(S) /\ Chain(u, none) = <<>> /\ Append(u, x) \in Seq(S) /\ none[x] = <<>>
    BY <1>2, AppendProperties
  <2>2. none \in [S -> Seq(S)]
    OBVIOUS
  <2> HIDE DEF none
  <2>3. Chain(Append(u, x), none) = Chain(u, none) \o none[x]
    BY <2>1, <2>2, ChainAppend
  <2>4. Chain(Append(u, x), none) = <<>>
    BY <2>1, <2>3, ConcatEmptySeq
  <2> QED
    BY <2>1, <2>4
<1>3. s \in Good
  <2>1. Good \in SUBSET Seq(S)
    OBVIOUS
  <2> HIDE DEF Good
  <2> QED
    BY <1>1, <1>2, <2>1, AllSequences
<1>4. \A x \in S : g[x] = none[x]
  OBVIOUS
<1> HIDE DEF none
<1>5. Chain(s, g) = Chain(s, none)
  BY <1>4, ChainSame
<1> QED
  BY <1>3, <1>5

LEMMA AllIn ==
    ASSUME NEW S, NEW T, NEW s \in Seq(S), \A i \in DOMAIN s : s[i] \in T
    PROVE  s \in Seq(T)
<1>1. Len(s) \in Nat /\ DOMAIN s = 1..Len(s) /\ s = [i \in 1..Len(s) |-> s[i]]
  OBVIOUS
<1>2. s \in [1..Len(s) -> T]
  BY <1>1
<1> QED
  BY <1>1, <1>2, IsASeq

LEMMA ChainHead ==
    ASSUME NEW S, NEW T, NEW s, NEW g, s \in Seq(S), s # <<>>, g \in Chainable(S, T)
    PROVE  Chain(s, g) = g[s[1]] \o Chain(Tail(s), g)
<1> DEFINE first == <<s[1]>>
           rest == Tail(s)
<1>1. s[1] \in S /\ rest \in Seq(S) /\ first \in Seq(S) /\ s = first \o rest
  OBVIOUS
<1>2. g \in [S -> Seq(T)]
  BY DEF Chainable
<1>3. Chain(first, g) = g[s[1]]
  BY <1>1, <1>2, ChainOne
<1> HIDE DEF first, rest
<1>4. Chain(first \o rest, g) = Chain(first, g) \o Chain(rest, g)
  BY <1>1, ChainJoin
<1> QED
  BY <1>1, <1>3, <1>4 DEF rest

LEMMA FlattenHead ==
    ASSUME NEW S, NEW ss, ss \in Seq(Seq(S)), ss # <<>>
    PROVE  FlattenSeq(ss) = ss[1] \o FlattenSeq(Tail(ss))
<1> DEFINE same == [x \in Seq(S) |-> x]
<1>1. ss[1] \in Seq(S) /\ Tail(ss) \in Seq(Seq(S))
  OBVIOUS
<1>2. same \in Chainable(Seq(S), S) /\ same[ss[1]] = ss[1]
  BY <1>1 DEF Chainable
<1>3. ASSUME NEW t \in Seq(Seq(S)) PROVE Chain(t, same) = FlattenSeq(t)
  <2>1. t = [i \in DOMAIN t |-> t[i]] /\ \A i \in DOMAIN t : t[i] \in Seq(S)
    OBVIOUS
  <2>2. \A i \in DOMAIN t : same[t[i]] = t[i]
    BY <2>1
  <2> HIDE DEF same
  <2>3. [i \in DOMAIN t |-> same[t[i]]] = t
    BY <2>1, <2>2
  <2> QED
    BY <2>3 DEF Chain
<1> HIDE DEF same
<1>4. Chain(ss, same) = same[ss[1]] \o Chain(Tail(ss), same)
  <2> DEFINE R == Seq(S)
  <2>1. ss \in Seq(R) /\ ss # <<>> /\ same \in Chainable(R, S)
    BY <1>2
  <2> HIDE DEF R
  <2> QED
    BY <2>1, ChainHead
<1> QED
  BY <1>1, <1>2, <1>3, <1>4

LEMMA FlattenFirst ==
    ASSUME NEW S, NEW ss \in Seq(Seq(S)), ss # <<>>, \A i \in DOMAIN ss : i # 1 => ss[i] = <<>>
    PROVE  FlattenSeq(ss) = ss[1]
<1>1. FlattenSeq(ss) = ss[1] \o FlattenSeq(Tail(ss))
  BY FlattenHead
<1>2. /\ Tail(ss) \in Seq(Seq(S)) /\ ss[1] \in Seq(S)
      /\ \A i \in DOMAIN Tail(ss) : i + 1 \in DOMAIN ss /\ i + 1 # 1 /\ Tail(ss)[i] = ss[i + 1]
  OBVIOUS
<1> DEFINE rest == Tail(ss)
           none == [x \in {<<>>} |-> <<>>]
<1>3. rest \in Seq({<<>>})
  <2>1. rest \in Seq(Seq(S)) /\ \A i \in DOMAIN rest : rest[i] \in {<<>>}
    BY <1>2
  <2> HIDE DEF rest
  <2> QED
    BY <2>1, AllIn
<1>4. Chain(rest, none) = <<>>
  <2> HIDE DEF rest
  <2> QED
    BY <1>3, ChainNothing
<1>5. Chain(rest, none) = FlattenSeq(rest)
  <2> HIDE DEF rest
  <2>1. rest = [i \in DOMAIN rest |-> rest[i]] /\ \A i \in DOMAIN rest : rest[i] = <<>>
    BY <1>3
  <2>2. \A i \in DOMAIN rest : none[rest[i]] = rest[i]
    BY <2>1
  <2> HIDE DEF none
  <2>3. [i \in DOMAIN rest |-> none[rest[i]]] = rest
    BY <2>1, <2>2
  <2> QED
    BY <2>3 DEF Chain
<1> QED
  BY <1>1, <1>2, <1>4, <1>5, ConcatEmptySeq

-----------------------------------------------------------------------------
(* The places of a ring, which are its positions if it can be read. *)

Spots(tokens) == Only(tokens, LAMBDA t : t \in Places)
IfPlace == [t \in Tokens |-> IF t \in Places THEN <<t>> ELSE <<>>]
Sited == [p \in Places |-> <<At(p)>>]

LEMMA SpotsAre ==
    ASSUME NEW r \in Seq(Tokens)
    PROVE  Spots(r) = Chain(r, IfPlace) /\ Spots(r) \in Seq(Places)
<1>1. \A i \in DOMAIN r : r[i] \in Tokens
  OBVIOUS
<1>2. Spots(r) = FlattenSeq([i \in DOMAIN r |-> IF r[i] \in Places THEN <<r[i]>> ELSE <<>>])
  BY DEF Spots, Only, Mapped
<1>3. [i \in DOMAIN r |-> IF r[i] \in Places THEN <<r[i]>> ELSE <<>>] = [i \in DOMAIN r |-> IfPlace[r[i]]]
  BY <1>1 DEF IfPlace
<1>4. Spots(r) = Chain(r, IfPlace)
  BY <1>2, <1>3 DEF Chain
<1>5. IfPlace \in [Tokens -> Seq(Places)]
  BY DEF IfPlace
<1> QED
  BY <1>4, <1>5, ChainType

LEMMA SitedType == Sited \in [Places -> Seq(Positions)] /\ \A p \in Places : At(p) \in Positions
  BY DEF Sited, At, Positions

LEMMA TextIs ==
    ASSUME NEW r \in Seq(Tokens), ~Unreadable(r)
    PROVE  PositionsOf(r) = [i \in DOMAIN Spots(r) |-> Leaf(At(Spots(r)[i]))]
<1>1. \A i \in DOMAIN r : r[i] \in Tokens /\ r[i] # "bad"
  BY DEF Unreadable, ToSet
<1>2. \A i \in DOMAIN r : r[i] # "short" <=> r[i] \in Places
  BY <1>1, VectorsAssumption DEF Tokens
<1>3. ParseCoordinateText(r) = FlattenSeq([i \in DOMAIN r |-> IF r[i] # "short" THEN <<r[i]>> ELSE <<>>])
  BY DEF ParseCoordinateText, Only, Mapped
<1>4. Spots(r) = FlattenSeq([i \in DOMAIN r |-> IF r[i] \in Places THEN <<r[i]>> ELSE <<>>])
  BY DEF Spots, Only, Mapped
<1>5. [i \in DOMAIN r |-> IF r[i] # "short" THEN <<r[i]>> ELSE <<>>]
          = [i \in DOMAIN r |-> IF r[i] \in Places THEN <<r[i]>> ELSE <<>>]
  BY <1>2
<1>6. ParseCoordinateText(r) = Spots(r)
  BY <1>3, <1>4, <1>5
<1> HIDE DEF Spots
<1> QED
  BY <1>6 DEF PositionsOf, Mapped

LEMMA TextType ==
    ASSUME NEW r \in Seq(Tokens), ~Unreadable(r), NEW n \in Nat, n # 0
    PROVE  PositionsOf(r) \in Seq(TreesUpTo[n]) /\ Len(PositionsOf(r)) = Len(Spots(r))
<1>1. Spots(r) \in Seq(Places)
  BY SpotsAre
<1>2. Len(Spots(r)) \in Nat /\ DOMAIN Spots(r) = 1..Len(Spots(r)) /\ \A i \in DOMAIN Spots(r) : Spots(r)[i] \in Places
  BY <1>1
<1>3. \A i \in DOMAIN Spots(r) : Leaf(At(Spots(r)[i])) \in TreesUpTo[n]
  BY <1>2, SitedType, LeafIsATree
<1>4. PositionsOf(r) = [i \in DOMAIN Spots(r) |-> Leaf(At(Spots(r)[i]))]
  BY TextIs
<1>5. PositionsOf(r) \in [1..Len(Spots(r)) -> TreesUpTo[n]]
  BY <1>2, <1>3, <1>4
<1>6. PositionsOf(r) \in Seq(TreesUpTo[n])
  BY <1>2, <1>5, IsASeq
<1>7. DOMAIN PositionsOf(r) = 1..Len(Spots(r))
  BY <1>2, <1>4
<1> QED
  BY <1>2, <1>6, <1>7

-----------------------------------------------------------------------------
(* What is kept of the rings of an element. *)

Tags == Names \cup {"position"}
Rings == [kind: Tags, nth: Nat, around: SUBSET Tags, places: Seq(Places)]
Keep == [w \in Rings |-> Kept(w)]
Move(kind) == [w \in Rings |-> [w EXCEPT !.around = @ \cup {kind}]]
KeptIn(e) == Chain(WrittenIn[e], Keep)

LEMMA KeepType == Keep \in [Rings -> Seq(Places)]
<1>1. ASSUME NEW w \in Rings PROVE Kept(w) \in Seq(Places)
  <2>1. w.places \in Seq(Places)
    BY DEF Rings
  <2>2. w.places # <<>> => <<w.places[1]>> \in Seq(Places)
    BY <2>1
  <2>3. \/ Kept(w) = <<>>
        \/ Kept(w) = w.places
        \/ w.places # <<>> /\ Kept(w) = <<w.places[1]>>
    BY DEF Kept
  <2>4. <<>> \in Seq(Places)
    OBVIOUS
  <2> QED
    BY <2>1, <2>2, <2>3, <2>4
<1> QED
  BY <1>1 DEF Keep

LEMMA MoveType ==
    ASSUME NEW kind \in Tags
    PROVE  /\ Move(kind) \in [Rings -> Rings]
           /\ \A w \in Rings :
                  /\ Move(kind)[w].kind = w.kind /\ Move(kind)[w].nth = w.nth /\ Move(kind)[w].places = w.places
                  /\ Move(kind)[w].around = w.around \cup {kind}
<1>1. ASSUME NEW w \in Rings
      PROVE  /\ [w EXCEPT !.around = @ \cup {kind}] \in Rings
             /\ [w EXCEPT !.around = @ \cup {kind}].kind = w.kind
             /\ [w EXCEPT !.around = @ \cup {kind}].nth = w.nth
             /\ [w EXCEPT !.around = @ \cup {kind}].places = w.places
             /\ [w EXCEPT !.around = @ \cup {kind}].around = w.around \cup {kind}
  BY DEF Rings
<1> QED
  BY <1>1 DEF Move

LEMMA InsideIs ==
    ASSUME NEW kind \in Tags, NEW s \in Seq(Rings)
    PROVE  /\ Inside(kind, s) = [i \in DOMAIN s |-> Move(kind)[s[i]]]
           /\ Inside(kind, s) \in Seq(Rings)
<1>1. \A i \in DOMAIN s : s[i] \in Rings
  OBVIOUS
<1>2. Inside(kind, s) = [i \in DOMAIN s |-> Move(kind)[s[i]]]
  BY <1>1 DEF Inside, Mapped, Move
<1>3. Move(kind) \in [Rings -> Rings]
  BY MoveType
<1>4. [i \in DOMAIN s |-> Move(kind)[s[i]]] \in Seq(Rings)
  BY <1>3, EachType
<1> QED
  BY <1>2, <1>4

(* What is in a geometry that is not a collection is not of the layer.      *)
LEMMA InsideKeeps ==
    ASSUME NEW kind \in Tags, NEW s \in Seq(Rings)
    PROVE  Chain(Inside(kind, s), Keep) = IF kind = "MultiGeometry" THEN Chain(s, Keep) ELSE <<>>
<1> DEFINE moved == [w \in Rings |-> Keep[Move(kind)[w]]]
<1>1. Chain(Inside(kind, s), Keep) = Chain(s, moved)
  <2>1. \A i \in DOMAIN s : s[i] \in Rings
    OBVIOUS
  <2>2. Inside(kind, s) = [i \in DOMAIN s |-> Move(kind)[s[i]]]
    BY InsideIs
  <2>3. [i \in DOMAIN Inside(kind, s) |-> Keep[Inside(kind, s)[i]]] = [i \in DOMAIN s |-> moved[s[i]]]
    BY <2>1, <2>2
  <2> HIDE DEF moved
  <2> QED
    BY <2>3 DEF Chain
<1>2. ASSUME NEW w \in Rings PROVE moved[w] = Kept(Move(kind)[w])
  <2>1. Move(kind)[w] \in Rings
    BY MoveType
  <2> QED
    BY <2>1 DEF Keep
<1>3. CASE kind = "MultiGeometry"
  <2>1. ASSUME NEW w \in Rings PROVE moved[w] = Keep[w]
    <3> DEFINE m == Move(kind)[w]
    <3>1. m.kind = w.kind /\ m.nth = w.nth /\ m.places = w.places /\ m.around = w.around \cup {"MultiGeometry"}
      BY <1>3, MoveType
    <3>2. m.around \subseteq {"MultiGeometry"} <=> w.around \subseteq {"MultiGeometry"}
      BY <3>1
    <3> HIDE DEF m
    <3>3. Kept(m) = Kept(w)
      BY <3>1, <3>2 DEF Kept
    <3> QED
      BY <1>2, <3>3 DEF m, Keep
  <2> HIDE DEF moved
  <2>2. Chain(s, moved) = Chain(s, Keep)
    BY <2>1, ChainSame
  <2> QED
    BY <1>1, <1>3, <2>2
<1>4. CASE kind # "MultiGeometry"
  <2>1. ASSUME NEW w \in Rings PROVE moved[w] = <<>>
    <3> DEFINE m == Move(kind)[w]
    <3>1. ~(m.around \subseteq {"MultiGeometry"})
      BY <1>4, MoveType
    <3> HIDE DEF m
    <3>2. Kept(m) = <<>>
      BY <3>1 DEF Kept
    <3> QED
      BY <1>2, <3>2 DEF m
  <2> HIDE DEF moved
  <2>2. Chain(s, moved) = <<>>
    BY <2>1, ChainNothing
  <2> QED
    BY <1>1, <1>4, <2>2
<1> QED
  BY <1>3, <1>4

LEMMA ElementsAre ==
    ASSUME NEW e \in Elements
    PROVE  /\ Depth \in Nat /\ e.items \in Seq(Elements) /\ e.kind \in Tags /\ e.rings \in Seq(Seq(Tokens))
<1>1. Depth \in Nat
  BY VectorsAssumption
<1>2. <<>> \in Seq(Seq(Tokens)) /\ \A p : Leaf(p).rings = <<>>
  BY DEF Leaf
<1> QED
  BY <1>1, <1>2, TreeIs DEF Elements, Tags

LEMMA WrittenType ==
    ASSUME NEW e \in Elements
    PROVE  Written(e) \in Seq(Rings)
<1>1. e.kind \in Tags /\ e.rings \in Seq(Seq(Tokens))
  BY ElementsAre
<1>2. Len(e.rings) \in Nat /\ DOMAIN e.rings = 1..Len(e.rings) /\ \A i \in DOMAIN e.rings : e.rings[i] \in Seq(Tokens)
  BY <1>1
<1> DEFINE ring(i) == [kind |-> e.kind, nth |-> i, around |-> {}, places |-> Spots(e.rings[i])]
<1>3. ASSUME NEW i \in DOMAIN e.rings PROVE ring(i) \in Rings
  <2>1. Spots(e.rings[i]) \in Seq(Places) /\ i \in Nat
    BY <1>2, SpotsAre
  <2> HIDE DEF Spots
  <2> QED
    BY <1>1, <2>1 DEF Rings
<1>4. Written(e) = [i \in DOMAIN e.rings |-> ring(i)]
  BY DEF Written, Spots
<1>5. Written(e) \in [1..Len(e.rings) -> Rings]
  <2> HIDE DEF ring
  <2> QED
    BY <1>2, <1>3, <1>4
<1> QED
  BY <1>2, <1>5, IsASeq

LEMMA WrittenInType ==
    ASSUME NEW e \in Elements
    PROVE  WrittenIn[e] \in Seq(Rings)
<1> DEFINE Good == {v \in Elements : WrittenIn[v] \in Seq(Rings)}
<1>1. ASSUME NEW v \in Elements, \A i \in DOMAIN v.items : v.items[i] \in Good PROVE v \in Good
  <2> DEFINE below == [i \in DOMAIN v.items |-> Inside(v.kind, WrittenIn[v.items[i]])]
  <2>1. v.items \in Seq(Elements) /\ v.kind \in Tags
    BY ElementsAre
  <2>2. \A i \in DOMAIN v.items : Inside(v.kind, WrittenIn[v.items[i]]) \in Seq(Rings)
    BY <1>1, <2>1, InsideIs
  <2>3. below \in Seq(Seq(Rings))
    <3>1. Len(v.items) \in Nat /\ DOMAIN v.items = 1..Len(v.items)
      BY <2>1
    <3>2. below \in [1..Len(v.items) -> Seq(Rings)]
      BY <2>2, <3>1
    <3> QED
      BY <3>1, <3>2, IsASeq
  <2>4. WrittenIn[v] = Written(v) \o FlattenSeq(below)
    BY WrittenInIs
  <2> HIDE DEF below
  <2>5. FlattenSeq(below) \in Seq(Rings)
    BY <2>3, FlattenType
  <2>6. Written(v) \in Seq(Rings)
    BY WrittenType
  <2>7. Written(v) \o FlattenSeq(below) \in Seq(Rings)
    BY <2>5, <2>6, ConcatProperties
  <2> QED
    BY <2>4, <2>7
<1>2. Depth \in Nat
  BY VectorsAssumption
<1>3. \A v \in Elements : v \in Good
  <2>1. Good \in SUBSET TreesUpTo[Depth]
    BY DEF Elements
  <2> HIDE DEF Good
  <2> QED
    BY <1>1, <1>2, <2>1, AllTrees DEF Elements
<1> QED
  BY <1>3

LEMMA KeptInIs ==
    ASSUME NEW e \in Elements, NEW kept, kept = [c \in Elements |-> KeptIn(c)]
    PROVE  /\ KeptIn(e) \in Seq(Places) /\ Chain(Written(e), Keep) \in Seq(Places)
           /\ e.kind # "MultiGeometry" => KeptIn(e) = Chain(Written(e), Keep)
           /\ e.kind = "MultiGeometry" => KeptIn(e) = Chain(e.items, kept)
<1> DEFINE inner == [c \in Elements |-> Inside(e.kind, WrittenIn[c])]
           inside == [c \in Elements |-> Chain(inner[c], Keep)]
<1>1. e.items \in Seq(Elements) /\ e.kind \in Tags /\ \A i \in DOMAIN e.items : e.items[i] \in Elements
  BY ElementsAre
<1>2. Keep \in Chainable(Rings, Places)
  BY KeepType DEF Chainable
<1>3. inner \in Chainable(Elements, Rings) /\ inner \in [Elements -> Seq(Rings)]
  BY <1>1, WrittenInType, InsideIs DEF Chainable
<1>4. WrittenIn[e] = Written(e) \o Chain(e.items, inner)
  <2>1. WrittenIn[e] = Written(e) \o FlattenSeq([i \in DOMAIN e.items |-> Inside(e.kind, WrittenIn[e.items[i]])])
    BY WrittenInIs
  <2>2. [i \in DOMAIN e.items |-> Inside(e.kind, WrittenIn[e.items[i]])] = [i \in DOMAIN e.items |-> inner[e.items[i]]]
    BY <1>1
  <2> HIDE DEF inner
  <2> QED
    BY <2>1, <2>2 DEF Chain
<1>5. \A c \in Elements : inside[c] = IF e.kind = "MultiGeometry" THEN KeptIn(c) ELSE <<>>
  BY <1>1, WrittenInType, InsideKeeps DEF KeptIn
<1>6. \A c \in Elements : inside[c] = Chain(inner[c], Keep)
  OBVIOUS
<1> HIDE DEF inner, inside
<1>7. Written(e) \in Seq(Rings) /\ Chain(e.items, inner) \in Seq(Rings) /\ WrittenIn[e] \in Seq(Rings)
  BY <1>1, <1>3, WrittenType, ChainType, WrittenInType
<1>8. KeptIn(e) = Chain(Written(e), Keep) \o Chain(Chain(e.items, inner), Keep)
  BY <1>2, <1>4, <1>7, ChainJoin DEF KeptIn
<1>9. Chain(Chain(e.items, inner), Keep) = Chain(e.items, inside)
  BY <1>1, <1>2, <1>3, <1>6, ChainInChain
<1>10. KeptIn(e) \in Seq(Places) /\ Chain(Written(e), Keep) \in Seq(Places)
  BY <1>7, KeepType, ChainType DEF KeptIn
<1>11. CASE e.kind # "MultiGeometry"
  <2>1. \A c \in Elements : inside[c] = <<>>
    BY <1>5, <1>11
  <2>2. Chain(e.items, inside) = <<>>
    BY <1>1, <2>1, ChainNothing
  <2>3. Chain(Written(e), Keep) \o <<>> = Chain(Written(e), Keep)
    BY <1>10, ConcatEmptySeq
  <2> QED
    BY <1>8, <1>9, <1>10, <1>11, <2>2, <2>3
<1>12. CASE e.kind = "MultiGeometry"
  <2>1. \A c \in Elements : inside[c] = kept[c]
    BY <1>5, <1>12
  <2>2. Chain(e.items, inside) = Chain(e.items, kept)
    BY <1>1, <2>1, ChainSame
  <2>3. Chain(Written(e), Keep) = <<>>
    <3> DEFINE own == {w \in Rings : w.kind = "MultiGeometry"}
    <3>1. \A i \in DOMAIN Written(e) : Written(e)[i] \in own
      <4>1. \A i \in DOMAIN Written(e) : Written(e)[i] \in Rings
        BY <1>7
      <4>2. \A i \in DOMAIN Written(e) : Written(e)[i].kind = "MultiGeometry"
        BY <1>12 DEF Written
      <4> QED
        BY <4>1, <4>2
    <3>2. \A w \in own : Keep[w] = <<>>
      BY DEF Keep, Kept
    <3> HIDE DEF own
    <3>3. Written(e) \in Seq(own)
      BY <1>7, <3>1, AllIn
    <3> QED
      BY <3>2, <3>3, ChainNothing
  <2>4. <<>> \o Chain(e.items, kept) = Chain(e.items, kept)
    <3>1. kept \in [Elements -> Seq(Places)]
      BY WrittenInType, KeepType, ChainType DEF KeptIn
    <3>2. Chain(e.items, kept) \in Seq(Places)
      BY <1>1, <3>1, ChainType
    <3> QED
      BY <3>2, ConcatEmptySeq
  <2> QED
    BY <1>8, <1>9, <1>10, <1>12, <2>2, <2>3, <2>4
<1> QED
  BY <1>11, <1>12

-----------------------------------------------------------------------------
(* What a simple geometry is made of. *)

LEMMA NodesHavePairs ==
    ASSUME NEW v \in Trees, NEW kind, NEW items, kind # "position", v = Node(kind, items)
    PROVE  GeometryPairs[v] = Chain(items, GeometryPairs)
<1>1. v.kind = kind /\ v.items = items
  BY DEF Node, Element
<1> QED
  BY <1>1, GeometryPairsIs

LEMMA LeavesHavePairs ==
    ASSUME NEW p \in Positions
    PROVE  Leaf(p) \in Trees /\ GeometryPairs[Leaf(p)] = <<p>>
<1>1. Depth + 3 \in Nat /\ Depth + 3 # 0
  BY VectorsAssumption
<1>2. Leaf(p) \in Trees
  BY <1>1, LeafIsATree DEF Trees
<1> QED
  BY <1>2, GeometryPairsIs, LeafIs

(* A list of the positions of a ring.                                       *)
LEMMA RingsArePairs ==
    ASSUME NEW r \in Seq(Tokens), ~Unreadable(r), NEW n \in Nat, n # 0, n <= Depth + 2
    PROVE  /\ List(PositionsOf(r)) \in TreesUpTo[n + 1]
           /\ List(PositionsOf(r)) \in Trees
           /\ GeometryPairs[List(PositionsOf(r))] = Chain(Spots(r), Sited)
<1> DEFINE text == PositionsOf(r)
           spots == Spots(r)
<1>1. Depth + 3 \in Nat /\ n + 1 \in Nat /\ n + 1 <= Depth + 3 /\ "list" \in Names /\ "list" # "position"
  BY VectorsAssumption DEF Known
<1>2. text \in Seq(TreesUpTo[n])
  BY TextType
<1>3. List(text) \in TreesUpTo[n + 1]
  BY <1>1, <1>2, NodeIsATree DEF List
<1>4. List(text) \in Trees
  BY <1>1, <1>3, TreesGrow DEF Trees
<1>5. GeometryPairs[List(text)] = Chain(text, GeometryPairs)
  BY <1>1, <1>4, NodesHavePairs DEF List
<1>6. spots \in Seq(Places) /\ text = [i \in DOMAIN spots |-> Leaf(At(spots[i]))]
  BY SpotsAre, TextIs
<1> HIDE DEF text, spots
<1>7. \A i \in DOMAIN spots : spots[i] \in Places
  BY <1>6
<1>8. \A i \in DOMAIN spots : GeometryPairs[Leaf(At(spots[i]))] = Sited[spots[i]]
  <2>1. \A p \in Places : At(p) \in Positions /\ Sited[p] = <<At(p)>>
    BY SitedType DEF Sited
  <2> QED
    BY <1>7, <2>1, LeavesHavePairs
<1>9. [i \in DOMAIN text |-> GeometryPairs[text[i]]] = [i \in DOMAIN spots |-> Sited[spots[i]]]
  BY <1>6, <1>8
<1>10. Chain(text, GeometryPairs) = Chain(spots, Sited)
  BY <1>9 DEF Chain
<1> QED
  BY <1>3, <1>4, <1>5, <1>10 DEF text, spots

(* Of a point or a line only the first ring is kept.                        *)
LEMMA FirstRingIsKept ==
    ASSUME NEW e \in Elements, e.kind \in {"Point", "LineString"}, e.rings # <<>>
    PROVE  Chain(Written(e), Keep)
               = IF e.kind = "LineString" THEN Spots(e.rings[1])
                 ELSE IF Spots(e.rings[1]) # <<>> THEN <<Spots(e.rings[1])[1]>> ELSE <<>>
<1> DEFINE kept == [i \in DOMAIN e.rings |-> Keep[Written(e)[i]]]
<1>1. e.rings \in Seq(Seq(Tokens)) /\ 1 \in DOMAIN e.rings
  BY ElementsAre
<1>2. /\ Written(e) \in Seq(Rings) /\ DOMAIN Written(e) = DOMAIN e.rings
      /\ \A i \in DOMAIN e.rings : Written(e)[i] = [kind |-> e.kind, nth |-> i, around |-> {}, places |-> Spots(e.rings[i])]
  BY WrittenType DEF Written, Spots
<1>3. \A i \in DOMAIN e.rings : Written(e)[i] \in Rings
  BY <1>2
<1> HIDE DEF Spots
<1>4. \A i \in DOMAIN e.rings : kept[i] = Kept([kind |-> e.kind, nth |-> i, around |-> {}, places |-> Spots(e.rings[i])])
  BY <1>2, <1>3 DEF Keep
<1>5. \A i \in DOMAIN e.rings : i # 1 => kept[i] = <<>>
  BY <1>4 DEF Kept
<1>6. kept[1] = IF e.kind = "LineString" THEN Spots(e.rings[1])
                ELSE IF Spots(e.rings[1]) # <<>> THEN <<Spots(e.rings[1])[1]>> ELSE <<>>
  BY <1>1, <1>4 DEF Kept
<1>7. kept \in Seq(Seq(Places))
  <2>1. Len(e.rings) \in Nat /\ DOMAIN e.rings = 1..Len(e.rings)
    BY <1>1
  <2>2. kept \in [1..Len(e.rings) -> Seq(Places)]
    BY <1>3, <2>1, KeepType
  <2> QED
    BY <2>1, <2>2, IsASeq
<1>8. Chain(Written(e), Keep) = FlattenSeq(kept)
  BY <1>2 DEF Chain
<1>9. kept # <<>> /\ DOMAIN kept = DOMAIN e.rings
  BY <1>1
<1> HIDE DEF kept
<1>10. FlattenSeq(kept) = kept[1]
  BY <1>5, <1>7, <1>9, FlattenFirst
<1> QED
  BY <1>6, <1>8, <1>10

(* Of a polygon the first ring is kept, and the others of four or more.     *)
Readable == {r \in Seq(Tokens) : ~Unreadable(r)}
IfBig == [r \in Readable |-> IF Len(PositionsOf(r)) >= 4 THEN <<r>> ELSE <<>>]
BigSpots == [r \in Readable |-> IF Len(Spots(r)) >= 4 THEN Spots(r) ELSE <<>>]
RingPairs == [r \in Readable |-> Chain(Spots(r), Sited)]

LEMMA RingTypes ==
    /\ IfBig \in Chainable(Readable, Readable) /\ BigSpots \in Chainable(Readable, Places)
    /\ RingPairs \in Chainable(Readable, Positions) /\ Sited \in Chainable(Places, Positions)
<1>1. ASSUME NEW r \in Readable
      PROVE  r \in Seq(Tokens) /\ Spots(r) \in Seq(Places) /\ Chain(Spots(r), Sited) \in Seq(Positions)
  <2>1. r \in Seq(Tokens)
    BY DEF Readable
  <2> QED
    BY <2>1, SpotsAre, SitedType, ChainType
<1>2. <<>> \in Seq(Readable) /\ <<>> \in Seq(Places) /\ \A r \in Readable : <<r>> \in Seq(Readable)
  OBVIOUS
<1> HIDE DEF Spots, Readable
<1>3. IfBig \in [Readable -> Seq(Readable)]
  BY <1>2 DEF IfBig
<1>4. BigSpots \in [Readable -> Seq(Places)]
  BY <1>1, <1>2 DEF BigSpots
<1>5. RingPairs \in [Readable -> Seq(Positions)]
  BY <1>1 DEF RingPairs
<1> QED
  BY <1>3, <1>4, <1>5, SitedType DEF Chainable

LEMMA BigRingsAreKept ==
    ASSUME NEW e \in Elements, e.kind = "Polygon", e.rings \in Seq(Readable), e.rings # <<>>
    PROVE  Chain(Written(e), Keep) = Spots(e.rings[1]) \o Chain(Tail(e.rings), BigSpots)
<1> DEFINE kept == [i \in DOMAIN e.rings |-> Keep[Written(e)[i]]]
           rest == Tail(e.rings)
<1>1. /\ Len(e.rings) \in Nat /\ DOMAIN e.rings = 1..Len(e.rings) /\ 1 \in DOMAIN e.rings
      /\ rest \in Seq(Readable) /\ DOMAIN rest = 1..(Len(e.rings) - 1)
      /\ \A i \in DOMAIN rest : i + 1 \in DOMAIN e.rings /\ i + 1 # 1 /\ rest[i] = e.rings[i + 1] /\ rest[i] \in Readable
  OBVIOUS
<1>2. /\ Written(e) \in Seq(Rings) /\ DOMAIN Written(e) = DOMAIN e.rings
      /\ \A i \in DOMAIN e.rings : Written(e)[i] = [kind |-> "Polygon", nth |-> i, around |-> {}, places |-> Spots(e.rings[i])]
  BY WrittenType DEF Written, Spots
<1>3. \A i \in DOMAIN e.rings : Written(e)[i] \in Rings
  BY <1>2
<1> HIDE DEF Spots
<1>4. \A i \in DOMAIN e.rings : kept[i] = Kept([kind |-> "Polygon", nth |-> i, around |-> {}, places |-> Spots(e.rings[i])])
  BY <1>2, <1>3 DEF Keep
<1>5. \A i \in DOMAIN e.rings : kept[i] = IF i = 1 \/ Len(Spots(e.rings[i])) >= 4 THEN Spots(e.rings[i]) ELSE <<>>
  BY <1>4 DEF Kept
<1>6. kept \in [1..Len(e.rings) -> Seq(Places)]
  BY <1>1, <1>3, KeepType
<1>7. kept \in Seq(Seq(Places)) /\ Len(kept) = Len(e.rings) /\ kept # <<>>
  BY <1>1, <1>6, IsASeq
<1>8. Chain(Written(e), Keep) = FlattenSeq(kept)
  BY <1>2 DEF Chain
<1> HIDE DEF kept
<1>9. FlattenSeq(kept) = kept[1] \o FlattenSeq(Tail(kept))
  BY <1>7, FlattenHead
<1>10. Tail(kept) = [i \in DOMAIN rest |-> BigSpots[rest[i]]]
  <2>1. /\ Tail(kept) \in Seq(Seq(Places)) /\ Len(Tail(kept)) = Len(e.rings) - 1
        /\ \A i \in 1..(Len(e.rings) - 1) : Tail(kept)[i] = kept[i + 1]
    BY <1>7
  <2>2. Tail(kept) = [i \in 1..(Len(e.rings) - 1) |-> Tail(kept)[i]]
    <3> DEFINE tail == Tail(kept)
    <3>1. tail \in Seq(Seq(Places)) /\ Len(tail) = Len(e.rings) - 1
      BY <2>1
    <3> HIDE DEF tail
    <3>2. tail = [i \in 1..Len(tail) |-> tail[i]]
      BY <3>1
    <3> QED
      BY <3>1, <3>2 DEF tail
  <2>3. \A i \in DOMAIN rest : kept[i + 1] = BigSpots[rest[i]]
    BY <1>1, <1>5 DEF BigSpots
  <2> HIDE DEF rest
  <2> QED
    BY <1>1, <2>1, <2>2, <2>3
<1>11. FlattenSeq(Tail(kept)) = Chain(rest, BigSpots)
  BY <1>10 DEF Chain
<1> QED
  BY <1>1, <1>5, <1>8, <1>9, <1>11

(* The rings of the polygon that is made of it.                             *)
LEMMA HolesAre ==
    ASSUME NEW s \in Seq(Readable)
    PROVE  /\ Only(s, LAMBDA r : Len(PositionsOf(r)) >= 4) = Chain(s, IfBig)
           /\ Chain(s, IfBig) \in Seq(Readable)
           /\ Chain(Chain(s, IfBig), RingPairs) = Chain(Chain(s, BigSpots), Sited)
<1>1. \A i \in DOMAIN s : s[i] \in Readable
  OBVIOUS
<1>2. Only(s, LAMBDA r : Len(PositionsOf(r)) >= 4)
          = FlattenSeq([i \in DOMAIN s |-> IF Len(PositionsOf(s[i])) >= 4 THEN <<s[i]>> ELSE <<>>])
  BY DEF Only, Mapped
<1>3. [i \in DOMAIN s |-> IF Len(PositionsOf(s[i])) >= 4 THEN <<s[i]>> ELSE <<>>] = [i \in DOMAIN s |-> IfBig[s[i]]]
  BY <1>1 DEF IfBig
<1>4. Only(s, LAMBDA r : Len(PositionsOf(r)) >= 4) = Chain(s, IfBig)
  BY <1>2, <1>3 DEF Chain
<1>5. Chain(s, IfBig) \in Seq(Readable)
  BY RingTypes, ChainType DEF Chainable
<1> DEFINE both == [r \in Readable |-> Chain(IfBig[r], RingPairs)]
<1>6. ASSUME NEW r \in Readable PROVE both[r] = Chain(BigSpots[r], Sited)
  <2>1. r \in Seq(Tokens) /\ ~Unreadable(r) /\ 1 \in Nat
    BY DEF Readable
  <2>2. Len(PositionsOf(r)) = Len(Spots(r))
    BY <2>1, TextType
  <2>3. CASE Len(Spots(r)) >= 4
    <3>1. IfBig[r] = <<r>> /\ BigSpots[r] = Spots(r)
      BY <2>2, <2>3 DEF IfBig, BigSpots
    <3>2. RingPairs \in [Readable -> Seq(Positions)]
      BY RingTypes DEF Chainable
    <3>3. Chain(<<r>>, RingPairs) = RingPairs[r]
      BY <3>2, ChainOne
    <3> QED
      BY <3>1, <3>3 DEF RingPairs
  <2>4. CASE ~(Len(Spots(r)) >= 4)
    <3>1. IfBig[r] = <<>> /\ BigSpots[r] = <<>>
      BY <2>2, <2>4 DEF IfBig, BigSpots
    <3> QED
      BY <3>1, ChainEmpty
  <2> QED
    BY <2>3, <2>4
<1>7. \A r \in Readable : both[r] = Chain(IfBig[r], RingPairs)
  OBVIOUS
<1> HIDE DEF both
<1>8. Chain(Chain(s, IfBig), RingPairs) = Chain(s, both)
  BY <1>7, RingTypes, ChainInChain
<1>9. Chain(Chain(s, BigSpots), Sited) = Chain(s, both)
  BY <1>6, RingTypes, ChainInChain
<1> QED
  BY <1>4, <1>5, <1>8, <1>9

(* A geometry that is made of an element: raised, or what can be in a       *)
(* collection of its kind.                                                  *)
Made(n) == {v \in TreesUpTo[n] :
               /\ v.kind # "position" /\ v = Node(v.kind, v.items)
               /\ v.kind \in DOMAIN Multiple => n >= 2 /\ \E x \in TreesUpTo[n - 1] : v.items = <<x>>}

LEMMA GeometryIsMade ==
    ASSUME NEW n \in Nat, n # 0, NEW x \in TreesUpTo[n], NEW kind \in Names, kind # "position"
    PROVE  /\ Geometry(kind, x) \in Made(n + 1) /\ Geometry(kind, x).kind = kind
           /\ n + 1 <= Depth + 3 => GeometryPairs[Geometry(kind, x)] = GeometryPairs[x]
<1> DEFINE v == Geometry(kind, x)
           items == <<x>>
<1>1. items \in Seq(TreesUpTo[n]) /\ n + 1 \in Nat /\ (n + 1) - 1 = n /\ n + 1 >= 2
  <2>1. n + 1 \in Nat /\ (n + 1) - 1 = n /\ n + 1 >= 2
    OBVIOUS
  <2> DEFINE S == TreesUpTo[n]
  <2>2. x \in S
    OBVIOUS
  <2> HIDE DEF S
  <2>3. items \in Seq(S)
    BY <2>2
  <2> QED
    BY <2>1, <2>3 DEF S
<1>2. v = Node(kind, items) /\ v.kind = kind /\ v.items = items
  BY DEF Geometry, Node, Element
<1>3. v \in TreesUpTo[n + 1]
  BY <1>1, <1>2, NodeIsATree
<1>4. v \in Made(n + 1)
  BY <1>1, <1>2, <1>3 DEF Made
<1>5. ASSUME n + 1 <= Depth + 3 PROVE GeometryPairs[v] = GeometryPairs[x]
  <2>1. Depth + 3 \in Nat
    BY VectorsAssumption
  <2>2. v \in Trees /\ x \in Trees
    BY <1>3, <1>5, <2>1, TreesGrow DEF Trees
  <2>3. GeometryPairs[v] = Chain(items, GeometryPairs)
    BY <1>2, <2>2, NodesHavePairs
  <2> QED
    BY <2>2, <2>3, GeometryPairsType, ChainOne
<1> QED
  BY <1>2, <1>4, <1>5

LEMMA RaisedIsMade == ASSUME NEW n \in Nat, n # 0 PROVE Raised \in Made(n) /\ Raised.kind = "raised"
<1>1. <<>> \in Seq(TreesUpTo[n - 1]) /\ n - 1 \in Nat /\ (n - 1) + 1 = n /\ "raised" \in Names
  BY VectorsAssumption DEF Known
<1>2. Raised \in TreesUpTo[n]
  BY <1>1, NodeIsATree DEF Raised
<1>3. Raised.kind = "raised" /\ Raised = Node("raised", Raised.items)
  BY DEF Raised, Node, Element
<1>4. "raised" \notin DOMAIN Multiple
  BY DEF Multiple
<1> QED
  BY <1>2, <1>3, <1>4 DEF Made

LEMMA PolygonIs ==
    ASSUME NEW e \in Elements, e.kind = "Polygon"
    PROVE  /\ ParsePolygon(e.rings) \in Made(4)
           /\ ParsePolygon(e.rings).kind # "raised" =>
                  /\ ParsePolygon(e.rings).kind = "Polygon"
                  /\ Depth # 0 => GeometryPairs[ParsePolygon(e.rings)] = Chain(Chain(Written(e), Keep), Sited)
<1> DEFINE rings == e.rings
           holes == Chain(Tail(rings), IfBig)
           all == <<rings[1]>> \o holes
           inner == [i \in DOMAIN all |-> List(PositionsOf(all[i]))]
<1>1. rings \in Seq(Seq(Tokens)) /\ Depth \in Nat
  BY ElementsAre
<1>2. CASE rings = <<>> \/ Len(PositionsOf(rings[1])) < 4 \/ \E i \in DOMAIN rings : Unreadable(rings[i])
  <2>1. ParsePolygon(rings) = Raised
    BY <1>2 DEF ParsePolygon
  <2> QED
    BY <2>1, RaisedIsMade
<1>3. CASE ~(rings = <<>> \/ Len(PositionsOf(rings[1])) < 4 \/ \E i \in DOMAIN rings : Unreadable(rings[i]))
  <2>1. rings \in Seq(Readable) /\ rings # <<>>
    <3>1. \A i \in DOMAIN rings : rings[i] \in Readable
      BY <1>1, <1>3 DEF Readable
    <3> HIDE DEF rings
    <3> QED
      BY <1>1, <1>3, <3>1, AllIn
  <2>2. rings[1] \in Readable /\ Tail(rings) \in Seq(Readable)
    <3> HIDE DEF rings
    <3> QED
      BY <2>1
  <2>3. holes \in Seq(Readable) /\ Only(Tail(rings), LAMBDA r : Len(PositionsOf(r)) >= 4) = holes
    BY <2>2, HolesAre
  <2>4. all \in Seq(Readable)
    BY <2>2, <2>3
  <2>5. ParsePolygon(rings) = Geometry("Polygon", List(inner))
    BY <1>3, <2>3 DEF ParsePolygon, Mapped
  <2>6. \A r \in Readable : r \in Seq(Tokens) /\ ~Unreadable(r) /\ 1 \in Nat /\ 1 <= Depth + 2 /\ 1 + 1 = 2
    BY <1>1 DEF Readable
  <2>7. \A r \in Readable : /\ List(PositionsOf(r)) \in TreesUpTo[2]
                            /\ GeometryPairs[List(PositionsOf(r))] = RingPairs[r]
    BY <2>6, RingsArePairs DEF RingPairs
  <2> HIDE DEF all
  <2>8. \A i \in DOMAIN all : all[i] \in Readable
    BY <2>4
  <2>9. inner \in Seq(TreesUpTo[2])
    <3>1. Len(all) \in Nat /\ DOMAIN all = 1..Len(all)
      BY <2>4
    <3>2. inner \in [1..Len(all) -> TreesUpTo[2]]
      BY <2>7, <2>8, <3>1
    <3> QED
      BY <3>1, <3>2, IsASeq
  <2>10. [i \in DOMAIN inner |-> GeometryPairs[inner[i]]] = [i \in DOMAIN all |-> RingPairs[all[i]]]
    BY <2>7, <2>8
  <2>11. Chain(inner, GeometryPairs) = Chain(all, RingPairs)
    BY <2>10 DEF Chain
  <2> HIDE DEF inner
  <2>12. List(inner) \in TreesUpTo[3] /\ "list" # "position" /\ "Polygon" # "position" /\ "Polygon" \in Names
    <3>1. "list" \in Names /\ "Polygon" \in Names /\ 2 \in Nat /\ 2 + 1 = 3
      BY VectorsAssumption DEF Known
    <3> QED
      BY <2>9, <3>1, NodeIsATree DEF List
  <2>13. /\ Geometry("Polygon", List(inner)) \in Made(4) /\ Geometry("Polygon", List(inner)).kind = "Polygon"
         /\ 4 <= Depth + 3 => GeometryPairs[Geometry("Polygon", List(inner))] = GeometryPairs[List(inner)]
    <3>1. 3 \in Nat /\ 3 # 0 /\ 3 + 1 = 4
      OBVIOUS
    <3> QED
      BY <2>12, <3>1, GeometryIsMade
  <2>14. ASSUME Depth # 0 PROVE GeometryPairs[List(inner)] = Chain(Chain(Written(e), Keep), Sited)
    <3>1. List(inner) \in Trees
      <4>1. 3 \in Nat /\ Depth + 3 \in Nat /\ 3 <= Depth + 3
        BY <1>1
      <4> QED
        BY <2>12, <4>1, TreesGrow DEF Trees
    <3>2. GeometryPairs[List(inner)] = Chain(inner, GeometryPairs)
      BY <2>12, <3>1, NodesHavePairs DEF List
    <3>3. Chain(all, RingPairs) = RingPairs[rings[1]] \o Chain(holes, RingPairs)
      <4> DEFINE one == <<rings[1]>>
      <4>1. one \in Seq(Readable) /\ all = one \o holes
        BY <2>2 DEF all
      <4>2. RingPairs \in [Readable -> Seq(Positions)]
        BY RingTypes DEF Chainable
      <4>3. Chain(one, RingPairs) = RingPairs[rings[1]]
        BY <2>2, <4>2, ChainOne
      <4> HIDE DEF one, rings, holes
      <4>4. Chain(one \o holes, RingPairs) = Chain(one, RingPairs) \o Chain(holes, RingPairs)
        BY <2>3, <4>1, RingTypes, ChainJoin
      <4> QED
        BY <4>1, <4>3, <4>4
    <3>4. Chain(holes, RingPairs) = Chain(Chain(Tail(rings), BigSpots), Sited)
      BY <2>2, HolesAre
    <3>5. Chain(Written(e), Keep) = Spots(rings[1]) \o Chain(Tail(rings), BigSpots)
      BY <2>1, BigRingsAreKept
    <3>6. Spots(rings[1]) \in Seq(Places) /\ Chain(Tail(rings), BigSpots) \in Seq(Places)
      <4>1. BigSpots \in [Readable -> Seq(Places)]
        BY RingTypes DEF Chainable
      <4>2. Chain(Tail(rings), BigSpots) \in Seq(Places)
        BY <2>2, <4>1, ChainType
      <4> QED
        BY <2>2, <4>2, SpotsAre DEF Readable
    <3>7. Chain(Spots(rings[1]) \o Chain(Tail(rings), BigSpots), Sited)
              = Chain(Spots(rings[1]), Sited) \o Chain(Chain(Tail(rings), BigSpots), Sited)
      <4> DEFINE s == Spots(rings[1])
                 t == Chain(Tail(rings), BigSpots)
      <4>1. s \in Seq(Places) /\ t \in Seq(Places) /\ Sited \in Chainable(Places, Positions)
        BY <3>6, RingTypes
      <4> HIDE DEF s, t
      <4>2. Chain(s \o t, Sited) = Chain(s, Sited) \o Chain(t, Sited)
        BY <4>1, ChainJoin
      <4> QED
        BY <4>2 DEF s, t
    <3>8. RingPairs[rings[1]] = Chain(Spots(rings[1]), Sited)
      BY <2>2 DEF RingPairs
    <3> QED
      BY <2>11, <3>2, <3>3, <3>4, <3>5, <3>7, <3>8
  <2>15. Depth # 0 => 4 <= Depth + 3
    BY <1>1
  <2> QED
    BY <2>5, <2>13, <2>14, <2>15
<1> QED
  BY <1>2, <1>3

LEMMA MadeGrows ==
    ASSUME NEW m \in Nat, NEW n \in Nat, m <= n PROVE Made(m) \subseteq Made(n)
<1> SUFFICES ASSUME NEW v \in Made(m) PROVE v \in Made(n)
  OBVIOUS
<1>1. v \in TreesUpTo[m] /\ v.kind # "position" /\ v = Node(v.kind, v.items)
  BY DEF Made
<1>2. v \in TreesUpTo[n]
  BY <1>1, TreesGrow
<1>3. ASSUME v.kind \in DOMAIN Multiple PROVE n >= 2 /\ \E x \in TreesUpTo[n - 1] : v.items = <<x>>
  <2>1. PICK x \in TreesUpTo[m - 1] : m >= 2 /\ v.items = <<x>>
    BY <1>3 DEF Made
  <2>2. m - 1 \in Nat /\ n - 1 \in Nat /\ m - 1 <= n - 1 /\ n >= 2
    BY <2>1
  <2>3. x \in TreesUpTo[n - 1]
    BY <2>2, TreesGrow
  <2> QED
    BY <2>1, <2>2, <2>3
<1> QED
  BY <1>1, <1>2, <1>3 DEF Made

LEMMA SimpleIs ==
    ASSUME NEW e \in Elements
    PROVE  /\ ParseSimple(e) \in Made(4)
           /\ ParseSimple(e).kind # "raised" =>
                  /\ e.kind \in {"Point", "LineString", "Polygon"}
                  /\ GeometryPairs[ParseSimple(e)] = Chain(Chain(Written(e), Keep), Sited)
<1> DEFINE first == IF e.rings = <<>> THEN <<>> ELSE e.rings[1]
           text == IF Unreadable(first) THEN <<>> ELSE PositionsOf(first)
           spots == Spots(first)
<1>1. e.rings \in Seq(Seq(Tokens)) /\ Depth \in Nat /\ Depth # 0
  <2>1. Depth \in Nat
    BY ElementsAre
  <2>2. Depth # 0
    BY <2>1, TreeIs DEF Elements
  <2> QED
    BY <2>1, <2>2, ElementsAre
<1>2. ParseSimple(e) = CASE e.kind = "Point" -> IF text = <<>> THEN Raised ELSE Geometry("Point", text[1])
                         [] e.kind = "LineString" -> IF Len(text) < 2 THEN Raised ELSE Geometry("LineString", List(text))
                         [] e.kind = "Polygon" -> ParsePolygon(e.rings)
                         [] OTHER -> Raised
  BY DEF ParseSimple
<1>3. Raised \in Made(4) /\ Raised.kind = "raised"
  BY RaisedIsMade
<1>4. CASE e.kind = "Polygon"
  <2>1. ParseSimple(e) = ParsePolygon(e.rings)
    BY <1>2, <1>4
  <2> QED
    BY <1>1, <1>4, <2>1, PolygonIs
<1>5. CASE ParseSimple(e) = Raised
  BY <1>3, <1>5
<1>6. CASE e.kind \in {"Point", "LineString"} /\ text # <<>>
  <2>1. ~Unreadable(first) /\ text = PositionsOf(first)
    BY <1>6
  <2>2. first \in Seq(Tokens)
    BY <1>1
  <2> HIDE DEF first
  <2>3. 1 \in Nat /\ 1 <= Depth + 2 /\ 2 <= Depth + 3
    BY <1>1
  <2>4. text \in Seq(TreesUpTo[1]) /\ Len(text) = Len(spots) /\ spots \in Seq(Places)
    BY <2>1, <2>2, <2>3, TextType, SpotsAre
  <2>5. text = [i \in DOMAIN spots |-> Leaf(At(spots[i]))]
    BY <2>1, <2>2, TextIs
  <2>6. e.rings # <<>> /\ first = e.rings[1]
    <3>1. spots = Chain(first, IfPlace)
      BY <2>2, SpotsAre
    <3>2. first # <<>>
      <4>1. ASSUME first = <<>> PROVE FALSE
        <5>1. spots = <<>>
          BY <3>1, <4>1, ChainEmpty
        <5> HIDE DEF text, spots
        <5>2. text = <<>>
          BY <2>4, <5>1
        <5> QED
          BY <1>6, <5>2
      <4> QED
        BY <4>1
    <3> QED
      BY <3>2 DEF first
  <2>7. Chain(Written(e), Keep) = IF e.kind = "LineString" THEN spots ELSE IF spots # <<>> THEN <<spots[1]>> ELSE <<>>
    BY <1>6, <2>6, FirstRingIsKept
  <2>8. spots # <<>> /\ spots[1] \in Places /\ 1 \in DOMAIN spots
    <3> HIDE DEF spots
    <3>1. text # <<>>
      BY <1>6
    <3> HIDE DEF text
    <3>2. spots # <<>>
      BY <2>5, <3>1
    <3> QED
      BY <2>4, <3>2
  <2>9. CASE e.kind = "Point"
    <3>1. ParseSimple(e) = Geometry("Point", text[1])
      BY <1>2, <1>6, <2>9
    <3>2. text[1] = Leaf(At(spots[1])) /\ At(spots[1]) \in Positions
      <4> HIDE DEF text, spots
      <4> QED
        BY <2>5, <2>8, SitedType
    <3>3. Leaf(At(spots[1])) \in TreesUpTo[1] /\ "Point" \in Names /\ "Point" # "position"
      BY <2>3, <3>2, LeafIsATree, VectorsAssumption DEF Known
    <3>4. /\ Geometry("Point", Leaf(At(spots[1]))) \in Made(2)
          /\ GeometryPairs[Geometry("Point", Leaf(At(spots[1])))] = GeometryPairs[Leaf(At(spots[1]))]
      <4>1. 1 + 1 = 2 /\ 1 + 1 <= Depth + 3
        BY <2>3
      <4> QED
        BY <2>3, <3>3, <4>1, GeometryIsMade
    <3>5. Chain(<<spots[1]>>, Sited) = <<At(spots[1])>>
      <4>1. Chain(<<spots[1]>>, Sited) = Sited[spots[1]]
        BY <2>8, SitedType, ChainOne
      <4> QED
        BY <2>8, <4>1 DEF Sited
    <3>6. GeometryPairs[Leaf(At(spots[1]))] = <<At(spots[1])>>
      BY <3>2, LeavesHavePairs
    <3>7. Made(2) \subseteq Made(4)
      BY MadeGrows
    <3> QED
      BY <2>7, <2>8, <2>9, <3>1, <3>2, <3>4, <3>5, <3>6, <3>7
  <2>10. CASE e.kind = "LineString" /\ ~(Len(text) < 2)
    <3>1. ParseSimple(e) = Geometry("LineString", List(text))
      BY <1>2, <2>10
    <3>2. List(text) \in TreesUpTo[2] /\ GeometryPairs[List(text)] = Chain(spots, Sited)
      <4>1. 1 + 1 = 2 /\ 1 # 0
        OBVIOUS
      <4> QED
        BY <2>1, <2>2, <2>3, <4>1, RingsArePairs
    <3>3. /\ Geometry("LineString", List(text)) \in Made(3)
          /\ GeometryPairs[Geometry("LineString", List(text))] = GeometryPairs[List(text)]
      <4>1. 2 \in Nat /\ 2 # 0 /\ 2 + 1 = 3 /\ 2 + 1 <= Depth + 3 /\ "LineString" \in Names /\ "LineString" # "position"
        BY <1>1, VectorsAssumption DEF Known
      <4> QED
        BY <3>2, <4>1, GeometryIsMade
    <3>4. Made(3) \subseteq Made(4)
      BY MadeGrows
    <3> QED
      BY <2>7, <2>10, <3>1, <3>2, <3>3, <3>4
  <2>11. CASE e.kind = "LineString" /\ Len(text) < 2
    <3>1. ParseSimple(e) = Raised
      BY <1>2, <2>11
    <3> QED
      BY <1>5, <3>1
  <2> QED
    BY <1>6, <2>9, <2>10, <2>11
<1>7. CASE e.kind \in {"Point", "LineString"} /\ text = <<>>
  <2>1. Len(text) < 2
    <3> HIDE DEF text
    <3> QED
      BY <1>7
  <2>2. ParseSimple(e) = Raised
    BY <1>2, <1>7, <2>1
  <2> QED
    BY <1>5, <2>2
<1>8. CASE e.kind \notin {"Point", "LineString", "Polygon"}
  BY <1>2, <1>5, <1>8
<1> QED
  BY <1>4, <1>6, <1>7, <1>8

-----------------------------------------------------------------------------
(* Geometries that are put together. *)

LEMMA OneKind ==
    ASSUME NEW S, NEW gs \in Seq(S), gs # <<>>, Cardinality(Kinds(gs)) = 1
    PROVE  \A i \in DOMAIN gs : gs[i].kind = gs[1].kind
<1> DEFINE kind == [i \in DOMAIN gs |-> gs[i].kind]
<1>1. Len(gs) \in Nat /\ DOMAIN gs = 1..Len(gs) /\ 1 \in DOMAIN gs
  OBVIOUS
<1>2. IsFiniteSet(DOMAIN gs)
  BY <1>1, FS_Interval
<1>3. kind \in Surjection(DOMAIN gs, Kinds(gs))
  BY DEF Surjection, Kinds
<1>4. IsFiniteSet(Kinds(gs))
  BY <1>2, <1>3, FS_Surjection
<1>5. PICK k : Kinds(gs) = {k}
  BY <1>4, FS_Singleton
<1>6. \A i \in DOMAIN gs : gs[i].kind \in {k}
  BY <1>5 DEF Kinds
<1> QED
  BY <1>1, <1>6

LEMMA CombinedIs ==
    ASSUME NEW m \in Nat, m # 0, m <= Depth + 2, NEW gs \in Seq(Made(m))
    PROVE  /\ Combined(gs) \in Made(m + 1)
           /\ Combined(gs).kind # "raised" =>
                  /\ \A i \in DOMAIN gs : gs[i].kind # "raised"
                  /\ GeometryPairs[Combined(gs)] = Chain(gs, GeometryPairs)
<1>1. m + 1 \in Nat /\ m + 1 # 0 /\ m - 1 \in Nat /\ (m - 1) + 1 = m /\ Depth + 3 \in Nat /\ m + 1 <= Depth + 3
  BY VectorsAssumption
<1>2. \A i \in DOMAIN gs : gs[i] \in Made(m) /\ gs[i] \in TreesUpTo[m] /\ gs[i] \in Trees
  <2>1. \A i \in DOMAIN gs : gs[i] \in Made(m)
    OBVIOUS
  <2>2. Made(m) \subseteq TreesUpTo[m]
    BY DEF Made
  <2>3. TreesUpTo[m] \subseteq Trees
    BY <1>1, TreesGrow DEF Trees
  <2> QED
    BY <2>1, <2>2, <2>3
<1>3. gs \in Seq(TreesUpTo[m])
  BY <1>2, AllIn
<1>4. CASE gs = <<>> \/ "raised" \in Kinds(gs)
  <2>1. Combined(gs) = Raised
    BY <1>4 DEF Combined
  <2> QED
    BY <1>1, <2>1, RaisedIsMade
<1>5. CASE ~(gs = <<>> \/ "raised" \in Kinds(gs))
  <2>1. \A i \in DOMAIN gs : gs[i].kind # "raised"
    BY <1>5 DEF Kinds
  <2>2. CASE Cardinality(Kinds(gs)) = 1 /\ gs[1].kind \in DOMAIN Multiple
    <3> DEFINE parts == [i \in DOMAIN gs |-> gs[i].items[1]]
               kind == Multiple[gs[1].kind]
    <3>1. Combined(gs) = Geometry(kind, List(parts))
      BY <1>5, <2>2 DEF Combined, Mapped
    <3>2. \A i \in DOMAIN gs : gs[i].kind = gs[1].kind
      BY <1>5, <2>2, OneKind
    <3>3. ASSUME NEW i \in DOMAIN gs
          PROVE  /\ parts[i] \in TreesUpTo[m - 1] /\ parts[i] \in Trees
                 /\ GeometryPairs[gs[i]] = GeometryPairs[parts[i]]
      <4>1. gs[i].kind \in DOMAIN Multiple /\ gs[i] \in Made(m)
        BY <1>2, <2>2, <3>2
      <4>2. PICK x \in TreesUpTo[m - 1] : gs[i].items = <<x>>
        BY <4>1 DEF Made
      <4>3. parts[i] = x
        BY <4>2
      <4>4. x \in Trees
        BY <1>1, TreesGrow DEF Trees
      <4>5. gs[i].kind # "position" /\ gs[i] = Node(gs[i].kind, <<x>>)
        BY <4>1, <4>2 DEF Made
      <4>6. GeometryPairs[gs[i]] = Chain(<<x>>, GeometryPairs)
        BY <1>2, <4>5, NodesHavePairs
      <4>7. Chain(<<x>>, GeometryPairs) = GeometryPairs[x]
        BY <4>4, GeometryPairsType, ChainOne
      <4> QED
        BY <4>3, <4>4, <4>6, <4>7
    <3>4. parts \in Seq(TreesUpTo[m - 1])
      <4>1. Len(gs) \in Nat /\ DOMAIN gs = 1..Len(gs)
        OBVIOUS
      <4>2. parts \in [1..Len(gs) -> TreesUpTo[m - 1]]
        BY <3>3, <4>1
      <4> QED
        BY <4>1, <4>2, IsASeq
    <3>5. [i \in DOMAIN parts |-> GeometryPairs[parts[i]]] = [i \in DOMAIN gs |-> GeometryPairs[gs[i]]]
      BY <3>3
    <3>6. Chain(parts, GeometryPairs) = Chain(gs, GeometryPairs)
      BY <3>5 DEF Chain
    <3>7. kind \in {"MultiPoint", "MultiLineString", "MultiPolygon"}
      BY <2>2 DEF Multiple
    <3>8. kind \in Names /\ kind # "position" /\ "list" \in Names /\ "list" # "position" /\ kind # "raised"
      BY <3>7, VectorsAssumption DEF Known
    <3> HIDE DEF parts, kind
    <3>9. List(parts) \in TreesUpTo[m]
      <4>1. Node("list", parts) \in TreesUpTo[(m - 1) + 1]
        BY <1>1, <3>4, <3>8, NodeIsATree
      <4> QED
        BY <1>1, <4>1 DEF List
    <3>10. List(parts) \in Trees
      BY <1>1, <3>9, TreesGrow DEF Trees
    <3>11. GeometryPairs[List(parts)] = Chain(parts, GeometryPairs)
      BY <3>8, <3>10, NodesHavePairs DEF List
    <3>12. /\ Geometry(kind, List(parts)) \in Made(m + 1)
           /\ GeometryPairs[Geometry(kind, List(parts))] = GeometryPairs[List(parts)]
      BY <1>1, <3>8, <3>9, GeometryIsMade
    <3> QED
      BY <2>1, <3>1, <3>6, <3>11, <3>12
  <2>3. CASE ~(Cardinality(Kinds(gs)) = 1 /\ gs[1].kind \in DOMAIN Multiple)
    <3>1. Combined(gs) = Node("GeometryCollection", gs)
      BY <1>5, <2>3 DEF Combined, Collection
    <3>2. "GeometryCollection" \in Names /\ "GeometryCollection" # "position" /\ "GeometryCollection" \notin DOMAIN Multiple
      BY VectorsAssumption DEF Known, Multiple
    <3>3. Node("GeometryCollection", gs) \in TreesUpTo[m + 1]
      BY <1>3, <3>2, NodeIsATree
    <3>4. Node("GeometryCollection", gs) \in Trees
      BY <1>1, <3>3, TreesGrow DEF Trees
    <3>5. GeometryPairs[Node("GeometryCollection", gs)] = Chain(gs, GeometryPairs)
      BY <3>2, <3>4, NodesHavePairs
    <3>6. Node("GeometryCollection", gs).kind = "GeometryCollection" /\ Node("GeometryCollection", gs).items = gs
      BY DEF Node, Element
    <3>7. Node("GeometryCollection", gs) \in Made(m + 1)
      BY <3>2, <3>3, <3>6 DEF Made
    <3> QED
      BY <2>1, <3>1, <3>5, <3>7
  <2> QED
    BY <2>2, <2>3
<1> QED
  BY <1>4, <1>5

LEMMA ParsedType ==
    ASSUME NEW n \in Nat, n <= Depth, NEW e \in TreesUpTo[n]
    PROVE  ParseKmlGeometry[e] \in Made(n + 3)
<1> DEFINE Bad == {k \in Nat : k <= Depth /\ \E v \in TreesUpTo[k] : ParseKmlGeometry[v] \notin Made(k + 3)}
<1>1. SUFFICES ASSUME Bad # {} PROVE FALSE
  <2>1. ParseKmlGeometry[e] \notin Made(n + 3) => n \in Bad
    OBVIOUS
  <2> QED
    BY <2>1
<1>2. PICK k \in Bad : \A j \in Bad : k <= j
  <2>1. Bad \in SUBSET Nat
    OBVIOUS
  <2> HIDE DEF Bad
  <2> QED
    BY <1>1, <2>1, SmallestNumber
<1>3. k \in Nat /\ k <= Depth /\ Depth \in Nat /\ \E v \in TreesUpTo[k] : ParseKmlGeometry[v] \notin Made(k + 3)
  BY <1>2, VectorsAssumption
<1>4. PICK v \in TreesUpTo[k] : ParseKmlGeometry[v] \notin Made(k + 3)
  BY <1>3
<1>5. k # 0 /\ k - 1 \in Nat /\ k - 1 <= Depth /\ (k - 1) + 3 = k + 2 /\ (k + 2) + 1 = k + 3 /\ k + 2 \in Nat
      /\ k + 2 # 0 /\ k + 2 <= Depth + 2 /\ k + 3 \in Nat /\ 4 <= k + 3 /\ ~(k <= k - 1)
  <2>1. k # 0
    BY <1>3, TreeIs
  <2> QED
    BY <1>3, <2>1
<1>6. v \in Elements
  BY <1>3, TreesGrow DEF Elements
<1> DEFINE gs == [i \in DOMAIN Children(v) |-> ParseKmlGeometry[Children(v)[i]]]
<1>7. ParseKmlGeometry[v] = IF v.kind # "MultiGeometry" THEN ParseSimple(v) ELSE Combined(gs)
  BY <1>6, ParseIs DEF ParseBelow
<1>8. ParseSimple(v) \in Made(k + 3)
  <2>1. ParseSimple(v) \in Made(4)
    BY <1>6, SimpleIs
  <2> QED
    BY <1>5, <2>1, MadeGrows
<1>9. gs \in Seq(Made(k + 2))
  <2>1. v.items \in Seq(TreesUpTo[k - 1])
    BY <1>3, TreeIs
  <2>2. Children(v) \in Seq(TreesUpTo[k - 1])
    BY <2>1, ChildrenAre
  <2>3. k - 1 \notin Bad
    BY <1>2, <1>5
  <2>4. \A c \in TreesUpTo[k - 1] : ParseKmlGeometry[c] \in Made(k + 2)
    BY <1>5, <2>3
  <2> DEFINE s == Children(v)
             S == TreesUpTo[k - 1]
             T == Made(k + 2)
  <2> HIDE DEF s, S, T
  <2>5. s \in Seq(S) /\ \A c \in S : ParseKmlGeometry[c] \in T
    BY <2>2, <2>4 DEF s, S, T
  <2>6. Len(s) \in Nat /\ DOMAIN s = 1..Len(s) /\ \A i \in DOMAIN s : s[i] \in S
    BY <2>5
  <2>7. [i \in DOMAIN s |-> ParseKmlGeometry[s[i]]] \in [1..Len(s) -> T]
    BY <2>5, <2>6
  <2>8. [i \in DOMAIN s |-> ParseKmlGeometry[s[i]]] \in Seq(T)
    BY <2>6, <2>7, IsASeq
  <2> QED
    BY <2>8 DEF s, T
<1>10. Combined(gs) \in Made(k + 3)
  <2> HIDE DEF gs
  <2>1. Combined(gs) \in Made((k + 2) + 1)
    BY <1>5, <1>9, CombinedIs
  <2> QED
    BY <1>5, <2>1
<1> QED
  BY <1>4, <1>7, <1>8, <1>10

(* Of an element of another kind nothing is kept.                           *)
LEMMA OthersKeepNothing ==
    ASSUME NEW e \in Elements, e.kind \notin Supported
    PROVE  KeptIn(e) = <<>>
<1> DEFINE own == {w \in Rings : w.kind = e.kind}
           kept == [c \in Elements |-> KeptIn(c)]
<1>1. Written(e) \in Seq(Rings) /\ \A i \in DOMAIN Written(e) : Written(e)[i].kind = e.kind
  BY WrittenType DEF Written
<1>2. \A i \in DOMAIN Written(e) : Written(e)[i] \in own
  <2>1. \A i \in DOMAIN Written(e) : Written(e)[i] \in Rings
    BY <1>1
  <2> QED
    BY <1>1, <2>1
<1>3. \A w \in own : Keep[w] = <<>>
  BY DEF Keep, Kept, Supported
<1> HIDE DEF own
<1>4. Written(e) \in Seq(own)
  BY <1>1, <1>2, AllIn
<1>5. Chain(Written(e), Keep) = <<>>
  BY <1>3, <1>4, ChainNothing
<1>6. e.kind # "MultiGeometry"
  BY DEF Supported
<1>7. kept = [c \in Elements |-> KeptIn(c)]
  OBVIOUS
<1> HIDE DEF kept
<1> QED
  BY <1>5, <1>6, <1>7, KeptInIs

(* The positions of what is made of an element are those that are kept of   *)
(* it.                                                                      *)
LEMMA ParsedIs ==
    ASSUME NEW e \in Elements, ParseKmlGeometry[e].kind # "raised"
    PROVE  GeometryPairs[ParseKmlGeometry[e]] = Chain(KeptIn(e), Sited)
<1> DEFINE Good == {v \in Elements : ParseKmlGeometry[v].kind # "raised" =>
                                        GeometryPairs[ParseKmlGeometry[v]] = Chain(KeptIn(v), Sited)}
           kept == [c \in Elements |-> KeptIn(c)]
           sites == [c \in Elements |-> Chain(KeptIn(c), Sited)]
<1>1. kept = [c \in Elements |-> KeptIn(c)] /\ kept \in Chainable(Elements, Places)
  <2>1. kept \in [Elements -> Seq(Places)]
    BY WrittenInType, KeepType, ChainType DEF KeptIn
  <2> QED
    BY <2>1 DEF Chainable
<1>2. sites \in Chainable(Elements, Positions)
  <2>1. \A c \in Elements : Chain(KeptIn(c), Sited) \in Seq(Positions)
    BY <1>1, KeptInIs, SitedType, ChainType
  <2> QED
    BY <2>1 DEF Chainable
<1>3. ASSUME NEW v \in Elements, \A i \in DOMAIN v.items : v.items[i] \in Good PROVE v \in Good
  <2> SUFFICES ASSUME ParseKmlGeometry[v].kind # "raised"
               PROVE  GeometryPairs[ParseKmlGeometry[v]] = Chain(KeptIn(v), Sited)
    BY <1>3
  <2> DEFINE gs == [i \in DOMAIN Children(v) |-> ParseKmlGeometry[Children(v)[i]]]
  <2>1. ParseKmlGeometry[v] = IF v.kind # "MultiGeometry" THEN ParseSimple(v) ELSE Combined(gs)
    BY ParseIs DEF ParseBelow
  <2> HIDE DEF kept
  <2>2. CASE v.kind # "MultiGeometry"
    <3>1. KeptIn(v) = Chain(Written(v), Keep)
      BY <1>1, <2>2, KeptInIs
    <3> QED
      BY <2>1, <2>2, <3>1, SimpleIs
  <2>3. CASE v.kind = "MultiGeometry"
    <3>1. v.items \in Seq(Elements) /\ Depth \in Nat
      BY ElementsAre
    <3>2. Children(v) \in Seq(Good)
      <4> HIDE DEF Good
      <4>1. v.items \in Seq(Good)
        BY <1>3, <3>1, AllIn
      <4> QED
        BY <4>1, ChildrenAre
    <3>3. Children(v) \in Seq(Elements) /\ Children(v) = Chain(v.items, IfSupported(Elements))
      BY <3>1, ChildrenAre
    <3>4. \A i \in DOMAIN Children(v) : Children(v)[i] \in Good /\ Children(v)[i] \in Elements
      <4> HIDE DEF Good
      <4> QED
        BY <3>2, <3>3
    <3>5. gs \in Seq(Made(Depth + 2)) /\ Depth + 2 \in Nat /\ Depth + 2 # 0 /\ Depth + 2 <= Depth + 2
      <4>1. Depth # 0 /\ Depth - 1 \in Nat /\ Depth - 1 <= Depth /\ (Depth - 1) + 3 = Depth + 2
        <5>1. Depth # 0
          BY <3>1, TreeIs DEF Elements
        <5> QED
          BY <3>1, <5>1
      <4>2. \A i \in DOMAIN Children(v) : Children(v)[i] \in TreesUpTo[Depth - 1]
        BY <3>1, KidsAreSmaller DEF Elements
      <4>3. \A i \in DOMAIN Children(v) : gs[i] \in Made(Depth + 2)
        <5>1. \A c \in TreesUpTo[Depth - 1] : ParseKmlGeometry[c] \in Made((Depth - 1) + 3)
          BY <4>1, ParsedType
        <5> QED
          BY <4>1, <4>2, <5>1
      <4>4. Len(Children(v)) \in Nat /\ DOMAIN Children(v) = 1..Len(Children(v))
        BY <3>3
      <4>5. gs \in [1..Len(Children(v)) -> Made(Depth + 2)]
        BY <4>3, <4>4
      <4>6. gs \in Seq(Made(Depth + 2))
        BY <4>4, <4>5, IsASeq
      <4> QED
        BY <3>1, <4>6
    <3>6. /\ \A i \in DOMAIN gs : gs[i].kind # "raised"
          /\ GeometryPairs[ParseKmlGeometry[v]] = Chain(gs, GeometryPairs)
      <4> HIDE DEF gs
      <4> QED
        BY <2>1, <2>3, <3>5, CombinedIs
    <3>7. \A i \in DOMAIN Children(v) : GeometryPairs[gs[i]] = sites[Children(v)[i]]
      BY <3>4, <3>6
    <3>8. Chain(gs, GeometryPairs) = Chain(Children(v), sites)
      <4>1. [i \in DOMAIN gs |-> GeometryPairs[gs[i]]] = [i \in DOMAIN Children(v) |-> sites[Children(v)[i]]]
        BY <3>7
      <4> HIDE DEF gs, sites
      <4> QED
        BY <4>1 DEF Chain
    <3>9. Chain(Chain(v.items, IfSupported(Elements)), sites) = Chain(v.items, sites)
      <4> DEFINE supported == IfSupported(Elements)
      <4>1. supported \in Chainable(Elements, Elements)
        BY DEF IfSupported, Chainable
      <4>2. ASSUME NEW c \in Elements PROVE sites[c] = Chain(supported[c], sites)
        <5>1. CASE c.kind \in Supported
          <6>1. supported[c] = <<c>> /\ sites \in [Elements -> Seq(Positions)]
            BY <1>2, <5>1 DEF IfSupported, Chainable
          <6> HIDE DEF sites, supported
          <6> QED
            BY <6>1, ChainOne
        <5>2. CASE c.kind \notin Supported
          <6>1. supported[c] = <<>>
            BY <5>2 DEF IfSupported
          <6>2. sites[c] = <<>>
            BY <5>2, OthersKeepNothing, ChainEmpty
          <6> QED
            BY <6>1, <6>2, ChainEmpty
        <5> QED
          BY <5>1, <5>2
      <4> HIDE DEF sites, supported
      <4> QED
        BY <1>2, <3>1, <4>1, <4>2, ChainInChain DEF supported
    <3>10. Chain(KeptIn(v), Sited) = Chain(v.items, sites)
      <4>1. KeptIn(v) = Chain(v.items, kept)
        BY <1>1, <2>3, KeptInIs
      <4>2. \A c \in Elements : sites[c] = Chain(kept[c], Sited)
        BY <1>1
      <4> HIDE DEF sites
      <4>3. Chain(Chain(v.items, kept), Sited) = Chain(v.items, sites)
        BY <1>1, <3>1, <4>2, RingTypes, ChainInChain
      <4> QED
        BY <4>1, <4>3
    <3> QED
      BY <3>3, <3>6, <3>8, <3>9, <3>10
  <2> QED
    BY <2>2, <2>3
<1>4. \A v \in Elements : v \in Good
  <2>1. Good \in SUBSET TreesUpTo[Depth] /\ Depth \in Nat
    BY VectorsAssumption DEF Elements
  <2> HIDE DEF Good
  <2> QED
    BY <1>3, <2>1, AllTrees DEF Elements
<1> QED
  BY <1>4

-----------------------------------------------------------------------------
(* A file: its placemarks, or its features. *)

LEMMA FirstSupportedIs ==
    ASSUME NEW p \in Seq(Elements)
    PROVE  /\ TopLevel(p) # 0 => TopLevel(p) \in DOMAIN p /\ FirstSupported(p) = <<p[TopLevel(p)]>>
           /\ TopLevel(p) = 0 => FirstSupported(p) = <<>>
<1> DEFINE I == {i \in 1..Len(p) : p[i].kind \in Supported}
           first == {i \in DOMAIN p : /\ p[i].kind \in Supported
                                      /\ \A j \in 1..(i - 1) : p[j].kind \notin Supported}
<1>1. Len(p) \in Nat /\ DOMAIN p = 1..Len(p) /\ I \in SUBSET Nat /\ I \in SUBSET Int
  OBVIOUS
<1>2. TopLevel(p) = IF I # {} THEN Min(I) ELSE 0
  BY DEF TopLevel, SelectInSeq
<1>3. FirstSupported(p) = IF first = {} THEN <<>> ELSE <<p[CHOOSE i \in first : TRUE]>>
  BY DEF FirstSupported
<1>4. first \subseteq I
  BY <1>1
<1>5. CASE I = {}
  BY <1>2, <1>3, <1>4, <1>5
<1>6. CASE I # {}
  <2>1. PICK m \in I : \A i \in I : m <= i
    <3> HIDE DEF I
    <3> QED
      BY <1>1, <1>6, SmallestNumber
  <2>2. Min(I) = m
    <3> HIDE DEF I
    <3> QED
      BY <1>1, <2>1, SmallestIs
  <2>3. m \in DOMAIN p /\ m # 0 /\ m \in first
    BY <1>1, <2>1
  <2>4. ASSUME NEW i \in first PROVE i = m
    <3>1. i \in I /\ i \in Nat /\ m \in Nat /\ m <= i
      BY <1>1, <1>4, <2>1
    <3>2. CASE m \in 1..(i - 1)
      BY <2>1, <3>2
    <3>3. CASE m \notin 1..(i - 1)
      BY <1>1, <2>3, <3>1, <3>3
    <3> QED
      BY <3>2, <3>3
  <2> HIDE DEF first
  <2>5. (CHOOSE i \in first : TRUE) = m
    <3>1. (CHOOSE i \in first : TRUE) \in first
      BY <2>3
    <3> QED
      BY <2>4, <3>1
  <2> QED
    BY <1>2, <1>3, <1>6, <2>2, <2>3, <2>5
<1> QED
  BY <1>5, <1>6

FirstIn == [p \in Seq(Elements) |-> FirstSupported(p)]
ElementsOf(placemarks) == Chain(placemarks, FirstIn)

LEMMA FirstInType == FirstIn \in Chainable(Seq(Elements), Elements)
<1>1. ASSUME NEW p \in Seq(Elements) PROVE FirstSupported(p) \in Seq(Elements)
  <2>1. CASE TopLevel(p) = 0
    <3>1. FirstSupported(p) = <<>> /\ <<>> \in Seq(Elements)
      BY <2>1, FirstSupportedIs
    <3> QED
      BY <3>1
  <2>2. CASE TopLevel(p) # 0
    <3>1. p[TopLevel(p)] \in Elements
      BY <2>2, FirstSupportedIs
    <3>2. <<p[TopLevel(p)]>> \in Seq(Elements)
      BY <3>1
    <3> QED
      BY <2>2, <3>2, FirstSupportedIs
  <2> QED
    BY <2>1, <2>2
<1>2. FirstIn \in [Seq(Elements) -> Seq(Elements)]
  BY <1>1 DEF FirstIn
<1> QED
  BY <1>2 DEF Chainable

(* The layer has a geometry for the first element of each placemark that    *)
(* has one.                                                                 *)
LEMMA KmlIsParsed ==
    ASSUME NEW file, file.content \in Seq(Seq(Elements))
    PROVE  /\ ElementsOf(file.content) \in Seq(Elements)
           /\ ParseKml(file) = [i \in DOMAIN ElementsOf(file.content) |-> ParseKmlGeometry[ElementsOf(file.content)[i]]]
           /\ ParseKml(file) \in Seq(Trees)
<1> DEFINE P == Seq(Elements)
           content == file.content
           Topped == {p \in P : TopLevel(p) # 0}
           top == [p \in P |-> IF TopLevel(p) # 0 THEN <<p>> ELSE <<>>]
           parse == [e \in Elements |-> ParseKmlGeometry[e]]
           ones == [e \in Elements |-> <<parse[e]>>]
           made == [p \in Topped |-> ParseKmlGeometry[p[TopLevel(p)]]]
           makes == [p \in Topped |-> <<made[p]>>]
           both == [p \in P |-> Chain(FirstIn[p], ones)]
<1>1. content \in Seq(P) /\ FirstIn \in Chainable(P, Elements)
  BY FirstInType
<1>2. parse \in [Elements -> Trees]
  <2>1. ASSUME NEW e \in Elements PROVE ParseKmlGeometry[e] \in Trees
    <3>1. Depth \in Nat /\ Depth <= Depth
      BY VectorsAssumption
    <3>2. ParseKmlGeometry[e] \in Made(Depth + 3)
      BY <3>1, ParsedType DEF Elements
    <3> QED
      BY <3>2 DEF Made, Trees
  <2> QED
    BY <2>1
<1>3. made \in [Topped -> Trees]
  <2>1. \A p \in Topped : p[TopLevel(p)] \in Elements
    BY FirstSupportedIs
  <2>2. \A p \in Topped : made[p] = parse[p[TopLevel(p)]]
    BY <2>1
  <2>3. \A p \in Topped : made[p] \in Trees
    BY <1>2, <2>1, <2>2
  <2> QED
    BY <2>3
<1>4. ones \in Chainable(Elements, Trees) /\ makes \in Chainable(Topped, Trees) /\ top \in Chainable(P, Topped)
  <2>1. ones \in [Elements -> Seq(Trees)]
    <3> HIDE DEF parse
    <3> QED
      BY <1>2
  <2>2. makes \in [Topped -> Seq(Trees)]
    <3> HIDE DEF made
    <3> QED
      BY <1>3
  <2>3. top \in [P -> Seq(Topped)]
    <3>1. \A p \in P : TopLevel(p) # 0 => p \in Topped
      OBVIOUS
    <3> HIDE DEF P, Topped
    <3>2. <<>> \in Seq(Topped) /\ \A p \in Topped : <<p>> \in Seq(Topped)
      OBVIOUS
    <3>3. \A p \in P : top[p] \in Seq(Topped)
      BY <3>1, <3>2
    <3> QED
      BY <3>3
  <2> QED
    BY <2>1, <2>2, <2>3 DEF Chainable
<1>5. ASSUME NEW p \in P PROVE Chain(top[p], makes) = Chain(FirstIn[p], ones)
  <2>1. FirstIn[p] = FirstSupported(p)
    BY DEF FirstIn
  <2>2. CASE TopLevel(p) = 0
    <3>1. top[p] = <<>> /\ FirstIn[p] = <<>>
      BY <2>1, <2>2, FirstSupportedIs
    <3> QED
      BY <3>1, ChainEmpty
  <2>3. CASE TopLevel(p) # 0
    <3> DEFINE e == p[TopLevel(p)]
    <3>1. top[p] = <<p>> /\ FirstIn[p] = <<e>> /\ e \in Elements /\ p \in Topped
      BY <2>1, <2>3, FirstSupportedIs
    <3>2. makes[p] = <<ParseKmlGeometry[e]>> /\ ones[e] = <<ParseKmlGeometry[e]>>
      BY <3>1
    <3>3. makes \in [Topped -> Seq(Trees)] /\ ones \in [Elements -> Seq(Trees)]
      BY <1>4 DEF Chainable
    <3> HIDE DEF Topped, makes, ones, top, e
    <3>4. Chain(<<p>>, makes) = makes[p] /\ Chain(<<e>>, ones) = ones[e]
      BY <3>1, <3>3, ChainOne
    <3> QED
      BY <3>1, <3>2, <3>4
  <2> QED
    BY <2>2, <2>3
<1>6. \A p \in P : both[p] = Chain(FirstIn[p], ones) /\ both[p] = Chain(top[p], makes)
  <2> HIDE DEF ones, top, makes
  <2> QED
    BY <1>5
<1>7. Only(content, LAMBDA p : TopLevel(p) # 0) = Chain(content, top)
  <2>1. Only(content, LAMBDA p : TopLevel(p) # 0)
            = FlattenSeq([i \in DOMAIN content |-> IF TopLevel(content[i]) # 0 THEN <<content[i]>> ELSE <<>>])
    BY DEF Only, Mapped
  <2>2. \A i \in DOMAIN content : content[i] \in P
    <3> HIDE DEF P
    <3> QED
      BY <1>1
  <2>3. [i \in DOMAIN content |-> IF TopLevel(content[i]) # 0 THEN <<content[i]>> ELSE <<>>]
            = [i \in DOMAIN content |-> top[content[i]]]
    BY <2>2
  <2> QED
    BY <2>1, <2>3 DEF Chain
<1> DEFINE topped == Chain(content, top)
           elements == ElementsOf(content)
<1>8. topped \in Seq(Topped) /\ elements \in Seq(Elements)
  <2>1. top \in [P -> Seq(Topped)] /\ FirstIn \in [P -> Seq(Elements)]
    BY <1>1, <1>4 DEF Chainable
  <2> HIDE DEF P, Topped, top
  <2> QED
    BY <1>1, <2>1, ChainType DEF ElementsOf
<1>9. ParseKml(file) = [i \in DOMAIN topped |-> made[topped[i]]]
  <2>1. ParseKml(file) = [i \in DOMAIN topped |-> ParseKmlGeometry[topped[i][TopLevel(topped[i])]]]
    BY <1>7 DEF ParseKml, Mapped
  <2> HIDE DEF topped
  <2>2. \A i \in DOMAIN topped : topped[i] \in Topped
    <3> HIDE DEF Topped
    <3> QED
      BY <1>8
  <2> QED
    BY <2>1, <2>2
<1>10. Chain(topped, makes) = [i \in DOMAIN topped |-> made[topped[i]]]
  <2>1. made \in Maps(Topped, Trees)
    BY <1>3 DEF Maps
  <2>2. makes = Ones(Topped, made) /\ [i \in DOMAIN topped |-> made[topped[i]]] = Each(topped, made)
    BY DEF Ones, Each
  <2> HIDE DEF Topped, topped, made, makes
  <2> QED
    BY <1>8, <2>1, <2>2, ChainOfOnes
<1>11. Chain(elements, ones) = [i \in DOMAIN elements |-> parse[elements[i]]]
  <2>1. parse \in Maps(Elements, Trees)
    BY <1>2 DEF Maps
  <2>2. ones = Ones(Elements, parse) /\ [i \in DOMAIN elements |-> parse[elements[i]]] = Each(elements, parse)
    BY DEF Ones, Each
  <2> HIDE DEF elements, parse, ones
  <2> QED
    BY <1>8, <2>1, <2>2, ChainOfOnes
<1>12. Chain(topped, makes) = Chain(content, both)
  <2> HIDE DEF P, Topped, top, makes, both, content
  <2> QED
    BY <1>1, <1>4, <1>6, ChainInChain
<1>13. Chain(elements, ones) = Chain(content, both)
  <2>1. content \in Seq(P) /\ FirstIn \in Chainable(P, Elements) /\ ones \in Chainable(Elements, Trees)
    BY <1>1, <1>4
  <2>2. \A p \in P : both[p] = Chain(FirstIn[p], ones)
    OBVIOUS
  <2> HIDE DEF P, ones, both, content
  <2>3. Chain(Chain(content, FirstIn), ones) = Chain(content, both)
    BY <2>1, <2>2, ChainInChain
  <2> QED
    BY <2>3 DEF ElementsOf
<1>14. [i \in DOMAIN elements |-> parse[elements[i]]] = [i \in DOMAIN elements |-> ParseKmlGeometry[elements[i]]]
  <2> HIDE DEF elements
  <2> QED
    BY <1>8
<1>15. [i \in DOMAIN elements |-> parse[elements[i]]] \in Seq(Trees)
  <2> HIDE DEF elements, parse
  <2> QED
    BY <1>2, <1>8, EachType
<1> HIDE DEF made, makes, both, ones, top, Topped, parse
<1> QED
  BY <1>8, <1>9, <1>10, <1>11, <1>12, <1>13, <1>14, <1>15

LEMMA PairsAre == \A s : Pairs(s) = Chain(s, GeometryPairs)
  BY DEF Pairs, Mapped, Chain

(* The positions of a KML file. *)
LEMMA KmlPlaces ==
    ASSUME NEW file, file.kind = "kml", file.content \in Seq(Seq(Elements)),
           \A i \in DOMAIN ParseKml(file) : ParseKml(file)[i].kind # "raised"
    PROVE  /\ PlacesOf(file) \in Seq(Places)
           /\ Chain(ParseKml(file), GeometryPairs) = Chain(PlacesOf(file), Sited)
<1> DEFINE content == file.content
           elements == ElementsOf(content)
           writtenIn == [e \in Elements |-> WrittenIn[e]]
           kept == [e \in Elements |-> KeptIn(e)]
           sites == [e \in Elements |-> Chain(KeptIn(e), Sited)]
           features == ParseKml(file)
<1>1. /\ elements \in Seq(Elements)
      /\ features = [i \in DOMAIN elements |-> ParseKmlGeometry[elements[i]]]
  BY KmlIsParsed
<1>2. FlattenSeq(Mapped(content, FirstSupported)) = elements
  <2>1. \A i \in DOMAIN content : content[i] \in Seq(Elements)
    OBVIOUS
  <2>2. Mapped(content, FirstSupported) = [i \in DOMAIN content |-> FirstSupported(content[i])]
    BY DEF Mapped
  <2>3. [i \in DOMAIN content |-> FirstSupported(content[i])] = [i \in DOMAIN content |-> FirstIn[content[i]]]
    BY <2>1 DEF FirstIn
  <2> QED
    BY <2>2, <2>3 DEF ElementsOf, Chain
<1>3. writtenIn \in Chainable(Elements, Rings) /\ kept \in Chainable(Elements, Places) /\ Keep \in Chainable(Rings, Places)
  <2>1. writtenIn \in [Elements -> Seq(Rings)]
    BY WrittenInType
  <2>2. kept \in [Elements -> Seq(Places)]
    BY WrittenInType, KeepType, ChainType DEF KeptIn
  <2> QED
    BY <2>1, <2>2, KeepType DEF Chainable
<1>4. \A e \in Elements : kept[e] = Chain(writtenIn[e], Keep) /\ sites[e] = Chain(kept[e], Sited)
  BY DEF KeptIn
<1> DEFINE written == Chain(elements, writtenIn)
<1>5. FlattenSeq(Mapped(elements, LAMBDA e : WrittenIn[e])) = written
  <2> HIDE DEF elements
  <2>1. \A i \in DOMAIN elements : elements[i] \in Elements
    BY <1>1
  <2>2. [i \in DOMAIN elements |-> WrittenIn[elements[i]]] = [i \in DOMAIN elements |-> writtenIn[elements[i]]]
    BY <2>1
  <2> QED
    BY <2>2 DEF Mapped, Chain
<1>6. written \in Seq(Rings)
  <2>1. writtenIn \in [Elements -> Seq(Rings)]
    BY <1>3 DEF Chainable
  <2> HIDE DEF elements, writtenIn
  <2> QED
    BY <1>1, <2>1, ChainType
<1>7. FlattenSeq(Mapped(written, Kept)) = Chain(written, Keep)
  <2> HIDE DEF written
  <2>1. \A i \in DOMAIN written : written[i] \in Rings
    BY <1>6
  <2>2. Mapped(written, Kept) = [i \in DOMAIN written |-> Kept(written[i])]
    BY DEF Mapped
  <2>3. [i \in DOMAIN written |-> Kept(written[i])] = [i \in DOMAIN written |-> Keep[written[i]]]
    BY <2>1 DEF Keep
  <2> QED
    BY <2>2, <2>3 DEF Chain
<1>8. PlacesOf(file) = Chain(written, Keep)
  <2> HIDE DEF written, elements
  <2> QED
    BY <1>2, <1>5, <1>7 DEF PlacesOf
<1> HIDE DEF writtenIn, kept, elements, sites
<1>9. Chain(written, Keep) = Chain(elements, kept)
  BY <1>1, <1>3, <1>4, ChainInChain
<1>10. Chain(Chain(elements, kept), Sited) = Chain(elements, sites)
  BY <1>1, <1>3, <1>4, RingTypes, ChainInChain
<1>11. Chain(features, GeometryPairs) = Chain(elements, sites)
  <2>1. \A i \in DOMAIN elements : elements[i] \in Elements /\ features[i] = ParseKmlGeometry[elements[i]]
    BY <1>1
  <2>2. \A i \in DOMAIN elements : features[i].kind # "raised"
    BY <1>1
  <2>3. \A i \in DOMAIN elements : GeometryPairs[features[i]] = sites[elements[i]]
    BY <2>1, <2>2, ParsedIs DEF sites
  <2> HIDE DEF features
  <2>4. [i \in DOMAIN features |-> GeometryPairs[features[i]]] = [i \in DOMAIN elements |-> sites[elements[i]]]
    BY <1>1, <2>3
  <2> QED
    BY <2>4 DEF Chain
<1>12. Chain(written, Keep) \in Seq(Places)
  <2> HIDE DEF written
  <2> QED
    BY <1>6, KeepType, ChainType
<1> QED
  BY <1>8, <1>9, <1>10, <1>11, <1>12

(* The layer is read, and what its positions are.                           *)
LEMMA FileIsRead == ASSUME NEW file \in Files PROVE Parse(file) \in Seq(Trees)
<1>1. CASE file.kind = "kml"
  <2>1. file.content \in Seq(Seq(Elements)) /\ Parse(file) = ParseKml(file)
    BY <1>1, VectorsAssumption DEF Parse
  <2> QED
    BY <2>1, KmlIsParsed
<1>2. CASE file.kind # "kml"
  <2> DEFINE F == [object: BOOLEAN, geometry: Trees]
             content == file.content
             object == [f \in F |-> IF f.object THEN <<f>> ELSE <<>>]
             objects == Only(content, LAMBDA f : f.object)
  <2>1. content \in Seq(F)
    BY <1>2, VectorsAssumption
  <2>2. objects = Chain(content, object)
    <3> HIDE DEF F, content
    <3>1. \A i \in DOMAIN content : content[i] \in F
      BY <2>1
    <3>2. objects = FlattenSeq([i \in DOMAIN content |-> IF content[i].object THEN <<content[i]>> ELSE <<>>])
      BY DEF Only, Mapped
    <3>3. [i \in DOMAIN content |-> IF content[i].object THEN <<content[i]>> ELSE <<>>]
              = [i \in DOMAIN content |-> object[content[i]]]
      BY <3>1
    <3> QED
      BY <3>2, <3>3 DEF Chain
  <2>3. objects \in Seq(F)
    <3> HIDE DEF F, content, objects
    <3>1. object \in [F -> Seq(F)]
      OBVIOUS
    <3> HIDE DEF object
    <3> QED
      BY <2>1, <2>2, <3>1, ChainType
  <2>4. Parse(file) = Mapped(objects, LAMBDA f : f.geometry)
    BY <1>2 DEF Parse, ParseGeojson
  <2> HIDE DEF objects
  <2>5. Parse(file) \in Seq(Trees)
    <3>1. Len(objects) \in Nat /\ DOMAIN objects = 1..Len(objects) /\ \A i \in DOMAIN objects : objects[i] \in F
      <4> HIDE DEF F
      <4> QED
        BY <2>3
    <3>2. \A i \in DOMAIN objects : objects[i].geometry \in Trees
      BY <3>1
    <3>3. Parse(file) = [i \in DOMAIN objects |-> objects[i].geometry]
      BY <2>4 DEF Mapped
    <3>4. Parse(file) \in [1..Len(objects) -> Trees]
      BY <3>1, <3>2, <3>3
    <3> QED
      BY <3>1, <3>4, IsASeq
  <2> QED
    BY <2>5
<1> QED
  BY <1>1, <1>2

LEMMA FileIsKept ==
    ASSUME NEW file \in Files, \A i \in DOMAIN Parse(file) : Parse(file)[i].kind # "raised"
    PROVE  PlacesOf(file) = [i \in DOMAIN Pairs(Parse(file)) |-> Pairs(Parse(file))[i].place]
<1>1. CASE file.kind = "kml"
  <2>1. file.content \in Seq(Seq(Elements)) /\ Parse(file) = ParseKml(file)
    BY <1>1, VectorsAssumption DEF Parse
  <2> DEFINE places == PlacesOf(file)
  <2>2. places \in Seq(Places) /\ Chain(ParseKml(file), GeometryPairs) = Chain(places, Sited)
    BY <1>1, <2>1, KmlPlaces
  <2> DEFINE at == [p \in Places |-> At(p)]
             pairs == Pairs(Parse(file))
  <2>3. pairs = [i \in DOMAIN places |-> at[places[i]]]
    <3>1. at \in Maps(Places, Positions)
      BY SitedType DEF Maps
    <3>2. Sited = Ones(Places, at)
      BY DEF Sited, Ones
    <3> HIDE DEF at, places
    <3>3. Chain(places, Ones(Places, at)) = Each(places, at)
      BY <2>2, <3>1, ChainOfOnes
    <3> QED
      BY <2>1, <2>2, <3>2, <3>3, PairsAre DEF Each
  <2> HIDE DEF places, pairs
  <2>4. \A i \in DOMAIN places : places[i] \in Places
    BY <2>2
  <2>5. DOMAIN pairs = DOMAIN places /\ \A i \in DOMAIN places : pairs[i].place = places[i]
    BY <2>3, <2>4 DEF At
  <2>6. places = [i \in DOMAIN pairs |-> pairs[i].place]
    <3>1. places = [i \in DOMAIN places |-> places[i]]
      BY <2>2
    <3> QED
      BY <2>5, <3>1
  <2> QED
    BY <2>6 DEF places, pairs
<1>2. CASE file.kind # "kml"
  BY <1>2 DEF PlacesOf, Parse, ParseGeojson, Mapped
<1> QED
  BY <1>1, <1>2

(* Positions that are projected one by one.                                 *)
LEMMA ShiftedAre ==
    ASSUME NEW crs \in Crses, NEW s \in Seq(Positions)
    PROVE  Chain(s, Shift(crs)) = [i \in DOMAIN s |-> Project(s[i], crs)]
<1> DEFINE project == [p \in Positions |-> Project(p, crs)]
<1>1. \A p \in Positions : Project(p, crs) \in Positions
  BY DEF Project, Positions, Crses
<1>2. project \in Maps(Positions, Positions)
  BY <1>1 DEF Maps
<1>3. Shift(crs) = Ones(Positions, project)
  BY DEF Shift, Ones
<1>4. Each(s, project) = [i \in DOMAIN s |-> Project(s[i], crs)]
  <2>1. \A i \in DOMAIN s : s[i] \in Positions
    OBVIOUS
  <2> QED
    BY <2>1 DEF Each
<1> HIDE DEF project
<1>5. Chain(s, Ones(Positions, project)) = Each(s, project)
  BY <1>2, ChainOfOnes
<1> QED
  BY <1>3, <1>4, <1>5

KeepsPositions(file, working, pairs, qa, error) ==
    /\ pairs = Mapped(PlacesOf(file), LAMBDA p : [crs |-> "working", place |-> p])
    /\ Pairs(qa) = Mapped(pairs, LAMBDA p : Project(p, "wgs84"))
    /\ Mapped(qa, LAMBDA g : g.kind) = Mapped(working, LAMBDA g : g.kind)
    /\ error = Max({Drift[pairs[i].place] : i \in DOMAIN pairs})

LEMMA LayerIsKept ==
    ASSUME NEW file \in Files, NEW working, NEW qa, NEW error, NEW pairs,
           working = NormalizeVector(file).working, qa = NormalizeVector(file).qa,
           error = NormalizeVector(file).error, pairs = Pairs(working),
           "raised" \notin Kinds(working), pairs # <<>>
    PROVE  KeepsPositions(file, working, pairs, qa, error)
<1> DEFINE features == Parse(file)
           read == Pairs(features)
           answers == [i \in DOMAIN features |-> TransformGeometry(features[i], "working")]
<1>1. /\ working = [i \in DOMAIN features |-> TransformGeometry(features[i], "working").value]
      /\ qa = [i \in DOMAIN working |-> TransformGeometry(working[i], "wgs84").value]
      /\ error = Worst(answers)
  <2>1. TransformFeatures(features, "working") = answers
    BY DEF TransformFeatures, Mapped
  <2>2. working = Mapped(answers, LAMBDA a : a.value) /\ error = Worst(answers)
        /\ qa = Mapped(TransformFeatures(working, "wgs84"), LAMBDA a : a.value)
    <3> HIDE DEF answers, features
    <3> QED
      BY <2>1 DEF NormalizeVector, features
  <2>3. TransformFeatures(working, "wgs84") = [i \in DOMAIN working |-> TransformGeometry(working[i], "wgs84")]
    BY DEF TransformFeatures, Mapped
  <2> HIDE DEF features
  <2>4. working = [i \in DOMAIN features |-> TransformGeometry(features[i], "working").value]
    BY <2>2 DEF Mapped
  <2>5. qa = [i \in DOMAIN working |-> TransformGeometry(working[i], "wgs84").value]
    BY <2>2, <2>3 DEF Mapped
  <2> QED
    BY <2>2, <2>4, <2>5
<1>2. \A i \in DOMAIN features : TransformGeometry(features[i], "working").value.kind # "raised"
  <2> HIDE DEF features
  <2>1. \A i \in DOMAIN working : working[i].kind # "raised"
    BY DEF Kinds
  <2> QED
    BY <1>1, <2>1
<1>3. "working" \in Crses /\ "wgs84" \in Crses
  BY DEF Crses
<1>4. features \in Seq(Trees) /\ \A i \in DOMAIN features : features[i] \in Trees
  <2>1. features \in Seq(Trees)
    BY FileIsRead
  <2> HIDE DEF features
  <2> QED
    BY <2>1
<1>5. PlacesOf(file) = [i \in DOMAIN read |-> read[i].place] /\ read = Chain(features, GeometryPairs)
  <2>1. ASSUME NEW i \in DOMAIN features PROVE features[i].kind # "raised"
    BY <1>2, <1>3, <1>4, ProjectionIs
  <2> QED
    BY <2>1, FileIsKept, PairsAre
<1> HIDE DEF features
<1>6. /\ working \in Seq(Trees) /\ pairs = Chain(read, Shift("working"))
      /\ \A i \in DOMAIN working : TransformGeometry(working[i], "wgs84").value.kind # "raised"
  BY <1>1, <1>2, <1>3, <1>4, <1>5, FeaturesAreProjected, PairsAre
<1>7. /\ Pairs(qa) = Chain(pairs, Shift("wgs84"))
      /\ [i \in DOMAIN qa |-> qa[i].kind] = [i \in DOMAIN working |-> working[i].kind]
  <2>1. /\ working \in Seq(Trees) /\ "wgs84" \in Crses
        /\ qa = [i \in DOMAIN working |-> TransformGeometry(working[i], "wgs84").value]
        /\ \A i \in DOMAIN working : TransformGeometry(working[i], "wgs84").value.kind # "raised"
    BY <1>1, <1>3, <1>6
  <2>2. /\ Chain(qa, GeometryPairs) = Chain(Chain(working, GeometryPairs), Shift("wgs84"))
        /\ [i \in DOMAIN qa |-> qa[i].kind] = [i \in DOMAIN working |-> working[i].kind]
    BY <2>1, FeaturesAreProjected
  <2>3. Pairs(qa) = Chain(qa, GeometryPairs) /\ pairs = Chain(working, GeometryPairs)
    BY PairsAre
  <2> QED
    BY <2>2, <2>3
<1>8. read \in Seq(Positions) /\ pairs \in Seq(Positions)
  <2>1. Chain(features, GeometryPairs) \in Seq(Positions) /\ Chain(working, GeometryPairs) \in Seq(Positions)
    BY <1>4, <1>6, GeometryPairsType, ChainType
  <2> QED
    BY <1>5, <2>1, PairsAre
<1>9. pairs = [i \in DOMAIN read |-> Project(read[i], "working")]
  BY <1>3, <1>6, <1>8, ShiftedAre
<1>10. Pairs(qa) = [i \in DOMAIN pairs |-> Project(pairs[i], "wgs84")]
  BY <1>3, <1>7, <1>8, ShiftedAre
<1> HIDE DEF read
<1>11. \A i \in DOMAIN read : Project(read[i], "working") = [crs |-> "working", place |-> read[i].place]
  <2>1. \A i \in DOMAIN read : read[i] \in Positions
    BY <1>8
  <2>2. \A p \in Positions : Project(p, "working") = [crs |-> "working", place |-> p.place]
    BY DEF Project, Positions
  <2> QED
    BY <2>1, <2>2
<1>12. pairs = Mapped(PlacesOf(file), LAMBDA p : [crs |-> "working", place |-> p])
  BY <1>5, <1>9, <1>11 DEF Mapped
<1>13. error = Max({Drift[pairs[i].place] : i \in DOMAIN pairs})
  <2> DEFINE lost == {Drift[pairs[i].place] : i \in DOMAIN pairs}
  <2>1. IsWorst(error, ToSet(read))
    <3>1. \A i \in DOMAIN features : IsWorst(TransformGeometry(features[i], "working").error, ToSet(GeometryPairs[features[i]]))
      BY <1>4, ErrorFits
    <3>2. IsWorst(Worst([i \in DOMAIN features |-> TransformGeometry(features[i], "working")]), ToSet(Chain(features, GeometryPairs)))
      BY <1>4, <3>1, WorstFits
    <3> QED
      BY <1>1, <1>5, <3>2
  <2>2. DOMAIN pairs = DOMAIN read /\ \A i \in DOMAIN read : pairs[i].place = read[i].place /\ read[i] \in Positions
    BY <1>8, <1>9, <1>11
  <2>3. lost = {Drift[read[i].place] : i \in DOMAIN read}
    BY <2>2
  <2>4. \A i \in DOMAIN read : Drift[read[i].place] \in Nat
    BY <2>2, VectorsAssumption DEF Positions
  <2>5. error \in Nat /\ \A x \in lost : x \in Nat /\ x <= error
    <3>1. \A i \in DOMAIN read : read[i] \in ToSet(read)
      BY DEF ToSet
    <3>2. error \in Nat /\ \A i \in DOMAIN read : Drift[read[i].place] <= error
      BY <2>1, <3>1 DEF IsWorst
    <3>3. ASSUME NEW x \in lost PROVE x \in Nat /\ x <= error
      <4>1. PICK i \in DOMAIN read : x = Drift[read[i].place]
        BY <2>3
      <4> QED
        BY <2>4, <3>2, <4>1
    <3> QED
      BY <3>2, <3>3
  <2>6. error \in lost
    <3>1. CASE error = 0
      <4>1. 1 \in DOMAIN pairs
        BY <1>8
      <4>2. 1 \in DOMAIN read
        BY <2>2, <4>1
      <4>3. Drift[read[1].place] \in lost
        BY <2>3, <4>2
      <4>4. Drift[read[1].place] = 0
        <5> HIDE DEF lost
        <5>1. Drift[read[1].place] \in Nat /\ Drift[read[1].place] <= error
          BY <2>5, <4>3
        <5> QED
          BY <3>1, <5>1
      <4> QED
        BY <3>1, <4>3, <4>4
    <3>2. CASE error # 0
      <4>1. PICK p \in ToSet(read) : Drift[p.place] = error
        BY <2>1, <3>2 DEF IsWorst
      <4> QED
        BY <2>3, <4>1 DEF ToSet
    <3> QED
      BY <3>1, <3>2
  <2>7. lost \in SUBSET Int /\ \A y \in lost : error >= y
    BY <2>5
  <2> HIDE DEF lost
  <2>8. Max(lost) = error
    BY <2>6, <2>7, LargestIs
  <2> QED
    BY <2>8 DEF lost
<1>14. /\ Pairs(qa) = Mapped(pairs, LAMBDA p : Project(p, "wgs84"))
       /\ Mapped(qa, LAMBDA g : g.kind) = Mapped(working, LAMBDA g : g.kind)
  BY <1>7, <1>10 DEF Mapped
<1> QED
  BY <1>12, <1>13, <1>14 DEF KeepsPositions, Mapped

(* Every layer that normalize_vector returns holds the positions of its     *)
(* file in their order, and so does the copy for QA, in the same shape; the *)
(* alignment error is that of the position that loses most.                 *)
THEOREM LayersKeepTheirPositions == Spec => []LayersKeepThePositions
<1>1. Init => LayersKeepThePositions
  BY DEF Init, NoCall, LayersKeepThePositions, Answered
<1>2. ASSUME CallVector PROVE LayersKeepThePositions'
  <2> SUFFICES ASSUME answer' # None PROVE LayersKeepThePositions'
    BY DEF LayersKeepThePositions, Answered
  <2> DEFINE Taken(file, result) ==
                 Answer([call |-> "vector", file |-> file],
                        Accepts(file) /\ "raised" \notin Kinds(result.working) /\ Pairs(result.working) # <<>>,
                        result)
  <2>1. \E file \in Files : Taken(file, NormalizeVector(file))
    BY <1>2, Zenon DEF CallVector
  <2> HIDE DEF Taken
  <2>2. PICK file \in Files : Taken(file, NormalizeVector(file))
    BY <2>1
  <2> DEFINE result == NormalizeVector(file)
  <2> HIDE DEF result
  <2>3. Taken(file, result)
    BY <2>2 DEF result
  <2>4. /\ request' = [call |-> "vector", file |-> file] /\ answer' = result
        /\ "raised" \notin Kinds(result.working) /\ Pairs(result.working) # <<>>
    BY <2>3 DEF Taken, Answer
  <2>5. request'.file = file
    BY <2>4
  <2>6. KeepsPositions(file, result.working, Pairs(result.working), result.qa, result.error)
    BY <2>4, LayerIsKept DEF result
  <2> QED
    BY <2>4, <2>5, <2>6 DEF LayersKeepThePositions, KeepsPositions, Mapped
<1>3. LayersKeepThePositions /\ UNCHANGED calls => LayersKeepThePositions'
  BY DEF LayersKeepThePositions, Answered, calls, Mapped
<1>4. ASSUME [Next]_<<calls, drawing>>, ~CallVector, ~UNCHANGED calls PROVE request'.call # "vector"
  <2>1. CallPlan => request'.call = "plan"
    BY DEF CallPlan, Answer
  <2>2. CallBootstrap => request'.call = "bootstrap"
    BY DEF CallBootstrap, Answer
  <2>3. CallRain => request'.call = "rain"
    BY DEF CallRain, Answer
  <2>4. CallCategories => request'.call = "categories"
    BY DEF CallCategories, Answer
  <2>5. CallElevation => request'.call = "elevation"
    BY DEF CallElevation, Answer
  <2>6. CallTrace => request'.call = "trace"
    BY DEF CallTrace, Answer
  <2>7. CallFit => request'.call = "fit"
    BY DEF CallFit, Answer
  <2>8. CallPlan \/ CallBootstrap \/ CallRain \/ CallCategories \/ CallElevation \/ CallTrace \/ CallFit
    BY <1>4, Zenon DEF Next, Computation, Call, Reading, Rest, calls
  <2> QED
    BY <2>1, <2>2, <2>3, <2>4, <2>5, <2>6, <2>7, <2>8
<1>5. request'.call # "vector" => LayersKeepThePositions'
  BY DEF LayersKeepThePositions, Answered
<1> QED
  BY <1>1, <1>2, <1>3, <1>4, <1>5, PTL DEF Spec
=============================================================================
