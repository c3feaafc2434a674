------------------------------ MODULE Drawing ------------------------------
(***************************************************************************)
(* How the page of a drainage map is read: inspect_native_pdf               *)
(* (floodguard/reconstruction/pdf_native.py) sees the operators of the      *)
(* content stream one after the other and keeps the graphics state, the     *)
(* stack of q and Q, and the path under construction; what is painted is    *)
(* recorded with the colour and width that the code has been told of.       *)
(* Beside it, page is the page itself by the rules of PDF: the strokes that *)
(* are on it, in the pens that are in force, which the code does not see.   *)
(* Points are points of the page, the current matrix applied; a curve is    *)
(* drawn, as it is read, by its control points.                             *)
(***************************************************************************)
EXTENDS Integers, Sequences

CONSTANTS
    Points, Colours, Widths,
    Curves,         \* the points of a c, v or y operator
    Corners,        \* the four corners of a re operator
    Black,          \* the colour a page starts with
    Hairline,       \* the width a page starts with
    NoPoint,
    MaxDepth, MaxSteps      \* bounds of the model: open q, steps that build paths

ASSUME DrawingAssumption ==
    /\ Black \in Colours /\ Hairline \in Widths /\ NoPoint \notin Points
    /\ Curves \subseteq Seq(Points) \ {<<>>}
    /\ Corners \subseteq Points \X Points \X Points \X Points

VARIABLES
    state,      \* the graphics state
    stack,      \* state_stack
    path,       \* current_path
    start,      \* path_start
    closed,     \* path_closed
    paths,      \* the paths recorded so far
    page        \* the page by the rules of PDF

drawing == <<state, stack, path, start, closed, paths, page>>

Pens == [stroke: Colours, width: Widths]
FirstPen == [stroke |-> Black, width |-> Hairline]

LastOf(s) == s[Len(s)]
FrontOf(s) == SubSeq(s, 1, Len(s) - 1)

(* A stroke from one point to another, in either direction. *)
Stroke(p, q) == {p, q}
Strokes(s) == {Stroke(s[i], s[i + 1]) : i \in 1..(Len(s) - 1)}
In(pen, strokes) == [pen: {pen}, stroke: strokes]

-----------------------------------------------------------------------------
(* The page by the rules of PDF. *)

(* at: the current point; from: where the subpath began; outline: its       *)
(* strokes; looped: it has been closed; earlier: the strokes of the         *)
(* subpaths before it in the same path; pens: the pen in force, above one   *)
(* for each open q; told: the same of the operators that the code reads;    *)
(* ink: what has been stroked; last: the last subpaths of what has been     *)
(* stroked in a pen that the code was told of; strays: those of all else    *)
(* that has been painted, fills and strokes in another pen, in the pen that *)
(* the code was told of; loops: the strokes that would close those          *)
(* subpaths that went on after closing.                                     *)
BlankPage ==
    [at |-> NoPoint, from |-> NoPoint, outline |-> {}, looped |-> FALSE, earlier |-> {},
     pens |-> <<FirstPen>>, told |-> <<FirstPen>>,
     ink |-> {}, last |-> {}, strays |-> {}, loops |-> {}, steps |-> 0]

Coloured(pen, colour) == [pen EXCEPT !.stroke = colour]
Widened(pen, width) == [pen EXCEPT !.width = width]
Renewed(s, x) == Append(FrontOf(s), x)
Under(s) == IF Len(s) = 1 THEN s ELSE FrontOf(s)

PageSave(g) ==
    [g EXCEPT !.pens = Append(@, LastOf(@)), !.told = Append(@, LastOf(@))]
PageRestore(g) == [g EXCEPT !.pens = Under(@), !.told = Under(@)]
PageSet(g, pen, told) == [g EXCEPT !.pens = Renewed(@, pen), !.told = Renewed(@, told)]
PageMove(g, p) ==
    [g EXCEPT !.at = p, !.from = p, !.outline = {}, !.looped = FALSE,
              !.earlier = g.earlier \cup g.outline, !.steps = @ + 1]
PageLines(g, s) ==
    [g EXCEPT !.at = LastOf(s), !.outline = @ \cup Strokes(<<g.at>> \o s),
              !.steps = @ + 1]
PageClose(g) ==
    [g EXCEPT !.at = g.from, !.looped = TRUE,
              !.outline = IF g.at = g.from THEN @ ELSE @ \cup {Stroke(g.at, g.from)}]
PageEnd(g) ==
    [g EXCEPT !.at = NoPoint, !.from = NoPoint, !.outline = {}, !.looped = FALSE,
              !.earlier = {}]
(* stroking: the operator strokes the path; otherwise it only fills it, and *)
(* puts no stroke on the page.                                              *)
PagePaint(g, stroking) ==
    LET pen == LastOf(g.pens)
        told == LastOf(g.told)
        heard == stroking /\ pen = told
    IN  PageEnd([g EXCEPT
            !.ink = IF stroking THEN @ \cup In(pen, g.earlier \cup g.outline) ELSE @,
            !.last = IF heard THEN @ \cup In(pen, g.outline) ELSE @,
            !.strays = IF heard THEN @ ELSE @ \cup In(told, g.outline),
            !.loops = IF g.looped THEN @ \cup In(told, {Stroke(g.at, g.from)}) ELSE @])

-----------------------------------------------------------------------------
DrawingInit ==
    /\ state = FirstPen /\ stack = <<>>
    /\ path = <<>> /\ start = NoPoint /\ closed = FALSE
    /\ paths = <<>>
    /\ page = BlankPage

(* q *)
Push ==
    /\ Len(stack) < MaxDepth
    /\ stack' = Append(stack, state)
    /\ page' = PageSave(page)
    /\ UNCHANGED <<state, path, start, closed, paths>>

(* Mutant: the state is thrown away, the colour of the inner drawing stays. *)
PopKeepingState ==
    /\ stack' = IF stack = <<>> THEN stack ELSE FrontOf(stack)
    /\ page' = PageRestore(page)
    /\ UNCHANGED <<state, path, start, closed, paths>>

(* Q; one too many is ignored. *)
Pop ==
    /\ IF stack = <<>> THEN UNCHANGED <<state, stack>>
       ELSE state' = LastOf(stack) /\ stack' = FrontOf(stack)
    /\ page' = PageRestore(page)
    /\ UNCHANGED <<path, start, closed, paths>>

(* RG, G and K *)
SetColour ==
    /\ \E c \in Colours :
           /\ state' = Coloured(state, c)
           /\ page' = PageSet(page, Coloured(LastOf(page.pens), c), Coloured(LastOf(page.told), c))
    /\ UNCHANGED <<stack, path, start, closed, paths>>

(* w *)
SetWidth ==
    /\ \E w \in Widths :
           /\ state' = Widened(state, w)
           /\ page' = PageSet(page, Widened(LastOf(page.pens), w), Widened(LastOf(page.told), w))
    /\ UNCHANGED <<stack, path, start, closed, paths>>

(* CS, SC and SCN set the colour of a stroke too, and gs may set its width: *)
(* the code has no branch for them.                                         *)
SetUnread ==
    /\ \E pen \in {Coloured(LastOf(page.pens), c) : c \in Colours}
                  \cup {Widened(LastOf(page.pens), w) : w \in Widths} :
           page' = PageSet(page, pen, LastOf(page.told))
    /\ UNCHANGED <<state, stack, path, start, closed, paths>>

(* Bound of the model. *)
Room(n) == page.steps + n <= MaxSteps

(* m: the path before it is forgotten, although it has not been painted yet. *)
MoveTo ==
    /\ Room(1)
    /\ \E p \in Points :
           /\ path' = <<p>> /\ start' = p
           /\ page' = PageMove(page, p)
    /\ closed' = FALSE
    /\ UNCHANGED <<state, stack, paths>>

(* l, c, v and y append points; a page has them only after a current point. *)
LineTo ==
    /\ page.at # NoPoint /\ Room(1)
    /\ \E s \in {<<p>> : p \in Points} \cup Curves :
           /\ path' = path \o s
           /\ page' = PageLines(page, s)
    /\ UNCHANGED <<state, stack, start, closed, paths>>

(* re *)
Rectangle ==
    /\ Room(2)
    /\ \E c \in Corners :
           /\ path' = <<c[1], c[2], c[3], c[4], c[1]>>
           /\ start' = c[1]
           /\ page' = PageClose(PageLines(PageMove(page, c[1]), <<c[2], c[3], c[4], c[1]>>))
    /\ closed' = TRUE
    /\ UNCHANGED <<state, stack, paths>>

(* h *)
ClosePath ==
    /\ page.at # NoPoint
    /\ path' = IF LastOf(path) # start THEN Append(path, start) ELSE path
    /\ closed' = TRUE
    /\ page' = PageClose(page)
    /\ UNCHANGED <<state, stack, start, paths>>

ResetPath == path' = <<>> /\ start' = NoPoint /\ closed' = FALSE

(* What an operator that paints records of a path, if anything. *)
Recorded(closing) ==
    LET shut == closed \/ closing IN
    [points |-> IF shut /\ start # NoPoint /\ LastOf(path) # start
                THEN Append(path, start) ELSE path,
     pen |-> state, closed |-> shut]

(* S, B and B* stroke a path as it is, s, b and b* close it first; f and f* *)
(* fill it.  The code records all of them alike.                            *)
Paint(closing, stroking) ==
    /\ paths' = IF Len(path) >= 2 THEN Append(paths, Recorded(closing)) ELSE paths
    /\ page' = PagePaint(IF closing /\ page.at # NoPoint THEN PageClose(page) ELSE page, stroking)
    /\ ResetPath
    /\ UNCHANGED <<state, stack>>

(* n *)
EndPath ==
    /\ ResetPath
    /\ page' = PageEnd(page)
    /\ UNCHANGED <<state, stack, paths>>

Operator ==
    \/ Push \/ Pop \/ SetColour \/ SetWidth \/ SetUnread
    \/ MoveTo \/ LineTo \/ Rectangle \/ ClosePath
    \/ (\E closing \in BOOLEAN : Paint(closing, TRUE)) \/ Paint(FALSE, FALSE) \/ EndPath

DrawingSpec == DrawingInit /\ [][Operator]_drawing

-----------------------------------------------------------------------------
(* What has been read off the page. *)
ReadMarks == UNION {In(paths[i].pen, Strokes(paths[i].points)) : i \in DOMAIN paths}

(* Every stroke that is read is on the page in the colour and width in      *)
(* force there, with three exceptions: the outline of a path that is only   *)
(* filled; a stroke whose colour or width was set by an operator that the   *)
(* code does not read; and the one that closes again a path that went on    *)
(* after it was closed.  Of every path that is stroked in a pen the code    *)
(* was told of, all of the last subpath is read.  Both hold however         *)
(* operators, colours and q and Q interleave (pdf_native.py:147-241).       *)
PagesAreReadAsDrawn ==
    /\ ReadMarks \subseteq page.ink \cup page.strays \cup page.loops
    /\ page.last \subseteq ReadMarks
=============================================================================
