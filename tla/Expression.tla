------------------------------- MODULE Expression ------------------------------
(* The templates of notifications: trigger-expression-parser.ts evaluates what *)
(* stands between ${ and } without a grammar. It looks for the first operator *)
(* outside quotes and parentheses, the loosest kind first, cuts the text there *)
(* and evaluates the pieces the same way. *)
EXTENDS Naturals, Sequences, SequencesExt

CONSTANTS Name,         \* the variables of a template
          TextValue,        \* the texts a variable may hold; <<>> stands for none
          Literal,      \* the contents of the string literals written in templates
          Method        \* the methods written in templates

VARIABLES written,      \* the expression the user wrote, as a tree
          values,       \* Name -> TextValue
          rendered      \* the message, or NotYet

exprVars == <<written, values, rendered>>

NotYet == <<"not", "yet">>
Operators == {"?", ":", "&&", "+"}

\* The marks around an expression, the quotes and the backslash are tokens like others.
Opening == "dollar brace"
Closing == "brace"
Double == "double quote"
Single == "single quote"
Quotes == {Double, Single}
Backslash == "backslash"

\* The scan of findTopLevelOperator: the depth of parentheses, the quote it is in.
Outside == "outside"
ScanStart == [depth |-> 0, quote |-> Outside, skip |-> FALSE]

\* toggleQuoteState: a quote of one kind means nothing inside the other kind.
Toggled(quote, ch) ==
  CASE ch \in Quotes /\ quote = Outside -> ch [] ch \in Quotes /\ quote = ch -> Outside [] OTHER -> quote
IsQuoted(quote, ch) == Toggled(quote, ch) # quote \/ quote # Outside

Deeper(depth, ch) == CASE ch = "(" -> depth + 1 [] ch = ")" -> depth - 1 [] OTHER -> depth

\* scanTopLevelOperatorStep: what follows a backslash is skipped.
ScanStep(s, ch) ==
  CASE s.skip -> [s EXCEPT !.skip = FALSE]
    [] ~s.skip /\ ch = Backslash -> [s EXCEPT !.skip = TRUE]
    [] ~s.skip /\ ch # Backslash /\ IsQuoted(s.quote, ch) -> [s EXCEPT !.quote = Toggled(s.quote, ch)]
    [] OTHER -> [s EXCEPT !.depth = Deeper(s.depth, ch)]

Scan(text, start) ==
  LET scan[i \in 0..Len(text)] == IF i = 0 THEN start ELSE ScanStep(scan[i - 1], text[i])
  IN  scan

IsTopLevel(s, ch, op) ==
  ~s.skip /\ ch # Backslash /\ ~IsQuoted(s.quote, ch) /\ Deeper(s.depth, ch) = 0 /\ ch = op

\* The first of some places; 0 if there is none.
FirstOf(places) == IF places = {} THEN 0 ELSE CHOOSE i \in places : \A j \in places : i <= j

\* Where the first operator of a kind stands outside quotes and parentheses.
TopLevel(text, op) ==
  LET scan == Scan(text, ScanStart)
  IN  FirstOf({i \in 1..Len(text) : IsTopLevel(scan[i - 1], text[i], op)})

\* What templates are written with. A literal is written so that it ends where its
\* user ends it: a double quote inside is escaped.
Special == Operators \cup Quotes \cup {Backslash, "(", ")"}
Token == Name \cup Method \cup Special \cup UNION {ToSet(text) : text \in Literal}

ASSUME ExprAssumption ==
  /\ (Name \cup Method) \cap Special = {} /\ Closing \notin Token
  /\ Literal \subseteq Seq(Token)
  /\ \A text \in Literal :
       LET scan == Scan(text, [ScanStart EXCEPT !.quote = Double])
       IN  (\A i \in 0..Len(text) : scan[i].quote = Double) /\ ~scan[Len(text)].skip

TextBefore(text, i) == SubSeq(text, 1, i - 1)
TextAfter(text, i) == SubSeq(text, i + 1, Len(text))

\* evalStringLiteral: what the quotes at the two ends enclose, a backslash before
\* a quote taken away.
Unescaped(text) ==
  LET kept == {i \in DOMAIN text : ~(text[i] = Backslash /\ i < Len(text) /\ text[i + 1] \in Quotes)}
      order == SetToSortSeq(kept, <)
  IN  [i \in DOMAIN order |-> text[order[i]]]
IsLiteral(text) == Len(text) >= 2 /\ text[1] = Last(text) /\ text[1] \in Quotes

\* evalMethodCall: a path, a method, arguments without a parenthesis. Of the
\* allowed methods charAt stands for all; another gives nothing.
IsCall(text) == Len(text) = 4 /\ text[1] \in Name /\ text[3] = "(" /\ text[4] = ")"
CallValue(text, vars) ==
  LET target == vars[text[1]]
  IN  IF text[2] = ".charAt" /\ target # <<>> THEN <<Head(target)>> ELSE <<>>

\* evalTernary, evalLogicalAnd, evalConcat: the pieces around the operator.
Ternary(text, eval) ==
  LET mark == TopLevel(text, "?")
      rest == TextAfter(text, mark)
      colon == TopLevel(rest, ":")
  IN  IF eval[TextBefore(text, mark)] # <<>> THEN eval[TextBefore(rest, colon)] ELSE eval[TextAfter(rest, colon)]
And(text, eval) ==
  LET and == TopLevel(text, "&&")
  IN  IF eval[TextBefore(text, and)] = <<>> THEN <<>> ELSE eval[TextAfter(text, and)]
Concat(text, eval) ==
  LET plus == TopLevel(text, "+")
  IN  eval[TextBefore(text, plus)] \o eval[TextAfter(text, plus)]

IsTernary(text) == TopLevel(text, "?") # 0 /\ TopLevel(TextAfter(text, TopLevel(text, "?")), ":") # 0

Atom(text, vars) ==
  CASE IsLiteral(text) -> Unescaped(SubSeq(text, 2, Len(text) - 1))
    [] ~IsLiteral(text) /\ IsCall(text) -> CallValue(text, vars)
    [] Len(text) = 1 /\ text[1] \in Name -> vars[text[1]]
    [] OTHER -> <<>>

\* Mutant: && is looked for after +.
PlusFirst(text, vars, eval) ==
  CASE IsTernary(text) -> Ternary(text, eval)
    [] ~IsTernary(text) /\ TopLevel(text, "+") # 0 -> Concat(text, eval)
    [] ~IsTernary(text) /\ TopLevel(text, "+") = 0 /\ TopLevel(text, "&&") # 0 -> And(text, eval)
    [] OTHER -> Atom(text, vars)

\* safeEvalExpr: the kinds of expression are tried in this order.
Tried(text, vars, eval) ==
  CASE IsTernary(text) -> Ternary(text, eval)
    [] ~IsTernary(text) /\ TopLevel(text, "&&") # 0 -> And(text, eval)
    [] ~IsTernary(text) /\ TopLevel(text, "&&") = 0 /\ TopLevel(text, "+") # 0 -> Concat(text, eval)
    [] OTHER -> Atom(text, vars)

\* A piece is shorter than the text it is cut from; an empty one gives nothing.
Eval(text, vars) ==
  LET eval[n \in 0..Len(text)] ==
        [piece \in Seq(Token) |-> IF n = 0 THEN <<>> ELSE Tried(piece, vars, eval[n - 1])]
  IN  eval[Len(text)][text]

-------------------------------------------------------------------------------
\* What users write: a tree of operators, and its text.
Leaf == [kind : {"name"}, name : Name] \cup [kind : {"text"}, text : Literal]
        \cup [kind : {"call"}, name : Name, method : Method]
Pair(op) == [kind : {op}, left : Leaf, right : Leaf]
Sum == Leaf \cup Pair("+")
Both == [kind : {"&&"}, left : Sum, right : Sum]
Conditional == [kind : {"?"}, test : Sum \cup Pair("&&"), yes : Leaf, no : Sum]
Tree == Sum \cup Both \cup Conditional

Joined(left, op, right) == left \o <<op>> \o right

TextOfLeaf(e) == CASE e.kind = "name" -> <<e.name>>
                   [] e.kind = "text" -> <<Double>> \o e.text \o <<Double>>
                   [] e.kind = "call" -> <<e.name, e.method, "(", ")">>
TextOfSum(e) == IF e.kind = "+" THEN Joined(TextOfLeaf(e.left), "+", TextOfLeaf(e.right)) ELSE TextOfLeaf(e)
TextOfBoth(e) == IF e.kind = "&&" THEN Joined(TextOfSum(e.left), "&&", TextOfSum(e.right)) ELSE TextOfSum(e)
Text(e) == IF e.kind = "?"
           THEN Joined(TextOfBoth(e.test), "?", Joined(TextOfLeaf(e.yes), ":", TextOfSum(e.no)))
           ELSE TextOfBoth(e)

\* What they mean by it.
LeafMeans(e, vars) ==
  CASE e.kind = "name" -> vars[e.name]
    [] e.kind = "text" -> Unescaped(e.text)
    [] e.kind = "call" -> IF e.method = ".charAt" /\ vars[e.name] # <<>> THEN <<Head(vars[e.name])>> ELSE <<>>
SumMeans(e, vars) ==
  IF e.kind = "+" THEN LeafMeans(e.left, vars) \o LeafMeans(e.right, vars) ELSE LeafMeans(e, vars)
BothMeans(e, vars) ==
  IF e.kind # "&&" THEN SumMeans(e, vars)
  ELSE IF SumMeans(e.left, vars) = <<>> THEN <<>> ELSE SumMeans(e.right, vars)
Meaning(e, vars) ==
  IF e.kind # "?" THEN BothMeans(e, vars)
  ELSE IF BothMeans(e.test, vars) # <<>> THEN LeafMeans(e.yes, vars) ELSE SumMeans(e.no, vars)

\* safeInterpolate: the expression ends at the first } after its ${.
Interpolate(template, vars) ==
  LET open == FirstOf({i \in DOMAIN template : template[i] = Opening})
      rest == TextAfter(template, open)
      close == FirstOf({i \in DOMAIN rest : rest[i] = Closing})
      inner == TextBefore(rest, close)
  IN  IF open = 0 \/ close <= 1 THEN template
      ELSE TextBefore(template, open) \o Eval(inner, vars) \o TextAfter(rest, close)

ExprInit ==
  /\ written \in Tree
  /\ values \in [Name -> TextValue]
  /\ rendered = NotYet

\* renderSimple, renderBatch.
Render ==
  /\ rendered = NotYet
  /\ rendered' = Interpolate(Joined(<<"is">>, Opening, Joined(Text(written), Closing, <<"!">>)), values)
  /\ UNCHANGED <<written, values>>

ExprSpec == ExprInit /\ [][Render]_exprVars

-------------------------------------------------------------------------------
(* A template says what it means: for every expression of conditionals, && and + *)
(* over names, calls and literals - which may hold quotes of the other kind and *)
(* operators - the evaluation by cutting at operators gives what the grammar *)
(* with their precedence gives (safeEvalExpr). Nested parentheses and a *)
(* conditional between ? and : are not of this language: the code gives "". *)
RendersAsMeant ==
  rendered # NotYet => rendered = <<"is">> \o Meaning(written, values) \o <<"!">>
===============================================================================
