---------------------------- MODULE TagExpression ----------------------------
(***************************************************************************)
(* The evaluation of a tag expression (specItemFilter.go): every tag is    *)
(* replaced with what it is for a scenario, "true" or "false", negations   *)
(* are replaced with their values from the text, and what is left, without *)
(* any negation, is evaluated as a constant of the Go language.            *)
(*                                                                         *)
(* An expression is a sequence of tags, operators and brackets, as         *)
(* replaceSpecialChar leaves it.  No tag's name contains another's.        *)
(***************************************************************************)
EXTENDS Integers, SequencesExt

CONSTANTS
  Tags,      \* tags that expressions are made of
  MaxTokens  \* bound on the length of an expression

Operators == {"!", "(", ")", "&", "|"}
Booleans == {"true", "false"}
Constants == Operators \cup Booleans

\* getOperatorsAndOperands takes what is between operators.
ASSUME TagsAssumption == Tags \cap Operators = {} /\ MaxTokens \in Nat

VARIABLE expression

ToBoolean(b) == IF b THEN "true" ELSE "false"

-----------------------------------------------------------------------------
(* What an expression means, token by token: brackets, then !, then &, then *)
(* |.  Of every open bracket, innermost first, there is the disjunction and *)
(* the conjunction so far, as the numbers of Go's constants, whether the    *)
(* next operand is negated, and what is expected next.                      *)

Bracket == [ors : {0, 1}, ands : {0, 1}, negated : {0, 1}, expected : {"operand", "operator"}]

Empty == [ors |-> 0, ands |-> 1, negated |-> 0, expected |-> "operand"]

Value(b) == IF 1 \in {b.ors, b.ands} THEN 1 ELSE 0

Operand(b, value) ==
  [b EXCEPT !.ands = IF @ = 1 /\ value # b.negated THEN 1 ELSE 0, !.negated = 0,
            !.expected = "operator"]

\* Nothing is open after an error.
ReadOperand(b, outer, token) ==
  CASE token \in Booleans -> <<Operand(b, IF token = "true" THEN 1 ELSE 0)>> \o outer
    [] token = "!" -> <<[b EXCEPT !.negated = 1 - @]>> \o outer
    [] token = "(" -> <<Empty, b>> \o outer
    [] OTHER -> <<>>

ReadOperator(b, outer, token) ==
  CASE token = "&" -> <<[b EXCEPT !.expected = "operand"]>> \o outer
    [] token = "|" -> <<[b EXCEPT !.ors = Value(b), !.ands = 1, !.expected = "operand"]>> \o outer
    [] token = ")" /\ outer # <<>> -> <<Operand(Head(outer), Value(b))>> \o Tail(outer)
    [] OTHER -> <<>>

ReadToken(open, token) ==
  IF open = <<>> THEN open
  ELSE IF Head(open).expected = "operand" THEN ReadOperand(Head(open), Tail(open), token)
  ELSE ReadOperator(Head(open), Tail(open), token)

OpenAfter(e) ==
  LET open[n \in 0..Len(e)] == IF n = 0 THEN <<Empty>> ELSE ReadToken(open[n - 1], e[n])
  IN  open[Len(e)]

Meaning(e) ==
  LET open == OpenAfter(e)
  IN  IF Len(open) = 1 /\ Head(open).expected = "operator" THEN ToBoolean(Value(Head(open)) = 1)
      ELSE "error"

\* How many brackets are open before token i.
Depth(e, i) ==
  LET depth[n \in 0..(i - 1)] ==
        IF n = 0 THEN 0
        ELSE depth[n - 1] + (CASE e[n] = "(" -> 1 [] e[n] = ")" -> -1 [] OTHER -> 0)
  IN  depth[i - 1]

-----------------------------------------------------------------------------
(* What the code makes of it.                                              *)

\* Go's types.Eval, which has no ! for the numbers that stand for true and false.
evaluateExp(e) == IF "!" \in ToSet(e) THEN "error" ELSE Meaning(e)

Operands(e) == {i \in DOMAIN e : e[i] \in Tags}

\* formatAndEvaluateExpression, its loop.
Formatted(e, present) ==
  [i \in DOMAIN e |-> IF i \in Operands(e) THEN ToBoolean(e[i] \in present) ELSE e[i]]

StandsAt(text, e, i) == i + Len(text) - 1 <= Len(e) /\ SubSeq(e, i, i + Len(text) - 1) = text

Occurrences(text, e) == {i \in DOMAIN e : StandsAt(text, e, i)}

\* strings.Replace
Replace(e, old, new) ==
  LET from[i \in 1..(Len(e) + 1)] ==
        IF i > Len(e) THEN <<>>
        ELSE IF StandsAt(old, e, i) THEN new \o from[i + Len(old)]
        ELSE <<e[i]>> \o from[i + 1]
  IN  from[1]

NegatedBracket == <<"!", "(">>

HasNegatedBracket(e) == Occurrences(NegatedBracket, e) # {}

\* A slip: the text up to the first closing bracket.
resolveToFirstClosing(e) ==
  LET open == Min(Occurrences(NegatedBracket, e)) + 1
      closing == {i \in (open + 1)..Len(e) : e[i] = ")"}
  IN  SubSeq(e, open + 1, IF closing = {} THEN Len(e) ELSE Min(closing) - 1)

\* resolveBracketExpression: the text in the first negated brackets, or all that follows
\* when they are not closed.
resolveBracketExpression(e) ==
  LET open == Min(Occurrences(NegatedBracket, e)) + 1
      closing == {i \in (open + 1)..Len(e) : e[i] = ")" /\ Depth(e, i) = Depth(e, open) + 1}
  IN  SubSeq(e, open + 1, IF closing = {} THEN Len(e) ELSE Min(closing) - 1)

\* Inside other negated brackets a negation is replaced, and theirs is dropped.
evaluateBrackets[e \in Seq(Constants)] ==
  IF HasNegatedBracket(e)
  THEN LET inner == resolveBracketExpression(e)
       IN  Replace(e, NegatedBracket \o inner \o <<")">>, evaluateBrackets[inner])
  ELSE <<ToBoolean(evaluateExp(e) # "true")>>

\* The loop of handleNegation.  A round makes the text shorter or changes nothing, now and
\* for ever: what has negated brackets after as many rounds as it has tokens always has.
ReplaceBrackets(e) ==
  LET round[n \in 0..Len(e)] ==
        IF n = 0 THEN e
        ELSE IF HasNegatedBracket(round[n - 1]) THEN evaluateBrackets[round[n - 1]]
        ELSE round[n - 1]
  IN  round[Len(e)]

handleNegation(e) ==
  ReplaceBrackets(
    Replace(Replace(e, <<"!", "true">>, <<"false">>), <<"!", "false">>, <<"true">>))

formatAndEvaluateExpression(e, present) ==
  LET replaced == handleNegation(Formatted(e, present))
  IN  IF HasNegatedBracket(replaced) THEN "hangs" ELSE evaluateExp(replaced)

\* validateTagExpression ends the process when this is an error.
Validated(e) == formatAndEvaluateExpression(e, Tags)

\* filterTags: an error is no match.
filterTags(e, present) == formatAndEvaluateExpression(e, present) = "true"

-----------------------------------------------------------------------------
(* Any text that can be continued to an expression.                        *)

Follows(e, token) ==
  IF e = <<>> \/ Last(e) \in {"!", "(", "&", "|"} THEN token \in Tags \cup {"!", "("}
  ELSE token \in {"&", "|"} \/ (token = ")" /\ Depth(e, Len(e) + 1) > 0)

TagsInit == expression = <<>>

TagsNext ==
  /\ Len(expression) < MaxTokens
  /\ \E token \in Tags \cup Operators :
       Follows(expression, token) /\ expression' = Append(expression, token)

TagsSpec == TagsInit /\ [][TagsNext]_expression
-----------------------------------------------------------------------------
(* Properties.                                                             *)

Nested(e) == \E i, j \in Occurrences(NegatedBracket, e) :
  i < j /\ \A k \in (i + 2)..j : Depth(e, k) > Depth(e, i)

NegatedTwice(e) == Occurrences(<<"!", "!">>, e) # {}

\* Scenarios are selected by what the expression says, and the check before the selection
\* lets it pass, unless it has negated brackets within negated brackets, or a negation
\* of a negation.  The evaluation ends unless negated brackets are not closed.
TagsAsWritten ==
  /\ Validated(expression) = "hangs" => Depth(expression, Len(expression) + 1) > 0
  /\ ~Nested(expression) /\ ~NegatedTwice(expression) =>
       \A present \in SUBSET Tags :
         LET meaning == Meaning(Formatted(expression, present))
         IN  meaning # "error" =>
               /\ Validated(expression) \in {"true", "false"}
               /\ filterTags(expression, present) <=> meaning = "true"
=============================================================================
