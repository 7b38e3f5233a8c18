------------------------------- MODULE StepText -------------------------------
(***************************************************************************)
(* The text of a step, read (processStepText, stepProcessor.go) and        *)
(* written (formatStep, formatter.go): a formatted or refactored           *)
(* specification has every step of it read, written, and read again.       *)
(*                                                                         *)
(* A text is a sequence of characters, without blanks.  What is read of it *)
(* so far is a record; its state is the set of bits of currentState.       *)
(***************************************************************************)
EXTENDS Integers, SequencesExt

CONSTANT MaxLength  \* bound on the length of a text

quotes == "\""
escape == "\\"
newline == "newline"  \* what an escaped n stands for

Chars == {"n", quotes, escape, "<", ">", ":", "{", "}"}

VARIABLES
  text,  \* the characters read
  read   \* what they give

textVars == <<text, read>>

Nothing ==
  [state |-> {"default"}, lastState |-> {}, stepValue |-> <<>>, argText |-> <<>>, args |-> <<>>,
   reserved |-> FALSE]

TextInit == text = <<>> /\ read = Nothing

-----------------------------------------------------------------------------
(* Reading.                                                                *)

\* Into curBuffer
WriteRune(r, char) ==
  IF r.state \cap {"quotes", "dynamic"} # {}
  THEN [r EXCEPT !.argText = Append(@, char)] ELSE [r EXCEPT !.stepValue = Append(@, char)]

\* The end of a parameter, which leaves a placeholder in the value.
EndParam(r, kind) ==
  [r EXCEPT !.state = {"default"}, !.stepValue = @ \o <<"{", "}">>, !.argText = <<>>,
            !.args = Append(@, [kind |-> kind, text |-> r.argText])]

Unescaped(char) == IF char = "n" THEN newline ELSE char

\* acceptSpecialDynamicParam, acceptStaticParam, the reserved characters.
AcceptParam(r, char) ==
  CASE char = "<" /\ r.state = {"default"} -> [r EXCEPT !.state = {"dynamic"}]
    [] char = ">" /\ "dynamic" \in r.state ->
         EndParam(r, IF "special" \in r.state THEN "special" ELSE "dynamic")
    [] char = quotes /\ r.state = {"default"} -> [r EXCEPT !.state = {"quotes"}]
    [] char = quotes /\ "quotes" \in r.state -> EndParam(r, "static")
    [] char \in {"{", "}"} /\ r.state = {"default"} -> [r EXCEPT !.reserved = TRUE]
    [] OTHER -> WriteRune(r, char)

\* A colon marks the state it is read in, whichever that is.
Marked(r, char) == IF char = ":" THEN [r EXCEPT !.state = @ \cup {"special"}] ELSE r

Element(r, char) ==
  IF r.reserved THEN r
  ELSE IF r.state = {"escape"} THEN WriteRune([r EXCEPT !.state = r.lastState], Unescaped(char))
  ELSE IF char = escape THEN [r EXCEPT !.lastState = r.state, !.state = {"escape"}]
  ELSE AcceptParam(Marked(r, char), char)

\* A text ends without error; a step without any is an error as well.
Accepted(r) == ~r.reserved /\ r.state # {"quotes"} /\ "dynamic" \notin r.state

processStepText(chars) ==
  LET after[n \in 0..Len(chars)] == IF n = 0 THEN Nothing ELSE Element(after[n - 1], chars[n])
  IN  after[Len(chars)]

-----------------------------------------------------------------------------
(* Writing.                                                                *)

\* A slip: only quotes are escaped.
UnescapedStringQuotes(chars) ==
  FlattenSeq([i \in DOMAIN chars |->
    CASE chars[i] = quotes -> <<escape, quotes>>
      [] chars[i] = newline -> <<escape, "n">>
      [] OTHER -> <<chars[i]>>])

\* getUnescapedString escapes what strconv.Quote does.
UnescapedString(chars) ==
  FlattenSeq([i \in DOMAIN chars |->
    CASE chars[i] \in {quotes, escape} -> <<escape, chars[i]>>
      [] chars[i] = newline -> <<escape, "n">>
      [] OTHER -> <<chars[i]>>])

formattedArg(arg) ==
  IF arg.kind = "static" THEN <<quotes>> \o UnescapedString(arg.text) \o <<quotes>>
  ELSE <<"<">> \o UnescapedString(arg.text) \o <<">">>

Placeholders(chars) == {i \in 1..(Len(chars) - 1) : chars[i] = "{" /\ chars[i + 1] = "}"}

Replaced(chars, arg) ==
  ReplaceSubSeqAt(Min(Placeholders(chars)), formattedArg(arg), <<"{", "}">>, chars)

\* One placeholder after the other is replaced in what the one before has given.
formatStep(r) ==
  LET after[n \in 0..Len(r.args)] ==
        IF n = 0 THEN r.stepValue ELSE Replaced(after[n - 1], r.args[n])
  IN  after[Len(r.args)]

\* With more placeholders than arguments it panics.
Formats(r) == Cardinality(Placeholders(r.stepValue)) = Len(r.args)

-----------------------------------------------------------------------------

TextNext ==
  /\ Len(text) < MaxLength
  /\ \E char \in Chars :
       /\ text' = Append(text, char)
       /\ read' = Element(read, char)

TextSpec == TextInit /\ [][TextNext]_textVars

-----------------------------------------------------------------------------
(* Properties.                                                             *)

\* Nothing but the placeholders in the value, and nothing in the name of a dynamic
\* parameter, would have to be escaped, which formatStep does for quotes, backslashes and
\* line ends in arguments only: no colon that was escaped to have parameters after it,
\* no argument that looks like a placeholder.
Writable(r) ==
  /\ Cardinality({i \in DOMAIN r.stepValue : r.stepValue[i] \notin {"n", ">", ":"}}) = 2 * Len(r.args)
  /\ \A i \in DOMAIN r.stepValue : r.stepValue[i] = ":" => \A j \in Placeholders(r.stepValue) : j < i
  /\ \A i \in DOMAIN r.args :
       /\ Placeholders(r.args[i].text) = {}
       /\ r.args[i].kind # "static" => ">" \notin ToSet(r.args[i].text)
       /\ r.args[i].kind = "dynamic" => ":" \notin ToSet(r.args[i].text)

\* Formatting changes no such step: what is written of it is read as the same value with
\* the same parameters, whatever is escaped in them.
RoundTrip ==
  Accepted(read) /\ Writable(read) =>
    LET again == processStepText(formatStep(read))
    IN  Formats(read) /\ Accepted(again) /\ again.stepValue = read.stepValue /\ again.args = read.args

\* A string that is not terminated is an error, so that no text is lost with it
\* (stepProcessor.go: "If it is a valid step, the state should be default when the
\* control reaches here").  The code does not keep it.
NothingUnterminated == Accepted(read) /\ read.state # {"escape"} => read.argText = <<>>
=============================================================================
