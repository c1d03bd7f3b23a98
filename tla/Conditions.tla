----------------------------- MODULE Conditions -----------------------------
(***************************************************************************)
(* What a Condition or a Switch decides about a value (conditions.py,      *)
(* switch.py), and the exact numbers both work with (exact_json.py).  A    *)
(* text is one word, numeral or JSON value with how it is spelled.         *)
(***************************************************************************)
EXTENDS Integers, Sequences, SequencesExt

CONSTANTS
  Scale,        \* decimal places that are told apart
  Magnitude,    \* MAX_EXPONENT: numbers run from 10^-Magnitude to 10^Magnitude
  Precision,    \* significant digits a binary float keeps
  FloatRange,   \* floats run from 10^-FloatRange to 10^FloatRange
  IntDigits,    \* MAX_INTEGER_DIGITS: of the longest integer that is sent as one
  TextDigits,   \* MAX_NUMBER_TEXT: of the longest text that is read as a number
  MaxExponent   \* the largest exponent that Decimal represents

-----------------------------------------------------------------------------
\* A decimal as written: digits and exponent; Amount is the number itself.
Amount(d) == d.digits * 10 ^ (d.exp + Scale)
Abs(n) == IF n < 0 THEN -n ELSE n
DigitsIn(n) == IF n = 0 THEN 1 ELSE CHOOSE k \in 1 .. 12 : 10 ^ (k - 1) <= Abs(n) /\ Abs(n) < 10 ^ k
Integral(d) == Amount(d) % 10 ^ Scale = 0

Within(n, range) == n = 0 \/ Abs(n) \in 10 ^ (Scale - range) .. 10 ^ (Scale + range)

\* Decimal: an exponent beyond what it represents is no decimal.
Represented(d) == Abs(d.exp) <= MaxExponent

\* _decimal, _integer: nothing outside the range is carried.
InRange(d) == Represented(d) /\ Within(Amount(d), Magnitude)

\* float(): the nearest number of so many digits; beyond its range it is infinite,
\* or 0.
Float(d) ==
  LET n == Amount(d)
      unit == IF DigitsIn(n) <= Precision THEN 1 ELSE 10 ^ (DigitsIn(n) - Precision)
      nearest == ((2 * n + unit) \div (2 * unit)) * unit
  IN  IF Within(nearest, FloatRange) THEN nearest ELSE 0

\* plain: what is sent for a Decimal, if anything is: a short integer, or a
\* float that is written as the same number again.
ShortInteger(d) == Integral(d) /\ DigitsIn(Amount(d)) - Scale <= IntDigits
Plain(d) == IF ShortInteger(d) THEN {Amount(d)} ELSE {Float(d)} \cap {Amount(d)}

-----------------------------------------------------------------------------
\* Values.  A numeral's text is that of its digits and exponent, or has its
\* exponent spelled otherwise than str() does ("1e3"), or is longer than a
\* number's text may be by the zeros in front.
Value(kind, x) == <<kind, x>>
Null == Value("null", 0)
NoValue == Value("error", 0)
Text(content, pad, cap) == Value("text", [content |-> content, pad |-> pad, cap |-> cap])
Numeral(d, spelled) == <<"numeral", d, spelled>>
Word(w) == <<"word", w>>
Json(value) == <<"json", value>>
Object(fields) == Value("object", fields)

\* exact_json.loads of a text: objects and numbers; other words are no JSON.
\* Numbers inside an object are in range already, and infinity is not JSON.
Carries(value) ==
  /\ value[1] # "infinite"
  /\ value[1] = "object" => \A key \in DOMAIN value[2] : value[2][key][1] # "infinite"
Loads(text) ==
  CASE text.content[1] = "json" /\ Carries(text.content[2]) -> text.content[2]
    [] text.content[1] = "numeral" /\ InRange(text.content[2]) -> Value("number", text.content[2])
    [] OTHER -> NoValue

\* read_field: object keys only, the first step through JSON when it is text.
ReadField(value, path) ==
  LET step(v, key) == IF v[1] = "object" /\ key \in DOMAIN v[2] THEN v[2][key] ELSE NoValue
      start == IF value[1] = "text" /\ path # <<>> THEN Loads(value[2]) ELSE value
  IN  FoldLeft(step, start, path)

\* parse_number, as_number: the decimal, or none.  Of a text the digits are
\* counted; its sign, point and exponent are not.
NoNumber == [digits |-> 0, exp |-> -Scale - 1]
IsNumber(text) ==
  /\ text.content[1] = "numeral" /\ Represented(text.content[2])
  /\ text.content[3] # "long" /\ DigitsIn(text.content[2].digits) <= TextDigits
ParseNumber(text) == IF IsNumber(text) THEN text.content[2] ELSE NoNumber

AsNumber(value) ==
  CASE value[1] = "number" -> value[2]
    [] value[1] = "text" -> ParseNumber(value[2])
    [] OTHER -> NoNumber

\* as_text: the text of a scalar, or none.
NoText == [content |-> <<"none", 0>>, pad |-> FALSE, cap |-> FALSE]
AsText(value) ==
  CASE value[1] = "text" -> value[2]
    [] value[1] = "bool" -> Text(Word(IF value[2] THEN "true" ELSE "false"), FALSE, FALSE)[2]
    [] value[1] = "number" -> Text(Numeral(value[2], "str"), FALSE, FALSE)[2]
    [] value[1] = "infinite" -> Text(Word("infinity"), FALSE, TRUE)[2]
    [] OTHER -> NoText

IsEmpty(value) ==
  \/ value = Null
  \/ value[1] = "text" /\ value[2].content = Word("")
  \/ value[1] = "list" /\ value[2] = 0
  \/ value[1] = "object" /\ value[2] = <<>>

-----------------------------------------------------------------------------
Ordering == {"gt", "gte", "lt", "lte"}
Numeric(c) == c.operator \in Ordering \/ c.number

\* operands_match_operator: what may be saved at all.
Valid(c) ==
  /\ CASE c.operator = "empty" -> c.operands = <<>>
       [] c.operator = "in" -> c.operands # <<>>
       [] OTHER -> Len(c.operands) = 1
  /\ c.number => c.operator \notin {"contains", "empty"}
  /\ Numeric(c) => \A text \in ToSet(c.operands) : ParseNumber(text) # NoNumber

\* The settings of a condition as the editor keeps them: the operands under each
\* of the names that operators use.
Operand(operator) ==
  CASE operator = "contains" -> "contains" [] operator = "in" -> "options" [] operator = "empty" -> "none" [] OTHER -> "compare_to"
Settings(operator, operands, number) ==
  [operator |-> operator, number |-> number,
   operands |-> [name \in {"contains", "compare_to", "options", "none"} |-> IF name = Operand(operator) THEN operands ELSE <<>>]]
Accepted(settings) ==
  LET name == Operand(settings.operator) IN
  /\ \A other \in DOMAIN settings.operands \ {name} : settings.operands[other] = <<>>
  /\ Valid([operator |-> settings.operator, operands |-> settings.operands[name], number |-> settings.number])

\* withConditionOperator: another operator drops what it does not use.
Switched(settings, operator) ==
  [settings EXCEPT !.operator = operator, !.number = settings.number /\ operator \in {"eq", "ne", "in"},
     !.operands = [name \in DOMAIN settings.operands |-> IF name = Operand(operator) THEN settings.operands[name] ELSE <<>>]]

Holds(b) == IF b THEN "true" ELSE "false"

NumberDecides(c, n) ==
  LET targets == {Amount(ParseNumber(text)) : text \in ToSet(c.operands)} IN
  Holds(CASE c.operator \in {"in", "eq"} -> Amount(n) \in targets
          [] c.operator = "ne" -> Amount(n) \notin targets
          [] c.operator = "gt" -> \A t \in targets : Amount(n) > t
          [] c.operator = "gte" -> \A t \in targets : Amount(n) >= t
          [] c.operator = "lt" -> \A t \in targets : Amount(n) < t
          [] c.operator = "lte" -> \A t \in targets : Amount(n) <= t)

\* Surrounding space never counts, capitals only when asked to; a phrase is
\* looked for as it stands.
Fold(text, c) == [text EXCEPT !.pad = FALSE, !.cap = c.sensitive /\ text.cap]
Includes(text, phrase, c) ==
  /\ phrase.content = text.content
  /\ phrase.pad => text.pad
  /\ c.sensitive => phrase.cap = text.cap
TextDecides(c, text) ==
  LET same == \E operand \in ToSet(c.operands) : Fold(operand, c) = Fold(text, c) IN
  Holds(CASE c.operator = "contains" -> Includes(text, c.operands[1], c)
          [] c.operator \in {"in", "eq"} -> same
          [] c.operator = "ne" -> ~same)

\* evaluate: "true", "false", or an error.
Evaluate(value, c) ==
  LET v == ReadField(value, c.field) IN
  CASE v = NoValue -> "error"
    [] v # NoValue /\ c.operator = "empty" -> Holds(IsEmpty(v))
    [] v # NoValue /\ c.operator # "empty" /\ Numeric(c) ->
         IF AsNumber(v) = NoNumber THEN "error" ELSE NumberDecides(c, AsNumber(v))
    [] OTHER -> IF AsText(v) = NoText THEN "error" ELSE TextDecides(c, AsText(v))

\* Mutant: a case that cannot be compared is passed over.
ChooseOn(value, cases) ==
  LET at == SelectInSeq(cases, LAMBDA case : Evaluate(value, case.when) = "true")
  IN  IF at = 0 THEN "default" ELSE cases[at].id

\* choose: the first case that holds; an error ends the search.
Choose(value, cases) ==
  LET at == SelectInSeq(cases, LAMBDA case : Evaluate(value, case.when) # "false") IN
  CASE at = 0 -> "default"
    [] at # 0 /\ Evaluate(value, cases[at].when) = "error" -> "error"
    [] OTHER -> cases[at].id

-----------------------------------------------------------------------------
\* A value is decided the same by itself, inside an object and inside the JSON of
\* one, except that infinity has no JSON, and as the text it is written as, in any
\* spelling.  Only a number whose text is longer than a number's text may be is
\* refused as text, and then it is an error, never the other branch; a text that
\* names no number is an error in each form (as_number, as_text, read_field,
\* parse_number).
SpellingDoesNotDecide(value, c) ==
  LET plain == [c EXCEPT !.field = <<>>]
      keyed == [c EXCEPT !.field = <<"k">>]
      within == Object([k |-> value])
      decided == Evaluate(value, plain)
      asText(text) == Evaluate(Value("text", text), plain)
      wordy == AsText(value) # NoText /\ c.operator # "empty"
  IN
  Valid(c) =>
    /\ Evaluate(within, keyed) = decided
    /\ Evaluate(Text(Json(within), TRUE, FALSE), keyed) = IF value[1] = "infinite" THEN "error" ELSE decided
    /\ wordy /\ ~(value[1] = "number" /\ Numeric(c)) => asText(AsText(value)) = decided
    /\ wordy /\ value[1] = "number" /\ Numeric(c) =>
         \A spelled \in {"str", "other", "long"}, pad, cap \in BOOLEAN :
           LET text == Text(Numeral(value[2], spelled), pad, cap)[2]
               fits == spelled # "long" /\ DigitsIn(value[2].digits) <= TextDigits
           IN  asText(text) = IF fits THEN decided ELSE "error"

\* A Switch with a case for less, equal and more than a bound takes exactly one
\* of the three or fails: neither "default" nor two paths in disagreement,
\* whatever the order of its cases (switch.py:5-6).
PathsSplit(value, c) ==
  LET test(op) == [id |-> op, when |-> [c EXCEPT !.operator = op, !.number = TRUE]]
      taken(ops) == Choose(value, [k \in 1 .. 3 |-> test(ops[k])])
      orders == {ops \in [1 .. 3 -> {"lt", "eq", "gt"}] : ToSet(ops) = {"lt", "eq", "gt"}}
  IN
  Len(c.operands) = 1 /\ Valid(test("eq").when) =>
    /\ \E route \in {"lt", "eq", "gt", "error"} : \A ops \in orders : taken(ops) = route
    /\ \A pair \in {<<"lt", "gte">>, <<"gt", "lte">>, <<"eq", "ne">>} :
         LET one == Evaluate(value, test(pair[1]).when)  other == Evaluate(value, test(pair[2]).when)
         IN  IF one = "error" THEN other = "error" ELSE {one, other} = {"true", "false"}

\* However a decimal is written, what is sent is the number that was decided on,
\* and it is refused only when it is no short integer and no float is that number:
\* with more significant digits than a float keeps, or beyond its range
\* (exact_json.plain).
SentWhenever(d) ==
  LET floats == {m * 10 ^ k : m \in 0 .. 10 ^ Precision - 1, k \in 0 .. Scale + FloatRange}
      held == Within(Amount(d), FloatRange) /\ Abs(Amount(d)) \in floats
  IN  Plain(d) = IF held \/ ShortInteger(d) THEN {Amount(d)} ELSE {}

\* Whatever operators the author tries one after the other, the condition is then
\* refused only for the operand that the editor shows: it is missing, or is no
\* number where one is compared (withConditionOperator, conditionSettingVisible).
SwitchingLeavesNothing(c, operators) ==
  \A first, second \in operators :
    LET after == Switched(Switched(Settings(c.operator, c.operands, c.number), first), second)
        shown == after.operands[Operand(second)] IN
    ~Accepted(after) => \/ shown = <<>> /\ second # "empty"
                        \/ Numeric(after) /\ \E k \in DOMAIN shown : ParseNumber(shown[k]) = NoNumber
=============================================================================
