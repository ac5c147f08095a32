---------------------------- MODULE DatamodelText ----------------------------
(***************************************************************************)
(* The text of a datamodel: the renderer that writes a schema AST and the  *)
(* parser that reads it back.                                              *)
(*                                                                         *)
(* A text is a sequence of tokens: names, keywords and punctuation, and    *)
(* between quotes one token for each character.  Space, indentation and    *)
(* documentation are left out; a line ends with the token "nl".  A schema  *)
(* is the sequence of its top-level items.                                 *)
(***************************************************************************)
EXTENDS Integers, Sequences, SequencesExt

ForEach(items, Op(_)) == FlattenSeq([i \in DOMAIN items |-> Op(items[i])])

Tops(schema, kind) == SelectSeq(schema, LAMBDA top : top.kind = kind)

-----------------------------------------------------------------------------
(* Rendering.                                                              *)

\* Backslashes escaped after the quotes.
render_str_quotes_first(text) ==
    ForEach(text, LAMBDA c : CASE c = "bs" -> <<"bs", "bs">>
                               [] c = "quote" -> <<"bs", "bs", "quote">>
                               [] c = "newline" -> <<"bs", "n">>
                               [] OTHER -> <<c>>)

render_str(text) ==
    ForEach(text, LAMBDA c : CASE c = "bs" -> <<"bs", "bs">>
                               [] c = "quote" -> <<"bs", "quote">>
                               [] c = "newline" -> <<"bs", "n">>
                               [] OTHER -> <<c>>)

Commas(texts) == FlattenSeq([i \in DOMAIN texts |-> IF i = 1 THEN texts[i] ELSE <<",">> \o texts[i]])

RECURSIVE render_value(_)
render_value(e) ==
    CASE e.is = "StringValue" -> <<"quote">> \o render_str(e.text) \o <<"quote">>
      [] e.is = "Array" -> <<"[">> \o Commas([i \in DOMAIN e.values |-> render_value(e.values[i])]) \o <<"]">>
      [] e.is = "Function" ->
            <<e.name, "(">> \o Commas([i \in DOMAIN e.values |-> render_value(e.values[i])]) \o <<")">>
      [] OTHER -> e.text

render_argument(argument) ==
    (IF argument.name = "" THEN <<>> ELSE <<argument.name, ":">>) \o render_value(argument.value)

render_arguments(arguments) == Commas([i \in DOMAIN arguments |-> render_argument(arguments[i])])

RenderDirective(owl, directive) ==
    <<owl, directive.name>>
    \o IF directive.arguments = <<>> THEN <<>> ELSE <<"(">> \o render_arguments(directive.arguments) \o <<")">>

render_field_directives(directives) == ForEach(directives, LAMBDA x : RenderDirective("@", x))

render_block_directives(directives) == ForEach(directives, LAMBDA x : RenderDirective("@@", x) \o <<"nl">>)

Block(keyword, name, lines) == <<keyword, name, "{", "nl">> \o lines \o <<"}", "nl">>

render_source_block(source) ==
    Block("datasource", source.name,
          ForEach(source.properties, LAMBDA p : <<p.name, "=">> \o render_value(p.value) \o <<"nl">>))

render_field_arity(arity) ==
    CASE arity = "List" -> <<"[]">> [] arity = "Optional" -> <<"?">> [] arity = "Required" -> <<>>

render_field(field) ==
    <<field.name, field.type>> \o render_field_arity(field.arity)
    \o render_field_directives(field.directives) \o <<"nl">>

render_model(model) ==
    Block("model", model.name, ForEach(model.fields, render_field) \o render_block_directives(model.directives))

render_enum(enum) ==
    Block("enum", enum.name,
          ForEach(enum.values, LAMBDA v : <<v.name>> \o render_field_directives(v.directives) \o <<"nl">>)
          \o render_block_directives(enum.directives))

\* The arity is not written.
render_custom_type(type) ==
    <<"type", type.name, "=", type.type>> \o render_field_directives(type.directives) \o <<"nl">>

RenderTop(top) ==
    CASE top.kind = "model" -> render_model(top)
      [] top.kind = "enum" -> render_enum(top)
      [] top.kind = "source" -> render_source_block(top)
      [] top.kind = "type" -> render_custom_type(top)

\* Type aliases are collected in a table that the next item of another kind
\* flushes: those at the end of the schema are never written.
render(schema) ==
    LET others == {i \in DOMAIN schema : schema[i].kind # "type"}
        written == IF others = {} THEN 0 ELSE CHOOSE i \in others : \A j \in others : j <= i
    IN  ForEach(SubSeq(schema, 1, written), RenderTop)

-----------------------------------------------------------------------------
(* Parsing.  A match has a value and the place behind it.                  *)

Match(value, at) == [ok |-> TRUE, value |-> value, at |-> at]

NoMatch == [ok |-> FALSE]

At(text, i) == IF i <= Len(text) THEN text[i] ELSE "EOI"

\* Regex::replace_all of an escape of two characters by one.
ReplaceEscape(text, c, by) ==
    LET from[i \in 1..(Len(text) + 1)] ==
            IF i > Len(text) THEN <<>>
            ELSE IF i < Len(text) /\ text[i] = "bs" /\ text[i + 1] = c
                 THEN <<by>> \o from[i + 2]
                 ELSE <<text[i]>> \o from[i + 1]
    IN  from[1]

unescape_string_literal(text) ==
    ReplaceEscape(ReplaceEscape(ReplaceEscape(text, "quote", "quote"), "n", "newline"), "bs", "bs")

Punctuation == {"{", "}", "(", ")", "[", "]", "[]", "?", "=", ",", ":", "@", "@@", "nl", "quote", "bs", "${", "EOI"}

Escapable == {"n", "r", "t", "bs", "0", "quote", "'", "space", "${"}

\* What a match makes of the value and the matches that follow it.
Then(first, others) == IF others.ok THEN Match(<<first>> \o others.value, others.at) ELSE NoMatch

With(m, Value(_)) == IF m.ok THEN Match(Value(m.value), m.at) ELSE NoMatch

RECURSIVE expression(_, _), directive_arguments(_, _, _), StringEnd(_, _)

\* The closing quote of a string, or 0: an interpolation has to hold an expression.
AfterInterpolation(text, e) == IF e.ok /\ At(text, e.at) = "}" THEN StringEnd(text, e.at + 1) ELSE 0

StringEnd(text, i) ==
    CASE At(text, i) = "quote" -> i
      [] At(text, i) = "bs" -> IF At(text, i + 1) \in Escapable THEN StringEnd(text, i + 2) ELSE 0
      [] At(text, i) = "${" -> AfterInterpolation(text, expression(text, i + 1))
      [] At(text, i) \in {"nl", "EOI"} -> 0
      [] OTHER -> StringEnd(text, i + 1)

\* Arguments up to a closing bracket; behind a comma there is another one.
NextArguments(first, others) == IF others.ok /\ others.value # <<>> THEN Then(first, others) ELSE NoMatch

MoreArguments(text, name, e, close) ==
    LET argument == [name |-> name, value |-> e.value]
    IN  CASE ~e.ok -> NoMatch
          [] e.ok /\ At(text, e.at) = close -> Match(<<argument>>, e.at + 1)
          [] e.ok /\ At(text, e.at) = "," -> NextArguments(argument, directive_arguments(text, e.at + 1, close))
          [] OTHER -> NoMatch

directive_arguments(text, i, close) ==
    IF At(text, i) = close THEN Match(<<>>, i + 1)
    ELSE IF At(text, i + 1) = ":" THEN MoreArguments(text, text[i], expression(text, i + 2), close)
    ELSE MoreArguments(text, "", expression(text, i), close)

Unnamed(arguments) == \A a \in ToSet(arguments) : a.name = ""

Values(arguments) == [i \in DOMAIN arguments |-> arguments[i].value]

StringLiteral(text, from, end) ==
    IF end = 0 THEN NoMatch
    ELSE Match([is |-> "StringValue", text |-> unescape_string_literal(SubSeq(text, from, end - 1))], end + 1)

ArrayLiteral(array) ==
    IF array.ok /\ array.value # <<>> /\ Unnamed(array.value)
    THEN Match([is |-> "Array", values |-> Values(array.value)], array.at) ELSE NoMatch

Constant(text, i) == Match([is |-> "ConstantValue", text |-> <<text[i]>>], i + 1)

FunctionOrConstant(text, i, arguments) ==
    IF arguments.ok /\ Unnamed(arguments.value)
    THEN Match([is |-> "Function", name |-> text[i], values |-> Values(arguments.value)], arguments.at)
    ELSE Constant(text, i)

expression(text, i) ==
    CASE At(text, i) = "quote" -> StringLiteral(text, i + 1, StringEnd(text, i + 1))
      [] At(text, i) = "[" -> ArrayLiteral(directive_arguments(text, i + 1, "]"))
      [] At(text, i) \in Punctuation \ {"quote", "["} -> NoMatch
      [] OTHER -> IF At(text, i + 1) = "("
                  THEN FunctionOrConstant(text, i, directive_arguments(text, i + 2, ")"))
                  ELSE Constant(text, i)

parse_directive(text, i) ==
    IF At(text, i + 1) # "(" THEN Match([name |-> text[i], arguments |-> <<>>], i + 1)
    ELSE With(directive_arguments(text, i + 2, ")"), LAMBDA v : [name |-> text[i], arguments |-> v])

RECURSIVE FieldDirectives(_, _)

MoreDirectives(text, first) ==
    IF first.ok THEN Then(first.value, FieldDirectives(text, first.at)) ELSE NoMatch

FieldDirectives(text, i) ==
    IF At(text, i) # "@" THEN Match(<<>>, i) ELSE MoreDirectives(text, parse_directive(text, i + 1))

parse_field_type(text, i) ==
    LET arity == CASE At(text, i + 1) = "[]" -> "List" [] At(text, i + 1) = "?" -> "Optional" [] OTHER -> "Required"
    IN  [type |-> text[i], arity |-> arity, at |-> IF arity = "Required" THEN i + 1 ELSE i + 2]

FieldOfType(text, name, type) ==
    With(FieldDirectives(text, type.at),
         LAMBDA v : [name |-> name, type |-> type.type, arity |-> type.arity, directives |-> v])

parse_field(text, i) ==
    IF At(text, i + 1) \in Punctuation THEN NoMatch
    ELSE FieldOfType(text, text[i], parse_field_type(text, i + 1))

parse_enum_value(text, i) ==
    With(FieldDirectives(text, i + 1), LAMBDA v : [name |-> text[i], directives |-> v])

parse_key_value(text, i) ==
    IF At(text, i + 1) # "=" THEN NoMatch
    ELSE With(expression(text, i + 2), LAMBDA v : [name |-> text[i], value |-> v])

Entry(text, i, keyword) ==
    CASE At(text, i) = "@@" -> parse_directive(text, i + 1)
      [] At(text, i) # "@@" /\ keyword = "model" -> parse_field(text, i)
      [] At(text, i) # "@@" /\ keyword = "enum" -> parse_enum_value(text, i)
      [] At(text, i) # "@@" /\ keyword = "datasource" -> parse_key_value(text, i)

\* The lines of a block, and those of them that are directives of the block.
RECURSIVE BlockEntries(_, _, _)

AddEntry(others, e, isDirective) ==
    With(others, LAMBDA v : IF isDirective THEN [v EXCEPT !.directives = <<e>> \o @]
                            ELSE [v EXCEPT !.entries = <<e>> \o @])

MoreEntries(text, e, isDirective, keyword) ==
    IF e.ok /\ At(text, e.at) = "nl"
    THEN AddEntry(BlockEntries(text, e.at, keyword), e.value, isDirective) ELSE NoMatch

BlockEntries(text, i, keyword) ==
    CASE At(text, i) = "}" -> Match([entries |-> <<>>, directives |-> <<>>], i + 1)
      [] At(text, i) = "nl" -> BlockEntries(text, i + 1, keyword)
      [] At(text, i) = "EOI" -> NoMatch
      [] OTHER -> MoreEntries(text, Entry(text, i, keyword), text[i] = "@@", keyword)

parse_model(name, block) ==
    [kind |-> "model", name |-> name, fields |-> block.entries, directives |-> block.directives]

parse_enum(name, block) ==
    [kind |-> "enum", name |-> name, values |-> block.entries, directives |-> block.directives]

parse_source(name, block) == [kind |-> "source", name |-> name, properties |-> block.entries]

parse_type(text, i) ==
    IF At(text, i + 2) # "=" THEN NoMatch
    ELSE With(FieldDirectives(text, i + 4),
              LAMBDA v : [kind |-> "type", name |-> text[i + 1], type |-> text[i + 3],
                          arity |-> "Required", directives |-> v])

ParseTop(text, i) ==
    CASE text[i] = "type" -> parse_type(text, i)
      [] text[i] \in {"model", "enum", "datasource"} /\ At(text, i + 2) = "{" ->
            With(BlockEntries(text, i + 3, text[i]),
                 LAMBDA v : CASE text[i] = "model" -> parse_model(text[i + 1], v)
                              [] text[i] = "enum" -> parse_enum(text[i + 1], v)
                              [] text[i] = "datasource" -> parse_source(text[i + 1], v))
      [] OTHER -> NoMatch

RECURSIVE ParseFrom(_, _)

MoreTops(text, top) == IF top.ok THEN Then(top.value, ParseFrom(text, top.at)) ELSE NoMatch

ParseFrom(text, i) ==
    CASE At(text, i) = "EOI" -> Match(<<>>, i)
      [] At(text, i) = "nl" -> ParseFrom(text, i + 1)
      [] OTHER -> MoreTops(text, ParseTop(text, i))

\* A schema; one line that fits nothing makes the whole text an error.
parse(text) == ParseFrom(text, 1)

\* Expression::from_str
ParseExpression(text) == expression(text, 1)
=============================================================================
