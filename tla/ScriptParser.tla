----------------------------- MODULE ScriptParser -----------------------------
(***************************************************************************)
(* backend/src/script.c: from the tokens of a script to the statements that  *)
(* KolibriScript executes.  A script with any diagnostic is not executed,     *)
(* so that parsing ends here with the first one.                             *)
(*                                                                         *)
(* A token is its text; a quoted literal is a token of its own, whose text    *)
(* loses the quotes when an expression is put together.                      *)
(*                                                                         *)
(* The state is a script as somebody writes it: the text of a program, then   *)
(* a slip of the hand or two.                                                *)
(***************************************************************************)
EXTENDS Integers, Sequences, SequencesExt

CONSTANTS
    Programs,       \* programs, as sequences of statements
    Quoted,         \* literals, and their words
    Idents,         \* identifiers
    Slips,          \* tokens that a slip may put in
    MaxSlips        \* bound: slips

VARIABLES
    source,         \* the tokens before EOF
    program,        \* history: the program that was to be written
    slips

parserVars == <<source, program, slips>>

NewLine == "newline"
Words(tokens) == FlattenSeq([i \in DOMAIN tokens |->
    IF tokens[i] \in DOMAIN Quoted THEN Quoted[tokens[i]] ELSE <<tokens[i]>>])

\* What follows the keyword of each simple statement: keywords, a name, expressions
\* and where they end.  (create looks for a second spelling of "formula", but only
\* when the first one's absence is a diagnostic already.)
Key(word) == [part |-> "key", word |-> word]
Name == [part |-> "name"]
Expr(field) == [part |-> "expr", field |-> field]
ExprTo(field, stop) == [part |-> "to", field |-> field, stop |-> stop]
Block(field, ends) == [part |-> "block", field |-> field, ends |-> ends]
Else == [part |-> "else", field |-> "else", ends |-> {"end"}]

Form ==
    [show     |-> <<Expr("value")>>,
     let      |-> <<Name, Key("="), Expr("value")>>,
     mode     |-> <<Expr("value")>>,
     teach    |-> <<Key("link"), ExprTo("left", "->"), Key("->"), Expr("right")>>,
     create   |-> <<Key("formula"), Name, Key("of"), Expr("value")>>,
     evaluate |-> <<Name, Key("on"), Key("task"), Expr("value")>>,
     verify   |-> <<Expr("value")>>,
     save     |-> <<Name, Key("in"), Key("genome")>>,
     drop     |-> <<Name>>,
     evolve   |-> <<Key("evolution")>>,
     canvas   |-> <<Key("a_canvas")>>,
     swarm    |-> <<Key("send"), Name>>,
     if       |-> <<ExprTo("cond", "then"), Key("then"), Block("then", {"else", "end"}), Else,
                    Key("end")>>,
     while    |-> <<ExprTo("cond", "do"), Key("do"), Block("body", {"end"}), Key("end")>>]

-----------------------------------------------------------------------------
(* Parsing: at is where the parser stands, or Refused *)

Refused == 0
WithField(tree, field, x) == [f \in DOMAIN tree \cup {field} |-> IF f = field THEN x ELSE tree[f]]

\* kolibri_parser_parse_expression_until.
ExprEnd(s, i, stop) ==
    CHOOSE j \in i..Len(s) + 1 :
        /\ j = Len(s) + 1 \/ s[j] \in {NewLine, stop}
        /\ \A k \in i..j - 1 : s[k] \notin {NewLine, stop}

WithExpr(s, r, field, stop) ==
    LET end == ExprEnd(s, r.at, stop)
    IN  IF end = r.at THEN [r EXCEPT !.at = Refused]
        ELSE [at |-> end, tree |-> WithField(r.tree, field, Words(SubSeq(s, r.at, end - 1)))]

\* Mutant of Expected: a missing keyword is passed over.
MutExpected(s, r, word) ==
    IF r.at <= Len(s) /\ s[r.at] = word THEN [r EXCEPT !.at = @ + 1] ELSE r

\* kolibri_parser_expect_keyword, kolibri_parser_match_token.
Expected(s, r, word) ==
    [r EXCEPT !.at = IF r.at <= Len(s) /\ s[r.at] = word THEN @ + 1 ELSE Refused]

RECURSIVE ParseList(_, _, _), ParseAfter(_, _, _)

WithBlock(r, field, list) ==
    IF list.at = Refused THEN [r EXCEPT !.at = Refused]
    ELSE [at |-> list.at, tree |-> WithField(r.tree, field, list.tree)]

\* One item of a form after the other.
TakeItem(s, r, item) ==
    IF r.at = Refused THEN r
    ELSE CASE item.part = "key" -> Expected(s, r, item.word)
           [] item.part = "name" /\ r.at <= Len(s) /\ s[r.at] \in Idents ->
                [at |-> r.at + 1, tree |-> WithField(r.tree, "name", s[r.at])]
           [] item.part = "expr" -> WithExpr(s, r, item.field, NewLine)
           [] item.part = "to" -> WithExpr(s, r, item.field, item.stop)
           [] item.part = "else" /\ ~(r.at <= Len(s) /\ s[r.at] = "else") ->
                WithBlock(r, "else", [at |-> r.at, tree |-> <<>>])
           [] item.part \in {"block", "else"} ->
                WithBlock(r, item.field,
                          ParseList(s, IF item.part = "else" THEN r.at + 1 ELSE r.at, item.ends))
           [] OTHER -> [r EXCEPT !.at = Refused]

\* kolibri_parser_parse_statement, and what it calls for each keyword.
ParseStatement(s, i) ==
    IF s[i] \in DOMAIN Form
    THEN FoldLeft(LAMBDA r, item : TakeItem(s, r, item),
                  [at |-> i + 1, tree |-> [do |-> s[i]]], Form[s[i]])
    ELSE [at |-> Refused, tree |-> <<>>]

\* kolibri_parser_parse_statements; several statements may share a line.
ParseList(s, i, ends) ==
    IF i = Refused \/ i > Len(s) \/ s[i] \in ends THEN [at |-> i, tree |-> <<>>]
    ELSE IF s[i] = NewLine THEN ParseList(s, i + 1, ends)
    ELSE ParseAfter(s, ParseStatement(s, i), ends)

Joined(first, rest) ==
    [at |-> rest.at, tree |-> IF rest.at = Refused THEN <<>> ELSE <<first.tree>> \o rest.tree]

ParseAfter(s, first, ends) == Joined(first, ParseList(s, first.at, ends))

\* kolibri_parser_parse_program; what comes after the end is not looked at.
ParseEnd(s, list) == IF list.at = Refused THEN list ELSE Expected(s, list, "end")

Program(s) ==
    LET from == SelectInSeq(s, LAMBDA t : t # NewLine)
    IN  IF from = 0 \/ SubSeq(s, from, from + 1) # <<"begin", ":">>
        THEN [at |-> Refused, tree |-> <<>>]
        ELSE ParseEnd(s, ParseList(s, from + 2, {"end"}))

-----------------------------------------------------------------------------
(* Writing: how docs/kolibri_script.md and tests/test_script.c lay out a program *)

AsToken(words) ==
    IF \E q \in DOMAIN Quoted : Quoted[q] = words
    THEN <<CHOOSE q \in DOMAIN Quoted : Quoted[q] = words>> ELSE words

RECURSIVE WriteList(_)

Write(stmt, item) ==
    CASE item.part = "key" -> <<item.word>>
      [] item.part = "name" -> <<stmt.name>>
      [] item.part = "else" /\ stmt.else = <<>> -> <<>>
      [] item.part = "else" -> <<"else", NewLine>> \o WriteList(stmt.else)
      [] item.part = "block" -> <<NewLine>> \o WriteList(stmt[item.field])
      [] OTHER -> AsToken(stmt[item.field])

WriteStatement(t) ==
    <<t.do>> \o FlattenSeq([i \in DOMAIN Form[t.do] |-> Write(t, Form[t.do][i])])

WriteList(list) == FlattenSeq([i \in DOMAIN list |-> Append(WriteStatement(list[i]), NewLine)])

AsWritten(list) == <<"begin", ":", NewLine>> \o WriteList(list) \o <<"end", ".">>

ParserInit ==
    /\ program \in Programs
    /\ source = AsWritten(program)
    /\ slips = 0

\* A token is left out, put in or written in place of another.
Mistype(i) ==
    /\ slips < MaxSlips
    /\ slips' = slips + 1
    /\ \/ source' = RemoveAt(source, i)
       \/ \E t \in Slips : source' \in {InsertAt(source, i, t), [source EXCEPT ![i] = t]}
    /\ UNCHANGED program

ParserNext == \E i \in DOMAIN source : Mistype(i)

ParserSpec == ParserInit /\ [][ParserNext]_parserVars

-----------------------------------------------------------------------------
\* Without new lines, and an "else" with nothing in it.
Bare(s) ==
    LET line == SelectSeq(s, LAMBDA t : t # NewLine)
        said == SelectSeq([i \in DOMAIN line |-> i], LAMBDA i :
                    ~(line[i] = "else" /\ i < Len(line) /\ line[i + 1] = "end"))
    IN  Words([i \in DOMAIN said |-> line[said[i]]])

SaysWhatIsWritten(p) ==
    p.at # Refused =>
        Bare(SubSeq(source, 1, p.at - 1)) = Bare(<<"begin", ":">> \o WriteList(p.tree) \o <<"end">>)

\* A program is parsed as it was meant; and whatever was written, a script that is
\* executed has not a word in it, up to its end, that its statements do not say, and
\* its statements say nothing that is not written there, nesting and branches
\* included.
ExecutesWhatIsWritten ==
    /\ slips = 0 => Program(source).tree = program
    /\ SaysWhatIsWritten(Program(source))
=============================================================================
