----------------------------- MODULE QueryParse -----------------------------
(***************************************************************************)
(* Parse of package query: from the characters of a query to its tree.     *)
(* The input is a sequence of the characters of Query; a field prefix such *)
(* as "file:", and a word that has a meaning of its own ("or", "yes",      *)
(* "repo"), is one character here.                                         *)
(***************************************************************************)
EXTENDS Query

LP == 101      \* (
RP == 102      \* )
Quote == 103   \* "
BackSl == 104  \* \
Space == 105
Dash == 106    \* -
OrWord == 107  \* or
Yes == 110
No == 111
Auto == 112
RepoWord == 113
FileWord == 114
MatchWord == 115
PFile == 120
PContent == 121
PRegex == 122
PRepo == 123
PCase == 124
PType == 125
PSym == 126
PBranch == 127
PLang == 128
PArchived == 129
PFork == 130
PPublic == 131
PMeta == 132
Newline == 0

Prefixed == PFile..PMeta

Rest(in, n) == SubSeq(in, n + 1, Len(in))

\* parseStringLiteral from the opening quote at in[1]: the text without its
\* quotes, a backslash keeping the character after it; n is what it consumed.
RECURSIVE Literal(_, _, _)
Literal(in, i, lit) ==
  CASE i > Len(in)      -> [err |-> TRUE, lit |-> <<>>, n |-> 0]
    [] i <= Len(in) /\ in[i] = Quote  -> [err |-> FALSE, lit |-> lit, n |-> i]
    [] i <= Len(in) /\ in[i] = BackSl ->
         IF i = Len(in) THEN [err |-> TRUE, lit |-> <<>>, n |-> 0]
         ELSE Literal(in, i + 2, Append(lit, in[i + 1]))
    [] OTHER -> Literal(in, i + 1, Append(lit, in[i]))

parseStringLiteral(in) == Literal(in, 2, <<>>)

\* The loop of nextToken: the text so far, the open parentheses in it, and
\* where it stops; space says that it stopped inside a parenthesis.
RECURSIVE Scan(_, _, _, _)
Scan(in, i, parens, text) ==
  LET stop(t, j, sp) == [err |-> FALSE, text |-> t, n |-> j - 1, space |-> sp]
      fail == [err |-> TRUE, text |-> <<>>, n |-> 0, space |-> FALSE]
      c == in[i]
  IN CASE i > Len(in) -> stop(text, i, FALSE)
       [] i <= Len(in) /\ c = LP -> Scan(in, i + 1, parens + 1, Append(text, c))
       [] i <= Len(in) /\ c = RP ->
            CASE parens > 0 -> Scan(in, i + 1, parens - 1, Append(text, c))
              [] parens = 0 /\ text = <<>> -> stop(<<RP>>, i + 1, FALSE)
              [] OTHER -> stop(text, i, FALSE)
       [] i <= Len(in) /\ c = Quote ->
            LET l == parseStringLiteral(Rest(in, i - 1))
            IN IF l.err THEN fail ELSE Scan(in, i + l.n, parens, text \o l.lit)
       [] i <= Len(in) /\ c = BackSl ->
            IF i = Len(in) THEN fail
            ELSE Scan(in, i + 2, parens, text \o <<BackSl, in[i + 1]>>)
       [] i <= Len(in) /\ c \in {Space, Newline} -> stop(text, i, parens > 0)
       [] OTHER -> Scan(in, i + 1, parens, Append(text, c))

\* setType: a lone parenthesis, the reserved word when it was not quoted, a
\* prefix at the start of the input; anything else is text.  kind is the
\* character that names the token, Nil's 0 standing for text.
setType(text, input) ==
  CASE Head(input) \in Prefixed    -> [kind |-> Head(input), text |-> Tail(text)]
    [] text = <<OrWord>> /\ input = <<OrWord>> -> [kind |-> OrWord, text |-> text]
    [] text \in {<<LP>>, <<RP>>}   -> [kind |-> text[1], text |-> text]
    [] OTHER                       -> [kind |-> 0, text |-> text]

NoToken == [err |-> FALSE, none |-> TRUE, kind |-> 0, text |-> <<>>, n |-> 0]

\* nextToken: a leading dash is a token of its own; a text that was cut
\* by a space inside a parenthesis it starts with is only that parenthesis.
nextToken(in) ==
  LET Token(t, n) == [err |-> FALSE, none |-> FALSE, kind |-> t.kind, text |-> t.text, n |-> n]
      Typed(text, n) == Token(setType(text, SubSeq(in, 1, n)), n)
      Scanned(s) == CASE s.err -> [NoToken EXCEPT !.err = TRUE]
                      [] ~s.err /\ s.text = <<>> -> NoToken
                      [] ~s.err /\ s.text # <<>> /\ s.space /\ s.text[1] = LP -> Typed(<<LP>>, 1)
                      [] OTHER -> Typed(s.text, s.n)
  IN CASE in = <<>> -> NoToken
       [] in # <<>> /\ in[1] = Dash -> Token([kind |-> Dash, text |-> <<Dash>>], 1)
       [] OTHER -> Scanned(Scan(in, 1, 0, <<>>))

\* regexp/syntax on a text of letters, escapes and parentheses: an error when
\* they do not balance, otherwise the literal that is left once captures are
\* converted and the expression is parsed again.
RECURSIVE SyntaxParse(_, _, _)
SyntaxParse(text, depth, lit) ==
  CASE text = <<>> -> [err |-> depth # 0, lit |-> lit]
    [] text # <<>> /\ Head(text) = LP -> SyntaxParse(Tail(text), depth + 1, lit)
    [] text # <<>> /\ Head(text) = RP ->
         IF depth = 0 THEN [err |-> TRUE, lit |-> <<>>]
         ELSE SyntaxParse(Tail(text), depth - 1, lit)
    [] text # <<>> /\ Head(text) = BackSl /\ Len(text) > 1 ->
         SyntaxParse(Rest(text, 2), depth, Append(lit, text[2]))
    [] OTHER -> SyntaxParse(Tail(text), depth, Append(lit, Head(text)))

Ok(q, n) == [err |-> FALSE, q |-> q, n |-> n]
Fail == [err |-> TRUE, q |-> Nil, n |-> 0]

\* RegexpQuery: a literal is a Substring, anything else (here only the empty
\* expression) a Regexp.
RegexpQuery(text, content, file) ==
  LET s == SyntaxParse(text, 0, <<>>)
  IN IF s.err THEN Fail
     ELSE Ok(IF s.lit = <<>> THEN Regexp(EmptyRe, file, content, FALSE)
             ELSE Substring(s.lit, file, content, FALSE), 0)

\* parseOperators: the conjunctions between the or operators, as one
\* disjunction; an operator with nothing on one side is an error.
OrOp == [k |-> "orop"]

\* Mutation: the disjunction binds tighter than the conjunction.
parseOperatorsTight(qs) ==
  IF OrOp \in ToSet(qs)
  THEN Ok(Or(SelectSeq(qs, LAMBDA q : q # OrOp)), 0)
  ELSE Ok(Or(<<And(qs)>>), 0)

parseOperators(qs) ==
  LET Step(acc, q) ==
        IF q = OrOp THEN Append(acc, <<>>) ELSE Append(Front(acc), Append(Last(acc), q))
      groups == FoldLeft(Step, <<<<>>>>, qs)
  IN IF Len(groups) > 1 /\ \E i \in DOMAIN groups : groups[i] = <<>> THEN Fail
     ELSE Ok(Or([i \in DOMAIN groups |-> And(groups[i])]), 0)

\* The flags archived:, fork: and public: take yes and no.
Flag(kind, text) ==
  IF text \notin {<<Yes>>, <<No>>} THEN Fail
  ELSE Ok(RawConfig({<<kind, text[1]>>}), 0)

\* The end of parseExprList: case: and type: are taken out of the list, the
\* last case: applies to every atom below it, and the lowest type: wraps the
\* conjunction of the rest.
lift(qs) ==
  LET cases == SelectSeq(qs, LAMBDA q : q.k = "case")
      types == {qs[i].t : i \in {j \in DOMAIN qs : qs[j].k = "type"}}
      flavor == IF cases = <<>> THEN "auto" ELSE Last(cases).flavor
      rest == SelectSeq(qs, LAMBDA q : q.k \notin {"case", "type"})
      done == [i \in DOMAIN rest |-> setCase(rest[i], flavor)]
  IN IF types = {} THEN done
     ELSE <<Type(CHOOSE t \in types : \A u \in types : t <= u, And(done))>>

SkipSpace(in) ==
  Cardinality({i \in DOMAIN in : \A j \in 1..i : in[j] = Space})

RECURSIVE parseExpr(_)
RECURSIVE parseExprList(_, _), NextInList(_, _, _, _)

\* parseExprList: expressions and or operators until the input ends, a
\* closing parenthesis is next or parseExpr finds nothing.
\* Its result: n characters consumed, and the lifted list in q.
parseExprList(in, qs) ==
  LET sp == SkipSpace(in)
      b == Rest(in, sp)
      End(k) == [err |-> FALSE, q |-> lift(qs), n |-> k]
      Item(tok, next) ==
        CASE tok.kind = RP -> End(sp)
          [] tok.kind = OrWord -> NextInList(in, qs, sp + tok.n, OrOp)
          [] tok.kind \notin {RP, OrWord} /\ next.err -> [err |-> TRUE, q |-> <<>>, n |-> 0]
          [] tok.kind \notin {RP, OrWord} /\ ~next.err /\ next.q = Nil -> End(sp)
          [] OTHER -> NextInList(in, qs, sp + next.n, next.q)
  IN IF in = <<>> THEN End(0) ELSE Item(nextToken(b), parseExpr(b))

\* The rest of the list after its next member, which ends at k.
NextInList(in, qs, k, q) == [parseExprList(Rest(in, k), Append(qs, q)) EXCEPT !.n = @ + k]

\* The token types of parseExpr that need no more input.
ParseAtom(kind, text) ==
  CASE kind = PCase ->
         CASE text = <<Yes>>  -> Ok([k |-> "case", flavor |-> "yes"], 0)
           [] text = <<No>>   -> Ok([k |-> "case", flavor |-> "no"], 0)
           [] text = <<Auto>> -> Ok([k |-> "case", flavor |-> "auto"], 0)
           [] OTHER -> Fail
    [] kind = PRepo -> Ok(Repo({text}), 0)
    [] kind \in {PArchived, PFork, PPublic} -> Flag(kind, text)
    [] kind = PBranch -> Ok(Branch(text, FALSE), 0)
    [] kind \in {0, PRegex} -> RegexpQuery(text, FALSE, FALSE)
    [] kind = PFile -> RegexpQuery(text, FALSE, TRUE)
    [] kind = PContent -> RegexpQuery(text, TRUE, FALSE)
    [] kind = PLang -> Ok(IF text = <<>> THEN Const(FALSE) ELSE Language(text), 0)
    [] kind = PSym ->
         LET s == RegexpQuery(text, FALSE, FALSE)
         IN IF text = <<>> \/ s.err THEN Fail ELSE Ok(Symbol(s.q), 0)
    [] kind = PType ->
         CASE text = <<RepoWord>> -> Ok(Type(TypeRepo, Nil), 0)
           [] text = <<FileWord>> -> Ok(Type(TypeFileName, Nil), 0)
           [] text = <<MatchWord>> -> Ok(Type(TypeFileMatch, Nil), 0)
           [] OTHER -> Fail
    [] kind = PMeta -> IF Len(text) < 2 THEN Fail ELSE Ok(Meta(text[1], {Tail(text)}), 0)
    [] OTHER -> Ok(Nil, 0)

\* parseExpr: one expression after any spaces.  A parenthesis must be closed,
\* and a dash negates the expression after it.
parseExpr(in) ==
  LET sp == SkipSpace(in)
      Closed(close, ops, n) ==
        IF close.err \/ close.none \/ close.kind # RP \/ ops.err THEN Fail
        ELSE Ok(ops.q, n + close.n)
      Group(list, n) ==
        IF list.err THEN Fail
        ELSE Closed(nextToken(Rest(in, n + list.n)), parseOperators(list.q), n + list.n)
      Negated(sub, n) == IF sub.err \/ sub.q = Nil THEN Fail ELSE Ok(Not(sub.q), n + sub.n)
      Atom(atom, n) == IF atom.err THEN Fail ELSE Ok(atom.q, n)
      First(tok) ==
        CASE tok.err -> Fail
          [] ~tok.err /\ tok.none -> Ok(Nil, 0)
          [] tok.kind = LP -> Group(parseExprList(Rest(in, sp + tok.n), <<>>), sp + tok.n)
          [] tok.kind = Dash -> Negated(parseExpr(Rest(in, sp + tok.n)), sp + tok.n)
          [] OTHER -> Atom(ParseAtom(tok.kind, tok.text), sp + tok.n)
  IN First(nextToken(Rest(in, sp)))

\* Parse: the whole input must be consumed.
Parse(in) ==
  LET All(ops) == IF ops.err THEN Fail ELSE Ok(Simplify(ops.q), Len(in))
      Whole(list) == IF list.err \/ list.n # Len(in) THEN Fail ELSE All(parseOperators(list.q))
  IN Whole(parseExprList(in, <<>>))
=============================================================================
