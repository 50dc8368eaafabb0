------------------------------- MODULE Query -------------------------------
(***************************************************************************)
(* The query language of package query: the tree of a query, its           *)
(* simplification before it reaches a shard, the expansion of atoms that   *)
(* name neither file nor content, and the regular expressions in atoms.    *)
(*                                                                         *)
(* A character is a number: 0 is the newline, 1..9 are lower-case letters, *)
(* 11..19 the upper-case letters of 1..9, and larger numbers stand for     *)
(* punctuation and for whole words of the query syntax.  A pattern is a    *)
(* sequence of characters.  A query is a record whose field k names the    *)
(* Go type of the node.                                                    *)
(***************************************************************************)
EXTENDS Integers, Sequences, FiniteSets, SequencesExt

-----------------------------------------------------------------------------
(* Characters.                                                             *)

\* toLower: the ASCII letters A..Z become a..z, everything else stays.
Lower(c) == IF c \in 11..19 THEN c - 10 ELSE c

\* The elements of a set in the order of a strict total order.
SortBy(S, Less(_, _)) ==
  [i \in 1..Cardinality(S) |->
     CHOOSE x \in S : Cardinality({y \in S : Less(y, x)}) = i - 1]

toLower(p) == [i \in DOMAIN p |-> Lower(p[i])]

-----------------------------------------------------------------------------
(* Regular expressions (regexp/syntax): op, the runes r of a literal or     *)
(* class (the bounds of a repetition), and the subexpressions.             *)

Re(op, r, sub) == [op |-> op, r |-> r, sub |-> sub]
Lit(r) == Re("lit", r, <<>>)
EmptyRe == Re("empty", <<>>, <<>>)
AnyRe == Re("any", <<>>, <<>>)
WordRe == Re("wordb", <<>>, <<>>)
StarRe(s) == Re("star", <<>>, <<s>>)
ConcatRe(s) == Re("concat", <<>>, s)
AltRe(s) == Re("alt", <<>>, s)
CaptureRe(s) == Re("capture", <<>>, <<s>>)

\* LowerRegexp lowers literals and classes and copies the rest.
RECURSIVE LowerRegexp(_)
LowerRegexp(re) ==
  IF re.op \in {"lit", "class"}
  THEN [re EXCEPT !.r = toLower(re.r)]
  ELSE [re EXCEPT !.sub = [i \in DOMAIN re.sub |-> LowerRegexp(re.sub[i])]]

\* hasCapture: a capture anywhere in the expression.
RECURSIVE hasCapture(_)
hasCapture(re) ==
  re.op = "capture" \/ \E i \in DOMAIN re.sub : hasCapture(re.sub[i])

\* uncapture turns each capture into a concatenation of its one child.
RECURSIVE uncapture(_)
uncapture(re) ==
  [op  |-> IF re.op = "capture" THEN "concat" ELSE re.op,
   r   |-> re.r,
   sub |-> [i \in DOMAIN re.sub |-> uncapture(re.sub[i])]]

\* What printing an expression and parsing it again does to its shape: nested
\* concatenations merge, neighbouring literals join, and a concatenation of
\* one expression is that expression.
RECURSIVE Reparse(_)
Reparse(re) ==
  LET subs == [i \in DOMAIN re.sub |-> Reparse(re.sub[i])]
      Parts(s) == CASE s.op = "concat" -> s.sub
                    [] s.op = "empty"  -> <<>>
                    [] OTHER           -> <<s>>
      Join(acc, s) ==
        IF s.op = "lit" /\ acc # <<>> /\ Last(acc).op = "lit"
        THEN Append(Front(acc), Lit(Last(acc).r \o s.r))
        ELSE Append(acc, s)
      flat == FoldLeft(Join, <<>>, FlattenSeq([i \in DOMAIN subs |-> Parts(subs[i])]))
  IN IF re.op # "concat" THEN [re EXCEPT !.sub = subs]
     ELSE CASE Len(flat) = 0 -> EmptyRe
            [] Len(flat) = 1 -> flat[1]
            [] OTHER         -> ConcatRe(flat)

\* OptimizeRegexp: convertCapture leaves an expression without captures
\* alone, and otherwise parses the uncaptured expression anew.
OptimizeRegexp(re) == IF hasCapture(re) THEN Reparse(uncapture(re)) ELSE re

-----------------------------------------------------------------------------
(* Query nodes.                                                            *)

Nil == [k |-> "nil"]
Const(v) == [k |-> "const", v |-> v]
Substring(p, file, content, cs) ==
  [k |-> "substr", p |-> p, file |-> file, content |-> content, cs |-> cs]
Regexp(re, file, content, cs) ==
  [k |-> "re", re |-> re, file |-> file, content |-> content, cs |-> cs]
And(qs) == [k |-> "and", kids |-> qs]
Or(qs) == [k |-> "or", kids |-> qs]
Not(q) == [k |-> "not", kid |-> q]
Type(t, q) == [k |-> "type", t |-> t, kid |-> q]
Boost(b, q) == [k |-> "boost", b |-> b, kid |-> q]
Symbol(q) == [k |-> "symbol", kid |-> q]
Language(l) == [k |-> "lang", lang |-> l]
Branch(p, exact) == [k |-> "branch", p |-> p, exact |-> exact]
\* Repo, RepoRegexp: the set of repository names the expression matches.
Repo(names) == [k |-> "repo", names |-> names]
RepoSet(names) == [k |-> "reposet", names |-> names]
RepoIDs(ids) == [k |-> "repoids", ids |-> ids]
\* BranchesRepos: a list of pairs of a branch and a set of repository ids.
BranchesRepos(list) == [k |-> "branchesrepos", list |-> list]
FileNameSet(files) == [k |-> "filenames", files |-> files]
RawConfig(flags) == [k |-> "rawconfig", flags |-> flags]
Meta(field, vals) == [k |-> "meta", field |-> field, vals |-> vals]

\* TypeFileMatch, TypeFileName and TypeRepo.
TypeFileMatch == 0
TypeFileName == 1
TypeRepo == 2

Many == {"and", "or"}
One == {"not", "type", "boost"}

-----------------------------------------------------------------------------
(* Rewriting.                                                              *)

\* evalAndOrConstants on children that are already evaluated: a neutral
\* constant is dropped, an absorbing one is the answer, nothing left is the
\* neutral constant.
evalAndOrConstants(k, kids) ==
  LET keep == SelectSeq(kids, LAMBDA c : c # Const(k = "and"))
  IN CASE Const(k # "and") \in ToSet(kids) -> Const(k # "and")
       [] keep = <<>> -> Const(k = "and")
       [] OTHER -> [k |-> k, kids |-> keep]

\* The atoms that are constants whatever the document: an empty pattern
\* matches everything, an empty set of repositories or files nothing.
evalAtom(q) ==
  CASE q.k = "substr" /\ q.p = <<>>        -> Const(TRUE)
    [] q.k = "re" /\ q.re.op = "empty"     -> Const(TRUE)
    [] q.k = "branch" /\ q.p = <<>>        -> Const(TRUE)
    [] q.k = "branchesrepos"
       /\ \A i \in DOMAIN q.list : q.list[i][2] = {} -> Const(FALSE)
    [] q.k = "repoids" /\ q.ids = {}       -> Const(FALSE)
    [] q.k = "reposet" /\ q.names = {}     -> Const(FALSE)
    [] q.k = "filenames" /\ q.files = {}   -> Const(FALSE)
    [] OTHER -> q

\* evalConstants: bottom up; Not of a constant is the other one, Type and
\* Boost of a constant are that constant.
RECURSIVE evalConstants(_)
evalConstants(q) ==
  CASE q.k \in Many ->
         evalAndOrConstants(q.k, [i \in DOMAIN q.kids |-> evalConstants(q.kids[i])])
    [] q.k \in One ->
         LET c == evalConstants(q.kid)
         IN CASE c.k = "const" /\ q.k = "not" -> Const(~c.v)
              [] c.k = "const" /\ q.k # "not" -> c
              [] OTHER -> [q EXCEPT !.kid = c]
    [] OTHER -> evalAtom(q)

\* flatten, one pass: an And or Or of one child is that child; a child of the
\* same type gives its own children to its parent.
RECURSIVE flatten(_)
flatten(q) ==
  CASE q.k \in Many /\ Len(q.kids) = 1 -> q.kids[1]
    [] q.k \in Many /\ Len(q.kids) # 1 ->
         LET kids == [i \in DOMAIN q.kids |-> flatten(q.kids[i])]
         IN [q EXCEPT !.kids = FlattenSeq([i \in DOMAIN kids |->
               IF kids[i].k = q.k THEN kids[i].kids ELSE <<kids[i]>>])]
    [] q.k \in One -> [q EXCEPT !.kid = flatten(q.kid)]
    [] OTHER -> q

\* Simplify evaluates the constants once, then flattens until a pass changes
\* nothing.
RECURSIVE flattenAll(_)
flattenAll(q) == LET f == flatten(q) IN IF f = q THEN q ELSE flattenAll(f)

Simplify(q) == flattenAll(evalConstants(q))

\* Map(q, ExpandFileContent): an atom for file and content alike becomes the
\* disjunction of the two.
RECURSIVE ExpandFileContent(_)
ExpandFileContent(q) ==
  CASE q.k \in Many ->
         [q EXCEPT !.kids = [i \in DOMAIN q.kids |-> ExpandFileContent(q.kids[i])]]
    [] q.k \in One -> [q EXCEPT !.kid = ExpandFileContent(q.kid)]
    [] q.k \in {"substr", "re"} /\ q.file = q.content ->
         Or(<<[q EXCEPT !.file = TRUE, !.content = FALSE],
              [q EXCEPT !.file = FALSE, !.content = TRUE]>>)
    [] OTHER -> q

\* VisitAtoms: every node that is not And, Or, Not, Type or Boost.
RECURSIVE Atoms(_)
Atoms(q) ==
  CASE q.k \in Many -> UNION {Atoms(q.kids[i]) : i \in DOMAIN q.kids}
    [] q.k \in One  -> Atoms(q.kid)
    [] OTHER        -> {q}

\* setCase on an atom, on the atom inside a Symbol, and on nothing else.
setCaseAtom(q, flavor) ==
  LET auto == IF q.k = "substr" THEN q.p # toLower(q.p)
                                ELSE q.re # LowerRegexp(q.re)
  IN [q EXCEPT !.cs = CASE flavor = "yes" -> TRUE
                        [] flavor = "no"  -> FALSE
                        [] OTHER          -> auto]

\* Map with setCase: parseExprList applies it to whole subtrees.
RECURSIVE setCase(_, _)
setCase(q, flavor) ==
  CASE q.k \in Many ->
         [q EXCEPT !.kids = [i \in DOMAIN q.kids |-> setCase(q.kids[i], flavor)]]
    [] q.k \in One -> [q EXCEPT !.kid = setCase(q.kid, flavor)]
    [] q.k \in {"substr", "re"} -> setCaseAtom(q, flavor)
    [] q.k = "symbol" /\ q.kid.k \in {"substr", "re"} ->
         [q EXCEPT !.kid = setCaseAtom(q.kid, flavor)]
    [] OTHER -> q

-----------------------------------------------------------------------------
(* Meaning.  env is the set of atoms that are true of a document; an atom   *)
(* for file and content alike is true when either half is.                 *)

RECURSIVE Holds(_, _)
Holds(q, env) ==
  CASE q.k = "and"   -> \A i \in DOMAIN q.kids : Holds(q.kids[i], env)
    [] q.k = "or"    -> \E i \in DOMAIN q.kids : Holds(q.kids[i], env)
    [] q.k = "not"   -> ~Holds(q.kid, env)
    [] q.k \in {"type", "boost"} -> Holds(q.kid, env)
    [] q.k = "const" -> q.v
    [] OTHER ->
         LET c == evalAtom(q)
         IN IF c.k = "const" THEN c.v
            ELSE \E a \in Atoms(ExpandFileContent(q)) : a \in env

\* No constant, no And or Or of fewer than two children, and no child of its
\* parent's own type is left inside a query.
RECURSIVE NormalForm(_)
NormalForm(q) ==
  CASE q.k \in Many -> /\ Len(q.kids) > 1
                       /\ \A i \in DOMAIN q.kids :
                            q.kids[i].k \notin {"const", q.k} /\ NormalForm(q.kids[i])
    [] q.k \in One  -> q.kid.k # "const" /\ NormalForm(q.kid)
    [] OTHER        -> TRUE
=============================================================================
