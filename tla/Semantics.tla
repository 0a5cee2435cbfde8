----------------------------- MODULE Semantics -----------------------------
(***************************************************************************)
(* What a parsing expression grammar means, independently of the compiler  *)
(* and of the parsing machine: the result of matching a pattern at an      *)
(* offset of a text.  This is the reading of the constructors that         *)
(* include/peg/pattern.h gives (match p1 then p2, prefer p1 to p2, ...).   *)
(*                                                                         *)
(* A result is [ok, halt, pos, capt]; halt tells that an error without     *)
(* recovery ended the whole parse.  A capture is [id, off, len, kids]; the *)
(* captures of a failed branch and of a negative predicate are dropped,    *)
(* those of a positive predicate are kept.                                 *)
(***************************************************************************)
EXTENDS Pattern, Assertions, FiniteSetsExt

---------------------------------------------------------------------------
(* Scopes.  env is the sequence of the grammars around a pattern, the      *)
(* innermost last; a name means the nearest definition.                    *)

Scopes(env, name) == {d \in DOMAIN env : name \in Range(env[d].arg.names)}
Definition(env, name) ==
    LET grammar == env[Max(Scopes(env, name))]
    IN  grammar.sub[SelectInSeq(grammar.arg.names, LAMBDA n : n = name)]
DefinitionEnv(env, name) == SubSeq(env, 1, Max(Scopes(env, name)))

(* The names that have no definition in a grammar around them.             *)
RECURSIVE Missing(_, _)
Missing(env, p) ==
    LET inside == IF p.k = "grammar" THEN Append(env, p) ELSE env
        name == IF p.k = "grammar" THEN p.arg.start ELSE p.arg
    IN  (IF p.k \in {"grammar", "nonterm"} /\ Scopes(inside, name) = {}
           THEN {name} ELSE {})
        \union UNION {Missing(inside, p.sub[i]) : i \in DOMAIN p.sub}

(* Every call that matching p can lead to finds a definition.              *)
RECURSIVE Complete(_, _, _)
Complete(env, p, seen) ==
    CASE p.k = "nonterm" ->
           LET scopes == Scopes(env, p.arg)
           IN  /\ scopes # {}
               /\ \/ <<Max(scopes), p.arg>> \in seen
                  \/ Complete(DefinitionEnv(env, p.arg), Definition(env, p.arg),
                              seen \union {<<Max(scopes), p.arg>>})
      [] p.k = "grammar" -> Complete(Append(env, p), pat_nonterm(p.arg.start), seen)
      [] OTHER -> \A i \in DOMAIN p.sub : Complete(env, p.sub[i], seen)

---------------------------------------------------------------------------

Failed == [ok |-> FALSE, halt |-> FALSE, pos |-> 0, capt |-> <<>>]
Halted == [Failed EXCEPT !.halt = TRUE]
Matched(pos, capt) == [ok |-> TRUE, halt |-> FALSE, pos |-> pos, capt |-> capt]
When(condition, pos) == IF condition THEN Matched(pos, <<>>) ELSE Failed

RECURSIVE Meaning(_, _, _, _)
Meaning(env, t, p, i) ==
    LET one == Meaning(env, t, p.sub[1], i)
        Then(a, q) ==       \* q after the match a
            LET b == Meaning(env, t, q, a.pos)
            IN  IF b.ok THEN Matched(b.pos, a.capt \o b.capt) ELSE b
        star == IF p.k = "star" THEN p ELSE pat_star(p.sub[1])
    IN
    CASE p.k = "empty" -> Matched(i, <<>>)
      [] p.k = "class" -> When(i < Len(t) /\ Neighbour(t, i + 1) \in p.arg, i + 1)
      [] p.k = "literal" ->
           When(\A j \in DOMAIN p.arg : Neighbour(t, i + j) = p.arg[j], i + Len(p.arg))
      [] p.k = "dot" -> When(i + p.arg <= Len(t), i + p.arg)
      [] p.k = "emptyop" ->
           When(p.arg \intersect
                  empty_op_context(Neighbour(t, i), Neighbour(t, i + 1)) # {}, i)
      [] p.k = "seq" -> IF one.ok THEN Then(one, p.sub[2]) ELSE one
      [] p.k = "alt" ->
           IF one.ok \/ one.halt THEN one ELSE Meaning(env, t, p.sub[2], i)
      [] p.k = "star" ->
           IF one.ok THEN Then(one, p)
           ELSE IF one.halt THEN one ELSE Matched(i, <<>>)
      [] p.k = "plus" -> IF one.ok THEN Then(one, star) ELSE one
      [] p.k = "optional" ->
           IF one.ok \/ one.halt THEN one ELSE Matched(i, <<>>)
      [] p.k = "not" -> IF one.halt THEN one ELSE When(~ one.ok, i)
      [] p.k = "and" -> IF one.ok THEN Matched(i, one.capt) ELSE one
      [] p.k = "cap" ->
           IF one.ok
             THEN Matched(one.pos, <<[id |-> p.arg, off |-> i,
                                      len |-> one.pos - i, kids |-> one.capt]>>)
             ELSE one
      [] p.k = "memo" -> one
      [] p.k = "check" ->
           LET n == Checker(p.arg.fn, t, i, one.pos, p.arg.id, p.arg.flag)
           IN  IF ~ one.ok THEN one
               ELSE IF n >= 0 /\ one.pos + n <= Len(t)
                 THEN Matched(one.pos + n, one.capt) ELSE Failed
      [] p.k = "repeat" ->
           IF one.ok /\ p.arg > 1 THEN Then(one, [p EXCEPT !.arg = @ - 1]) ELSE one
      [] p.k = "search" ->
           IF one.ok \/ one.halt THEN one
           ELSE IF i < Len(t) THEN Meaning(env, t, p, i + 1) ELSE Failed
      [] p.k = "error" -> IF p.sub = <<>> THEN Halted ELSE one
      [] p.k = "grammar" ->
           Meaning(Append(env, p), t, pat_nonterm(p.arg.start), i)
      [] p.k = "nonterm" ->
           Meaning(DefinitionEnv(env, p.arg), t, Definition(env, p.arg), i)
=============================================================================
