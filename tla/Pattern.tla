------------------------------ MODULE Pattern ------------------------------
(***************************************************************************)
(* The pattern trees of src/pattern.c.  A node is [k, sub, arg]: its kind, *)
(* its sub-patterns in order and the operand of its kind.  Ownership and   *)
(* pat_free are left out: trees are values.                                *)
(***************************************************************************)
EXTENDS Integers, SequencesExt

pat_new(kind, sub, arg) == [k |-> kind, sub |-> sub, arg |-> arg]

pat_empty == pat_new("empty", <<>>, 0)
pat_alt(l, r) == pat_new("alt", <<l, r>>, 0)
pat_seq(l, r) == pat_new("seq", <<l, r>>, 0)

pat_concat(patts) ==
    IF patts = <<>> THEN pat_empty ELSE FoldLeft(pat_seq, Head(patts), Tail(patts))
pat_or(patts) ==
    IF patts = <<>> THEN pat_empty ELSE FoldRight(pat_alt, Front(patts), Last(patts))

pat_star(p) == pat_new("star", <<p>>, 0)
pat_plus(p) == pat_new("plus", <<p>>, 0)
pat_optional(p) == pat_new("optional", <<p>>, 0)
pat_not(p) == pat_new("not", <<p>>, 0)
pat_and(p) == pat_new("and", <<p>>, 0)
pat_search(p) == pat_new("search", <<p>>, 0)
pat_cap(p, id) == pat_new("cap", <<p>>, id)
pat_literal(s) == pat_new("literal", <<>>, s)
pat_set(S) == pat_new("class", <<>>, S)
pat_any(n) == pat_new("dot", <<>>, n)
pat_emptyop(ops) == pat_new("emptyop", <<>>, ops)
pat_repeat(p, n) == IF n <= 0 THEN pat_empty ELSE pat_new("repeat", <<p>>, n)

(* recover is <<p>>, or <<>> for NULL.                                     *)
pat_error(msg, recover) == pat_new("error", recover, msg)

pat_check_flags(p, fn, id, flag) ==
    pat_new("check", <<p>>, [fn |-> fn, id |-> id, flag |-> flag])
pat_check(p, fn) == pat_check_flags(p, fn, 0, 0)

(* The sub-pattern of a non-terminal is the definition a grammar inlined   *)
(* for it, if one did.                                                     *)
pat_nonterm(name) == pat_new("nonterm", <<>>, name)

pat_grammar(start, names, defs) ==
    pat_new("grammar", defs, [start |-> start, names |-> names])
pat_cap_grammar(start, names, defs) ==
    pat_grammar(start, names, [i \in DOMAIN defs |-> pat_cap(defs[i], i - 1)])

(* Memo ids: pat_memo takes the value of the global counter.               *)
pat_memo_id(p, id) == pat_new("memo", <<p>>, id)
memo_counter_after(counter, id) == IF id > counter THEN id + 1 ELSE counter
pat_memo(counter, p) ==
    [p |-> pat_memo_id(p, counter),
     counter |-> memo_counter_after(counter + 1, counter)]
=============================================================================
