------------------------------ MODULE MCParser ------------------------------
(***************************************************************************)
(* Parser for chosen grammars.                                             *)
(***************************************************************************)
EXTENDS Parser

Lit(s) == pat_literal(s)
A == Lit(<<"a">>)
B == Lit(<<"b">>)
C == Lit(<<"c">>)
AorB == pat_set({"a", "b"})
EndOfText == pat_not(pat_any(1))

(* The checkers: "more" takes one byte more after 'b' and rejects 'a';     *)
(* "odd" accepts when id and flag differ by an odd number.                 *)
TheChecker(fn, t, start, end, id, flag) ==
    IF fn = Unregistered THEN 0
    ELSE IF fn = "odd" THEN IF (id - flag) % 2 = 1 THEN 0 ELSE -1
    ELSE IF end = 0 THEN 0
    ELSE CASE t[end] = "b" -> 1 [] t[end] = "a" -> -1 [] OTHER -> 0

Text(S, n) == UNION {[1 .. k -> S] : k \in 0 .. n}
AB(n) == Text({"a", "b"}, n)
ABC(n) == AB(n) \union Text({"a", "b", "c"}, n - 1)

(* Every edit of texts of up to n bytes that inserts at most one of S.     *)
Replacing(n, S) ==
    {[start |-> p[1], end |-> p[2], new |-> t] :
        p \in {q \in (0 .. n) \X (0 .. n) : q[1] <= q[2]}, t \in Text(S, 1)}
AllWindows == {[low |-> l, high |-> h] : l \in 0 .. 4, h \in 0 .. 5}

At(env, p) == [env |-> env, p |-> p]

(* A parser of p: its memoized patterns, subjects, edits and windows.  All *)
(* memo ids in p are below counter.                                        *)
Peg(p, counter, memos, trees, subjects, edits, windows) ==
    [pattern |-> p, counter |-> counter, memos |-> memos, trees |-> trees,
     subjects |-> subjects, edits |-> edits, windows |-> windows]
Parsed(p, counter, subjects) == Peg(p, counter, <<>>, <<>>, subjects, {}, {})

---------------------------------------------------------------------------
(* Reparsing.                                                              *)

(* memo({1 'a' / 'ba' })* !. : tree memoization.                           *)
Item == pat_cap(pat_or(<<A, Lit(<<"b", "a">>)>>), 1)
Tree == Peg(pat_seq(pat_star(pat_memo_id(Item, 0)), EndOfText), 1,
            <<>>, 1 :> At(<<>>, Item),
            AB(5), Replacing(5, {"a", "b"}), AllWindows)

(* (memo({1 'a' !'ab' }) / memo({2 'aab' / 'b' }))* !. : rules that read   *)
(* beyond their match and fail late, none inside another; their ids are    *)
(* -1 and 2, since any integer of 16 bits can be chosen.                   *)
Single == pat_cap(pat_seq(A, pat_not(Lit(<<"a", "b">>))), 1)
Other == pat_cap(pat_alt(Lit(<<"a", "a", "b">>), B), 2)
Flat == Peg(pat_seq(pat_star(pat_alt(pat_memo_id(Single, -1), pat_memo_id(Other, 2))),
                    EndOfText), 3,
            (-1 :> At(<<>>, Single)) @@ (2 :> At(<<>>, Other)), <<>>,
            AB(4), Replacing(4, {"a", "b"}), {})

(* S <- E !.   E <- memo({1 'a' E / 'b' }) : nested memoized calls.        *)
NestedRule ==
    pat_memo_id(pat_cap(pat_alt(pat_seq(A, pat_nonterm("E")), B), 1), 1)
NestedGrammar ==
    pat_grammar("S", <<"S", "E">>,
                <<pat_seq(pat_nonterm("E"), EndOfText), NestedRule>>)
Nested(subjects, edits, windows) ==
    Peg(NestedGrammar, 2, <<At(<<NestedGrammar>>, NestedRule)>>, <<>>,
        subjects, edits, windows)

(* memo(&(. . .) 'a') : a predicate that looks ahead with VM_ANY.          *)
AheadRule == pat_seq(pat_and(pat_any(3)), A)
Ahead == Peg(pat_memo_id(AheadRule, 1), 2, <<At(<<>>, AheadRule)>>, <<>>,
             AB(3), Replacing(3, {"a", "b"}), {})

(* . memo(WordBoundary 'a') : an assertion at the start of a rule.         *)
BoundaryRule == pat_seq(pat_emptyop({"WordBoundary"}), A)
Boundary == Peg(pat_seq(pat_any(1), pat_memo_id(BoundaryRule, 1)), 2,
                <<At(<<>>, BoundaryRule)>>, <<>>,
                Text({"a", "."}, 3), Replacing(3, {"a", "."}), {})

(* memo(id 0, 'a') 'c' / memo('ab'), from a counter at 0: the counter hands *)
(* out the id that was chosen.                                              *)
Chosen == pat_memo_id(A, 0)
Fresh == pat_memo(memo_counter_after(0, 0), Lit(<<"a", "b">>))
SharedId == Peg(pat_alt(pat_seq(Chosen, C), Fresh.p), Fresh.counter,
                0 :> At(<<>>, A), <<>>, AB(3), {}, {})

FlatOnly == <<Flat>>
NestedOnly == <<Nested(AB(3), Replacing(3, {"a", "b"}), {})>>
AheadOnly == <<Ahead>>
BoundaryOnly == <<Boundary>>
SharedIdOnly == <<SharedId>>

---------------------------------------------------------------------------
(* Parsing and windows, over every kind of instruction.                    *)

(* {2 'a' [ab] }? 'a'* (. . 'b' / [ab] 'c' / 'c') [b]? &('c' / EndText)    *)
Predicates ==
    pat_concat(<<pat_optional(pat_cap(pat_seq(A, AorB), 2)), pat_star(pat_set({"a"})),
                 pat_or(<<pat_seq(pat_any(2), B), pat_seq(AorB, C), C>>),
                 pat_optional(pat_set({"b"})),
                 pat_and(pat_alt(C, pat_emptyop({"EndText"})))>>)

(* {3 [ab] 'c' }* {2 'a' check('b') }? (. . / error .)                     *)
LateCapture ==
    pat_concat(<<pat_star(pat_cap(pat_seq(AorB, C), 3)),
                 pat_optional(pat_cap(pat_seq(A, pat_check(B, "more")), 2)),
                 pat_alt(pat_seq(pat_any(1), pat_any(1)),
                         pat_error("expected a byte", <<pat_any(1)>>))>>)

(* ({3 [ab] 'c' } / 'a' check(.))* (!. / error .)                          *)
CheckedItems ==
    pat_seq(pat_star(pat_alt(pat_cap(pat_seq(AorB, C), 3),
                             pat_seq(A, pat_check(pat_any(1), "more")))),
            pat_alt(EndOfText, pat_error("expected the end", <<pat_any(1)>>)))

Viewed(p) == Peg(p, 1, <<>>, <<>>, AB(5) \union ABC(4), {}, AllWindows)
Views == <<Viewed(Predicates), Viewed(LateCapture), Viewed(CheckedItems),
           Nested(AB(5) \union ABC(4), {}, AllWindows)>>

---------------------------------------------------------------------------
(* All small patterns.  What they memoize is read off the pattern: the ids *)
(* of repetitions count from counter in the order of compilation.          *)

RECURSIVE MemoNodes(_), RepeatedMemos(_)
MemoNodes(p) ==
    (IF p.k = "memo" THEN {p} ELSE {})
    \union UNION {MemoNodes(p.sub[i]) : i \in DOMAIN p.sub}
RepeatedMemos(p) ==
    FlattenSeq([i \in DOMAIN p.sub |-> RepeatedMemos(p.sub[i])])
    \o IF p.k \in {"star", "plus"} /\ p.sub[1].k = "memo"
         THEN <<p.sub[1].sub[1]>> ELSE <<>>

(* One memo id per memoized pattern.                                       *)
Small(p) ==
    LET nodes == MemoNodes(p)
        trees == RepeatedMemos(p)
        counter == 1 + Max({0} \union {n.arg : n \in nodes})
    IN  Peg(p, counter,
            [id \in {n.arg : n \in nodes} |->
                At(<<>>, (CHOOSE n \in nodes : n.arg = id).sub[1])],
            [id \in counter .. counter + Len(trees) - 1 |->
                At(<<>>, trees[id - counter + 1])],
            AB(3) \union {<<"c">>, <<"c", "a">>}, {}, {})

(* Over an operand that consumes.                                          *)
Unary(p, n) ==
    <<p, pat_star(p), pat_plus(p), pat_optional(p), pat_not(p), pat_and(p),
      pat_cap(p, n), pat_search(p), pat_repeat(p, 2), pat_memo_id(p, n),
      pat_star(pat_memo_id(p, n)), pat_check_flags(p, "odd", n, 2),
      pat_check(p, Unregistered), pat_error("recovered", <<p>>)>>

Leaves == <<A, Lit(<<"a", "b">>), AorB, pat_any(1)>>
EachUnary(patts) == FlattenSeq([n \in DOMAIN patts |-> Unary(patts[n], n)])
Operands ==
    EachUnary(Leaves)
    \o <<pat_any(2), pat_emptyop({"EndText", "BeginText"}), Lit(<<>>), pat_empty,
         pat_error("stop", <<>>), pat_seq(pat_not(A), pat_any(1))>>
Right == <<B, pat_set({"b", "c"}), pat_star(B), pat_cap(Lit(<<"b", "a">>), 7),
           pat_memo_id(B, 9), pat_optional(pat_seq(B, A)), pat_empty>>

Pairs(Node(_, _), left, right) ==
    FlattenSeq([l \in DOMAIN left |->
                  [r \in DOMAIN right |-> Node(left[l], right[r])]])
Two == SubSeq(Leaves, 1, 3) \o <<B>>
Patterns ==
    Pairs(pat_seq, Operands, Right) \o Pairs(pat_alt, Operands, Right)
    \o EachUnary(Pairs(pat_seq, Two, Two) \o Pairs(pat_alt, Two, Two))

---------------------------------------------------------------------------
(* Grammars, names, boundaries.                                            *)

Nt(name) == pat_nonterm(name)

(* Nothing recursive: all of it is inlined.                                *)
Inlined == pat_grammar("S", <<"S", "A", "B">>,
                       <<pat_seq(Nt("A"), Nt("B")), A, pat_alt(Nt("A"), B)>>)
(* A call that is not in tail position.                                    *)
Balanced == pat_grammar("P", <<"P">>,
                <<pat_or(<<pat_concat(<<A, Nt("P"), B>>), pat_seq(A, B)>>)>>)
(* Two rules that call each other last, captured, and a leaf between.      *)
Mutual == pat_cap_grammar("S", <<"T", "S", "U">>,
            <<pat_or(<<pat_concat(<<B, Nt("U"), Nt("S")>>), A>>),
              pat_alt(pat_seq(Nt("U"), Nt("T")), B), A>>)
(* A definition too large to inline, called twice.                         *)
Large == pat_grammar("S", <<"S", "L">>,
            <<pat_seq(Nt("L"), Nt("L")),
              pat_or(<<pat_seq(A, pat_any(1)), pat_seq(B, B), pat_plus(B)>>)>>)
(* A grammar inside a grammar, and one that recurses inside a search.      *)
Inner == pat_grammar("S", <<"S">>,
            <<pat_alt(pat_seq(A, Nt("S")), pat_grammar("I", <<"I">>,
                <<pat_alt(pat_seq(B, Nt("I")), pat_empty)>>))>>)
Searching == pat_seq(pat_search(pat_cap(Balanced, 5)), pat_repeat(pat_optional(A), 3))

(* Names without a definition, as start, as rule, outside every grammar.   *)
NoStart == pat_grammar("Z", <<"S">>, <<A>>)
NoRule == pat_grammar("S", <<"S", "T">>, <<pat_alt(pat_seq(A, Nt("S")), Nt("X")), B>>)
NoGrammar == pat_seq(Nt("A"), A)
UnusedBad == pat_grammar("S", <<"S", "T">>, <<A, pat_not(Nt("Y"))>>)

(* Repetitions of memoized patterns inside a repeated memoized pattern.    *)
Trees == pat_star(pat_memo_id(pat_seq(A, pat_star(pat_memo_id(pat_cap(B, 1), 1))), 2))
TwoTrees == pat_seq(pat_star(pat_memo_id(pat_cap(A, 1), 1)),
                    pat_plus(pat_memo_id(pat_cap(B, 2), 2)))

(* Ids at the limits of 16 bits, several tables entries of each kind.      *)
Tables ==
    pat_concat(<<pat_cap(pat_star(A), 32767), pat_cap(pat_check_flags(B, "odd", 300, -1), -32768),
                 pat_or(<<pat_check_flags(AorB, "more", 5, 6),
                          pat_error("first", <<pat_check(pat_any(1), "more")>>),
                          pat_error("second", <<pat_set({"b", "c"})>>),
                          pat_error("first", <<>>)>>)>>)

Repeat(c, n) == [i \in 1 .. n |-> c]
(* Captures opened late by as much as fits a byte, and by more.            *)
Wide(n) == pat_seq(pat_cap(pat_seq(pat_any(n), A), 1),
                   pat_cap(pat_concat(<<pat_any(n), B, pat_optional(A)>>), 2))
(* A program longer than 255 bytes, with jumps to its end and back.        *)
Long == pat_star(pat_alt(pat_cap(pat_or(<<Lit(Repeat("a", 140)), pat_seq(A, B)>>), 3), B))

Special(p, subjects) == [Small(p) EXCEPT !.subjects = subjects]
WideText(n) == Repeat("a", 2 * n + 1) \o <<"b">>
Specials ==
    [n \in 1 .. 13 |-> Special(
        <<Inlined, Balanced, Mutual, Large, Inner, Searching, NoStart, NoRule,
          NoGrammar, UnusedBad, Trees, TwoTrees, Tables>>[n], AB(5))]
    \o <<Special(Wide(254), {WideText(254), WideText(253)}),
         Special(Wide(255), {WideText(255), WideText(254)})>>
    \o <<Special(Long, {Repeat("a", 140) \o <<"b">>, <<"a", "b", "b">>})>>

AllSmall == [n \in DOMAIN Patterns |-> Small(Patterns[n])]
Programs == <<Tree>> \o Views \o Specials \o AllSmall
=============================================================================
