------------------------------ MODULE Encoder ------------------------------
(***************************************************************************)
(* src/vm_code.c, with the lowering of src/pattern.c: an instruction list  *)
(* is encoded into a stream of bytes, jump targets are patched when it is  *)
(* finished, and the stream is decoded into the program that vm_exec runs. *)
(*                                                                         *)
(*   - The builder is a record: code is the stream, sets and errors the    *)
(*     deduplicated tables, labels the offset of each label seen, fixups   *)
(*     the operands to patch, checkers the functions to register.          *)
(*   - A byte of the stream is a number, except that the opcode, a         *)
(*     character and a mask of assertions stand for themselves.            *)
(*   - Builder labels are the labels of the instruction list: enc_label    *)
(*     maps one to the other one to one.                                   *)
(*   - u24Fault is a wrong version of u24; no specification uses it.       *)
(***************************************************************************)
EXTENDS Compiler

CONSTANTS MaxSets       \* size of the table of sets

U24Max == 16777215

LabelOps == {"JUMP", "CHOICE", "CALL", "COMMIT", "PARTIAL_COMMIT", "BACK_COMMIT"}
TestCharOps == {"TEST_CHAR", "TEST_CHAR_NOCHOICE"}
TestSetOps == {"TEST_SET", "TEST_SET_NOCHOICE"}
MemoOps == {"MEMO_OPEN", "MEMO_TREE_OPEN"}

---------------------------------------------------------------------------
(* The builder.                                                            *)

vm_prog_new ==
    [code |-> <<>>, sets |-> <<>>, errors |-> <<>>, labels |-> <<>>,
     fixups |-> <<>>, checkers |-> <<>>, abort |-> FALSE]

vm_prog_mark(b, label) == [b EXCEPT !.labels = (label :> Len(b.code)) @@ @]

(* A label is placed where it is first mentioned, until it is marked.      *)
enc_label(b, label) ==
    IF label \in DOMAIN b.labels THEN b ELSE vm_prog_mark(b, label)

add_fixup(b, at, label) == [b EXCEPT !.fixups = Append(@, [at |-> at, label |-> label])]

(* Index from 0 of x in a table, which gains it if it has to.              *)
IndexOf(tab, x) == IF Contains(tab, x) THEN SelectInSeq(tab, LAMBDA y : y = x) - 1
                                       ELSE Len(tab)
Added(tab, x) == IF Contains(tab, x) THEN tab ELSE Append(tab, x)

add_set(b, S) ==
    [b EXCEPT !.sets = Added(@, S),
              !.abort = @ \/ (~ Contains(b.sets, S) /\ Len(b.sets) >= MaxSets)]
add_error(b, msg) == [b EXCEPT !.errors = Added(@, msg)]

---------------------------------------------------------------------------
(* Emission: opcode, a padding byte before an even number of argument      *)
(* bytes, arguments.  Numbers are cut to their width.                      *)

Emit(b, cells) == [b EXCEPT !.code = @ \o cells]
u8(n) == n % 256
i16Fault(n) == <<n % 256, 0>>
i16(n) == <<n % 256, (n \div 256) % 256>>
u24Fault(n) == <<n % 256, (n \div 256) % 256, (n \div 65536) % 256>>
u24(n) == <<(n \div 65536) % 256, n % 256, (n \div 256) % 256>>
Unpatched == <<0, 0, 0>>

(* emit_op_label and friends: a label operand at distance d.               *)
EmitJump(b, in, d, cells) ==
    add_fixup(Emit(enc_label(b, in.label), cells), Len(b.code) + d, in.label)

TheByte(S) == CHOOSE c \in S : TRUE

(* The vm_emit_ function of an instruction.                                *)
vm_emit(b, in) ==
    LET op == in.op
        withSet == add_set(b, in.set)
    IN
    CASE op = "CHAR" -> Emit(b, <<op, TheByte(in.set)>>)
      [] op = "ANY" -> Emit(b, <<op, u8(in.a)>>)
      [] op = "EMPTY" -> Emit(b, <<op, in.a>>)
      [] op = "END" -> Emit(b, <<op, IF in.a # 0 THEN 1 ELSE 0>>)
      [] op \in LabelOps -> EmitJump(b, in, 1, <<op>> \o Unpatched)
      [] op \in {"SET", "SPAN"} ->
           Emit(withSet, <<op, IndexOf(b.sets, in.set)>>)
      [] op \in TestCharOps ->
           EmitJump(b, in, 3, <<op, 0, TheByte(in.set)>> \o Unpatched)
      [] op = "TEST_ANY" -> EmitJump(b, in, 3, <<op, 0, u8(in.b)>> \o Unpatched)
      [] op \in TestSetOps ->
           EmitJump(withSet, in, 3,
                    <<op, 0, IndexOf(b.sets, in.set)>> \o Unpatched)
      [] op \in {"CAPTURE_BEGIN", "MEMO_TREE_CLOSE"} ->
           Emit(b, <<op, 0>> \o i16(in.a))
      [] op \in {"CAPTURE_LATE", "CAPTURE_FULL"} ->
           Emit(b, <<op, u8(in.b)>> \o i16(in.a))
      [] op = "CHECK_BEGIN" -> Emit(b, <<op, 0>> \o i16(in.a) \o i16(in.b))
      [] op = "CHECK_END" -> Emit(b, <<op>> \o u24(Len(b.checkers)))
      [] op \in MemoOps -> EmitJump(b, in, 1, <<op>> \o Unpatched \o i16(in.b))
      [] op = "ERROR" -> Emit(add_error(b, in.a), <<op>> \o u24(IndexOf(b.errors, in.a)))
      [] OTHER -> Emit(b, <<op, 0>>)

(* Lower one entry of the list.                                            *)
enc(b, in) ==
    CASE in.op = "LABEL" -> vm_prog_mark(enc_label(b, in.a), in.a)
      [] in.op = "NOP" -> b
      [] in.op = "OPENCALL" -> [b EXCEPT !.abort = TRUE]
      [] in.op = "CHECK_END" -> [vm_emit(b, in) EXCEPT !.checkers = Append(@, in.a)]
      [] OTHER -> vm_emit(b, in)

---------------------------------------------------------------------------
(* Decoding.                                                               *)

op_sizes(op) ==
    CASE op \in {"JUMP", "CHOICE", "CALL", "COMMIT", "PARTIAL_COMMIT",
                 "BACK_COMMIT", "CAPTURE_BEGIN", "CAPTURE_LATE", "CAPTURE_FULL",
                 "CHECK_END", "MEMO_TREE_CLOSE", "ERROR"} -> 4
      [] op \in {"TEST_CHAR", "TEST_CHAR_NOCHOICE", "TEST_SET",
                 "TEST_SET_NOCHOICE", "TEST_ANY", "CHECK_BEGIN", "MEMO_OPEN",
                 "MEMO_TREE_OPEN"} -> 6
      [] OTHER -> 2

decode_u24(c, at) == c[at] * 65536 + c[at + 1] + c[at + 2] * 256
decode_i16(c, at) ==
    LET u == c[at] + c[at + 1] * 256 IN IF u >= 32768 THEN u - 65536 ELSE u

(* The instruction that begins at offset from, targets as offsets.         *)
decode(c, sets, from) ==
    LET op == c[from + 1]
        at == from + 1        \* byte n of the instruction is c[at + n]
        In(a, b, S) == [op |-> op, a |-> a, b |-> b, set |-> S]
    IN
    CASE op = "CHAR" -> In(0, 0, {c[at + 1]})
      [] op \in {"ANY", "EMPTY", "END"} -> In(c[at + 1], 0, {})
      [] op \in LabelOps \union {"ERROR", "CHECK_END"} ->
           In(decode_u24(c, at + 1), 0, {})
      [] op \in {"SET", "SPAN"} -> In(0, 0, sets[c[at + 1] + 1])
      [] op \in TestCharOps -> In(decode_u24(c, at + 3), 0, {c[at + 2]})
      [] op = "TEST_ANY" -> In(decode_u24(c, at + 3), c[at + 2], {})
      [] op \in TestSetOps -> In(decode_u24(c, at + 3), 0, sets[c[at + 2] + 1])
      [] op \in {"CAPTURE_BEGIN", "MEMO_TREE_CLOSE"} -> In(decode_i16(c, at + 2), 0, {})
      [] op \in {"CAPTURE_LATE", "CAPTURE_FULL"} ->
           In(decode_i16(c, at + 2), c[at + 1], {})
      [] op = "CHECK_BEGIN" -> In(decode_i16(c, at + 2), decode_i16(c, at + 4), {})
      [] op \in MemoOps -> In(decode_u24(c, at + 1), decode_i16(c, at + 4), {})
      [] OTHER -> In(0, 0, {})

(* The offsets at which decoding finds an instruction.                     *)
RECURSIVE Starts(_, _)
Starts(c, from) ==
    IF from >= Len(c) THEN <<>> ELSE <<from>> \o Starts(c, from + op_sizes(c[from + 1]))

(* Instruction index of a byte offset.  A target inside an instruction     *)
(* would read an uninitialized index; -1 stands for it.                    *)
InsnIndex(starts, len, off) ==
    IF off = len THEN Len(starts) ELSE SelectInSeq(starts, LAMBDA s : s = off) - 1

(* The instructions that begin at starts[n], starts[n + 1], ...            *)
RECURSIVE Predecoded(_, _, _, _)
Predecoded(c, sets, starts, n) ==
    LET in == decode(c, sets, starts[n])
        Targeted == LabelOps \union TestCharOps \union TestSetOps
                    \union MemoOps \union {"TEST_ANY"}
        resolved == IF in.op \in Targeted
                      THEN [in EXCEPT !.a = InsnIndex(starts, Len(c), @)] ELSE in
    IN  IF n > Len(starts) THEN <<>>
        ELSE <<resolved>> \o Predecoded(c, sets, starts, n + 1)

vm_predecode(c, sets) == Predecoded(c, sets, Starts(c, 0), 1)

(* The stream with one label operand patched.                              *)
Patch(b, f) ==
    LET bytes == u24(b.labels[f.label])
    IN  [b EXCEPT !.code[f.at + 1] = bytes[1],
                  !.code[f.at + 2] = bytes[2],
                  !.code[f.at + 3] = bytes[3],
                  !.abort = @ \/ b.labels[f.label] > U24Max]

(* All of them, and the whole list; what does not fit ends the program.    *)
RECURSIVE Patched(_, _), Encoded(_, _)
Patched(b, n) ==
    IF b.abort \/ n > Len(b.fixups) THEN b ELSE Patched(Patch(b, b.fixups[n]), n + 1)
Encoded(b, ir) ==
    IF b.abort \/ ir = <<>> THEN b ELSE Encoded(enc(b, Head(ir)), Tail(ir))

vm_prog_finish(b) ==
    LET done == Patched(Emit(b, <<"END", 0>>), 1)
    IN  [prog |-> IF done.abort THEN <<>> ELSE vm_predecode(done.code, done.sets),
         errors |-> done.errors, checkers |-> done.checkers, abort |-> done.abort]

Assembled(out) ==
    [err |-> out.err, memo |-> out.memo, ir |-> out.code,
     code |-> IF out.err # NoErr THEN NoErr
              ELSE vm_prog_finish(Encoded(vm_prog_new, out.code))]

(* What peg_new makes of a pattern: the program, or the missing name.      *)
pat_compile(counter, p) == Assembled(compile(counter, p))
=============================================================================
