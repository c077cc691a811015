------------------------------ MODULE ResetCode ------------------------------
(***************************************************************************)
(* The code cmd/reset emits for a struct, whether it compiles, and what    *)
(* running it does.  A type is a tree over named structs; fields are       *)
(* numbered.  A value is 0 if it is zero or empty and 1 if it is not,      *)
(* a pointer [to |-> <<>>] or [to |-> <<v>>], a struct the tuple of its    *)
(* fields.                                                                 *)
(*                                                                         *)
(* An emitted operand is *...*x.f.g: in Go the selectors bind tighter than *)
(* the stars, whatever was put in front of the text first.                 *)
(***************************************************************************)
EXTENDS Integers, Sequences, FiniteSets, SequencesExt

Type(k) == [k |-> k, elem |-> << >>, name |-> ""]

Ptr(t) == [k |-> "ptr", elem |-> <<t>>, name |-> ""]

Struct(n) == [k |-> "struct", elem |-> << >>, name |-> n]

Recv == [stars |-> 0, sel |-> << >>]

Deref(e) == [e EXCEPT !.stars = @ + 1]

Select(e, i) == [e EXCEPT !.sel = Append(@, i)]

Stmt(op, e) == [op |-> op, e |-> e, body |-> << >>]

IfNotNil(e, body) == [op |-> "if", e |-> e, body |-> body]

(* Stands for the statements that an emitter which never returns adds.     *)
Diverge == Stmt("diverge", Recv)

-----------------------------------------------------------------------------
(* env maps the structs of the package to the types of their fields; a     *)
(* struct outside its domain is foreign.  has is the set of structs with a *)
(* Reset method.  d bounds the nesting: deeper is for ever.                *)
RECURSIVE EmitResetForExpr(_, _, _, _, _), EmitResetThroughPointer(_, _, _, _, _)

EmitFields(env, has, e, n, d) ==
    FlattenSeq([i \in DOMAIN env[n] |-> EmitResetForExpr(env, has, Select(e, i), env[n][i], d - 1)])

(* Faulty variant of EmitOther: a slice is left as it is.                  *)
EmitOtherKeepingSlices(e, t) ==
    CASE t.k = "slice" -> << >>
      [] t.k = "map" -> <<Stmt("clear", e)>>
      [] t.k = "unsafe" -> <<Stmt("= 0", e)>>
      [] OTHER -> <<Stmt("zero", e)>>

(* Everything that is neither a pointer nor a struct; zeroBasic has the    *)
(* number 0 for an unsafe.Pointer too.                                     *)
EmitOther(e, t) ==
    CASE t.k = "slice" -> <<Stmt("truncate", e)>>
      [] t.k = "map" -> <<Stmt("clear", e)>>
      [] t.k = "unsafe" -> <<Stmt("= 0", e)>>
      [] OTHER -> <<Stmt("zero", e)>>

EmitResetForExpr(env, has, e, t, d) ==
    IF d = 0 THEN <<Diverge>> ELSE
    CASE t.k = "ptr" -> <<IfNotNil(e, EmitResetThroughPointer(env, has, e, t.elem[1], d - 1))>>
      [] t.k = "struct" /\ t.name \in has -> <<Stmt("(&).Reset()", e)>>
      [] t.k = "struct" /\ t.name \in DOMAIN env \ has -> EmitFields(env, has, e, t.name, d)
      [] OTHER -> EmitOther(e, t)

(* Faulty variant of EmitResetThroughPointer: the star is forgotten.       *)
EmitResetThroughPointerNoStar(env, has, e, t, d) ==
    IF d = 0 THEN <<Diverge>> ELSE
    CASE t.k = "ptr" -> <<IfNotNil(Deref(e),
                                   EmitResetThroughPointer(env, has, Deref(e), t.elem[1], d - 1))>>
      [] t.k = "struct" /\ t.name \in has -> <<Stmt(".Reset()", e)>>
      [] t.k = "struct" /\ t.name \in DOMAIN env \ has -> EmitFields(env, has, e, t.name, d)
      [] OTHER -> EmitOther(e, t)

(* Faulty variant of EmitResetThroughPointer: Reset methods are not used.  *)
EmitResetThroughPointerInlining(env, has, e, t, d) ==
    IF d = 0 THEN <<Diverge>> ELSE
    CASE t.k = "ptr" -> <<IfNotNil(Deref(e),
                                   EmitResetThroughPointer(env, has, Deref(e), t.elem[1], d - 1))>>
      [] t.k = "struct" /\ t.name \in DOMAIN env -> EmitFields(env, has, e, t.name, d)
      [] OTHER -> EmitOther(Deref(e), t)

EmitResetThroughPointer(env, has, e, t, d) ==
    IF d = 0 THEN <<Diverge>> ELSE
    CASE t.k = "ptr" -> <<IfNotNil(Deref(e),
                                   EmitResetThroughPointer(env, has, Deref(e), t.elem[1], d - 1))>>
      [] t.k = "struct" /\ t.name \in has -> <<Stmt(".Reset()", e)>>
      [] t.k = "struct" /\ t.name \in DOMAIN env \ has -> EmitFields(env, has, e, t.name, d)
      [] OTHER -> EmitOther(Deref(e), t)

EmitResetMethod(env, has, n, d) == EmitFields(env, has, Recv, n, d)

RECURSIVE Diverges(_)
Diverges(stmts) ==
    \E i \in DOMAIN stmts : stmts[i].op = "diverge" \/ Diverges(stmts[i].body)

-----------------------------------------------------------------------------
(* The Go compiler (external): a selector follows one pointer by itself.   *)
Bad == Type("bad")

Pointee(t) == IF t.k = "ptr" THEN t.elem[1] ELSE Bad

Field(env, t, i) ==
    LET s == IF t.k = "ptr" THEN Pointee(t) ELSE t
    IN  IF s.k = "struct" /\ s.name \in DOMAIN env /\ i \in DOMAIN env[s.name]
        THEN env[s.name][i] ELSE Bad

TypeOf(env, n, e) ==
    LET base == FoldLeft(LAMBDA t, i : Field(env, t, i), Struct(n), e.sel)
    IN  FoldLeft(LAMBDA t, i : Pointee(t), base, [i \in 1 .. e.stars |-> i])

(* A method is selected like a field, so stars in front are of its result. *)
Callable(env, has, n, e) ==
    LET t == TypeOf(env, n, e) IN t.k = "ptr" /\ t.elem[1].k = "struct" /\ t.elem[1].name \in has

RECURSIVE WellTyped(_, _, _, _)
WellTyped(env, has, n, stmts) ==
    \A i \in DOMAIN stmts :
        LET s == stmts[i]
            t == TypeOf(env, n, s.e)
        IN  CASE s.op = "if" -> t.k = "ptr" /\ WellTyped(env, has, n, s.body)
              [] s.op = ".Reset()" -> s.e.stars = 0 /\ Callable(env, has, n, s.e)
              [] s.op = "(&).Reset()" -> t.k = "struct" /\ t.name \in has
              [] s.op = "truncate" -> t.k = "slice"
              [] s.op = "clear" -> t.k = "map"
              [] s.op = "= 0" -> t.k = "basic"
              [] OTHER -> t.k \notin {"bad", "unsafe"}

-----------------------------------------------------------------------------
(* The reference: pointers stay and what they point to is cleaned, all     *)
(* else becomes zero or empty.  A Reset method of a struct does the same.  *)
RECURSIVE Clean(_, _, _)
Clean(env, t, v) ==
    CASE t.k = "ptr" -> [to |-> IF v.to = << >> THEN << >> ELSE <<Clean(env, t.elem[1], v.to[1])>>]
      [] t.k = "struct" /\ t.name \in DOMAIN env ->
            [i \in DOMAIN v |-> Clean(env, env[t.name][i], v[i])]
      [] OTHER -> 0

(* Every value of a type, pointers followed d levels deep.                 *)
RECURSIVE Values(_, _, _), Tuples(_, _, _)
Values(env, t, d) ==
    CASE t.k = "ptr" -> {[to |-> << >>]} \cup
                        (IF d = 0 THEN {} ELSE {[to |-> <<v>>] : v \in Values(env, t.elem[1], d - 1)})
      [] t.k = "struct" /\ t.name \in DOMAIN env -> Tuples(env, env[t.name], d)
      [] OTHER -> {0, 1}

Tuples(env, ts, d) ==
    IF ts = << >> THEN {<< >>}
    ELSE {<<v>> \o w : v \in Values(env, Head(ts), d), w \in Tuples(env, Tail(ts), d)}

-----------------------------------------------------------------------------
(* Running the statements on a value.  A path spells the pointers that are *)
(* followed as 0.                                                          *)
Path(env, n, e) ==
    LET step(a, i) == [t |-> Field(env, a.t, i),
                       p |-> a.p \o (IF a.t.k = "ptr" THEN <<0, i>> ELSE <<i>>)]
    IN  FoldLeft(step, [t |-> Struct(n), p |-> << >>], e.sel).p \o [i \in 1 .. e.stars |-> 0]

Fetch(v, path) == FoldLeft(LAMBDA w, i : IF i = 0 THEN w.to[1] ELSE w[i], v, path)

RECURSIVE Put(_, _, _)
Put(v, path, new) ==
    IF path = << >> THEN new
    ELSE IF Head(path) = 0 THEN [to |-> <<Put(v.to[1], Tail(path), new)>>]
    ELSE [v EXCEPT ![Head(path)] = Put(@, Tail(path), new)]

RECURSIVE Exec(_, _, _, _)
Exec(env, n, v, stmts) ==
    LET do(w, s) ==
          LET path == Path(env, n, s.e)
          IN  CASE s.op = "if" -> IF Fetch(w, path).to = << >> THEN w ELSE Exec(env, n, w, s.body)
                [] s.op \in {".Reset()", "(&).Reset()"} ->
                      Put(w, path, Clean(env, TypeOf(env, n, s.e), Fetch(w, path)))
                [] OTHER -> Put(w, path, 0)
    IN  FoldLeft(do, v, stmts)
=============================================================================
