------------------------------- MODULE ResetGen ------------------------------
(***************************************************************************)
(* cmd/reset on one package that its developers keep editing: the structs  *)
(* it declares, the file reset.gen.go, and runs of the generator.          *)
(***************************************************************************)
EXTENDS ResetCode

CONSTANTS Structs,   \* names of structs the package may declare
          Shapes,    \* the field lists each may have; none contains itself by value
          Foreign,   \* the structs of other packages that have a Reset method
          MaxDepth,  \* nesting no terminating emission of these shapes reaches
          MaxEdits   \* bounds the edits of a behaviour

ASSUME ResetAssumption == MaxDepth \in Nat \ {0} /\ MaxEdits \in Nat

VARIABLES env,     \* the declared structs and their fields
          marked,  \* those with a +generate:reset comment
          own,     \* those with a Reset method written by hand
          gen,     \* reset.gen.go: its methods; none if there is no file
          last,    \* what came last: an "edit", or how a run ended
          edits

vars == <<env, marked, own, gen, last, edits>>

None == << >>

Init ==
    /\ env = None /\ marked = {} /\ own = {} /\ gen = None
    /\ last = "edit" /\ edits = 0

-----------------------------------------------------------------------------
(* hasResetMethod; the methods of the generated file count like others.    *)
HasReset == own \cup DOMAIN gen \cup Foreign

RECURSIVE Mentions(_)
Mentions(t) == IF t.k = "ptr" THEN Mentions(t.elem[1])
               ELSE IF t.k = "struct" THEN {t.name} ELSE {}

(* packages.Load reports no error.                                         *)
Compiles ==
    /\ \A n \in DOMAIN env : \A i \in DOMAIN env[n] : Mentions(env[n][i]) \cap Structs \subseteq DOMAIN env
    /\ DOMAIN gen \subseteq DOMAIN env \ own
    /\ \A n \in DOMAIN gen : WellTyped(env, HasReset, n, gen[n])

-----------------------------------------------------------------------------
(* The developers: declare a struct, remove it with its method, mark it,   *)
(* write its Reset by hand, or delete the generated file.                  *)
Edit ==
    /\ edits < MaxEdits
    /\ edits' = edits + 1
    /\ last' = "edit"

Declare(n, fields) ==
    /\ Edit /\ n \notin DOMAIN env
    /\ env' = [m \in DOMAIN env \cup {n} |-> IF m = n THEN fields ELSE env[m]]
    /\ UNCHANGED <<marked, own, gen>>

Delete(n) ==
    /\ Edit /\ n \in DOMAIN env
    /\ env' = [m \in DOMAIN env \ {n} |-> env[m]]
    /\ marked' = marked \ {n} /\ own' = own \ {n}
    /\ UNCHANGED gen

Mark(n) ==
    /\ Edit /\ n \in DOMAIN env \ marked
    /\ marked' = marked \cup {n}
    /\ UNCHANGED <<env, own, gen>>

WriteReset(n) ==
    /\ Edit /\ n \in DOMAIN env \ own
    /\ own' = own \cup {n}
    /\ UNCHANGED <<env, marked, gen>>

DeleteFile ==
    /\ Edit /\ gen # None
    /\ gen' = None
    /\ UNCHANGED <<env, marked, own>>

-----------------------------------------------------------------------------
FindTargetStructs == {n \in DOMAIN env : n \in marked /\ n \notin HasReset}

GenerateResetFile(targets) ==
    [n \in targets |-> EmitResetMethod(env, HasReset, n, MaxDepth)]

(* One run of processPackages: a package that does not compile is fatal;   *)
(* an emitter that never returns ends in a stack overflow; otherwise the   *)
(* file is replaced by one for the targets, or removed if there are none.  *)
Run ==
    /\ UNCHANGED <<env, marked, own, edits>>
    /\ LET file == GenerateResetFile(FindTargetStructs)
       IN  \/ ~Compiles /\ last' = "fatal" /\ UNCHANGED gen
           \/ /\ Compiles /\ \E n \in DOMAIN file : Diverges(file[n])
              /\ last' = "overflow" /\ UNCHANGED gen
           \/ /\ Compiles /\ \A n \in DOMAIN file : ~Diverges(file[n])
              /\ last' = "done"
              /\ gen' = file

Next ==
    \/ \E n \in Structs :
         \/ \E fields \in Shapes[n] : Declare(n, fields)
         \/ Delete(n) \/ Mark(n) \/ WriteReset(n)
    \/ DeleteFile \/ Run

Spec == Init /\ [][Next]_vars

-----------------------------------------------------------------------------
(* The methods a run has just generated do what Reset is for, on every     *)
(* value: fields of nested structs and what pointers lead to are cleaned,  *)
(* nothing that should stay is dropped, and no nil pointer is followed.    *)
ResetCleans ==
    last = "done" /\ Compiles =>
        \A n \in DOMAIN gen : \A v \in Values(env, Struct(n), 2) :
            Exec(env, n, v, gen[n]) = Clean(env, Struct(n), v)

(* A field emitResetForExpr has no correct text for: an unsafe.Pointer, or *)
(* a struct behind two pointers or more that is reset by its method or     *)
(* field by field, where the star lands on the wrong operand.  (A foreign  *)
(* one without Reset is assigned to, which works.)                         *)
RECURSIVE Awkward(_, _, _)
Awkward(t, stars, d) ==
    \/ t.k = "unsafe"
    \/ t.k = "ptr" /\ Awkward(t.elem[1], stars + 1, d)
    \/ t.k = "struct" /\ stars > 1 /\ t.name \in DOMAIN env \cup HasReset
    \/ /\ t.k = "struct" /\ t.name \in DOMAIN env /\ d > 0
       /\ \E i \in DOMAIN env[t.name] : Awkward(env[t.name][i], 0, d - 1)

(* What a run writes compiles, but for two cases: a struct has such a      *)
(* field, or the run has dropped the method an earlier run generated for a *)
(* marked struct, which the new ones may call.  In both the next run finds *)
(* a package that does not load.                                           *)
OutputCompiles ==
    last = "done" /\ ~Compiles =>
        \/ \E n \in DOMAIN gen : \E i \in DOMAIN env[n] : Awkward(env[n][i], 0, Cardinality(Structs))
        \/ marked \ HasReset # {}

(* The structs whose fields are spelled out inside those of n.             *)
Inlined(n) == UNION {Mentions(env[n][i]) : i \in DOMAIN env[n]} \cap (DOMAIN env \ HasReset)

(* A target from which the nesting has no end.                             *)
Endless == \E S \in SUBSET (DOMAIN env \ HasReset) :
               S \cap marked # {} /\ \A n \in S : Inlined(n) \cap S # {}

(* The emitter returns unless a target contains itself, or a struct that   *)
(* contains itself, through pointers, and then it never does.              *)
OverflowsOnCycles ==
    [][edits' = edits /\ Compiles => (last' = "overflow" <=> Endless)]_vars
=============================================================================
