-------------------------- MODULE Implementations --------------------------
(***************************************************************************)
(* Which types implement which interfaces (internal/metadata, metadata.go  *)
(* 2008-2209 and analysis.go 26-68).  Declared and interfaces of analysed   *)
(* packages are paired by the spelling of the methods that they declare    *)
(* themselves; interfaces from elsewhere are first collected from the      *)
(* types that the code refers to, in the random order of Go's maps, and    *)
(* then matched with the method sets of go/types.                          *)
(*                                                                         *)
(* A type has the methods it declares (of an interface: those it names)    *)
(* and those it inherits by embedding.  A signature says                   *)
(*   pkg, name  the type that stands for it, and that type's package;      *)
(*   form       how it is written: `any` and `interface{}`, (a, b int) and *)
(*              (int, int) for results, are one in Go;                     *)
(*   private    the package, if the method is unexported, or "".           *)
(***************************************************************************)
EXTENDS Naturals, Sequences, FiniteSets, Orders

CONSTANTS
  Declared,       \* declared types, in the order of their names:
                  \*   [name, pkg, isStruct, methods, inherited]
  Interfaces,     \* interfaces of analysed packages, likewise: [name, pkg, methods, inherited]
                  \*   methods, inherited: from method names to signatures
  Outer,          \* interfaces from elsewhere, numbered by name, with all their methods
  TypeExprs,      \* types without a name, numbers too, with the sequences of their parts
  References,     \* the choices of the types the code refers to
  MaxDepth        \* 4

RangeOf(s) == {s[k] : k \in DOMAIN s}

ASSUME PairsAssumption ==
  /\ Declared \in Seq(RangeOf(Declared)) /\ Interfaces \in Seq(RangeOf(Interfaces))
  /\ Outer \in Seq(RangeOf(Outer))

ASSUME NestingAssumption ==
  /\ MaxDepth \in Nat
  /\ \A t \in DOMAIN TypeExprs : TypeExprs[t] \in Seq(Nat)
  /\ \A R \in References : R \subseteq Nat

VARIABLES
  toPair,         \* declared types still to be paired
  implements,     \* Implements, by declared type, what is of analysed packages
  implementsOuter,\* the rest of it
  implementedBy,  \* ImplementedBy, by interface
  referred,       \* the types that are referred to
  toConsider,     \* those the loops over Uses and Types have still to come to
  work,           \* the calls of consider: types and depths
  seen, external,
  matched     \* whether the interfaces from elsewhere are recorded

implVars == <<toPair, implements, implementsOuter, implementedBy, referred, toConsider, work,
              seen, external, matched>>

ImplInit ==
  /\ toPair = Declared
  /\ implements = [i \in DOMAIN Declared |-> <<>>]
  /\ implementsOuter = [i \in DOMAIN Declared |-> <<>>]
  /\ implementedBy = [i \in DOMAIN Interfaces |-> <<>>]
  /\ referred \in References /\ toConsider = referred
  /\ work = <<>> /\ seen = {} /\ external = {} /\ matched = FALSE

-----------------------------------------------------------------------------
(* What is written: a type of the package without the package. *)
Spelled(sig, pkg) == [name |-> sig.name, form |-> sig.form,
                      qualifier |-> IF sig.pkg = pkg THEN "" ELSE sig.pkg]

AsSpelled(spelling) == spelling

normalizeSignature(spelling) == [name |-> spelling.name, form |-> spelling.form]

(* Only declared methods are looked at, only named ones asked for. *)
implementsInterface(s, i) ==
  /\ DOMAIN i.methods # {}
  /\ \A m \in DOMAIN i.methods :
       /\ m \in DOMAIN s.methods
       /\ normalizeSignature(Spelled(s.methods[m], s.pkg))
            = normalizeSignature(Spelled(i.methods[m], i.pkg))

Paired(s) == {i \in DOMAIN Interfaces : s.isStruct /\ implementsInterface(s, Interfaces[i])}

PairType ==
  /\ toPair # <<>>
  /\ LET k == Len(Declared) - Len(toPair) + 1
         of == Paired(Head(toPair))
     IN  /\ implements' = [implements EXCEPT ![k] = InOrder(of)]
         /\ implementedBy' = [i \in DOMAIN Interfaces |->
                                IF i \in of THEN Append(implementedBy[i], k) ELSE implementedBy[i]]
  /\ toPair' = Tail(toPair)
  /\ UNCHANGED <<implementsOuter, referred, toConsider, work, seen, external, matched>>

(* The next use or type of an expression. *)
NextReferred(t) ==
  /\ toPair = <<>> /\ work = <<>> /\ t \in toConsider
  /\ toConsider' = toConsider \ {t}
  /\ work' = <<<<t, 0>>>>
  /\ UNCHANGED <<toPair, implements, implementsOuter, implementedBy, referred, seen, external, matched>>

Parts(t) == IF t \in DOMAIN TypeExprs THEN TypeExprs[t] ELSE <<>>

Below(t, depth) == [k \in DOMAIN Parts(t) |-> <<Parts(t)[k], depth + 1>>]

TooDeep(depth) == depth > MaxDepth

(* consider: a type is visited once, at whatever depth it is met first. *)
Consider ==
  /\ work # <<>>
  /\ LET t == Head(work)[1]
         depth == Head(work)[2]
     IN  IF TooDeep(depth) \/ t \in seen
         THEN work' = Tail(work) /\ UNCHANGED <<seen, external>>
         ELSE /\ seen' = seen \union {t}
              /\ external' = IF t \in DOMAIN Outer /\ DOMAIN Outer[t] # {}
                             THEN external \union {t} ELSE external
              /\ work' = Below(t, depth) \o Tail(work)
  /\ UNCHANGED <<toPair, implements, implementsOuter, implementedBy, referred, toConsider, matched>>

(* Go takes inherited methods for a type's own unless it declares some of  *)
(* their names itself.                                                     *)
MethodSet(t) == [m \in DOMAIN t.methods \union DOMAIN t.inherited |->
                   IF m \in DOMAIN t.methods THEN t.methods[m] ELSE t.inherited[m]]

SameInGo(a, b) == a.pkg = b.pkg /\ a.name = b.name /\ a.private = b.private

(* types.Implements *)
Satisfies(own, wanted) == \A m \in DOMAIN wanted : m \in DOMAIN own /\ SameInGo(own[m], wanted[m])

RecordExternal ==
  /\ toPair = <<>> /\ toConsider = {} /\ work = <<>> /\ ~matched
  /\ implementsOuter' = [k \in DOMAIN Declared |->
       InOrder({t \in external : Satisfies(MethodSet(Declared[k]), Outer[t])})]
  /\ matched' = TRUE
  /\ UNCHANGED <<toPair, implements, implementedBy, referred, toConsider, work, seen, external>>

ImplNext == PairType \/ Consider \/ RecordExternal \/ \E t \in toConsider : NextReferred(t)

ImplSpec == ImplInit /\ [][ImplNext]_implVars

-----------------------------------------------------------------------------
(* What tells the two's methods apart in Go is what tells their spellings  *)
(* apart, but for the packages.                                            *)
WrittenAlike(s, i) ==
  \A m \in DOMAIN s.methods \intersect DOMAIN i.methods :
    LET mine == s.methods[m]
        theirs == i.methods[m]
    IN  SameInGo(mine, theirs) <=> mine.name = theirs.name /\ mine.form = theirs.form

(* Pairs are on both sides.  Wherever the two are declared (analysis.go    *)
(* 31), a struct that declares all methods an analysed interface asks for, *)
(* written alike, is paired with it; and what is paired and written alike  *)
(* does implement, if the interface embeds none.                           *)
PairsAreRight ==
  toPair = <<>> => \A k \in DOMAIN Declared, i \in DOMAIN Interfaces :
    LET s == Declared[k]
        n == Interfaces[i]
        paired == i \in RangeOf(implements[k])
    IN  /\ paired <=> k \in RangeOf(implementedBy[i])
        /\ WrittenAlike(s, n) =>
             /\ s.isStruct /\ DOMAIN n.methods # {} /\ Satisfies(s.methods, MethodSet(n)) => paired
             /\ paired /\ DOMAIN n.inherited = {} => Satisfies(MethodSet(s), MethodSet(n))

(* The types that are nested so deep in those that are referred to. *)
Nested[d \in Nat] ==
  IF d = 0 THEN referred
  ELSE LET around == Nested[d - 1] IN UNION {RangeOf(Parts(t)) : t \in around}

NestedWithin(t) == \E d \in 0..MaxDepth : t \in Nested[d]

(* At most twice the limit: too deep by one is what a type of the limit's  *)
(* depth is made of, and within that t may be as deep as the limit.        *)
NestedBeyond(t) == \E d \in (MaxDepth + 1)..(2 * MaxDepth + 1) : t \in Nested[d]

(* In whatever order the types are considered, a declared type is recorded *)
(* with interfaces from elsewhere that Go says it implements and that are  *)
(* within the depth, and with all of these but some that are nested deeper *)
(* also (metadata.go:2095-2105, 2191).                                     *)
ExternalsAreNear ==
  matched => \A t \in DOMAIN Outer :
    LET near == NestedWithin(t)
        surely == near /\ ~NestedBeyond(t)
    IN  \A k \in DOMAIN Declared :
          LET holds == DOMAIN Outer[t] # {} /\ Satisfies(MethodSet(Declared[k]), Outer[t])
              recorded == t \in RangeOf(implementsOuter[k])
          IN  (recorded => holds /\ near) /\ (holds /\ surely => recorded)

(* What is recorded of interfaces, the project's and others' (metadata.go  *)
(* 2008-2209).                                                             *)
ImplementationsAreFound == PairsAreRight /\ ExternalsAreNear

(* Not so: seen also holds what was met too deep to be looked into, so an  *)
(* interface in easy reach is found in one order and missed in another.    *)
ExternalsWithinReach ==
  toConsider = {} /\ work = <<>> => \A t \in DOMAIN Outer : DOMAIN Outer[t] # {} =>
    (NestedWithin(t) => t \in external)
=============================================================================
