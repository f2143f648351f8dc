----------------------------- MODULE ReturnTypes -----------------------------
(***************************************************************************)
(* ProcessFunctionReturnTypes (internal/metadata/types.go 1131-1560): the   *)
(* type of every function and method is its first result's, and a call that *)
(* is an argument gets the type of what it calls.  The pass runs when       *)
(* metadata are generated and again whenever they are loaded, over what an  *)
(* earlier pass has left; declarations are walked in the order of their     *)
(* names, those a call may mean in whatever order Go's maps give.           *)
(***************************************************************************)
EXTENDS Naturals, Sequences, FiniteSets

CONSTANTS
  Declarations,  \* functions and methods in sorted order, of one package:
                 \*   [name, file, isMethod, result] records
  FieldsOf,      \* file -> struct -> field -> type, a sequence of words
  SortedFiles,
  Arguments,     \* the sets of functions that calls in arguments name
  Height,        \* how deep each type expression is nested, of results and of what they are made of
  Words,         \* that types are spelled with
  MaxPasses

Exprs == DOMAIN Height

Types == Seq(Words)

ASSUME WordsAssumption == {"*", "[]", "map", "[", "]", "."} \subseteq Words

ASSUME ExprsAssumption ==
  \A e \in Exprs :
    /\ e.kind \in {"ident", "selector", "star", "slice", "map", "none"}
    /\ e.kind = "ident" => e.type \in Types
    /\ e.kind = "selector" => e.base \in Words /\ e.field \in Words
    /\ e.kind \in {"star", "slice", "map"} => e.of \in Exprs /\ Height[e.of] < Height[e]
    /\ e.kind = "map" => e.key \in Exprs /\ Height[e.key] < Height[e]

ASSUME ResultsAssumption ==
  /\ Height \in [Exprs -> Nat]
  /\ Declarations \in Seq([name : STRING, file : STRING, isMethod : BOOLEAN, result : Exprs])

ASSUME FilesAssumption ==
  /\ SortedFiles \in Seq(STRING)
  /\ \A i \in DOMAIN SortedFiles :
       LET structs == FieldsOf[SortedFiles[i]]
       IN  \A base \in DOMAIN structs : \A field \in DOMAIN structs[base] :
             structs[base][field] \in Types

VARIABLES
  resolvedType,  \* ResolvedType by declaration
  argType,       \* and by argument
  toResolve,     \* how many declarations the pass has done
  toType,        \* arguments it has still to do
  passes

returnVars == <<resolvedType, argType, toResolve, toType, passes>>

Unset == <<>>

ReturnInit ==
  /\ resolvedType = [d \in DOMAIN Declarations |-> Unset]
  /\ \E as \in Arguments : argType = [a \in as |-> Unset]
  /\ toResolve = 0 /\ toType = DOMAIN argType
  /\ passes = 1

-----------------------------------------------------------------------------
(* The first file that has the field on such a struct. *)
FilesWith(base, field) ==
  {i \in DOMAIN SortedFiles :
     /\ base \in DOMAIN FieldsOf[SortedFiles[i]]
     /\ field \in DOMAIN FieldsOf[SortedFiles[i]][base]}

FirstOf(S) == {i \in S : \A j \in S : i <= j}

AnyOf(S) == S

Preferred(S) == FirstOf(S)

FindFieldType(base, field) ==
  {FieldsOf[SortedFiles[i]][base][field] : i \in Preferred(FilesWith(base, field))}

(* A selector's base goes by its name: the package is no longer known when *)
(* a signature is taken apart (determineResolvedTypeFromReturnVar with "").*)
OfSelector(e) ==
  LET found == FindFieldType(e.base, e.field)
  IN  IF found = {} THEN {<<e.base, ".", e.field>>} ELSE found

Prefixed(w, S) == {<<w>> \o t : t \in S}

MapsOf(K, V) == {<<"map", "[">> \o p[1] \o <<"]">> \o p[2] : p \in K \X V}

(* extractTypeFromCallArgument, from the types of what e is made of. *)
TypesFrom(e, of, key) ==
  CASE e.kind = "ident" -> {e.type}
    [] e.kind = "selector" -> OfSelector(e)
    [] e.kind = "star" -> Prefixed("*", of)
    [] e.kind = "slice" -> Prefixed("[]", of)
    [] e.kind = "map" -> MapsOf(key, of)
    [] e.kind = "none" -> {Unset}

TypesOf[e \in Exprs] == TypesFrom(e, TypesOf[e.of], TypesOf[e.key])

(* processFunctionReturnType and processMethodReturnType: a function        *)
(* without results keeps what it has.                                       *)
Resolve ==
  /\ toResolve < Len(Declarations)
  /\ toResolve' = toResolve + 1
  /\ \E t \in TypesOf[Declarations[toResolve + 1].result] :
       resolvedType' = IF t = Unset THEN resolvedType
                       ELSE [resolvedType EXCEPT ![toResolve + 1] = t]
  /\ UNCHANGED <<argType, toType, passes>>

(* What a call of that name may mean: in the file that is walked first of  *)
(* those that have it the function, or else any method.                    *)
MeantIn(file, name) ==
  LET here(m) == {d \in DOMAIN Declarations : /\ Declarations[d].file = file
                                              /\ Declarations[d].name = name
                                              /\ Declarations[d].isMethod = m}
  IN  IF here(FALSE) # {} THEN here(FALSE) ELSE here(TRUE)

Meant(name) == UNION {MeantIn(SortedFiles[i], name) : i \in DOMAIN SortedFiles}

TypeArgument(a) ==
  /\ toResolve = Len(Declarations) /\ a \in toType
  /\ toType' = toType \ {a}
  /\ IF Meant(a) = {} THEN UNCHANGED argType
     ELSE \E d \in Meant(a) :
            argType' = IF resolvedType[d] = Unset THEN argType
                       ELSE [argType EXCEPT ![a] = resolvedType[d]]
  /\ UNCHANGED <<resolvedType, toResolve, passes>>

PassDone == toResolve = Len(Declarations) /\ toType = {}

(* Writing the metadata and LoadMetadata. *)
Reload ==
  /\ PassDone /\ passes < MaxPasses
  /\ passes' = passes + 1
  /\ toResolve' = 0 /\ toType' = DOMAIN argType
  /\ UNCHANGED <<resolvedType, argType>>

ReturnNext == Resolve \/ Reload \/ \E a \in toType : TypeArgument(a)

ReturnSpec == ReturnInit /\ [][ReturnNext]_returnVars

-----------------------------------------------------------------------------
(* What has been resolved once no later pass changes, and an argument keeps *)
(* its type if all that its call may mean is of one type: "otherwise the    *)
(* resolved type can flip between runs" (types.go:1379).                    *)
OneType(a) ==
  \A d, e \in Meant(a) : TypesOf[Declarations[d].result] = TypesOf[Declarations[e].result]

TypesDoNotFlip ==
  [][/\ \A d \in DOMAIN resolvedType :
          resolvedType[d] # Unset => resolvedType'[d] = resolvedType[d]
     /\ \A a \in DOMAIN argType :
          argType[a] # Unset /\ OneType(a) => argType'[a] = argType[a]]_returnVars

(* Not so: two methods of a name are not told apart, so an argument's type *)
(* may be another after every load (types.go:1538).                        *)
NoArgumentFlips ==
  [][\A a \in DOMAIN argType : argType[a] # Unset => argType'[a] = argType[a]]_returnVars
=============================================================================
