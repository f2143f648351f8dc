----------------------------- MODULE MCMetadata -----------------------------
(* Five parts of making and using the metadata, in this order: pairing     *)
(* types with interfaces, the pass over the generic calls, the return      *)
(* types, traces of variables, and the packages that have to do with a     *)
(* framework.  They share no state, and an instance gives work to one.     *)
EXTENDS GenericInstances, VariableOrigins, Implementations, ReturnTypes, FrameworkDeps, TLC

CONSTANTS main, f, g, h, T, U, int, str, p, q, a, b, c, x, y,
          fmt, p1, p2, p3, p4, gin, nethttp, lib

(* Generic calls: main calls f and g, once or twice; f, g and h call each  *)
(* other and one of them itself; the parameters of f and g are called T,   *)
(* those of h U, or T as well.                                             *)
MCFns == {main, f, g, h}
MCMains == {main}
MCTypeNames == {T, U}
MCConcrete == {int, str}
MCPassed == {h}

Pairs == <<<<main, f>>, <<main, f>>, <<main, g>>, <<f, g>>, <<f, h>>, <<g, h>>, <<g, f>>, <<h, h>>>>

Given(s) ==
  CASE s = f -> {[k \in {T} |-> int], [k \in {T} |-> str]}
    [] s = g -> {<<>>, [k \in {U} |-> int]}
    [] s = h -> {[k \in {U} |-> str], [k \in {T} |-> str]}

Picked(S) == SelectSeq([i \in 1..Len(Pairs) |-> i], LAMBDA i : i \in S)

CallLists ==
  UNION {LET s == Picked(S)
         IN  {[k \in DOMAIN s |-> [caller |-> Pairs[s[k]][1], callee |-> Pairs[s[k]][2],
                                    types |-> t[k]]] :
                t \in {u \in [DOMAIN s -> UNION {Given(r) : r \in {f, g, h}}] :
                         \A k \in DOMAIN s : u[k] \in Given(Pairs[s[k]][2])}} :
         S \in {R \in SUBSET (1..Len(Pairs)) : Cardinality(R) \in 0..5}}

MCCallSets == CallLists

-----------------------------------------------------------------------------
(* Programs with variables: f and g in file a, h in b, a method h in c;    *)
(* fmt is a function of a package that is not analysed.                    *)
MCPkg == (a :> p) @@ (b :> q) @@ (c :> q)
MCPkgOf == (f :> p) @@ (g :> p) @@ (h :> q) @@ (fmt :> lib)
Decl(n, file, m) == [name |-> n, file |-> file, isMethod |-> m]
MCDecls == {Decl(f, a, FALSE), Decl(g, a, FALSE), Decl(h, b, FALSE), Decl(h, c, TRUE)}

CallOf(s, t, types, args) == [caller |-> s, callee |-> t, types |-> types, args |-> args]
Alias(v) == [kind |-> "alias", of |-> v]
ResultOf(n) == [kind |-> "call", of |-> n, ret |-> 1]
Value == [kind |-> "value"]

Program(cs, globals, assigns, returns) ==
  [calls |-> cs, globals |-> globals,
   assigns |-> [n \in {f, g, h, fmt} |-> IF n \in DOMAIN assigns THEN assigns[n] ELSE <<>>],
   returns |-> [d \in MCDecls |-> IF d \in DOMAIN returns THEN returns[d] ELSE <<>>]]

MCAsked == {f, g, h} \X {x, y}

NoProgram == Program(<<>>, <<>>, <<>>, <<>>)

MCPrograms ==
  { NoProgram,
    \* two functions that call each other with their parameters; aliases in a ring
    Program(<<CallOf(f, g, <<>>, y :> x), CallOf(g, f, <<>>, x :> y)>>, <<>>, <<>>, <<>>),
    Program(<<CallOf(g, f, <<>>, x :> y), CallOf(h, f, <<>>, x :> x)>>, <<>>,
            (f :> (y :> Alias(x))) @@ (g :> ((x :> Alias(y)) @@ (y :> Alias(x)))), <<>>),
    \* a type parameter, a variable of the package and one of the function
    Program(<<CallOf(g, f, x :> int, y :> x)>>, (x :> b) @@ (y :> c),
            (h :> ((x :> Value) @@ (y :> Value))) @@ (g :> (x :> ResultOf(h))),
            Decl(h, b, FALSE) :> <<y>>),
    \* results that come from each other, and from a function or a method
    Program(<<>>, <<>>,
            (f :> (x :> ResultOf(g))) @@ (g :> ((y :> ResultOf(f)) @@ (x :> ResultOf(h)))),
            (Decl(f, a, FALSE) :> <<x>>) @@ (Decl(g, a, FALSE) :> <<y>>)
              @@ (Decl(h, c, TRUE) :> <<Literal>>)),
    Program(<<>>, y :> b,
            (f :> (x :> ResultOf(h))) @@ (g :> ((x :> ResultOf(h)) @@ (y :> Alias(x))))
              @@ (h :> (x :> Alias(y))),
            (Decl(h, b, FALSE) :> <<x>>) @@ (Decl(h, c, TRUE) :> <<Literal>>)),
    \* a result of a package that is not analysed, at the end of an alias
    Program(<<CallOf(g, f, <<>>, y :> x)>>, <<>>,
            (f :> (x :> Alias(y))) @@ (g :> ((x :> ResultOf(fmt)) @@ (y :> ResultOf(fmt)))), <<>>) }

-----------------------------------------------------------------------------
(* Types and interfaces of p and q: methods declared and embedded, a name  *)
(* in two packages, an unexported method, a result written in two ways,    *)
(* and a type that is no struct.  Types are nested up to five deep.        *)
Sig(k, n) == [pkg |-> k, name |-> n, form |-> "plain", private |-> ""]
Grouped(s) == [s EXCEPT !.form = "grouped"]
Of(s, k) == [s EXCEPT !.private = k]

TypeOf(n, k, struct, ms, more) ==
  [name |-> n, pkg |-> k, isStruct |-> struct, methods |-> ms, inherited |-> more]
InterfaceOf(n, k, ms, more) == [name |-> n, pkg |-> k, methods |-> ms, inherited |-> more]

MCDeclared ==
  <<TypeOf("A", p, TRUE, [M |-> Sig(p, "T"), N |-> Sig(q, "T")], <<>>),
    TypeOf("B", q, TRUE, [M |-> Sig(p, "T")], [N |-> Sig(q, "T")]),
    TypeOf("C", q, TRUE, [M |-> Sig(q, "T"), N |-> Grouped(Sig(q, "T"))], [M |-> Sig(p, "T")]),
    TypeOf("D", q, FALSE, [M |-> Sig(p, "T")], <<>>),
    TypeOf("E", p, TRUE, [m |-> Of(Sig(q, "U"), p), M |-> Sig(p, "U")], <<>>)>>
MCInterfaces ==
  <<InterfaceOf("I", p, [M |-> Sig(p, "T")], <<>>),
    InterfaceOf("J", q, [M |-> Sig(p, "T"), N |-> Sig(q, "T")], <<>>),
    InterfaceOf("K", q, <<>>, [M |-> Sig(p, "T")]),
    InterfaceOf("L", q, [M |-> Sig(p, "T")], [N |-> Sig(q, "T")]),
    InterfaceOf("P", q, [m |-> Of(Sig(q, "U"), q)], <<>>)>>
MCOuter == <<[M |-> Sig(p, "T")], [N |-> Sig(q, "T")], <<>>>>
MCTypeExprs == (4 :> <<3, 1>>) @@ (5 :> <<4>>) @@ (6 :> <<5, 2>>) @@ (7 :> <<6>>) @@ (8 :> <<7>>)
                 @@ (9 :> <<8>>)
MCReferences == SUBSET {1, 4, 5, 7, 9}

-----------------------------------------------------------------------------
(* Two methods M and two structs A, of two packages.                       *)
Ident(t) == [kind |-> "ident", type |-> <<t>>]

MCDeclarations ==
  <<[name |-> "M", file |-> "a.go", isMethod |-> TRUE, result |-> [kind |-> "star", of |-> Ident("T")]],
    [name |-> "M", file |-> "b.go", isMethod |-> TRUE, result |-> [kind |-> "slice", of |-> Ident("T")]],
    [name |-> "F", file |-> "a.go", isMethod |-> FALSE,
     result |-> [kind |-> "map", key |-> Ident("string"),
                 of |-> [kind |-> "selector", base |-> "A", field |-> "X"]]],
    [name |-> "F", file |-> "b.go", isMethod |-> TRUE, result |-> [kind |-> "none"]],
    [name |-> "G", file |-> "b.go", isMethod |-> FALSE,
     result |-> [kind |-> "selector", base |-> "http", field |-> "Handler"]]>>
MCHeight ==
  LET results == {MCDeclarations[d].result : d \in DOMAIN MCDeclarations}
      nested  == {e \in results : e.kind \in {"star", "slice", "map"}}
      parts   == {e.of : e \in nested} \union {Ident("string")}
  IN  [e \in results \union parts |-> IF e \in nested THEN 1 ELSE 0]
MCWords ==
  {"*", "[]", "map", "[", "]", ".", "T", "A", "X", "http", "Handler", "int", "string"}
MCFieldsOf == [file \in {"a.go", "b.go"} |->
                 [A |-> IF file = "a.go" THEN [X |-> <<"int">>] ELSE [X |-> <<"string">>]]]
MCSortedFiles == <<"a.go", "b.go">>
MCArguments == SUBSET {"F", "G", "M", "N"}

NoArguments == /\ resolvedType = [d \in DOMAIN Declarations |-> Unset]
               /\ argType = [n \in {} |-> Unset] /\ toType = {} /\ toResolve = 0 /\ passes = 1

-----------------------------------------------------------------------------
(* Import graphs of four packages, each importing only later ones as Go     *)
(* demands, two framework paths and one more outside the analysed packages. *)
MCPackages == {p1, p2, p3, p4}
MCOutside == {gin, nethttp, lib}
MCExternal == {gin}
MCUnderRoot == MCPackages
MCLikeProject == MCPackages

MCDetected ==
  [t \in FrameworkTypes |->
     CASE t = "gin" -> {gin} [] t = "http" -> {nethttp} [] OTHER -> {}]

(* What k imports of the frameworks, if it is one of the users. *)
Web(k, users) ==
  IF k \notin users THEN {}
  ELSE CASE k = p1 -> {gin, nethttp} [] k = p2 -> {nethttp} [] OTHER -> {gin}

(* Named apart from MCGraphs so that TLC evaluates it once. *)
ImportGraphs ==
  {(p1 :> s1 \union Web(p1, u)) @@ (p2 :> s2 \union Web(p2, u))
     @@ (p3 :> s3) @@ (p4 :> Web(p4, u)) :
     s1 \in SUBSET {p2, p3, p4}, s2 \in SUBSET {p3, p4}, s3 \in SUBSET {p4, lib},
     u \in {{p1}, {p4}, {p2, p4}}}

NoImports == [k \in MCPackages |-> {}]

MCGraphs == {NoImports} \union ImportGraphs

MCMockSets == {{}, {p2}}
MCDisabledSets == {{}, {"http"}}

-----------------------------------------------------------------------------
(* One of the four others has work, and the packages import nothing. *)
OthersInit ==
  \/ Init /\ program = NoProgram /\ referred = {} /\ OriginInit /\ ImplInit /\ NoArguments
  \/ calls = <<>> /\ OriginInit /\ referred = {} /\ ImplInit /\ Init /\ NoArguments
  \/ calls = <<>> /\ program = NoProgram /\ OriginInit /\ ImplInit /\ Init /\ NoArguments
  \/ calls = <<>> /\ program = NoProgram /\ OriginInit /\ referred = {} /\ ImplInit /\ Init
     /\ ReturnInit /\ DOMAIN argType # {}

MCInit ==
  \/ /\ OthersInit
     /\ imports = NoImports /\ mocks = {} /\ disabled = {} /\ rooted = TRUE
     /\ DepsInit
  \/ /\ DepsInit /\ imports # NoImports
     /\ calls = <<>> /\ program = NoProgram /\ referred = {}
     /\ OriginInit /\ ImplInit /\ Init /\ NoArguments

(* Types are paired with interfaces where the others have no work. *)
Pairing == imports = NoImports /\ calls = <<>> /\ program = NoProgram /\ DOMAIN argType = {}

Walking == Pairing => matched

MCNext ==
  \/ imports # NoImports /\ DepsNext /\ UNCHANGED <<vars, implVars, returnVars, originVars>>
  \/ Pairing /\ ImplNext /\ UNCHANGED <<vars, returnVars, originVars, depsVars>>
  \/ Walking /\ Next /\ UNCHANGED <<implVars, returnVars, originVars, depsVars>>
  \/ DOMAIN argType # {} /\ ReturnNext /\ UNCHANGED <<vars, implVars, originVars, depsVars>>
  \/ Done /\ program # NoProgram /\ OriginNext
     /\ UNCHANGED <<vars, implVars, returnVars, depsVars>>

AllVars == <<vars, originVars, implVars, returnVars, depsVars>>
MCSpec == /\ MCInit /\ [][MCNext]_AllVars
          /\ WF_AllVars(imports # NoImports /\ DepsNext
                          /\ UNCHANGED <<vars, implVars, returnVars, originVars>>)
          /\ WF_AllVars(Pairing /\ ImplNext /\ UNCHANGED <<vars, returnVars, originVars, depsVars>>)
          /\ WF_AllVars(Walking /\ Next /\ UNCHANGED <<implVars, returnVars, originVars, depsVars>>)
          /\ WF_AllVars(TraceStep /\ UNCHANGED <<vars, implVars, returnVars, depsVars>>)

(* The walks over the calls end, that of the generic pass, which adds to    *)
(* what it walks (metadata.go:429), and that of a trace through callers,    *)
(* aliases and results (analysis.go:427), whatever cycles the code has; so  *)
(* does the search of the imports (dependency_analyzer.go:519).             *)
MetadataEnds ==
  /\ imports = NoImports => PassEnds /\ TracesEnd
  /\ imports # NoImports => AnalysisEnds
=============================================================================
