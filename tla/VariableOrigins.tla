-------------------------- MODULE VariableOrigins --------------------------
(***************************************************************************)
(* TraceVariableOrigin (internal/metadata/analysis.go 387-616): where does *)
(* a variable of a function come from?  From the argument of a caller, the *)
(* right-hand side of an assignment or what a callee returns, and so on.   *)
(* Two caches that are never dropped are filled on the way, and Go walks   *)
(* the files of a package in a new order at every look.                    *)
(*                                                                         *)
(* Traces are asked for while the metadata are being made as well, of      *)
(* expressions without type information (analysis.go 325-356); one trace   *)
(* ends before anything else goes on.                                      *)
(***************************************************************************)
EXTENDS Naturals, Sequences, FiniteSets

CONSTANTS
  Vars,       \* names of variables
  Funcs,      \* names of functions and methods, with their packages
  PkgOf,      \* the package of such a name
  Pkg,        \* the package of a file
  Decls,      \* functions and methods: [name, file, isMethod] records
  Programs,   \* what is analysed:
              \*   calls    sequence of [caller, callee, types, args]: metadata.CallGraph,
              \*            types and args functions of variables
              \*   globals  the file of a package's variable
              \*   assigns  by function and variable, the last assignment: [kind, of, ret]
              \*   returns  by declaration, a sequence of variables (Sel and X
              \*            unwrapped) and Literal
  Asked,      \* the functions and variables that are asked about
  Literal, NoMethod

Keys == Funcs \X Vars   \* pkg.func:var
FilePackages == {Pkg[x] : x \in DOMAIN Pkg}

ASSUME AskedAssumption == Asked \subseteq Keys

ASSUME DeclsAssumption ==
  /\ NoMethod \notin Decls
  /\ \A d \in Decls :
       /\ d.name \in Funcs /\ d.file \in DOMAIN Pkg /\ Pkg[d.file] = PkgOf[d.name]
       /\ d.isMethod \in BOOLEAN

ASSUME ProgramsAssumption ==
  \A g \in Programs :
    /\ Len(g.calls) \in Nat
    /\ \A i \in 1..Len(g.calls) :
         /\ g.calls[i].caller \in Funcs
         /\ \A v \in DOMAIN g.calls[i].args : g.calls[i].args[v] \in Vars
    /\ \A f \in Funcs : \A v \in DOMAIN g.assigns[f] :
         LET by == g.assigns[f][v]
         IN  /\ by.kind = "alias" => by.of \in Vars
             /\ by.kind = "call" => by.of \in Funcs /\ by.ret \in Nat \ {0}
    /\ \A d \in Decls : \A i \in 1..Len(g.returns[d]) : g.returns[d][i] \in Vars \union {Literal}

VARIABLES
  program,
  recorded,            \* packages in metadata.Packages
  edges,               \* how many calls metadata.CallGraph has
  traceVariableCache,
  methodLookupCache,   \* by name: a method, or that there is none
  trace,               \* the trace under way, its answer at the end
  early                \* keys remembered before the metadata were complete

originVars == <<program, recorded, edges, traceVariableCache, methodLookupCache, trace, early>>

Complete == recorded = FilePackages /\ edges = Len(program.calls)

OriginInit ==
  /\ program \in Programs
  /\ recorded = {} /\ edges = 0 /\ early = {}
  /\ traceVariableCache = <<>> /\ methodLookupCache = <<>>
  /\ trace = [state |-> "none"]

RecordPackage(p) ==
  /\ trace.state # "busy" /\ p \notin recorded
  /\ recorded' = recorded \union {p}
  /\ UNCHANGED <<program, edges, traceVariableCache, methodLookupCache, trace, early>>

RecordCall ==
  /\ trace.state # "busy" /\ recorded = FilePackages /\ edges < Len(program.calls)
  /\ edges' = edges + 1
  /\ UNCHANGED <<program, recorded, traceVariableCache, methodLookupCache, trace, early>>

(* named: the variable and the package that the outermost step to a return *)
(* value puts in place of those it gets.                                   *)
Ask(k) ==
  /\ trace.state # "busy"
  /\ trace' = [state |-> "busy", asked |-> k, at |-> k, visited |-> {}, named |-> <<>>]
  /\ UNCHANGED <<program, recorded, edges, traceVariableCache, methodLookupCache, early>>

-----------------------------------------------------------------------------
(* What the helper may do at a key: give an answer, remembered or not, or  *)
(* go on at another key.                                                   *)
Origin(k, type, f) == [var |-> k[2], pkg |-> PkgOf[k[1]], type |-> type, fn |-> f]
Ends(a, kept) == [ends |-> TRUE, answer |-> a, kept |-> kept]
GoesTo(k, named) == [ends |-> FALSE, at |-> k, named |-> named]

Itself(k) == Origin(k, "nil", k[1])

(* The first call of the function decides; the others are not looked at.   *)
ByCaller(k, n) ==
  LET to == {i \in 1..n : program.calls[i].callee = k[1]}
      first == program.calls[CHOOSE i \in to : \A j \in to : i <= j]
  IN  CASE to # {} /\ k[2] \in DOMAIN first.types ->
             {Ends(Origin(k, first.types[k[2]], first.caller), TRUE)}
        [] to # {} /\ k[2] \in DOMAIN first.args \ DOMAIN first.types ->
             {GoesTo(<<first.caller, first.args[k[2]]>>, <<>>)}
        [] OTHER -> {}

IsGlobal(k) == k[2] \in DOMAIN program.globals /\ Pkg[program.globals[k[2]]] = PkgOf[k[1]]

ByVariable(k) == IF IsGlobal(k) THEN {Ends(Origin(k, "declared", k[1]), TRUE)} ELSE {}

Named(f, isMethod) == {d \in Decls : d.name = f /\ d.isMethod = isMethod}

(* In one file a variable of the package comes before the assignments.     *)
Last(k) ==
  {program.assigns[d.name][k[2]] : d \in
     {x \in Named(k[1], FALSE) :
        /\ k[2] \in DOMAIN program.assigns[x.name]
        /\ IsGlobal(k) => program.globals[k[2]] # x.file}}

HasResult(d, i) == i <= Len(program.returns[d])

(* The callee: in the file walked first a function, else the method m that *)
(* the cache holds, else a function of another file.                       *)
Callee(a, file, m) ==
  LET fns == {d \in Named(a.of, FALSE) : HasResult(d, a.ret)}
      inFirst == {d \in fns : d.file = file}
  IN  IF inFirst # {} THEN inFirst
      ELSE IF m # NoMethod /\ HasResult(m, a.ret) THEN {m} ELSE fns

ByResult(k, a, d) ==
  LET r == program.returns[d][a.ret]
  IN  IF r = Literal THEN Ends([Origin(k, "literal", k[1]) EXCEPT !.var = "", !.pkg = PkgOf[a.of]], FALSE)
      ELSE GoesTo(<<d.name, r>>, <<r, PkgOf[a.of]>>)

ByAssignment(k, pkgs, file, m) ==
  UNION {CASE a.kind = "alias" /\ a.of # k[2] -> {GoesTo(<<k[1], a.of>>, <<>>)}
           [] a.kind = "call" /\ PkgOf[a.of] \in pkgs /\ Callee(a, file, m) # {} ->
                {ByResult(k, a, d) : d \in Callee(a, file, m)}
           [] OTHER -> {Ends(Origin(k, "assigned", k[1]), TRUE)} : a \in Last(k)}

FallBack(k) == {Ends(Itself(k), TRUE)}

OrElse(S, T) == IF S = {} THEN T ELSE S

IsLocal(k, n, pkgs) == ByCaller(k, n) = {} /\ PkgOf[k[1]] \in pkgs

Otherwise(k, n, pkgs) ==
  IF ~IsLocal(k, n, pkgs) THEN OrElse(ByCaller(k, n), FallBack(k))
  ELSE IF Last(k) = {} THEN OrElse(ByVariable(k), FallBack(k)) ELSE ByVariable(k)

(* The callee an assignment is from; the files of its package, any of them *)
(* the first.  Which is first is all one when none is walked: the callee's *)
(* package has no files that are analysed, or there is no call.            *)
Called(k, pkgs) == {a \in Last(k) : a.kind = "call" /\ PkgOf[a.of] \in pkgs}
WalkedFirst(k) ==
  OrElse({x \in DOMAIN Pkg : \A a \in Last(k) : a.kind = "call" => Pkg[x] = PkgOf[a.of]}, DOMAIN Pkg)

(* When the methods of that file are looked at: the first time decides for *)
(* all files, also that there is none.                                     *)
LooksUp(k, pkgs, file) ==
  {a \in Called(k, pkgs) : \A d \in Named(a.of, FALSE) : d.file = file => ~HasResult(d, a.ret)}

MethodsIn(file, f) == OrElse({d \in Named(f, TRUE) : d.file = file}, {NoMethod})

With(f, k, v) == [x \in {k} \union DOMAIN f |-> IF x = k THEN v ELSE f[x]]

Lookup(k, file, m) ==
  IF LooksUp(k, recorded, file) = {} THEN m = NoMethod /\ UNCHANGED methodLookupCache
  ELSE \E a \in LooksUp(k, recorded, file) :
         IF a.of \in DOMAIN methodLookupCache
         THEN m = methodLookupCache[a.of] /\ UNCHANGED methodLookupCache
         ELSE m \in MethodsIn(file, a.of) /\ methodLookupCache' = With(methodLookupCache, a.of, m)

-----------------------------------------------------------------------------
Renamed(a, named) == IF named = <<>> THEN a ELSE [a EXCEPT !.var = named[1], !.pkg = named[2]]

Answers(a) == trace' = [state |-> "answered", asked |-> trace.asked,
                        answer |-> Renamed(a, trace.named), complete |-> Complete]

RemembersWhole(k, a, kept) ==
  IF kept /\ recorded # {}
  THEN /\ traceVariableCache' = [x \in trace.visited \union {k} \union DOMAIN traceVariableCache |->
                                   IF x \in trace.visited \union {k} THEN a ELSE traceVariableCache[x]]
       /\ early' = IF Complete THEN early ELSE early \union trace.visited \union {k}
  ELSE UNCHANGED <<traceVariableCache, early>>

(* cacheAndReturn: not before there are packages. *)
Remembers(k, a, kept) ==
  IF kept /\ recorded # {}
  THEN /\ traceVariableCache' = With(traceVariableCache, k, a)
       /\ early' = IF Complete THEN early ELSE early \union {k}
  ELSE UNCHANGED <<traceVariableCache, early>>

VisitedFirst(k) == IF trace.visited = {} THEN {k} ELSE trace.visited

Visited(k) == trace.visited \union {k}

(* Back at a key it has been at, the trace gives the variable itself.      *)
CutOrCached ==
  /\ trace.state = "busy"
  /\ \/ trace.at \in trace.visited /\ Answers(Itself(trace.at))
     \/ /\ trace.at \in DOMAIN traceVariableCache \ trace.visited
        /\ Answers(traceVariableCache[trace.at])
  /\ UNCHANGED <<program, recorded, edges, traceVariableCache, methodLookupCache, early>>

Takes(k, o) ==
  IF o.ends THEN Answers(o.answer) /\ Remembers(k, o.answer, o.kept)
  ELSE /\ trace' = [trace EXCEPT !.at = o.at, !.visited = Visited(k),
                                 !.named = IF @ = <<>> THEN o.named ELSE @]
       /\ UNCHANGED <<traceVariableCache, early>>

Unknown == trace.state = "busy" /\ trace.at \notin trace.visited \union DOMAIN traceVariableCache

Step ==
  /\ Unknown
  /\ \E o \in Otherwise(trace.at, edges, recorded) : Takes(trace.at, o)
  /\ UNCHANGED <<program, recorded, edges, methodLookupCache>>

StepToAssigned ==
  /\ Unknown /\ IsLocal(trace.at, edges, recorded)
  /\ \E file \in WalkedFirst(trace.at), m \in Decls \union {NoMethod} :
       /\ Lookup(trace.at, file, m)
       /\ \E o \in ByAssignment(trace.at, recorded, file, m) : Takes(trace.at, o)
  /\ UNCHANGED <<program, recorded, edges>>

TraceStep == CutOrCached \/ Step \/ StepToAssigned

OriginNext ==
  \/ RecordCall \/ \E p \in FilePackages : RecordPackage(p)
  \/ \E k \in Asked : Ask(k)
  \/ TraceStep

OriginSpec == OriginInit /\ [][OriginNext]_originVars /\ WF_originVars(TraceStep)

-----------------------------------------------------------------------------
(* What a trace may do at a key in any order of the files, when all has    *)
(* been recorded and no method been looked up.                             *)
Methods(k, file) ==
  OrElse(UNION {MethodsIn(file, a.of) : a \in Called(k, FilePackages)}, {NoMethod})

Assigned(k) ==
  UNION {UNION {ByAssignment(k, FilePackages, file, m) : m \in Methods(k, file)} : file \in WalkedFirst(k)}

Outcomes(k) ==
  LET n == Len(program.calls)
  IN  Otherwise(k, n, FilePackages) \union (IF IsLocal(k, n, FilePackages) THEN Assigned(k) ELSE {})

Looks == [at : Keys, visited : SUBSET Keys]

Look(k, ks) == [at |-> k, visited |-> ks]

(* The answers a trace without caches can give from there; but what was    *)
(* remembered before all had been recorded stays.                          *)
Traced[l \in Looks] ==
  IF l.at \in l.visited THEN {Itself(l.at)}
  ELSE IF l.at \in early THEN {traceVariableCache[l.at]}
  ELSE {o.answer : o \in {u \in Outcomes(l.at) : u.ends}}
         \union UNION {{Renamed(a, o.named) : a \in Traced[Look(o.at, l.visited \union {l.at})]} :
                         o \in {u \in Outcomes(l.at) : ~u.ends}}

(* No file has a function and a method of the same name. *)
NamesApart ==
  \A d, e \in Decls : d.name = e.name /\ d.file = e.file => d.isMethod = e.isMethod

(* Whatever was asked before, and in whatever order, the caches never      *)
(* change an answer: it is one that a trace of its own could give.  Only   *)
(* ends are remembered, so a cut cycle leaves nothing behind (analysis.go  *)
(* 424-455).  Methods are remembered by name: unless names are apart, one  *)
(* that was looked up for its second result may stand in the way of the    *)
(* function when the first is traced.                                      *)
AnswersAreTraced ==
  trace.state = "answered" /\ trace.complete => trace.answer \in Traced[Look(trace.asked, {})]

(* A trace ends, also when parameters or aliases go round in a circle      *)
(* (analysis.go:424).                                                      *)
TracesEnd == trace.state = "busy" ~> trace.state # "busy"

(* Not so: "Only cache results if packages are populated (to avoid caching *)
(* incomplete results during metadata generation)" (analysis.go:447): one  *)
(* package is enough, and what is missing then stays missing.              *)
OnlyCompleteIsRemembered == early = {}
=============================================================================
