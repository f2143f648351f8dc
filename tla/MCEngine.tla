------------------------------ MODULE MCEngine ------------------------------
(* A module with a handler package, one it imports, one that has nothing to *)
(* do with it, one the user excludes and a test package with a framework of *)
(* its own; and a second module.                                            *)
EXTENDS Engine

CONSTANTS app, other, handlers, models, tools, secret, testpkg, cmd,
          gin, chi, mux, pattern

MCProjects == {app, other}
MCPackages == {handlers, models, tools, secret, testpkg, cmd}
MCOutside == {gin, chi, mux}
MCWalkOf == [d \in MCProjects |->
               IF d = app THEN <<testpkg, handlers, models, tools, secret>> ELSE <<cmd>>]
MCImports == [p \in MCPackages |->
                CASE p = handlers -> {gin, models}
                  [] p = secret   -> {chi}
                  [] p = testpkg  -> {mux, handlers}
                  [] p = cmd      -> {chi}
                  [] OTHER        -> {}]
MCDetected == [t \in FrameworkTypes |->
                 CASE t = "gin" -> {gin} [] t = "chi" -> {chi} [] t = "mux" -> {mux}
                   [] OTHER -> {}]
MCRejected == {testpkg}
MCPatterns == MCPackages \union MCOutside \union {pattern}
MCMatches == {<<p, p>> : p \in MCPackages} \union {<<pattern, secret>>}
MCCliFilters == [include |-> {}, exclude |-> {}]
MCObjectFilters == [include |-> {}, exclude |-> {pattern}]
MCSharings == BOOLEAN
MCSources == {"object", "file", "default"}
=============================================================================
