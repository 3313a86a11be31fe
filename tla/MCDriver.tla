------------------------------ MODULE MCDriver ------------------------------
(***************************************************************************)
(* An application that imports a module of its own and a library, which    *)
(* both import a second library; the first library may be shadowed by a    *)
(* directory next to the application.                                      *)
(***************************************************************************)
EXTENDS Driver

CONSTANTS App, Util, Base, Near

MCDirs == {App, Util, Base, Near}

MCContents(d) ==
    CASE d = App -> {1} [] d = Util -> {0, 1, 2} [] d = Base -> {1, 2}
      [] d = Near -> {0, 1, 2, 3}

\* The second version of the shadowing directory imports itself.
MCNames(d, v) ==
    CASE d = App -> <<"util", "base">>
      [] d = Util -> <<"base">>
      [] d = Base -> <<>>
      [] d = Near -> IF v = 2 THEN <<"util">> ELSE <<>>

MCCandidates(d, name) ==
    IF name = "util" THEN <<Near, Util>> ELSE <<Base>>

MCAbsent == {Near}

MCRunnable == {App}

\* The application does not compile against the second version of Base; the
\* third version of the shadowing directory is in error by itself.
MCClashes == {<<App, 1, Base, 2>>, <<Near, 3, Near, 3>>}

MCOptions ==
    {[root |-> App, command |-> "compile", force |-> {}, clean |-> FALSE,
      flags |-> 1, jobs |-> 2],
     [root |-> App, command |-> "compile", force |-> {"run"}, clean |-> TRUE,
      flags |-> 2, jobs |-> 1],
     [root |-> Util, command |-> "run", force |-> {}, clean |-> FALSE,
      flags |-> 1, jobs |-> 1],
     [root |-> App, command |-> "check", force |-> {}, clean |-> FALSE,
      flags |-> 1, jobs |-> 1],
     [root |-> App, command |-> "check", force |-> {"run"}, clean |-> FALSE,
      flags |-> 1, jobs |-> 1]}
=============================================================================
