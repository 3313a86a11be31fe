---------------------------- MODULE MCNavigation ----------------------------
(***************************************************************************)
(* Four programs: nested blocks in a function; classes and members; an     *)
(* imported module; secured declarations at the top level and in a         *)
(* function.  The words of the declarations vary so that they shadow, hide *)
(* and repeat each other.                                                  *)
(***************************************************************************)
EXTENDS Navigation

M(n) == <<"main", n>>
L(n) == <<"lib", n>>

Var(at) == Declare(at, "var")
Func(at, params, body) == <<Declare(at, "func"), Open("func", params)>> \o body \o <<Close>>
Class(at, members) == <<Declare(at, "class"), Open("class", <<at>>)>> \o members \o <<Close>>
If(body, otherwise) == <<Open("cond", <<>>)>> \o body \o <<Else>> \o otherwise \o <<Close>>
Catch(guarded, error, body) ==
    <<Declare(guarded, "guarded"), Open("catch", <<error>>)>> \o body \o <<Close>>
Ids(places) == [i \in DOMAIN places |-> Use(Id(places[i]))]

\* The meanings of the places of a document, by position.
Meant(u, seq) == [at \in {<<u, i>> : i \in DOMAIN seq} |->
                    IF seq[at[2]] = 0 THEN None ELSE <<u, seq[at[2]]>>]
NoPlaces == [at \in {} |-> None]

Blocks ==
    [docs |-> [main |->
        <<Var(M(1))>>
          \o Func(M(2), <<M(3)>>,
               Ids(<<M(5)>>) \o <<Var(M(4))>> \o Ids(<<M(6)>>)
                 \o If(Ids(<<M(8)>>) \o <<Var(M(7))>> \o Ids(<<M(9)>>),
                       Ids(<<M(11)>>) \o <<Var(M(10))>> \o Ids(<<M(12), M(13)>>))
                 \o Ids(<<M(14)>>))
          \o Ids(<<M(15), M(16)>>)],
     meaning |-> Meant("main", <<1, 2, 3, 4, 3, 4, 7, 4, 7, 10, 3, 2, 10, 1, 2, 1, 0>>),
     class |-> NoPlaces, super |-> NoPlaces, superAt |-> NoPlaces, annotated |-> {},
     table |-> {M(1), M(2)},
     scopes |-> {{M(1), M(2)}},
     choices |-> [at \in {M(1), M(2), M(3), M(4), M(7), M(10), M(17)} |->
                    CASE at = M(2) -> {"f"} [] at \in {M(3), M(7), M(17)} -> {"x", "y"}
                      [] at = M(1) -> {"x"} [] at = M(4) -> {"x", "y", "f"}
                      [] at = M(10) -> {"x", "y"}]]

Classes ==
    [docs |-> [main |->
        <<Var(M(1))>>
          \o Class(M(2), <<Var(M(3))>>
                          \o Func(M(4), <<M(5)>>,
                                  <<Use(Member(Self("main"), M(6))), Use(Id(M(7)))>>))
          \o Class(M(8), <<Var(M(10))>>)
          \o <<Use(Id(M(13))), Var(M(12)),
               Use(Id(M(14))), Use(Member(Id(M(14)), M(15))),
               Use(Id(M(16))), Use(Member(Id(M(16)), M(17))), Use(Id(M(18))),
               Use(Id(M(21))), Var(M(19)),
               Use(Id(M(22))), Use(Member(Id(M(22)), M(23))),
               Use(Member(Member(Id(M(22)), M(23)), M(24))),
               Use(Id(M(25))), Use(Member(Id(M(25)), M(26)))>>],
     meaning |-> Meant("main", <<1, 2, 3, 4, 5, 3, 5, 8, 2, 10, 2, 12, 2, 12, 3, 12, 4,
                                 1, 19, 8, 8, 19, 10, 3, 19, 3, 0>>),
     class |-> [at \in {M(10), M(12), M(19)} |-> IF at = M(19) THEN M(8) ELSE M(2)],
     super |-> [at \in {M(8)} |-> M(2)], superAt |-> [at \in {M(8)} |-> M(9)],
     annotated |-> {M(10), M(19)},
     table |-> {M(1), M(2), M(8), M(12), M(19)},
     scopes |-> {{M(1), M(2), M(8), M(12), M(19)}, {M(3), M(4), M(10)}},
     choices |-> (M(1) :> {"v", "x"}) @@ (M(2) :> {"C"}) @@ (M(3) :> {"x", "o"})
                   @@ (M(4) :> {"m"}) @@ (M(5) :> {"x"}) @@ (M(8) :> {"D"})
                   @@ (M(10) :> {"g", "o", "x"}) @@ (M(12) :> {"o", "x"})
                   @@ (M(19) :> {"e"}) @@ (M(27) :> {"x"})]

Modules ==
    [docs |-> [lib |-> <<Var(L(1))>> \o Func(L(2), <<L(3)>>, Ids(<<L(4)>>)),
               main |->
        <<Use(Qualified("lib", M(3))), Var(M(2)),
          Use(Qualified("lib", M(4))), Use(Id(M(5)))>>
          \o Func(M(6), <<M(7)>>, <<Use(Qualified("lib", M(8))), Use(Id(M(9)))>>)
          \o <<Use(Id(M(10))), Use(Qualified("lib", M(11)))>>],
     meaning |-> Meant("lib", <<1, 2, 3, 3>>)
                   @@ (M(3) :> L(1)) @@ (M(4) :> L(2)) @@ (M(8) :> L(2)) @@ (M(11) :> L(1))
                   @@ Meant("main", <<0, 2, 0, 0, 2, 6, 7, 0, 7, 6, 0>>),
     class |-> NoPlaces, super |-> NoPlaces, superAt |-> NoPlaces, annotated |-> {},
     table |-> {L(1), L(2), M(2), M(6)},
     scopes |-> {{L(1), L(2)}, {M(2), M(6)}},
     choices |-> (M(1) :> {"lib"}) @@ [at \in {L(1), L(3), M(2), M(7)} |-> {"x", "y"}]
                   @@ [at \in {L(2), M(6)} |-> {"f", "y"}]]

Secures ==
    [docs |-> [main |->
        Func(M(1), <<>>, <<>>)
          \o Ids(<<M(3)>>)
          \o Catch(M(2), M(4), Ids(<<M(6)>>) \o <<Var(M(5))>> \o Ids(<<M(7)>>))
          \o Ids(<<M(9)>>) \o <<Var(M(8))>>
          \o Func(M(10), <<M(11)>>,
               Ids(<<M(13)>>) \o Catch(M(12), M(14), Ids(<<M(15)>>)) \o Ids(<<M(16), M(17)>>))
          \o Ids(<<M(18), M(19)>>)],
     meaning |-> Meant("main", <<1, 2, 1, 4, 5, 4, 5, 8, 2, 10, 11, 12, 1, 14, 14, 12, 8,
                                 10, 8>>),
     class |-> NoPlaces, super |-> NoPlaces, superAt |-> NoPlaces, annotated |-> {},
     table |-> {M(1), M(2), M(8), M(10)},
     scopes |-> {{M(1), M(2), M(8), M(10)}},
     choices |-> (M(1) :> {"f"}) @@ (M(2) :> {"x", "y"}) @@ (M(8) :> {"x", "y"})
                   @@ (M(10) :> {"h"})
                   @@ [at \in {M(4), M(5), M(11), M(12), M(14)} |-> {"x", "y"}]]

MCShapes == <<Blocks, Classes, Modules, Secures>>
=============================================================================
