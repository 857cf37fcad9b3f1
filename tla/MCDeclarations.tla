--------------------------- MODULE MCDeclarations ---------------------------
(* Programs with two structures, a pointer, a type made for its declaration, a
   built-in type and one that is unknown; a first member that is not a pointer
   may have semantics too.  Declarations that lead back to themselves do so
   through a structure, as in C.                                              *)
EXTENDS Declarations

MCDecl == {"s", "r", "p", "a", "int", "bad"}
Program(k, ms, mr, tp, ta, main, sem) ==
  [kind |-> [d \in MCDecl |-> CASE d \in {"s", "r"} -> "struct" [] d = "p" -> "pointer"
                                [] d = "a" -> k [] d = "int" -> "builtin"
                                [] OTHER -> "unknown"],
   parts |-> [d \in MCDecl |-> CASE d = "s" -> ms [] d = "r" -> mr [] d = "p" -> tp
                                 [] d = "a" -> ta [] OTHER -> <<>>],
   lacks |-> main, semantics |-> sem]
MCPrograms ==
  {Program("annotated", <<m, n>>, <<o>>, <<x>>, ta, {}, sem) :
     m \in {"r", "p", "a"}, n \in {"int", "bad"}, o \in {"int", "p"},
     x \in {"s", "r"}, ta \in {<<"p">>, <<"s">>}, sem \in {{}, {<<"s", 1>>, <<"r", 1>>}}}
  \cup {Program("func", <<m, "p">>, <<"p">>, <<x>>, <<"int", "s">>, main, {}) :
          m \in {"r", "int"}, x \in {"s", "a"}, main \in {{}, {"s"}}}
=============================================================================
