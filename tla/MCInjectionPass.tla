-------------------------- MODULE MCInjectionPass ---------------------------
(* Instances of InjectionPass for TLC.                                     *)
EXTENDS InjectionPass

Param(n, name) == [param |-> n, name |-> name, shape |-> "word"]
Field(n, type, name) == [param |-> n, type |-> type, name |-> name, shape |-> "word"]
Shaped(n, name) == [Param(n, name) EXCEPT !.shape = "expression"]

Search == [ok |-> TRUE, get |-> TRUE, base |-> 1, query |-> {Param(1, "q"), Param(2, "template")}]
Home == [ok |-> TRUE, get |-> TRUE, base |-> 3, query |-> {}]
Answer == [ok |-> TRUE, get |-> FALSE, base |-> 2, query |-> {Param(1, "q")}]
Comment == [method |-> "POST", base |-> 2, excluded |-> FALSE,
            fields |-> {Field(1, "text", "expr"), Field(2, "select", "sort"), Field(3, "hidden", "csrf")}]
Delete == [method |-> "POST", base |-> 3, excluded |-> TRUE, fields |-> {Field(1, "text", "name")}]
Api == [method |-> "GET", base |-> 1, template |-> 4, query |-> {Param(2, "page")}, body |-> {},
        path |-> {Shaped(1, "id")}]

MCSurfaces == {[pages |-> {Search, Answer}, forms |-> {Comment, Delete}, operations |-> {Api}],
               [pages |-> {Search, Home}, forms |-> {}, operations |-> {}],
               [pages |-> {Answer}, forms |-> {Comment}, operations |-> {}]}

MCSelected == {"xss", "ssti", "el", "sqli-time", "cmdi", "xxe"}
MCBaseOrder == <<"xss", "ssti", "el", "sqli-time", "cmdi", "xxe">>
MCLikes == <<"cmdi", "ssti", "el", "xxe">>
MCNameTable == [k \in Range(MCLikes) |->
  CASE k \in {"cmdi", "ssti"} -> {"template", "cmd"} [] k = "el" -> {"expr"} [] OTHER -> {}]
MCValueShape == [k \in Range(MCLikes) |-> IF k = "el" THEN {"expression"} ELSE {}]
MCScript ==
  [k \in MCSelected \union {"ssti+el"} |->
     CASE k = "cmdi" -> <<<<"quick">>, <<"quick", "sleep", "sleep">>>>
       [] k = "sqli-time" -> <<<<"quick", "sleep", "sleep">>>>
       [] OTHER -> <<<<"quick", "quick">>>>]
=============================================================================
