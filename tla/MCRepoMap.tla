------------------------------ MODULE MCRepoMap -------------------------------
(* Three files, one of a test: two texts of one size, a class with a method, *)
(* a text too large and one nested too deep.                                 *)
EXTENDS RepoMap

TheFiles == {"a", "b", "t"}
Scan == <<"b", "t", "a">>
Sorted == <<"a", "b", "t">>
TheTexts == {"one", "two", "class", "test", "deep", "large"}
MayHold == [f \in TheFiles |-> CASE f = "a" -> {"one", "two"}
                                 [] f = "b" -> {"class", "deep"}
                                 [] f = "t" -> {"test", "large"}]
Bytes == [t \in TheTexts |-> IF t \in {"one", "two"} THEN 1 ELSE 2]
Def(name, of, line) == [name |-> name, of |-> of, line |-> line]
Use(by, kind, name) == [by |-> by, kind |-> kind, name |-> name]
TheNames == {"save", "load", "Store", "Store.save", "test_load", "test_save_load"}
Definitions == [t \in TheTexts |->
    CASE t = "one"   -> {Def("save", Module, 1)}
      [] t = "two"   -> {Def("load", Module, 1), Def("save", Module, 2)}
      [] t = "class" -> {Def("Store", Module, 1), Def("Store.save", "Store", 2), Def("test_load", Module, 3)}
      [] t = "test"  -> {Def("test_save_load", Module, 1)}
      [] OTHER       -> {}]
References == [t \in TheTexts |->
    CASE t = "two"   -> {Use("load", "call", "save"), Use(Module, "import_module", "b")}
      [] t = "class" -> {Use("Store.save", "call", "load"), Use("Store", "inherit", "Store")}
      [] t = "test"  -> {Use("test_save_load", "call", "it.save"), Use(Module, "import", "Store"),
                         Use(Module, "import_module", "x")}
      [] OTHER       -> {}]
SameName == [f \in TheFiles |-> f]
Symbol == TheFiles \X (TheNames \cup {Module})
LastNames == [n \in TheFiles \cup TheNames \cup {Module, "it.save", "x"} |->
                 IF n \in {"Store.save", "it.save"} THEN "save" ELSE n]
TheScores == {[s \in Symbol |-> IF LastNames[s[2]] = "save" THEN 4 ELSE 3],
              [s \in Symbol |-> IF s[1] = "b" THEN 9 ELSE IF s[2] = "save" THEN 6 ELSE 0]}
NameEnds == {<<"x", "a">>}
NameTests == {<<"test_save_load", "save">>, <<"test_save_load", "load">>, <<"test_load", "load">>}
===============================================================================
