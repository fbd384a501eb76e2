-------------------------- MODULE MCGeneratorOutput --------------------------
(***************************************************************************)
(* Instances of GeneratorOutput for TLC: "Foo" and "foo" name one file.    *)
(***************************************************************************)
EXTENDS GeneratorOutput

MCHeaderList == <<"Foo", "foo", "bar">>
MCFileOf == [h \in {"Foo", "foo", "bar"} |-> IF h = "bar" THEN "bar.reflgen.h" ELSE "foo.reflgen.h"]
MCFixed == <<"module.cpp", "attributes.tsv">>
MCFixedOne == <<"module.cpp">>
MCShortList == <<"bar">>
MCShortFile == [h \in {"bar"} |-> "bar.reflgen.h"]
=============================================================================
