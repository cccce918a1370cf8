--------------------------- MODULE MCTypeRelation ---------------------------
(* Instances of TypeRelation for TLC: the types of a small program.        *)
EXTENDS TypeRelation

None == [call |-> <<>>, construct |-> <<>>]

NoIndex == [number |-> NoType, string |-> NoType]

Object(kind, properties, bases) ==
  [kind |-> kind, properties |-> properties, bases |-> bases,
   signatures |-> None, index |-> NoIndex]

Property(name, type) == [name |-> name, type |-> type, optional |-> FALSE]

Optional(name, type) == [name |-> name, type |-> type, optional |-> TRUE]

Function(parameter, returns) ==
  [Object("function", <<>>, <<>>) EXCEPT
     !.signatures.call = <<[min |-> 1, parameters |-> <<parameter>>,
                            returns |-> returns]>>]

MCTypes == {"number", "string", "bigint", "boolean", "undefined", "one",
            "true", "false", "either", "eithers", "item", "pair", "coords",
            "narrow", "wide", "empty", "none",
            "A", "B", "C", "D", "I", "J", "L"}

MCStructure ==
  [t \in MCTypes |->
     CASE t = "one"     -> [kind |-> "numberLiteral", value |-> 1]
       [] t = "true"    -> [kind |-> "booleanLiteral", value |-> TRUE]
       [] t = "false"   -> [kind |-> "booleanLiteral", value |-> FALSE]
       [] t \in {"empty", "none"} -> Object("literal", <<>>, <<>>)
       [] t = "either"  -> [kind |-> "union",
                            of |-> <<"string", "number", "undefined">>]
       [] t = "eithers" -> [kind |-> "array", element |-> "either"]
       [] t = "item"    -> [kind |-> "union", of |-> <<"one", "string">>]
       [] t = "pair"    -> [Object("tuple", <<Property("0", "one"),
                                              Optional("1", "string")>>,
                                   <<>>)
                              EXCEPT !.index.number = "item"]
       [] t = "coords"  -> [Object("tuple", <<Property("0", "number")>>,
                                   <<>>)
                              EXCEPT !.index.number = "number"]
       [] t = "narrow"  -> Function("number", "number")
       [] t = "wide"    -> Function("either", "either")
       [] t = "A"       -> Object("literal",
                                  <<Property("x", "number")>>, <<>>)
       [] t = "B"       -> [Object("literal",
                                   <<Property("x", "string")>>, <<>>)
                              EXCEPT !.index.string = "string"]
       [] t = "C"       -> Object("literal", <<Property("x", "either"),
                                               Optional("f", "wide"),
                                               Optional("a", "eithers"),
                                               Optional("b", "false"),
                                               Optional("e", "empty")>>,
                                  <<>>)
       [] t = "D"       -> Object("literal", <<Property("x", "number"),
                                               Optional("a", "coords"),
                                               Optional("b", "true"),
                                               Optional("e", "none")>>,
                                  <<>>)
       [] t = "I"       -> Object("interface",
                                  <<Optional("x", "number")>>, <<>>)
       [] t = "J"       -> Object("interface", <<Optional("f", "narrow"),
                                                 Optional("a", "pair")>>,
                                  <<"I">>)
       [] t = "L"       -> Object("literal",
                                  <<Property("x", "number")>>, <<>>)
       [] OTHER         -> [kind |-> t]]

MCVariables == {"number", "either", "A", "B", "C", "D", "J"}

MCValues == {"true", "false"}

MCLiterals == {"L"}
=============================================================================
