------------------------------- MODULE MCParts --------------------------------
(* Small instances of the parts for TLC.                                   *)
EXTENDS Parts, TLC

InstanceEventLimits == [stop |-> 1, proxy |-> 1, mishap |-> 1, crash |-> 1]

ImageOf == [c \in {"c1", "c2"} |-> IF c = "c1" THEN "i1" ELSE "i3"]

Property(type, required, default, enum, min, max) ==
  [type |-> type, required |-> required, default |-> default, enum |-> enum,
   min |-> min, max |-> max]

Halves(n) == <<"int64", n>>

Configurable ==
  {Property("string", TRUE, Absent, {}, Absent, Absent),
   Property("enum", FALSE, Text("a"), {"a", "b"}, Absent, Absent),
   Property("integer", FALSE, Halves(4), {}, Halves(2), Halves(20)),
   Property("integer", FALSE, Halves(0), {}, Halves(2), Absent),
   Property("number", FALSE, Absent, {}, Absent, Halves(8)),
   Property("duration", FALSE, Text("30s"), {}, Absent, Absent),
   Property("boolean", FALSE, <<"bool", TRUE>>, {}, Absent, Absent)}

PlainSchemas == {"dim" :> p : p \in Configurable}

(* Two properties whose names differ in case only share a variable.        *)
SmallSchemas ==
  PlainSchemas
    \cup {("dim" :> Property("integer", TRUE, Absent, {}, Halves(2), Halves(20)))
            @@ ("diM" :> Property("integer", FALSE, Halves(6), {}, Absent, Absent))}

SmallRequests ==
  {"dim" :> v : v \in {Absent, Text(""), Text("a"), Text("30s"), Halves(4), Halves(5),
                       Halves(20), <<"bool", FALSE>>}} \cup {<<>>}

SmallEnvName == [n \in {"dim", "diM"} |-> "CONFIG_DIM"]
SmallAsks == {Absent} \cup ({1, 3, 256, 257, 512, 1025} \X {1, 32, 128})

SmallRebuilds ==
  {<<>>, <<<<"a", 1>>, <<"b", 2>>>>, <<<<"a", 1>>, <<"a", 2>>>>,
   <<<<"c", 0>>, <<"d", 9>>>>, <<<<"b", 0>>>>}

Symmetry == Permutations(Ids)
===============================================================================
