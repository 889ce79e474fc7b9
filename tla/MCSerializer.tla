---------------------------- MODULE MCSerializer ----------------------------
(***************************************************************************)
(* Messages for the model checker: the edge values of the repository's own *)
(* test (src/bionic_cat_mqtt_msgs/test/test_serializer.cpp), fields that   *)
(* all differ, and vectors of no, one and two elements.                    *)
(***************************************************************************)
EXTENDS Serializer

MCContents == {"zero", "lowest", "highest", "alternating", "counting"}

Elements(c) == CASE c = "zero" -> 0 [] c = "lowest" -> 1 [] OTHER -> 2

(* With "zero" and "alternating", a command has no motors but parameters. *)
MotorCount(c) == IF c \in {"zero", "alternating"} THEN -1 ELSE Elements(c)

Number(c, type, i) ==
  CASE c = "zero"        -> 0
    [] c = "lowest"      -> Lowest(type)
    [] c = "highest"     -> Highest(type)
    [] c = "alternating" -> IF i % 2 = 0 THEN Lowest(type) ELSE Highest(type)
    [] c = "counting"    -> IF Lowest(type) + i <= Highest(type) THEN Lowest(type) + i
                            ELSE Highest(type)

MCValue(c, f, i) ==
  CASE f = "string"               -> [k \in 1 .. Elements(c) |-> Number(c, "u8", i + k)]
    [] f = "motors"               -> MotorCount(c)
    [] f \in Vectors \ {"motors"} -> Elements(c)
    [] OTHER                      -> Number(c, Type(f), i)

=============================================================================
