------------------------------- MODULE MCConfig -------------------------------
(* Config with every file that differs from a correct one in at most two places. *)
EXTENDS Config

V(type, v) == [type |-> type, v |-> v]

\* The bounds of the schemas' ranges and of the members' widths, and every type.
MCValues ==
    {V("uint", n) : n \in {0, 3, 7, 8, 255, 256, 264, 65535, 65536}}
        \cup {V(t, 0) : t \in {"absent", "negative", "huge", "bool", "mixed", "object"}}
        \cup {V("bool", 1), V("string", 1), V("list", 1)}

CorrectValue(k) ==
    CASE k[2] = "itself" -> V("object", 0)
      [] k = <<"packet", "level">> -> V("absent", 0)
      [] k[2] \in {"path", "ip", "source"} -> V("string", 2)
      [] k[2] = "encoded" -> V("bool", 1)
      [] k[2] = "counters" -> V("list", 2)
      [] OTHER -> V("uint", 20)

MCCorrect == [p \in Programs |-> [k \in Keys(p) |-> CorrectValue(k)]]
===============================================================================
