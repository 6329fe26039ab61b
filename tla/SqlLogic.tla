------------------------------ MODULE SqlLogic ------------------------------
(***************************************************************************)
(* The conditions of SQL over nullable columns: a comparison with NULL is  *)
(* unknown, and WHERE keeps what is true.                                  *)
(***************************************************************************)
EXTENDS Integers

\* The truth values, ordered: AND is the smaller, OR the larger.
False == 0
Unknown == 1
True == 2

And(p, q) == IF p < q THEN p ELSE q
Or(p, q) == IF p < q THEN q ELSE p
Not(p) == 2 - p
Sql(p) == IF p THEN True ELSE False

\* a < b and a <= b, where null stands for NULL.
Less(a, b, null) == IF a = null \/ b = null THEN Unknown ELSE Sql(a < b)
AtMost(a, b, null) == IF a = null \/ b = null THEN Unknown ELSE Sql(a <= b)
=============================================================================
