----------------------------- MODULE MC_Session -----------------------------
(***************************************************************************)
(* A parent table p, a child c and a view v on p.  c.r refers to p's rowid    *)
(* (ON DELETE CASCADE), c.u to the UNIQUE p.u (SET NULL, ON UPDATE CASCADE),   *)
(* and p.r to p itself (SET NULL).                                            *)
(***************************************************************************)
EXTENDS Session

MCIndexes == [t \in {"p", "c"} |->
    IF t = "p" THEN <<[col |-> "u", unique |-> TRUE]>>
    ELSE <<[col |-> "r", unique |-> FALSE], [col |-> "u", unique |-> TRUE]>>]

MCForeignKeys == <<
    [child |-> "c", col |-> "r", parent |-> "p", pcol |-> "rowid",
     onDelete |-> "cascade", onUpdate |-> "restrict"],
    [child |-> "c", col |-> "u", parent |-> "p", pcol |-> "u",
     onDelete |-> "setnull", onUpdate |-> "cascade"],
    [child |-> "p", col |-> "r", parent |-> "p", pcol |-> "rowid",
     onDelete |-> "setnull", onUpdate |-> "restrict"] >>

MCNotNull == [t \in {"p", "c"} |-> IF t = "c" THEN {"r"} ELSE {}]
MCDefault == [t \in {"p", "c"} |-> [x \in {"u", "r"} |-> 0]]
MCForbidden == [t \in {"p", "c"} |-> IF t = "p" THEN {<<"u", 3>>} ELSE {}]
MCViews == [v \in {"v"} |-> "p"]

\* After a child is added its parent points to itself; an update of c as a
\* statement updates c again, without end; inserts into the view go to p, and
\* deletes from it too.
MCTriggers == <<
    [on |-> "c", event |-> "insert", timing |-> "after", each |-> "row"],
    [on |-> "c", event |-> "update", timing |-> "before", each |-> "statement"],
    [on |-> "v", event |-> "insert", timing |-> "instead", each |-> "row"],
    [on |-> "v", event |-> "delete", timing |-> "instead", each |-> "row"] >>

U(x) == [f \in {"u"} |-> x]
R(x) == [f \in {"r"} |-> x]
UR(x, y) == [f \in {"u", "r"} |-> IF f = "u" THEN x ELSE y]

Row(id, vals) == [id |-> id, vals |-> vals, update |-> U(2), when |-> {}]
Upsert(vals, x, when) == [id |-> 0, vals |-> vals, update |-> U(x), when |-> when]

Ins(on, rs, conflict) == [op |-> "insert", on |-> on, rows |-> rs, conflict |-> conflict]
Upd(on, where, set) == [op |-> "update", on |-> on, where |-> where, set |-> set]
Del(on, where) == [op |-> "delete", on |-> on, where |-> where]

MCBody(g, old, new) ==
    CASE g.on = "c" /\ g.event = "insert" ->
             <<Upd("p", {<<"rowid", new["r"]>>}, R(new["r"]))>>
      [] g.on = "c" -> <<Upd("c", {}, U(0))>>
      [] g.event = "insert" -> <<Ins("p", <<Row(0, U(new["u"]))>>, "fail")>>
      [] OTHER -> <<Del("p", {<<"u", old["u"]>>})>>

MCStatements == {
    Ins("p", <<Row(0, U(1))>>, "fail"),
    Ins("p", <<Row(0, U(2)), Row(0, U(1))>>, "fail"),
    Ins("p", <<Row(2, UR(0, 1))>>, "fail"),
    Ins("p", <<Row(3, U(2))>>, "nothing"),
    Ins("p", <<Upsert(U(1), 2, {<<"rowid", 1>>})>>, "update"),
    Ins("p", <<Upsert(U(2), 3, {})>>, "update"),
    Ins("c", <<Row(0, UR(1, 1))>>, "fail"),
    Ins("c", <<Row(0, UR(0, 2))>>, "fail"),
    Ins("v", <<Row(0, U(3))>>, "fail"),
    Ins("v", <<Row(0, U(1))>>, "fail"),
    Upd("p", {<<"u", 1>>}, U(2)),
    Upd("p", {}, U(1)),
    Upd("p", {<<"rowid", 2>>}, U(3)),
    Upd("c", {}, U(0)),
    Upd("v", {}, U(0)),
    Del("p", {<<"rowid", 1>>}),
    Del("v", {<<"u", 2>>}) }

MCWrites == MCStatements \union {Upd("c", {}, U(0))}
            \union {Upd("p", {<<"rowid", x>>}, R(x)) : x \in 0 .. 3}
            \union {Ins("p", <<Row(0, U(x))>>, "fail") : x \in 0 .. 3}
            \union {Del("p", {<<"u", x>>}) : x \in 0 .. 3}

MCLoads == { [on |-> "p", rows |-> <<Row(0, U(1)), Row(0, U(1))>>],
             [on |-> "p", rows |-> <<Row(3, U(1)), Row(0, U(2))>>],
             [on |-> "p", rows |-> <<Row(4, U(0))>>] }

MCWindows == {<<1, 2>>}

\* Bound: nothing is explored past a commit with a failed statement in it.
Untainted == ~tainted
=============================================================================
