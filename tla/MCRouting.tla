----------------------------- MODULE MCRouting -----------------------------
(* Routing on a small instance: three routers that can form every tree with *)
(* the root at its top, a handler without filters and two with two each.    *)
(* bare and steam are one event of type new_lot without a category and with *)
(* one; its data has an empty list under "tags".  riot is an event of       *)
(* another type with another category.                                      *)
EXTENDS Routing

CONSTANTS h0, h1, h2, r1, r2

\* The routers below the root have no filters and no names to tell them apart.
Symmetry == Permutations({r1, r2})

CategoryOf == [bare |-> "KeyError", steam |-> "steam lot", riot |-> "riot lot"]
EventsOf == DOMAIN CategoryOf

\* The values that the expressions below can reach.
DataOf == [bare |-> "bare's data", steam |-> "steam's data", riot |-> "riot's data"]
TruthyOf == EventsOf \cup {DataOf[e]: e \in EventsOf}
              \cup {"True", "steam lot", "riot lot", "1", "2"}

AttributeOf(v, name) ==
    CASE v \in EventsOf /\ name = "data" -> DataOf[v]
      [] v \in EventsOf /\ name = "seq"  -> IF v = "riot" THEN "1" ELSE "2"
      [] OTHER -> "AttributeError"

ItemOf(v, key) ==
    CASE \E e \in EventsOf: v = DataOf[e] ->
            IF key = "category" THEN CategoryOf[CHOOSE e \in EventsOf: v = DataOf[e]]
            ELSE IF key = "tags" THEN "no tags" ELSE "KeyError"
      [] v = "no tags" -> "IndexError"
      [] OTHER -> "TypeError"

CompareOf(op, v, other) ==
    CASE op = "==" -> IF v = other THEN "True" ELSE "False"
      [] op = "!=" -> IF v # other THEN "True" ELSE "False"
      [] op = ">=" /\ {v, other} \subseteq {"1", "2"} ->
            IF v = "2" \/ other = "1" THEN "True" ELSE "False"
      [] OTHER -> "TypeError"

ExtensionsOf ==
    [e \in EventsOf |-> IF e = "bare" THEN {"bare", "steam"} ELSE {e}]

data     == Getattr(F, "data")
is_steam == Compared("==", Getitem(data, "category"), "steam lot")
recent   == Compared(">=", Getattr(F, "seq"), "2")
first    == Getitem(Getitem(data, "tags"), "0")
new_lot  == {"bare", "steam"}

\* h1: a filter of the consumer's, and then
\*     ~(F.data["category"] == "steam") | F.data["tags"][0].
\* h2: new_lot, (F.data["category"] == "steam") & (F.seq >= 2).
FiltersOf ==
    [h \in Handlers |->
        CASE h = h0 -> <<>>
          [] h = h1 -> <<Custom, Magic(Or(Invert(is_steam), first))>>
          [] h = h2 -> <<EventTypeFilter(new_lot), Magic(And(is_steam, recent))>>]

\* What theorem ForwardCompatibility asks of the events and of the event types.
ASSUME FieldsAreKept ==
    /\ \A f \in Fields({"seq"}, {"category", "tags"}): Steady(f)
    /\ \A e \in new_lot: Extensions[e] \subseteq new_lot
=============================================================================
