---------------------------- MODULE MagicFilter ----------------------------
(***************************************************************************)
(* The filters of dispatch/filters.py.  A MagicFilter is the function its  *)
(* _resolver computes: what it yields for each event, a value or the       *)
(* exception it raises.  The operators of the expression language build    *)
(* one such function from others, and Magic is what __call__ makes of it.  *)
(*                                                                         *)
(* Python's own attribute access, subscription, comparison and truth value *)
(* are parameters.                                                         *)
(***************************************************************************)
EXTENDS Integers

CONSTANTS
    Events,             \* the events, the values that F yields
    Truthy,             \* the values v with bool(v)
    True, False,        \* the two booleans
    Attribute(_, _),    \* getattr(value, name): a value or an exception
    Item(_, _),         \* value[key], likewise
    Compare(_, _, _),   \* value op other, likewise
    Extensions          \* [Events -> SUBSET Events]: the events with the
                        \* fields of this one, the same values, maybe more

\* What Python raises for a field that is not there or of another type.
NoSuchField == {"AttributeError", "KeyError", "TypeError"}
Exceptions == NoSuchField \cup {"IndexError"}

ASSUME FiltersAssumption ==
    /\ True \in Truthy
    /\ False \notin Truthy
    /\ Truthy \cap Exceptions = {}
    /\ False \notin Exceptions
    /\ Events \cap Exceptions = {}
    /\ Extensions \in [Events -> SUBSET Events]

\* bool(v), as a value.
Bool(v) == IF v \in Truthy THEN True ELSE False

F == [e \in Events |-> e]

Getattr(f, name) ==
    [e \in Events |-> IF f[e] \in Exceptions THEN f[e] ELSE Attribute(f[e], name)]

Getitem(f, key) ==
    [e \in Events |-> IF f[e] \in Exceptions THEN f[e] ELSE Item(f[e], key)]

\* f == other, f != other, f > other, f >= other, f < other, f <= other.
Compared(op, f, other) ==
    [e \in Events |-> IF f[e] \in Exceptions THEN f[e] ELSE Compare(op, f[e], other)]

\* f & g: g is looked at only if f holds.
And(f, g) ==
    [e \in Events |-> IF f[e] \in Exceptions THEN f[e]
                      ELSE IF f[e] \notin Truthy THEN False
                      ELSE IF g[e] \in Exceptions THEN g[e] ELSE Bool(g[e])]

\* f | g: g is looked at only if f does not hold.
Or(f, g) ==
    [e \in Events |-> IF f[e] \in Exceptions THEN f[e]
                      ELSE IF f[e] \in Truthy THEN True
                      ELSE IF g[e] \in Exceptions THEN g[e] ELSE Bool(g[e])]

\* Mutant of Invert: what is not there is not true.
InvertMissing(f) ==
    [e \in Events |-> IF f[e] \in Truthy THEN False ELSE True]

\* ~f
Invert(f) ==
    [e \in Events |-> IF f[e] \in Exceptions THEN f[e]
                      ELSE IF f[e] \in Truthy THEN False ELSE True]

-----------------------------------------------------------------------------
(* What a handler's filter answers for each event.  A filter of the        *)
(* consumer's own may answer anything, and may add data.                   *)

Answers == {"passes", "fails", "raises", "anything"}

Magic(f) ==
    [e \in Events |-> IF f[e] \in NoSuchField THEN "fails"
                      ELSE IF f[e] \in Exceptions THEN "raises"
                      ELSE IF f[e] \in Truthy THEN "passes" ELSE "fails"]

\* typed: the events whose event_type is among those of the filter.
EventTypeFilter(typed) == [e \in Events |-> IF e \in typed THEN "passes" ELSE "fails"]

Custom == [e \in Events |-> "anything"]

-----------------------------------------------------------------------------
(* Events that have a field more.                                          *)

\* An event with a field more than e gives f the value that e gives it, if e
\* has the field that f reads.
Steady(f) ==
    \A e \in Events: \A x \in Extensions[e]: f[e] \in NoSuchField \/ f[x] = f[e]

\* F.name and F.data[key]
Fields(names, keys) ==
    {Getattr(F, name): name \in names} \cup {Getitem(Getattr(F, "data"), key): key \in keys}
============================================================================
