--------------------------- MODULE MCContextProvider ---------------------------
EXTENDS ContextProvider, TLC

CONSTANTS r1, r2

Tool(ns, n) == [namespace |-> ns, name |-> n]

TwoRuns == {r1, r2}
SomeTools == {Tool("default", "t"), Tool("b", "t"), Tool("b", "u")}
SomePins == <<Tool("b", "t"), Bare("u")>>
OneRequired == {Tool("b", "t")}
Symmetry == Permutations(TwoRuns)
OneStatic == <<"s">>
SomeNatives == {"t"}
=============================================================================
