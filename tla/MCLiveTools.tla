------------------------------ MODULE MCLiveTools ------------------------------
EXTENDS LiveTools, TLC

CONSTANTS r1, r2

Tool(ns, n) == [namespace |-> ns, name |-> n]

TwoRuns == {r1, r2}
SomeTools == {Tool("default", "t"), Tool("b", "t"), Tool("b", "u")}
OneRequired == <<Tool("b", "t")>>
OneAlways == <<Bare("u")>>
Symmetry == Permutations(TwoRuns)
================================================================================
