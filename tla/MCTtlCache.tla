---- MODULE MCTtlCache ----
EXTENDS TtlCache
CONSTANTS k1, k2
\* Comparisons are made one way only: a value with itself and k1's with k2's.
OneWay == {<<k1, k1>>, <<k1, k2>>}
====
