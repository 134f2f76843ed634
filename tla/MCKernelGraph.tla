---------------------------- MODULE MCKernelGraph ----------------------------
EXTENDS KernelGraph, TLC

CONSTANTS t1, t2, t3, t4

\* t1 and t2 share the pool, and t2 goes on inline after its parallel pair.  t3 has
\* a parallel pair of order 0 and one of order 1, which its scan cannot take:
\* sections follow the pair.  It goes on inline if a callback has marked one of
\* them, and ends if both.  It runs beside t4, which is inline only, and its waits
\* may end by themselves.
GraphsOfPairs == (t1 :> <<0, 0>>) @@ (t2 :> <<1, 0, 0>>) @@ (t3 :> <<1, 1, 0, 0>>)
                 @@ (t4 :> <<0>>)

\* Two graphs that both have parallel sections.
TwoPairs == (t1 :> <<0, 0>>) @@ (t2 :> <<0, 0>>)

\* A graph whose scan fills the array before it ends: the lock is leaked.
OneTooMany == (t1 :> <<0, 0, 1>>) @@ (t2 :> <<0>>)
=============================================================================
