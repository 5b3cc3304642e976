--------------------------- MODULE MCRoundSearch ---------------------------
EXTENDS RoundSearch

\* An engine by the place it waits in; the first two belong to one account.
Waiting(k, rate, previous, preset, pays) ==
    [engine |-> k, account |-> IF k <= 2 THEN 1 ELSE k, rate |-> rate,
     provisional |-> {}, previous |-> previous, preset |-> preset, pays |-> pays]

LastGame(k) == {[opponent |-> k, rate |-> {1500}, won |-> k = 1]}

Kinds(k) ==
    <<Waiting(k, {1000}, {}, FALSE, FALSE),
      Waiting(k, {1500}, LastGame(1), FALSE, FALSE),
      Waiting(k, {}, LastGame(2), FALSE, FALSE),
      Waiting(k, {1400}, {}, TRUE, TRUE),
      Waiting(k, {}, {}, TRUE, TRUE),
      Waiting(k, {}, LastGame(1), TRUE, FALSE)>>

Of(n) ==
    {[k \in 1..n |-> Kinds(k)[kinds[k]]] :
       kinds \in {f \in [1..n -> 1..6] : \A k \in 1..n - 1 : f[k] <= f[k + 1]}}

PoolsUpTo5 == UNION {Of(n) : n \in 0..5}
SixEngines ==
    {[k \in 1..6 |-> Kinds(k)[kinds[k]]] :
       kinds \in {<<1, 1, 2, 2, 3, 3>>, <<1, 2, 2, 3, 3, 3>>, <<4, 4, 5, 5, 6, 6>>}}
AllPools == PoolsUpTo5 \cup SixEngines
=============================================================================
