---------------------------- MODULE MCHealDecision ----------------------------
EXTENDS HealDecision

\* Wilson intervals (z = 1.96) of samples of 400 requests, per mille.
Read(errs, rate, lo, hi) == [errs |-> errs, total |-> 400, rate |-> rate, lo |-> lo, hi |-> hi]
Clean == Read(0, 0, 0, 9)
Few   == Read(2, 5, 1, 18)
Some  == Read(10, 25, 14, 45)
All   == Read(400, 1000, 990, 1000)

SamplesOf == [good |-> {Clean, Few}, noisy |-> {Few, Some}, slow |-> {Clean}, bad |-> {All}]

\* The second revision changes the schema, and the third inherits its note.
Notes == <<"none", "orders_v2", "orders_v2">>

Mixes == {<<"good", "bad", "slow">>, <<"noisy", "slow", "slow">>}
================================================================================
