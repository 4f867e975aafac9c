----------------------------- MODULE MCCreditHold -----------------------------
(* Small instances of CreditHold for TLC: the values of its constants.     *)
EXTENDS CreditHold

CONSTANTS r1, r2, p1, p2, alice, small, large

\* One user with two requests in flight and a payment: every interleaving of
\* a hold, a settlement and a top-up of one account.
OneUser == [t \in Txns |-> alice]

TopUps == [p \in Payments |-> IF p = p1 THEN 10 ELSE 5]

\* The small model is the fallback of the large one and twice as cheap.
InputPrices  == [m \in Models |-> 1]
OutputPrices == [m \in Models |-> IF m = small THEN 1 ELSE 2]
Markups      == [m \in Models |-> 1]
Fallbacks    == [m \in Models |-> {m, small}]
NoFallback   == [m \in Models |-> {m}]
AnyFallback  == [m \in Models |-> Models]

\* Nothing rejects a negative max_tokens.
OneNegative == {2, -1}

\* The prompt is free and the provider keeps to max_tokens, so that the estimate
\* covers the bill.
WithinLimit ==
    [a \in Asks |-> { [prompt |-> 0, completion |-> n] : n \in 0 .. a.maxTokens }]

\* One prompt token is billed on top of what the estimate counts, and a body
\* with a smaller max_tokens gets as long an answer.
WithPrompt ==
    [a \in Asks |-> { [prompt |-> 1, completion |-> 2] }]
===============================================================================
