------------------------------- MODULE Budget -------------------------------
(***************************************************************************)
(* The execution budget of one request (internal/security/limits.go).      *)
(* Costs are integers here: a price is the cost of one token.              *)
(***************************************************************************)
EXTENDS Integers

Meters == {"ModelSteps", "ToolCalls", "Tokens", "CostUSD", "Retries"}

\* NewBudget refuses other limits.
ValidLimits(limits) == \A m \in Meters : limits[m] > 0

NothingUsed == [m \in Meters |-> 0]

Using(meter, amount) == [NothingUsed EXCEPT ![meter] = amount]

Plus(used, delta) == [m \in Meters |-> used[m] + delta[m]]

\* consume refuses a use that would exceed a limit, and then counts nothing.
Affordable(limits, used, delta) == \A m \in Meters : Plus(used, delta)[m] <= limits[m]

\* The characters of a text as tokens, and their price.
estimatedTokens(characters) == IF characters <= 0 THEN 0 ELSE (characters + 3) \div 4

TokenCostUSD(tokens, price) == IF tokens <= 0 \/ price <= 0 THEN 0 ELSE tokens * price

\* What a text of so many characters uses up.
TextUse(characters, price) ==
    LET tokens == estimatedTokens(characters)
    IN  Plus(Using("Tokens", tokens), Using("CostUSD", TokenCostUSD(tokens, price)))
=============================================================================
