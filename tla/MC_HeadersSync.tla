--------------------------- MODULE MC_HeadersSync ---------------------------
EXTENDS HeadersSync, TLC

CONSTANTS a, b, d, good, bad

\* d has twice the work of the others and another nBits, and the hash bit of b.
MCBody == {a, b, d}
MCWork == (a :> 1) @@ (b :> 1) @@ (d :> 2)
MCBits == (a :> 1) @@ (b :> 1) @@ (d :> 2)
MCHashBit(h) == IF Last(h) = a THEN 0 ELSE 1
UpOnly == {<<1, 1>>, <<1, 2>>, <<2, 2>>}

\* Contextually a header is valid unless b follows b.
MCValid(h) == Len(h) < 2 \/ h[Len(h)] # b \/ h[Len(h) - 1] # b

\* The honest peer's chain; a longer one, whose bits exceed the limit; and one
\* with other bits and a step of nBits that is not permitted.
Short == <<a, b, a, a, b>>
MCTips == {Short, Append(Short, a), <<a, b, d, a>>}
MCServed == good :> Short
=============================================================================
