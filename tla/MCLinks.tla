------------------------------ MODULE MCLinks ------------------------------
EXTENDS Links

\* A ring of three, one side of which may be dialed from both ends.
Ring == {<<1, 2>>, <<2, 1>>, <<2, 3>>, <<3, 1>>}
\* Two pairs that link within, and across at both ends.
Square == {<<1, 2>>, <<3, 4>>, <<1, 3>>, <<4, 2>>}
=============================================================================
