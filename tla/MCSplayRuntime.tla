--------------------------- MODULE MCSplayRuntime ---------------------------
EXTENDS SplayRuntime

Span(base, bound) == [base |-> base, bound |-> bound]

Heap == Span(1, 5)
ProgramStack == Span(5, 8)
BinarySymbols == {Span(8, 9), Span(8, 10)}
Libraries == {Span(0, 1), Span(10, 11)}
Arguments == {Span(7, 8)}
Files == {Span(10, 12)}
=============================================================================
