--------------------------- MODULE MCGridForecast ---------------------------
EXTENDS GridForecast

\* One reading of each node, a window of two: one more makes a forecast.
OneEach == [n \in Nodes |-> <<1>>]
=============================================================================
