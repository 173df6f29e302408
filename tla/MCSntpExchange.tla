--------------------------- MODULE MCSntpExchange ---------------------------
(* SntpExchange with ticks of 50 ms and the float of today.                *)
EXTENDS SntpExchange

\* The error of the float, whose step is 128 seconds, is largest at 64.9
\* seconds by the clock, 64 seconds behind, and at 65, 63 seconds ahead.
MCStartTimes == {1288, 1308}

MCInitErrors == {-9}

MCInitSlews == {-1, 1}
=============================================================================
