------------------------------ MODULE MCBmsLink ------------------------------
EXTENDS BmsLink

\* A pulse with its rest step, and a plain discharge.
Currents == [i \in {"PULSE", "DISCHARGE"} |-> IF i = "PULSE" THEN <<200, 0>> ELSE <<50>>]
=============================================================================
