------------------------------ MODULE MC_GrmPT ------------------------------
EXTENDS GrmPT, TLC

CONSTANTS wGood, wNoValue

\* Edge Core writes /33001/0/1 with a value, or sends a write without one.
MCInbound == {wGood, wNoValue}
MCReq == (wGood :> [value |-> TRUE, uri |-> TRUE])
         @@ (wNoValue :> [value |-> FALSE, uri |-> TRUE])

=============================================================================
