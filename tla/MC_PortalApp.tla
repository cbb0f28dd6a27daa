---------------------------- MODULE MC_PortalApp ----------------------------
EXTENDS PortalApp, TLC

CONSTANTS d1, d2, d3

MCDevIds == {d1, d2, d3}
\* A switched-off light bulb and a temperature sensor exist when the page
\* loads; one device, of any type, can be created.
MCInitialStore == {[id |-> d1, on |-> FALSE, type |-> "LightBulb"],
                   [id |-> d2, on |-> FALSE, type |-> "TemperatureSensor"]}

=============================================================================
