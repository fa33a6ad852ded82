-------------------------------- MODULE MCPanels --------------------------------
(* A small instance of Panels for TLC: two tabs, a log on the second one and a card
   that belongs to no tab. *)
EXTENDS Panels

CONSTANTS devices, log, other, card, viewer

MCPageTabs == <<devices, log>>
MCTabOf    == [p \in Pollers |-> IF p = viewer THEN log ELSE None]
===============================================================================
