--------------------------- MODULE MCMcpDiscovery ---------------------------
(* Instances of McpDiscovery for TLC. *)
EXTENDS McpDiscovery

CONSTANTS a, b

Page(entries, cursor) == [array |-> TRUE, tools |-> entries, cursor |-> cursor]

\* Pages that lead on and pages that end, with tools in common and with bad entries.
MCPages == { Page(<<a>>, "more"), Page(<<>>, "more"), Page(<<b>>, "end"), Page(<<b, a>>, "end"),
             Page(<<b, Nameless>>, "end"), Page(<<NotAnObject>>, "end"), NoPage }
=============================================================================
