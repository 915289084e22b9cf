------------------------- MODULE MCCollectorWatcher -------------------------
(* Small instances of CollectorWatcher. *)
EXTENDS CollectorWatcher, TLC

CONSTANTS discovery, export, plain, linked, broken, huge, page

\* poll() visits discovery files before strict exports.
MCPaths == <<discovery, export>>
MCPagesOf == [c \in Contents |-> IF c = linked THEN {page} ELSE {}]
=============================================================================
