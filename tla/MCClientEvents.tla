--------------------------- MODULE MCClientEvents ---------------------------
(* Model checking instances of ClientEvents: a ring buffer of two entries, *)
(* and up to two observed properties, one of them with a value.            *)
EXTENDS ClientEvents

MCNames == {"pause", "osd"}
OnlyOsd == {"osd"}
Nothing == {}
MCValues == {"none", "yes"}

EventUses == {"request", "event", "hook", "quit", "wakeup", "destroy", "timeout"}
PropertyUses == {"change", "resize", "observe", "unobserve", "destroy"}
HookUses == {"change", "observe", "unobserve own", "hook"}
MCUses == {EventUses, PropertyUses, HookUses}

ResizeUses == {{"resize", "observe"}}
=============================================================================
