------------------------------- MODULE MCDraft -------------------------------
(* Draft on two trusted sources and drafts with at most two flaws.          *)
EXTENDS Draft

F(kind, rows) == [kind |-> kind, rows |-> rows]
Is(frame, flaws) == [frame |-> frame, flaws |-> flaws]
Right == F("true", 3)

SomeDrafts ==
    {Is(Right, {f}) : f \in Flaws} \cup {Is(Right, {}), Is(Right, {"repeats"})}
    \cup {Is(F(k, 3), {}) : k \in Kinds \ {"true"}}
    \cup {Is(F("true", 1), {}), Is(Right, {"unsorted", "incoherent"})}

Asked(group, cap, hosts, container, window) ==
    [group |-> group, cap |-> cap, hosts |-> hosts,
     container |-> container, window |-> window]

SomeRequests ==
    {Asked("bars", 3, "none", FALSE, "tiny"), Asked("bars", 2, "none", FALSE, "short"),
     Asked("bars", 0, "none", FALSE, "long")}
    \cup {Asked("bars", 2, h, TRUE, "long") : h \in Allowlists}
    \cup {Asked("series", 0, "own", TRUE, "long"),
          Asked("events", -1, "none", FALSE, "short")}

SomePeers == {Right, F("true", 1), F("true", 72), F("scaled", 3), F("stale", 3)}
=============================================================================
