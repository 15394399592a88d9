----------------------------- MODULE MCMineScan -----------------------------
(* Planes of seven cells with matches and skips on both sides of every segment
   border, and with faults in the middle of a segment, at its first cell, and
   in two segments that different workers scan at once. *)
EXTENDS MineScan

MCPlane(cells) == [c \in Cells |-> cells[c + 1]]
h == "hit"
s == "skip"
m == "miss"
t == "throws"
u == "unreadable"

MCBusy   == MCPlane(<<s, h, h, s, h, m, h>>)
MCSparse == MCPlane(<<m, s, m, m, s, s, m>>)
MCThrows == MCPlane(<<h, s, h, t, t, h, h>>)
MCUnread == MCPlane(<<h, s, s, h, m, u, h>>)

MCPlanes == {MCBusy, MCSparse, MCThrows, MCUnread}
=============================================================================
