--------------------------- MODULE MCMeetingRooms ---------------------------
EXTENDS MeetingRooms

CONSTANTS ana, beto, guest, a1, b1, b2, g1

MCOwner == [l \in Legs |-> IF l = a1 THEN ana ELSE IF l = g1 THEN guest ELSE beto]

\* The orders given: those that change who is in, who moderates and who may speak.
MCSafetyOrders ==
    [type : {"kick"}, who : {ana, beto}, block : {TRUE}]
    \cup [type : {"kick"}, who : {beto}, block : {FALSE}]
    \cup [type : {"admit"}, who : {guest}] \cup [type : {"grant_floor"}, who : {beto}]
    \cup [type : {"mute"}, who : {beto}, first : {b1}] \cup [type : {"mute_all"}, allow : {FALSE}]
    \cup [type : {"set_role"}, who : {guest}, role : {"cohost"}]
    \cup [type : {"breakouts_open"}, places : [Smalls -> {{beto}}]]

MCBreakoutOrders ==
    [type : {"breakouts_open"}, places : [Smalls -> {{beto}}]]
    \cup [type : {"breakouts_close", "end"}] \cup [type : {"kick"}, who : {beto}, block : {TRUE}]
=============================================================================
