-------------------------- MODULE MCChatScheduled ---------------------------
EXTENDS ChatScheduled

CONSTANTS withFile, textOnly, photo, r1, r2

MCFilesOf == [c \in Clients |-> IF c = withFile THEN {photo} ELSE {}]

\* One request of each kind, or one that is sent again.
MCCarried == {[r \in Rows |-> withFile], [r \in Rows |-> textOnly],
              [r \in Rows |-> IF r = r1 THEN withFile ELSE textOnly]}

MCOneOfEach == [k \in Faults |-> 1]
MCOneCrash == [k \in Faults |-> IF k = "crash" THEN 1 ELSE 0]
=============================================================================
