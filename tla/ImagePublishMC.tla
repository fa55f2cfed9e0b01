--------------------------- MODULE ImagePublishMC ---------------------------
(* Small instances of ImagePublish: a command and a chat, or two chats.    *)
EXTENDS ImagePublish

CONSTANTS n1, n2, p1, p2

Drawing == [is |-> "picture", shows |-> "drawing", width |-> 3, height |-> 2]
Own     == [is |-> "picture", shows |-> "own", width |-> 2, height |-> 2]

Square == [fit |-> "crop", exact |-> FALSE, ratioW |-> 1, ratioH |-> 1]
Wide   == [fit |-> "pad", exact |-> TRUE, ratioW |-> 4, ratioH |-> 1]

MCDrawn   == {Drawing}
MCForeign == {Own}

MCCommands ==
    {[kind |-> "image", continues |-> FALSE, outputs |-> <<n1>>, reference |-> n2,
      styled |-> TRUE, option |-> Wide],
     [kind |-> "chat", continues |-> TRUE, outputs |-> <<n1>>, reference |-> "auto",
      styled |-> TRUE, option |-> Square],
     [kind |-> "chat", continues |-> TRUE, outputs |-> <<n2>>, reference |-> "auto",
      styled |-> FALSE, option |-> Unchanged],
     [kind |-> "chat", continues |-> FALSE, outputs |-> <<n1, n2>>, reference |-> "auto",
      styled |-> TRUE, option |-> Unchanged]}

MCSymmetry == Permutations(Processes)
=============================================================================
