---------------------------- MODULE MCSlotArena -----------------------------
EXTENDS SlotArena

MCKeys == {"card"}
MCNoBuffers == {}
MCSizes == {1, 2}
MCBufferSizes == {2}
=============================================================================
