---------------------------- MODULE MCStateCells ----------------------------
EXTENDS StateCells

CONSTANTS root, a, app

MCComposables == {a}
MCStateful == {a}
MCShared == {app}
=============================================================================
