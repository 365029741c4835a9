----------------------------- MODULE MCClientDB -----------------------------
EXTENDS ClientDB

CONSTANTS clients, smart, id1, x1, x2, x3

OneSource  == {clients}
TwoSources == {clients, smart}
MCIDs      == {id1}
MCSlots    == {x1, x2, x3}
=============================================================================
