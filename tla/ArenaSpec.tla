----------------------------- MODULE ArenaSpec -----------------------------
(***************************************************************************)
(* What an arena promises, without bins, chunks or statistics: it obtains  *)
(* blocks of cells from a device, hands out parts of them, takes them back *)
(* and releases blocks nobody uses.  Memory is a set of cells.             *)
(***************************************************************************)
EXTENDS Naturals

CONSTANT Cells

VARIABLES
  owned,   \* blocks obtained from the device
  held     \* parts of blocks in clients' hands

specVars == <<owned, held>>

Apart(S, T) == S \cap T = {}

\* The part S is free to hand out if the blocks in hand are B.
MayHandOut(S, B) ==
  /\ S # {} /\ \E b \in B : S \subseteq b
  /\ \A T \in held : Apart(S, T)

SpecInit == owned = {} /\ held = {}

HandOutPart(S) ==
  /\ MayHandOut(S, owned)
  /\ held' = held \cup {S}
  /\ UNCHANGED owned

\* A block nobody gave to the arena before, and a part of it for the caller.
GrowAndHandOut(b, S) ==
  /\ \A c \in owned : Apart(b, c)
  /\ MayHandOut(S, {b})
  /\ owned' = owned \cup {b}
  /\ held' = held \cup {S}

TakeBack(S) ==
  /\ S \in held
  /\ held' = held \ {S}
  /\ UNCHANGED owned

\* A block handed out whole goes back to the device when it is returned.
TakeBackAndRelease(b) ==
  /\ b \in held /\ b \in owned
  /\ held' = held \ {b}
  /\ owned' = owned \ {b}

Release(B) ==
  /\ \A b \in B, T \in held : Apart(b, T)
  /\ owned' = owned \ B
  /\ UNCHANGED held

SpecNext ==
  \/ \E S \in SUBSET Cells : HandOutPart(S) \/ TakeBack(S) \/ TakeBackAndRelease(S)
  \/ \E b, S \in SUBSET Cells : GrowAndHandOut(b, S)
  \/ \E B \in SUBSET owned : Release(B)

AbstractSpec == SpecInit /\ [][SpecNext]_specVars

SpecTypeOK == owned \subseteq SUBSET Cells /\ held \subseteq SUBSET Cells

(* Memory in two clients' hands is disjoint, and all of it is in a block *)
(* the arena owns.                                                       *)
HeldApart == \A S, T \in held : S # T => Apart(S, T)
HeldOwned == \A S \in held : S # {} /\ \E b \in owned : S \subseteq b
BlocksApart == \A b, c \in owned : b # c => Apart(b, c)
=============================================================================
