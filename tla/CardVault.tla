------------------------------ MODULE CardVault ------------------------------
(***************************************************************************)
(* What savereflow promises about a memory card, with no files in it: the  *)
(* card a player can get back, the copy that was put aside, and the        *)
(* command line that is being served.  Only the game may turn a card into  *)
(* any other, and a counter tells its steps from the tool's.  The tool     *)
(* replaces a card by the reflow of the card it planned from, and only     *)
(* while the copy IS the card being replaced; it discards a copy only for  *)
(* a plan that has something to write, only when forced, and while the     *)
(* card is whole; and it loses what the game saved only if that was saved  *)
(* after the copy was made.                                                *)
(* ReflowRun implements this with two files, copies that take time, and    *)
(* processes that die.                                                     *)
(***************************************************************************)
EXTENDS Naturals

CONSTANTS
  Cards,      \* whole memory-card images
  Reflowed,   \* glossary -> card -> the card with its fields reflowed
  Nothing,    \* no whole image
  Requests,   \* command lines
  NoRequest   \* no command line

VARIABLES
  current,    \* the card the player has, or can have by one --restore
  saved,      \* the copy put aside, or Nothing
  request,    \* the command line being served
  seen,       \* the card its plan was made from
  stale,      \* has the game saved since the card was seen, or brought back?
  late,       \* has the game saved since the copy was put aside?
  saves       \* how often the game has saved

tool == <<request, seen, stale>>
vars == <<current, saved, request, seen, stale, late, saves>>

Init ==
  /\ current \in Cards /\ saved = Nothing
  /\ request = NoRequest /\ seen = Nothing /\ stale = FALSE
  /\ late = FALSE /\ saves = 0

\* The plan has something to write over the card it was made from.
Planned ==
  /\ request.mode = "apply"
  /\ request.glossary \in DOMAIN Reflowed
  /\ seen \in DOMAIN Reflowed[request.glossary]
  /\ Reflowed[request.glossary][seen] # seen

\* A command line is served, and is answered, or its process dies.
Request(r) ==
  /\ request = NoRequest
  /\ request' = r
  /\ UNCHANGED <<current, saved, seen, stale, late, saves>>

End ==
  /\ request # NoRequest
  /\ request' = NoRequest
  /\ seen' = Nothing
  /\ UNCHANGED <<current, saved, stale, late, saves>>

\* The tool looks at the card.
Look ==
  /\ request # NoRequest /\ request.mode # "restore"
  /\ current \in Cards
  /\ seen' = current
  /\ stale' = FALSE
  /\ UNCHANGED <<current, saved, request, late, saves>>

\* The copy goes, for a new one.
Discard ==
  /\ Planned
  /\ request.force
  /\ current \in Cards
  /\ saved' = Nothing
  /\ UNCHANGED <<current, tool, late, saves>>

\* A whole copy of the card is put aside.
PutAside ==
  /\ Planned
  /\ current \in Cards /\ saved = Nothing
  /\ saved' = current
  /\ late' = FALSE
  /\ UNCHANGED <<current, tool, saves>>

\* What the game saved after the copy was made is lost.
Lose ==
  /\ Planned
  /\ late
  /\ saved \in Cards
  /\ current' = saved
  /\ UNCHANGED <<saved, tool, late, saves>>

\* The card is reflowed, and what it was is the copy.
Replace ==
  /\ Planned
  /\ saved = current
  /\ seen = current \/ stale
  /\ current' = Reflowed[request.glossary][seen]
  /\ UNCHANGED <<saved, tool, late, saves>>

\* The copy comes back, whatever it is: restoring nothing leaves nothing.
Restore ==
  /\ request.mode = "restore"
  /\ current' = saved
  /\ stale' = FALSE
  /\ UNCHANGED <<saved, request, seen, late, saves>>

\* The game writes its save.
Play ==
  /\ current \in Cards
  /\ current' \in Cards \ {current}
  /\ saves' = saves + 1
  /\ stale' = (request # NoRequest)
  /\ late' = TRUE
  /\ UNCHANGED <<saved, request, seen>>

Next ==
  \/ \E r \in Requests : Request(r)
  \/ End \/ Look \/ Discard \/ PutAside \/ Lose \/ Replace \/ Restore \/ Play

Spec == Init /\ [][Next]_vars
=============================================================================
