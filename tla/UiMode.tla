------------------------------- MODULE UiMode -------------------------------
(* Who the Cardputer's keyboard works for (ui.h: "one keyboard, two        *)
(* masters, made explicit"): in Remote mode its keys go to the Mac, in     *)
(* Local mode they drive the pages.  u is the DeviceUi object; held tells  *)
(* whether any key is pressed.  An operator stands for one member function *)
(* or one passage of tick.                                                 *)
CONSTANT Page

Main == "Main"

(* DeviceUi as constructed; begin leaves the mode as it is.                *)
UiBooted == [mode |-> "Local", page |-> Main, suppress |-> FALSE, screenOff |-> FALSE, selection |-> 0]

(* MUTANT: keys that are down when the mode changes are not waited for.    *)
ModeChangedAtOnce(u, mode, held) == [u EXCEPT !.mode = mode]

ModeChanged(u, mode, held) == [u EXCEPT !.mode = mode, !.suppress = held]

SetMode(u, mode, held) == IF u.mode = mode THEN u ELSE ModeChanged(u, mode, held)

ToggleMode(u, held) == SetMode(u, IF u.mode = "Remote" THEN "Local" ELSE "Remote", held)

SetPage(u, page, held) == [u EXCEPT !.page = page, !.selection = 0, !.suppress = held]

(* BtnA wakes the screen, or else changes the mode.                        *)
BtnA(u, clicked, held) ==
  IF ~clicked THEN u
  ELSE IF u.screenOff THEN [u EXCEPT !.screenOff = FALSE] ELSE ToggleMode(u, held)

Unsuppressed(u, held) == [u EXCEPT !.suppress = @ /\ held]

(* A key wakes the screen, and in Local mode does nothing else.            *)
(* MUTANT: it also acts.                                                   *)
WokenAndActing(u, held) == [u EXCEPT !.screenOff = @ /\ ~held]

Woken(u, held) ==
  IF ~(held /\ u.screenOff) THEN u
  ELSE [u EXCEPT !.screenOff = FALSE, !.suppress = @ \/ u.mode = "Local"]

(* A pair code to be typed takes the keyboard; the page is left when the   *)
(* pairing is done.                                                        *)
PairingInterrupts(u, codeAsked, connected, held) ==
  IF codeAsked /\ u.page # "PairCode" THEN SetPage(SetMode(u, "Local", held), "PairCode", held)
  ELSE IF u.page = "PairCode" /\ connected THEN SetPage(u, "Computers", held)
  ELSE u

ConsumesKeyboard(u) == u.mode = "Local" \/ u.suppress
=============================================================================
