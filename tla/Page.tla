-------------------------------- MODULE Page --------------------------------
(***************************************************************************)
(* The page: the requests and the file on screen, the panels that show it, *)
(* and the updates.                                                        *)
(***************************************************************************)
EXTENDS Panels, UpdateState

pageState == <<vars, panelVars, updateVars>>

PageInit == Init /\ PanelsInit /\ UpdateInit(cast.updates)

Store == Next /\ Effects /\ UNCHANGED updateVars
Panel == PanelStep /\ UNCHANGED <<vars, updateVars>>
Update == UpdateStep /\ UNCHANGED <<vars, panelVars>>

PageNext == Store \/ Panel \/ Update
PageSpec == PageInit /\ [][PageNext]_pageState

(* Commands return, the release server answers, and the page's event loop  *)
(* runs what they return to; the user, the system and other launches may   *)
(* never do anything.                                                      *)
FairPage ==
  /\ PageSpec
  /\ WF_pageState(RunRequest /\ Effects /\ UNCHANGED updateVars)
  /\ WF_pageState(Answers /\ UNCHANGED <<vars, updateVars>>)
  /\ WF_pageState(phaseKind # "relaunched" /\ Updater /\ UNCHANGED <<vars, panelVars>>)

(* Nothing on the page stays busy for ever: not the spinner of a file, not *)
(* the Cancel button, not the check for updates.                           *)
PageSettles == LoadingEnds /\ RunEnds /\ UpdaterEnds
=============================================================================
