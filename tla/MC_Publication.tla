--------------------------- MODULE MC_Publication ---------------------------
(* Instances of Publication for TLC: a phone whose lists show two cards at a *)
(* time, a task claimed ten minutes before midnight, for a time on the same  *)
(* night, past it, or an hour later on the next day.                         *)
EXTENDS Publication

MCProducts == {"target", "twin", "other", "third"}
MCLookalikes == {"target", "twin"}
MCStartTime == 23 * 60 + 50

Task(account, mode, minutes) ==
  [account |-> account, mode |-> mode, allow |-> TRUE, dry |-> FALSE, stop |-> FALSE,
   calibrated |-> TRUE, managed |-> TRUE, indexLags |-> FALSE, captionNamesProduct |-> FALSE,
   addTextElsewhere |-> FALSE, ocr |-> TRUE, time |-> MCStartTime + minutes]

PublicationJobs ==
  { Task("showcase", "scheduled", 20), Task("showcase", "scheduled", 25 * 60),
    [Task("showcase", "scheduled", 70) EXCEPT !.stop = TRUE, !.calibrated = FALSE,
                                              !.managed = FALSE],
    [Task("showcase", "immediate", 0) EXCEPT !.indexLags = TRUE, !.captionNamesProduct = TRUE],
    [Task("showcase", "immediate", 0) EXCEPT !.addTextElsewhere = TRUE],
    [Task("showcase", "scheduled", 45) EXCEPT !.dry = TRUE, !.managed = FALSE],
    [Task("showcase", "scheduled", 45) EXCEPT !.ocr = FALSE],
    [Task("showcase", "immediate", 0) EXCEPT !.allow = FALSE],
    Task("marketing", "scheduled", 20), Task("marketing", "scheduled", 70),
    [Task("marketing", "scheduled", -20) EXCEPT !.indexLags = TRUE],
    [Task("marketing", "scheduled", 45) EXCEPT !.calibrated = FALSE],
    [Task("marketing", "scheduled", 45) EXCEPT !.allow = FALSE, !.stop = TRUE],
    [Task("marketing", "scheduled", 45) EXCEPT !.dry = TRUE] }

StopJobs == { [Task("marketing", "scheduled", 45) EXCEPT !.stop = TRUE] }

PublicationShowcases ==
  { <<>>, <<"other", "third", "target">>, <<"target", "twin">> }
PublicationShops == { <<"third", "other">>, <<"third", "other", "target">> }
PublicationGalleries == { {"left", "camera"} }
=============================================================================
