--------------------------- MODULE SpoilerFrontier ---------------------------
(***************************************************************************)
(* compute_visible_media of services/spoiler_service.py, for one anime: its  *)
(* media in chronological order, the anchors among them (main story and      *)
(* alternative versions) and the ones the user has rated.  Anime are         *)
(* independent of each other in the code's loop.                             *)
(***************************************************************************)
EXTENDS Integers, Sequences, FiniteSetsExt

\* Positions of the anchors, and of the rated ones.
AnchorsOf(order, anchors) == {i \in DOMAIN order : order[i] \in anchors}

\* Mutant of LastRated: any rated media moves the frontier, a side story too.
LastRatedAny(order, anchors, rated) ==
    LET done == AnchorsOf(order, rated)
    IN  IF done = {} THEN 0 ELSE Max(done)

\* Position of the last rated anchor, 0 when none is.
LastRated(order, anchors, rated) ==
    LET done == AnchorsOf(order, anchors \cap rated)
    IN  IF done = {} THEN 0 ELSE Max(done)

\* The next unrated anchor behind it: the frontier.  None left: everything is visible.
FrontierOf(order, anchors, rated) ==
    LET open == {i \in AnchorsOf(order, anchors \ rated) :
                   i > LastRated(order, anchors, rated)}
    IN  IF open = {} THEN Len(order) ELSE Min(open)

\* The media of one anime that are not spoiler-protected.
VisibleMedia(order, anchors, rated) ==
    IF order = <<>> THEN {}
    ELSE IF AnchorsOf(order, anchors) = {} THEN {order[1]}
    ELSE {order[i] : i \in {j \in DOMAIN order :
            j <= FrontierOf(order, anchors, rated) \/ order[j] \in rated}}
=============================================================================
