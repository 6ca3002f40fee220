------------------------- MODULE MCSchedulingPipeline -------------------------
(* The company the SchedulingPipeline configurations schedule: two locations   *)
(* that share two employees, over two days of six hours.                      *)
EXTENDS SchedulingPipeline, TLC

CONSTANTS
    bar, cafe,  \* locations
    ann, bo     \* employees

Early == <<0, 2>>
Mid   == <<1, 3>>
Noon  == <<2, 4>>
Late  == <<4, 6>>
Dawn  == <<6, 8>>  \* of the next day

MCSpans    == {Early, Mid, Noon, Late, Dawn}
OneZone    == bar :> 0 @@ cafe :> 0
BarEarlier == bar :> 1 @@ cafe :> 0
MCZones    == {OneZone, BarEarlier}
MCStaff    == bar :> {ann, bo} @@ cafe :> {ann, bo}
MCWindows  == ann :> 0..7 @@ bo :> (0..3 \cup 6..7)
MCTemplate == bar :> <<Early, Early, Late>> @@ cafe :> <<Mid, Noon, Late, Dawn>>
MCMaxHours == ann :> 6 @@ bo :> 3
MCMinRest  == bar :> 1 @@ cafe :> 3
MCApart    == {<<bo, ann>>}
MCCapped   == ann :> {Noon, Late} @@ bo :> {}
MCMaxPerWeek == ann :> 1 @@ bo :> 0
MCRefused  == ann :> {} @@ bo :> {Dawn}
=============================================================================
