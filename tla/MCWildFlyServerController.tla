---------------------- MODULE MCWildFlyServerController ----------------------
(* Instances of WildFlyServerController for TLC.                           *)
EXTENDS WildFlyServerController

\* A valid spec that recovers transactions and keeps its volume.
Size(n) == [replicas |-> n, recovery |-> "supported", volume |-> "v1",
            image |-> "i1", valid |-> TRUE]

Unrecovered(n) == [Size(n) EXCEPT !.recovery = "deactivated"]
Unsupported(n) == [Size(n) EXCEPT !.recovery = "unsupported"]
Moved(n)       == [Size(n) EXCEPT !.volume = "v2"]
Invalid(n)     == [Size(n) EXCEPT !.valid = FALSE]
NewImage(n)    == [Size(n) EXCEPT !.image = "i2"]

OneImage   == {"i1"}
TwoImages  == {"i1", "i2"}
OneVolume  == {"v1"}
TwoVolumes == {"v1", "v2"}
OnePod     == Size(1)
TwoPods    == Size(2)
ThreePods  == Size(3)

DownOnly   == {<<Size(2), Size(1)>>, <<Size(2), Size(0)>>, <<Size(1), Size(0)>>}
DownByTwo  == {<<Size(3), Size(1)>>}
DownFromThree == {<<Size(3), Size(1)>>, <<Size(1), Size(0)>>}
DownByOne  == {<<Size(2), Size(1)>>}
DownAndUp  == {<<Size(2), Size(1)>>, <<Size(1), Size(2)>>}
DownAndNewImage == {<<Size(2), Size(0)>>, <<Size(0), NewImage(0)>>}

\* Scale up, another volume, another image (a rolling update), an invalid spec, and
\* scale up and down with the recovery switched off or not available.
OtherWays ==
    {<<Size(1), Size(2)>>, <<Size(1), Moved(2)>>, <<Size(1), Invalid(1)>>,
     <<Size(1), Unsupported(0)>>, <<Size(2), NewImage(2)>>, <<Size(2), Unrecovered(1)>>,
     <<Invalid(1), Size(1)>>, <<Size(2), Moved(1)>>}
=============================================================================
