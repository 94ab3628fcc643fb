--------------------------- MODULE MCOwnedResources ---------------------------
(* Instances of OwnedResources for TLC.                                    *)
EXTENDS OwnedResources

OpenShift(informers)  == [openShift |-> TRUE, monitoring |-> TRUE, lagging |-> informers]
Kubernetes(informers) == [openShift |-> FALSE, monitoring |-> FALSE, lagging |-> informers]

Lagging == {OpenShift({"server"}), Kubernetes({"server", "cluster"})}
InStep  == {OpenShift({}), Kubernetes({})}

Unlabelled  == {}
Labelled    == {"team"}
SomeLabels  == {Unlabelled, Labelled}
NoLabelEdit == {}
LabelAdded  == {<<Unlabelled, Labelled>>}
=============================================================================
